------------------------ MODULE ColdRoundTrip_proofs ------------------------
(***************************************************************************)
(* The whole cold round trip, for every number of payments, requests and   *)
(* signings, and every order in which payloads are shown, shown again or   *)
(* dropped.                                                                *)
(*                                                                         *)
(* What makes the exchange work is that a payload stays good for ever: the *)
(* hot wallet only appends to its transfers and to its requests, so the    *)
(* positions a payload names keep their meaning.  GoodPayloads says what   *)
(* each payload ever made still stands for.                                *)
(***************************************************************************)
EXTENDS ColdRoundTrip, FiniteSetTheorems, SequenceTheorems, WellFoundedInduction, TLAPS

-----------------------------------------------------------------------------
(* The algebra of the account's own outputs *)

OwnOutputs == {Incoming(n) : n \in 1 .. MaxIncoming} \cup {Change(s) : s \in 1 .. MaxSignings}

Image(out) == TrueImage(out.pubkey)

Signed(out) ==
    [image |-> Image(out), signature |-> RingSignature(Image(out), out.pubkey, out.pubkey)]

Pair(out) == <<out.pubkey, Image(out)>>

Images == {Image(out) : out \in OwnOutputs}

Pairs == {Pair(out) : out \in OwnOutputs}

(* The receiver's derivation is the sender's. *)
LEMMA SharedSecret ==
    ASSUME NEW tx
    PROVE  Derivation(ViewSecret(Account), StandardKey(TxSecret(tx)))
             = Derivation(TxSecret(tx), ViewKey(Account))
BY DEF Derivation, StandardKey, ViewKey, Mul, BasePoint

LEMMA KeyIsPoint == \A tx : StandardKey(TxSecret(tx)) # NotAPoint
<1> TAKE tx
<1>1. TxSecret(tx) # <<"not a point">>
  BY DEF TxSecret
<1> QED
  BY <1>1 DEF StandardKey, NotAPoint, Mul, BasePoint

(* The output key is made for the primary address. *)
LEMMA OwnKey ==
    ASSUME NEW tx
    PROVE  Received(tx).pubkey
             = OneTimeSecret(Account, Derivation(ViewSecret(Account), StandardKey(TxSecret(tx))),
                             0, Primary)
BY SharedSecret DEF Received, SentTo, OneTimeSecret

LEMMA ChangeRebuilt == \A s : ChangeSecret(s) = Change(s).pubkey
BY OwnKey DEF ChangeSecret, Change, Received

(* one_time_key finds the one derivation the output was made with, and
   signs the image that spends it. *)
LEMMA ReceivedSigned ==
    ASSUME NEW tx
    PROVE  SignKeyImage(Received(tx)) = Signed(Received(tx))
<1> DEFINE out == Received(tx)
           made(d) == OneTimePublic(d, 0, SpendPublic(Account, Primary))
           shared == Derivation(ViewSecret(Account), StandardKey(TxSecret(tx)))
<1>1. /\ out.txKey = StandardKey(TxSecret(tx)) /\ out.additional = <<>>
      /\ out.position = 0 /\ out.index = Primary
      /\ out.pubkey = made(shared)
  BY OwnKey DEF Received, OneTimeSecret
<1> HIDE DEF out, shared
<1>2. Candidates(out.txKey, out.additional, out.position) = <<StandardKey(TxSecret(tx))>>
  BY <1>1 DEF Candidates
<1>3. Derivations(out) = {shared}
  BY <1>2, KeyIsPoint DEF Derivations, shared
<1>4. SpendCandidate(out.pubkey, shared, 0) = SpendPublic(Account, Primary)
  BY <1>1 DEF SpendCandidate, OneTimePublic
<1>5. Matching(out) = {shared}
  BY <1>1, <1>3, <1>4 DEF Matching
<1>6. Secret(out) = out.pubkey
  BY <1>1, <1>5 DEF Secret, OneTimeSecret
<1> QED
  BY <1>6 DEF SignKeyImage, Signed, Image, TrueImage, PublicOf, out

LEMMA OwnSigned == \A out \in OwnOutputs : SignKeyImage(out) = Signed(out)
BY ReceivedSigned DEF OwnOutputs, Incoming, Change

(* Transaction keys of one's own make outputs of one's own: one output, one
   key, one image. *)
LEMMA KeyNamesTx ==
    ASSUME NEW a, NEW b, Received(a).pubkey = Received(b).pubkey
    PROVE  a = b
<1>1. Derivation(TxSecret(a), ViewKey(Account)) = Derivation(TxSecret(b), ViewKey(Account))
  BY DEF Received, SentTo, OneTimePublic
<1>2. TxSecret(a) \in {TxSecret(b), ViewSecret(Account)}
  BY <1>1 DEF Derivation, ViewKey, Mul, BasePoint
<1>3. TxSecret(a) # ViewSecret(Account)
  BY DEF TxSecret, ViewSecret
<1>4. TxSecret(a) = TxSecret(b)
  BY <1>2, <1>3
<1> QED
  BY <1>4 DEF TxSecret

LEMMA ReceivedDiffer == \A a, b : Received(a) = Received(b) => a = b
BY KeyNamesTx

LEMMA IncomingDiffer ==
    /\ \A m, n : Incoming(m) = Incoming(n) => m = n
    /\ \A s, u : Change(s) = Change(u) => s = u
    /\ \A n, s : Incoming(n) # Change(s)
<1>1. /\ \A m, n : <<"incoming", m>> = <<"incoming", n>> => m = n
      /\ \A m, n : <<"signing", m>> = <<"signing", n>> => m = n
      /\ \A m, n : <<"incoming", m>> # <<"signing", n>>
  OBVIOUS
<1> QED
  BY <1>1, ReceivedDiffer DEF Incoming, Change

LEMMA ImagesDiffer == \A a, b \in OwnOutputs : Image(a) = Image(b) => a = b
<1> SUFFICES ASSUME NEW a \in OwnOutputs, NEW b \in OwnOutputs, Image(a) = Image(b)
             PROVE  a = b
  OBVIOUS
<1>1. a.pubkey = b.pubkey
  BY DEF Image, TrueImage, KeyImageOf
<1>2. PICK x : a = Received(x)
  BY DEF OwnOutputs, Incoming, Change
<1>3. PICK y : b = Received(y)
  BY DEF OwnOutputs, Incoming, Change
<1> QED
  BY <1>1, <1>2, <1>3, KeyNamesTx

LEMMA NoneIsNoImage == None \notin Images
BY NoneAssumption DEF Images, Image, OwnOutputs

(* A signed image verifies against the output it was made for. *)
LEMMA SignedVerifies ==
    ASSUME NEW out
    PROVE  /\ Signed(out).image = Image(out)
           /\ CheckRingSignature(Signed(out).image, out.pubkey, Signed(out).image,
                                 Signed(out).signature)
BY DEF Signed, CheckRingSignature, RingSignature, Image, TrueImage, KeyImageOf, PublicOf

(* Only one image verifies against a key. *)
LEMMA VerifiedTrue ==
    ASSUME NEW image, NEW key, NEW signature,
           CheckRingSignature(image, key, image, signature)
    PROVE  image = TrueImage(key)
BY DEF CheckRingSignature, TrueImage, PublicOf

-----------------------------------------------------------------------------
(* The invariant *)

(* The outputs a request spends. *)
Wanted(n) == {transfers[i] : i \in requests[n]}

InputSets(n) == (SUBSET (1 .. n)) \ {{}}

HotInv ==
    /\ transfers \in Seq(OwnOutputs)
    /\ keyImages \in Seq(Images \cup {None})
    /\ Len(keyImages) = Len(transfers)
    /\ coldImages \subseteq Pairs
    /\ requests \in Seq(InputSets(Len(transfers)))

(* An export is still a segment of the transfers, at its offset. *)
GoodExport(p) ==
    /\ p.kind = "outputs"
    /\ p.offset \in Nat
    /\ p.outputs \in Seq(OwnOutputs)
    /\ p.offset + Len(p.outputs) <= Len(transfers)
    /\ \A i \in 1 .. Len(p.outputs) : p.outputs[i] = transfers[p.offset + i]

(* A reply holds the signed images of the transfers at its offset. *)
GoodReply(p) ==
    /\ p.kind = "images"
    /\ p.offset \in Nat
    /\ Len(p.images) \in Nat
    /\ p.offset + Len(p.images) <= Len(transfers)
    /\ DOMAIN p.images = 1 .. Len(p.images)
    /\ \A i \in 1 .. Len(p.images) : p.images[i] = Signed(transfers[p.offset + i])

GoodUnsigned(p) ==
    /\ p.kind = "unsigned"
    /\ p.request \in 1 .. Len(requests)
    /\ p.inputs = Wanted(p.request)
    /\ p.transfers \subseteq OwnOutputs

(* A signed set spends what its request wants and tells the image of its
   change; what else it tells is true. *)
GoodSigned(p) ==
    /\ p.kind = "signed"
    /\ p.request \in 1 .. Len(requests)
    /\ p.signing \in 1 .. signings
    /\ p.images = {Image(out) : out \in Wanted(p.request)}
    /\ p.pairs \subseteq Pairs
    /\ Pair(Change(p.signing)) \in p.pairs

Good(p) == GoodExport(p) \/ GoodReply(p) \/ GoodUnsigned(p) \/ GoodSigned(p)

GoodPayloads == \A p \in payloads : Good(p)

DeviceInv ==
    /\ signings \in 0 .. MaxSignings
    /\ device \in payloads \cup {Idle}
    /\ device # Idle /\ device.kind = "unsigned" => signings < MaxSignings

OneSetPerSigning ==
    \A p, q \in payloads :
        p.kind = "signed" /\ q.kind = "signed" /\ p.signing = q.signing => p = q

(* A mined transaction is a signed set whose images the hot wallet kept. *)
ChainInv ==
    \A t \in chain : \E p \in payloads :
        /\ p.kind = "signed"
        /\ t = [request |-> p.request, signing |-> p.signing, images |-> p.images]
        /\ p.pairs \subseteq coldImages

(* No output arrives twice, payments arrive in the order they are numbered,
   change after its transaction was mined. *)
ArrivedOnce ==
    \A i, j \in 1 .. Len(transfers) : transfers[i] = transfers[j] => i = j

Numbered ==
    /\ IncomingCount \in Nat
    /\ \A n \in 1 .. MaxIncoming : Incoming(n) \in Range(transfers) => n <= IncomingCount

ChangeMined ==
    \A s \in 1 .. MaxSignings :
        Change(s) \in Range(transfers) => \E t \in chain : t.signing = s

IInv ==
    /\ HotInv /\ GoodPayloads /\ DeviceInv /\ OneSetPerSigning /\ ChainInv
    /\ ArrivedOnce /\ Numbered /\ ChangeMined
    /\ KeyImagesTrue /\ ChangeKnownOnArrival

(* What no step changes of what payloads name by position. *)
Kept ==
    /\ Len(transfers) <= Len(transfers')
    /\ \A i \in 1 .. Len(transfers) : transfers'[i] = transfers[i]
    /\ Len(requests) <= Len(requests')
    /\ \A n \in 1 .. Len(requests) : requests'[n] = requests[n]
    /\ signings <= signings'

LEMMA HotLengths ==
    ASSUME HotInv
    PROVE  /\ Len(transfers) \in Nat /\ DOMAIN transfers = 1 .. Len(transfers)
           /\ DOMAIN keyImages = 1 .. Len(transfers)
           /\ Len(requests) \in Nat /\ DOMAIN requests = 1 .. Len(requests)
           /\ \A i \in 1 .. Len(transfers) : transfers[i] \in OwnOutputs
           /\ \A n \in 1 .. Len(requests) :
                 requests[n] \subseteq 1 .. Len(transfers) /\ requests[n] # {}
           /\ \A i \in 1 .. Len(transfers) : keyImages[i] \in Images \cup {None}
<1>1. /\ transfers \in Seq(OwnOutputs)
      /\ keyImages \in Seq(Images \cup {None})
      /\ Len(keyImages) = Len(transfers)
      /\ requests \in Seq(InputSets(Len(transfers)))
  BY DEF HotInv
<1>2. Len(transfers) \in Nat /\ DOMAIN transfers = 1 .. Len(transfers)
  BY <1>1, LenProperties
<1>3. DOMAIN keyImages = 1 .. Len(transfers)
  BY <1>1, LenProperties
<1>4. Len(requests) \in Nat /\ DOMAIN requests = 1 .. Len(requests)
  BY <1>1, LenProperties
<1>5. \A i \in 1 .. Len(transfers) : transfers[i] \in OwnOutputs
  BY <1>1, ElementOfSeq
<1>6. \A n \in 1 .. Len(requests) : requests[n] \in InputSets(Len(transfers))
  BY <1>1, ElementOfSeq
<1>8. \A n \in 1 .. Len(requests) :
         requests[n] \subseteq 1 .. Len(transfers) /\ requests[n] # {}
  BY <1>6 DEF InputSets
<1>7. \A i \in 1 .. Len(transfers) : keyImages[i] \in Images \cup {None}
  BY <1>1, ElementOfSeq
<1> QED
  BY <1>2, <1>3, <1>4, <1>5, <1>8, <1>7

LEMMA WantedKept ==
    ASSUME HotInv, Kept, NEW n \in 1 .. Len(requests)
    PROVE  Wanted(n)' = Wanted(n)
<1>1. requests'[n] = requests[n] /\ requests[n] \subseteq 1 .. Len(transfers)
  BY HotLengths DEF Kept
<1>2. \A i \in requests[n] : transfers'[i] = transfers[i]
  BY <1>1 DEF Kept
<1> QED
  BY <1>1, <1>2 DEF Wanted

(* A payload stays good. *)
LEMMA GoodKept ==
    ASSUME HotInv, HotInv', signings \in Nat, signings' \in Nat, Kept, NEW p, Good(p)
    PROVE  Good(p)'
<1> USE HotLengths DEF Good
<1>1. Len(transfers') \in Nat /\ Len(requests') \in Nat
  <2>1. /\ transfers' \in Seq(OwnOutputs)
        /\ requests' \in Seq(InputSets(Len(transfers')))
    BY DEF HotInv
  <2> QED
    BY <2>1, LenProperties
<1>2. CASE GoodExport(p)
  <2>1. Len(p.outputs) \in Nat
    BY <1>2, LenProperties DEF GoodExport
  <2>2. \A i \in 1 .. Len(p.outputs) : transfers'[p.offset + i] = transfers[p.offset + i]
    BY <1>1, <1>2, <2>1 DEF GoodExport, Kept
  <2> QED
    BY <1>1, <1>2, <2>1, <2>2 DEF GoodExport, Kept
<1>3. CASE GoodReply(p)
  <2>1. \A i \in 1 .. Len(p.images) : transfers'[p.offset + i] = transfers[p.offset + i]
    BY <1>1, <1>3 DEF GoodReply, Kept
  <2> QED
    BY <1>1, <1>3, <2>1 DEF GoodReply, Kept
<1>4. CASE GoodUnsigned(p)
  BY <1>1, <1>4, WantedKept DEF GoodUnsigned, Kept
<1>5. CASE GoodSigned(p)
  BY <1>1, <1>5, WantedKept DEF GoodSigned, Kept
<1> QED
  BY <1>2, <1>3, <1>4, <1>5

(* What each kind of payload is good for. *)
LEMMA GoodByKind ==
    ASSUME GoodPayloads, NEW p \in payloads
    PROVE  /\ p.kind = "outputs" => GoodExport(p)
           /\ p.kind = "images" => GoodReply(p)
           /\ p.kind = "unsigned" => GoodUnsigned(p)
           /\ p.kind = "signed" => GoodSigned(p)
BY DEF GoodPayloads, Good, GoodExport, GoodReply, GoodUnsigned, GoodSigned

(* The signed sets behind the mined transactions. *)
LEMMA MinedSigned ==
    ASSUME GoodPayloads, DeviceInv, ChainInv, NEW t \in chain
    PROVE  \E p \in payloads :
              /\ GoodSigned(p)
              /\ t = [request |-> p.request, signing |-> p.signing, images |-> p.images]
              /\ t.request = p.request /\ t.signing = p.signing /\ t.images = p.images
              /\ t.signing \in 1 .. MaxSignings
              /\ p.pairs \subseteq coldImages
<1>1. PICK p \in payloads :
         /\ p.kind = "signed"
         /\ t = [request |-> p.request, signing |-> p.signing, images |-> p.images]
         /\ p.pairs \subseteq coldImages
  BY DEF ChainInv
<1>2. GoodSigned(p)
  BY <1>1, GoodByKind
<1>3. p.signing \in 1 .. MaxSignings
  BY <1>2, BoundAssumption DEF GoodSigned, DeviceInv
<1> QED
  BY <1>1, <1>2, <1>3

-----------------------------------------------------------------------------
(* An output arrives. *)

(* The image of a new transfer is the true one, if a signed set brought it. *)
Brought(out) ==
    IF \E pair \in coldImages : pair[1] = out.pubkey
    THEN (CHOOSE pair \in coldImages : pair[1] = out.pubkey)[2]
    ELSE None

LEMMA BroughtTrue ==
    ASSUME HotInv, NEW out \in OwnOutputs
    PROVE  /\ Brought(out) \in {None, Image(out)}
           /\ Pair(out) \in coldImages => Brought(out) = Image(out)
<1>1. \A pair \in coldImages : pair[1] = out.pubkey => pair[2] = Image(out)
  <2> TAKE pair \in coldImages
  <2>1. PICK other \in OwnOutputs : pair = Pair(other)
    BY DEF HotInv, Pairs
  <2>2. pair[1] = other.pubkey /\ pair[2] = TrueImage(other.pubkey)
    BY <2>1 DEF Pair, Image
  <2> QED
    BY <2>2 DEF Image
<1>2. CASE \E pair \in coldImages : pair[1] = out.pubkey
  <2>1. PICK pair : pair = (CHOOSE q \in coldImages : q[1] = out.pubkey)
    OBVIOUS
  <2>2. pair \in coldImages /\ pair[1] = out.pubkey
    BY <1>2, <2>1
  <2>3. Brought(out) = pair[2]
    BY <1>2, <2>1 DEF Brought
  <2> QED
    BY <1>1, <2>2, <2>3
<1>3. CASE ~\E pair \in coldImages : pair[1] = out.pubkey
  <2>1. Brought(out) = None
    BY <1>3 DEF Brought
  <2>2. Pair(out)[1] = out.pubkey
    BY DEF Pair
  <2> QED
    BY <1>3, <2>1, <2>2
<1> QED
  BY <1>2, <1>3

LEMMA ArrivesStep ==
    ASSUME IInv, NEW out \in OwnOutputs, out \notin Range(transfers), Arrives(out),
           \A s \in 1 .. MaxSignings : out = Change(s) => \E t \in chain : t.signing = s
    PROVE  /\ HotInv' /\ GoodPayloads' /\ DeviceInv' /\ OneSetPerSigning' /\ ChainInv'
           /\ ArrivedOnce' /\ ChangeMined' /\ KeyImagesTrue' /\ ChangeKnownOnArrival'
<1> USE HotLengths DEF IInv
<1>1. /\ transfers' = Append(transfers, out)
      /\ keyImages' = Append(keyImages, Brought(out))
      /\ UNCHANGED <<coldImages, spentSeen, requests, payloads, device, signings, chain>>
  BY DEF Arrives, Brought
<1>2. /\ transfers \in Seq(OwnOutputs)
      /\ keyImages \in Seq(Images \cup {None})
      /\ Len(keyImages) = Len(transfers)
      /\ requests \in Seq(InputSets(Len(transfers)))
  BY DEF HotInv
<1>3. Brought(out) \in Images \cup {None}
  BY BroughtTrue DEF Images
<1>4. /\ transfers' \in Seq(OwnOutputs)
      /\ Len(transfers') = Len(transfers) + 1
      /\ \A i \in 1 .. Len(transfers) : transfers'[i] = transfers[i]
      /\ transfers'[Len(transfers) + 1] = out
  BY <1>1, <1>2, AppendProperties
<1>5. /\ keyImages' \in Seq(Images \cup {None})
      /\ Len(keyImages') = Len(transfers) + 1
      /\ \A i \in 1 .. Len(transfers) : keyImages'[i] = keyImages[i]
      /\ keyImages'[Len(transfers) + 1] = Brought(out)
  BY <1>1, <1>2, <1>3, AppendProperties
<1>6. DOMAIN transfers' = 1 .. Len(transfers) + 1
  BY <1>4, LenProperties
<1>7. requests' \in Seq(InputSets(Len(transfers')))
  <2>1. InputSets(Len(transfers)) \subseteq InputSets(Len(transfers'))
    BY <1>4 DEF InputSets
  <2> QED
    BY <1>1, <1>2, <2>1, SeqMonotonic
<1>8. HotInv'
  BY <1>1, <1>2, <1>4, <1>5, <1>7 DEF HotInv
<1>9. Kept
  BY <1>1, <1>4 DEF Kept, DeviceInv
<1>10. signings \in Nat /\ signings' \in Nat
  BY <1>1 DEF DeviceInv
<1>11. GoodPayloads'
  BY <1>1, <1>8, <1>9, <1>10, GoodKept DEF GoodPayloads
<1>12. DeviceInv' /\ OneSetPerSigning' /\ ChainInv'
  BY <1>1 DEF DeviceInv, OneSetPerSigning, ChainInv
<1>13. \A i \in 1 .. Len(transfers) : transfers[i] # out
  BY DEF Range
<1>14. ArrivedOnce'
  BY <1>4, <1>13 DEF ArrivedOnce
<1>15. ChangeMined'
  <2>1. Range(transfers') = Range(transfers) \cup {out}
    BY <1>4, <1>6 DEF Range
  <2> QED
    BY <1>1, <2>1 DEF ChangeMined
<1>16. KeyImagesTrue'
  <2> SUFFICES ASSUME NEW i \in 1 .. Len(transfers) + 1, keyImages'[i] # None
               PROVE  keyImages'[i] = TrueImage(transfers'[i].pubkey)
    BY <1>6 DEF KeyImagesTrue
  <2>1. CASE i \in 1 .. Len(transfers)
    BY <1>4, <1>5, <2>1 DEF KeyImagesTrue
  <2>2. CASE i = Len(transfers) + 1
    BY <1>4, <1>5, <2>2, BroughtTrue DEF Image
  <2> QED
    BY <2>1, <2>2
<1>17. ChangeKnownOnArrival'
  <2> SUFFICES ASSUME NEW i \in 1 .. Len(transfers) + 1, NEW s \in 1 .. MaxSignings,
                      transfers'[i] = Change(s)
               PROVE  keyImages'[i] # None
    BY <1>6 DEF ChangeKnownOnArrival
  <2>1. CASE i \in 1 .. Len(transfers)
    BY <1>4, <1>5, <2>1 DEF ChangeKnownOnArrival
  <2>2. CASE i = Len(transfers) + 1
    <3>1. out = Change(s)
      BY <1>4, <2>2
    <3>2. PICK t \in chain : t.signing = s
      BY <3>1
    <3>3. Pair(out) \in coldImages
      BY <3>1, <3>2, MinedSigned DEF GoodSigned
    <3>4. Brought(out) = Image(out) /\ Image(out) # None
      BY <3>3, BroughtTrue, NoneIsNoImage DEF Images
    <3> QED
      BY <1>5, <2>2, <3>4
  <2> QED
    BY <2>1, <2>2
<1> QED
  BY <1>8, <1>11, <1>12, <1>14, <1>15, <1>16, <1>17

(* IncomingCount counts these. *)
IncomingAt == {i \in DOMAIN transfers : \E n \in 1 .. MaxIncoming : transfers[i] = Incoming(n)}

LEMMA CountOnArrival ==
    ASSUME HotInv, NEW out, transfers' = Append(transfers, out)
    PROVE  /\ IncomingCount \in Nat
           /\ (\E n \in 1 .. MaxIncoming : out = Incoming(n)) => IncomingCount' = IncomingCount + 1
           /\ ~(\E n \in 1 .. MaxIncoming : out = Incoming(n)) => IncomingCount' = IncomingCount
<1> DEFINE new == Len(transfers) + 1
<1>1. /\ Len(transfers) \in Nat /\ DOMAIN transfers = 1 .. Len(transfers)
      /\ transfers \in Seq(OwnOutputs)
  BY HotLengths DEF HotInv
<1>2. /\ DOMAIN transfers' = 1 .. new
      /\ \A i \in 1 .. Len(transfers) : transfers'[i] = transfers[i]
      /\ transfers'[new] = out
  BY <1>1
<1>3. IsFiniteSet(IncomingAt) /\ new \notin IncomingAt
  <2>1. IsFiniteSet(1 .. Len(transfers))
    BY <1>1, FS_Interval
  <2>2. IncomingAt \in SUBSET (1 .. Len(transfers))
    BY <1>1 DEF IncomingAt
  <2>3. new \notin 1 .. Len(transfers)
    BY <1>1
  <2> QED
    BY <2>1, <2>2, <2>3, FS_Subset
<1>4. IncomingCount = Cardinality(IncomingAt) /\ IncomingCount' = Cardinality(IncomingAt')
  BY DEF IncomingCount, IncomingAt
<1>5. IncomingCount \in Nat
  BY <1>3, <1>4, FS_CardinalityType
<1>6. ASSUME \E n \in 1 .. MaxIncoming : out = Incoming(n)
      PROVE  IncomingCount' = IncomingCount + 1
  <2>1. IncomingAt' = IncomingAt \cup {new}
    BY <1>1, <1>2, <1>6 DEF IncomingAt
  <2> QED
    BY <1>3, <1>4, <2>1, FS_AddElement
<1>7. ASSUME ~\E n \in 1 .. MaxIncoming : out = Incoming(n)
      PROVE  IncomingCount' = IncomingCount
  <2>1. IncomingAt' = IncomingAt
    BY <1>1, <1>2, <1>7 DEF IncomingAt
  <2> QED
    BY <1>4, <2>1
<1> QED
  BY <1>5, <1>6, <1>7

LEMMA RangeOnArrival ==
    ASSUME HotInv, NEW out, transfers' = Append(transfers, out)
    PROVE  Range(transfers') = Range(transfers) \cup {out}
<1>1. /\ Len(transfers) \in Nat /\ DOMAIN transfers = 1 .. Len(transfers)
      /\ transfers \in Seq(OwnOutputs)
  BY HotLengths DEF HotInv
<1>2. /\ DOMAIN transfers' = 1 .. Len(transfers) + 1
      /\ \A i \in 1 .. Len(transfers) : transfers'[i] = transfers[i]
      /\ transfers'[Len(transfers) + 1] = out
  BY <1>1
<1> QED
  BY <1>1, <1>2 DEF Range

(* A payment arrives under the next number, so it did not arrive before. *)
LEMMA PaymentNew ==
    ASSUME IInv, ReceivePayment
    PROVE  /\ IncomingCount + 1 \in 1 .. MaxIncoming
           /\ Incoming(IncomingCount + 1) \in OwnOutputs
           /\ Incoming(IncomingCount + 1) \notin Range(transfers)
<1>1. IncomingCount \in Nat /\ IncomingCount < MaxIncoming
  BY DEF IInv, Numbered, ReceivePayment
<1>2. IncomingCount + 1 \in 1 .. MaxIncoming
  BY <1>1, BoundAssumption
<1> QED
  BY <1>1, <1>2 DEF IInv, Numbered, OwnOutputs

LEMMA ReceivePaymentStep == IInv /\ ReceivePayment => IInv'
<1> SUFFICES ASSUME IInv, ReceivePayment PROVE IInv'
  OBVIOUS
<1> DEFINE out == Incoming(IncomingCount + 1)
<1>1. /\ IncomingCount + 1 \in 1 .. MaxIncoming
      /\ out \in OwnOutputs /\ out \notin Range(transfers)
  BY PaymentNew
<1>2. Arrives(out) /\ transfers' = Append(transfers, out)
  BY DEF ReceivePayment, Arrives
<1>3. \A s \in 1 .. MaxSignings : out # Change(s)
  BY IncomingDiffer
<1>4. HotInv
  BY DEF IInv
<1>5. Numbered'
  <2>1. IncomingCount \in Nat /\ IncomingCount' = IncomingCount + 1
    BY <1>1, <1>2, <1>4, CountOnArrival
  <2>2. Range(transfers') = Range(transfers) \cup {out}
    BY <1>2, <1>4, RangeOnArrival
  <2>3. \A n \in 1 .. MaxIncoming : Incoming(n) = out => n = IncomingCount + 1
    BY IncomingDiffer
  <2>4. \A n \in 1 .. MaxIncoming : Incoming(n) \in Range(transfers) => n <= IncomingCount
    BY DEF IInv, Numbered
  <2> HIDE DEF out
  <2> QED
    BY <2>1, <2>2, <2>3, <2>4 DEF Numbered
<1> HIDE DEF out
<1>6. /\ HotInv' /\ GoodPayloads' /\ DeviceInv' /\ OneSetPerSigning' /\ ChainInv'
      /\ ArrivedOnce' /\ ChangeMined' /\ KeyImagesTrue' /\ ChangeKnownOnArrival'
  BY <1>1, <1>2, <1>3, ArrivesStep
<1> QED
  BY <1>5, <1>6 DEF IInv

LEMMA ReceiveChangeStep == IInv /\ ReceiveChange => IInv'
<1> SUFFICES ASSUME IInv, ReceiveChange PROVE IInv'
  OBVIOUS
<1>1. PICK t \in chain : Change(t.signing) \notin Range(transfers) /\ Arrives(Change(t.signing))
  BY DEF ReceiveChange
<1> DEFINE out == Change(t.signing)
<1>2. t.signing \in 1 .. MaxSignings
  BY MinedSigned DEF IInv
<1>3. out \in OwnOutputs
  BY <1>2 DEF OwnOutputs
<1>4. transfers' = Append(transfers, out)
  BY <1>1 DEF Arrives
<1>5. \A s \in 1 .. MaxSignings : out = Change(s) => t.signing = s
  BY IncomingDiffer
<1>6. HotInv
  BY DEF IInv
<1>7. Numbered'
  <2>1. \A n \in 1 .. MaxIncoming : out # Incoming(n)
    BY IncomingDiffer
  <2>2. IncomingCount \in Nat /\ IncomingCount' = IncomingCount
    BY <1>4, <1>6, <2>1, CountOnArrival
  <2>3. Range(transfers') = Range(transfers) \cup {out}
    BY <1>4, <1>6, RangeOnArrival
  <2>4. \A n \in 1 .. MaxIncoming : Incoming(n) \in Range(transfers) => n <= IncomingCount
    BY DEF IInv, Numbered
  <2> HIDE DEF out
  <2> QED
    BY <2>1, <2>2, <2>3, <2>4 DEF Numbered
<1> HIDE DEF out
<1>8. /\ HotInv' /\ GoodPayloads' /\ DeviceInv' /\ OneSetPerSigning' /\ ChainInv'
      /\ ArrivedOnce' /\ ChangeMined' /\ KeyImagesTrue' /\ ChangeKnownOnArrival'
  <2>1. Arrives(out) /\ out \notin Range(transfers)
    BY <1>1 DEF out
  <2> QED
    BY <1>3, <1>5, <2>1, ArrivesStep
<1> QED
  BY <1>7, <1>8 DEF IInv

-----------------------------------------------------------------------------
(* The hot wallet exports and asks. *)

LEMMA LeastExists ==
    ASSUME NEW T, T \subseteq Nat, T # {}
    PROVE  \E x \in T : \A y \in T : x <= y
<1> DEFINE R == OpToRel(<, Nat)
<1>1. IsWellFoundedOn(R, Nat)
  BY NatLessThanWellFounded
<1>2. \A x, y \in Nat : y < x => <<y, x>> \in R
  BY DEF OpToRel
<1> HIDE DEF R
<1>3. PICK x \in T : \A y \in T : ~ (<<y, x>> \in R)
  BY <1>1, WFMin
<1>4. \A y \in T : ~(y < x)
  BY <1>2, <1>3, Zenon
<1> QED
  BY <1>4

LEMMA OffsetInRange ==
    ASSUME HotInv
    PROVE  Offset \in 0 .. Len(transfers)
<1>1. Len(transfers) \in Nat /\ Unknown \subseteq 1 .. Len(transfers)
  BY HotLengths DEF Unknown
<1>2. CASE Unknown = {}
  BY <1>1, <1>2 DEF Offset
<1>3. CASE Unknown # {}
  <2> DEFINE first == CHOOSE i \in Unknown : \A j \in Unknown : i <= j
  <2>1. \E i \in Unknown : \A j \in Unknown : i <= j
    <3>1. Unknown \subseteq Nat
      BY <1>1
    <3> QED
      BY <1>3, <3>1, LeastExists
  <2>2. first \in Unknown
    BY <2>1
  <2>3. Offset = first - 1
    BY <1>3 DEF Offset
  <2> HIDE DEF first
  <2> QED
    BY <1>1, <2>2, <2>3
<1> QED
  BY <1>2, <1>3

LEMMA CurrentExportGood ==
    ASSUME HotInv
    PROVE  GoodExport(CurrentExport)
<1>1. /\ Len(transfers) \in Nat /\ DOMAIN transfers = 1 .. Len(transfers)
      /\ \A i \in 1 .. Len(transfers) : transfers[i] \in OwnOutputs
  BY HotLengths
<1>2. Offset \in Nat /\ Offset <= Len(transfers)
  BY <1>1, OffsetInRange
<1> DEFINE outs == SubSeq(transfers, Offset + 1, Len(transfers))
<1>3. \A i \in Offset + 1 .. Len(transfers) : transfers[i] \in OwnOutputs
  BY <1>1, <1>2
<1>4. /\ outs \in Seq(OwnOutputs)
      /\ Len(outs) = IF Offset + 1 <= Len(transfers)
                     THEN Len(transfers) - (Offset + 1) + 1 ELSE 0
      /\ \A i \in 1 .. Len(transfers) - (Offset + 1) + 1 :
            outs[i] = transfers[Offset + 1 + i - 1]
  <2>1. Offset + 1 \in Int /\ Len(transfers) \in Int
    BY <1>1, <1>2
  <2> HIDE DEF outs
  <2> QED
    BY <1>3, <2>1, SubSeqProperties DEF outs
<1>5. /\ CurrentExport.kind = "outputs" /\ CurrentExport.offset = Offset
      /\ CurrentExport.outputs = outs
  BY DEF CurrentExport
<1> HIDE DEF outs
<1>6. Len(outs) = Len(transfers) - Offset
  BY <1>1, <1>2, <1>4
<1>7. \A i \in 1 .. Len(outs) : outs[i] = transfers[Offset + i]
  <2> TAKE i \in 1 .. Len(outs)
  <2>1. i \in 1 .. Len(transfers) - (Offset + 1) + 1 /\ Offset + 1 + i - 1 = Offset + i
    BY <1>1, <1>2, <1>6
  <2> QED
    BY <1>4, <2>1
<1>8. outs \in Seq(OwnOutputs)
  BY <1>4
<1>9. Offset + Len(outs) <= Len(transfers)
  BY <1>1, <1>2, <1>6
<1> QED
  <2>1. PICK e : e = CurrentExport
    OBVIOUS
  <2>2. e.kind = "outputs" /\ e.offset = Offset /\ e.outputs = outs
    BY <1>5, <2>1
  <2>3. GoodExport(e)
    BY <1>2, <1>7, <1>8, <1>9, <2>2 DEF GoodExport
  <2> QED
    BY <2>1, <2>3

(* A step that leaves the hot wallet's transfers, requests and images alone
   and adds good payloads. *)
LEMMA MorePayloads ==
    ASSUME IInv, NEW new,
           payloads' = payloads \cup {new}, Good(new),
           UNCHANGED <<transfers, keyImages, coldImages, requests, chain, signings>>,
           device' \in {device, Idle},
           new.kind # "signed"
    PROVE  IInv'
<1> USE DEF IInv
<1>1. HotInv' /\ ArrivedOnce' /\ Numbered' /\ KeyImagesTrue' /\ ChangeKnownOnArrival'
  BY DEF HotInv, ArrivedOnce, Numbered, IncomingCount, KeyImagesTrue, ChangeKnownOnArrival
<1>2. \A p : Good(p)' <=> Good(p)
  BY DEF Good, GoodExport, GoodReply, GoodUnsigned, GoodSigned, Wanted
<1>3. GoodPayloads'
  BY <1>2 DEF GoodPayloads
<1>4. DeviceInv' /\ OneSetPerSigning'
  BY DEF DeviceInv, OneSetPerSigning
<1>5. ChainInv' /\ ChangeMined'
  BY DEF ChainInv, ChangeMined
<1> QED
  BY <1>1, <1>3, <1>4, <1>5

LEMMA ExportOutputsStep == IInv /\ ExportOutputs => IInv'
<1> SUFFICES ASSUME IInv, ExportOutputs PROVE IInv'
  OBVIOUS
<1>1. Good(CurrentExport) /\ CurrentExport.kind = "outputs"
  BY CurrentExportGood DEF IInv, Good, GoodExport
<1>2. payloads' = payloads \cup {CurrentExport}
  BY DEF ExportOutputs
<1>3. /\ UNCHANGED <<transfers, keyImages, coldImages, requests, chain, signings>>
      /\ device' = device
  BY DEF ExportOutputs, hot
<1> QED
  BY <1>1, <1>2, <1>3, MorePayloads

LEMMA CreateUnsignedStep == IInv /\ CreateUnsigned => IInv'
<1> SUFFICES ASSUME IInv, CreateUnsigned PROVE IInv'
  OBVIOUS
<1> USE DEF IInv
<1>0. PICK n : n = Len(requests) + 1
  OBVIOUS
<1>1. PICK inputs \in (SUBSET (DOMAIN transfers \ (Unknown \cup spentSeen))) \ {{}} :
         /\ requests' = Append(requests, inputs)
         /\ payloads' = payloads \cup
               {[kind |-> "unsigned", request |-> n,
                 inputs |-> {transfers[i] : i \in inputs},
                 transfers |-> Range(CurrentExport.outputs)]}
  BY <1>0 DEF CreateUnsigned
<1>2. UNCHANGED <<transfers, keyImages, coldImages, spentSeen, device, signings, chain>>
  BY DEF CreateUnsigned
<1>n. PICK new : new = [kind |-> "unsigned", request |-> n,
                        inputs |-> {transfers[i] : i \in inputs},
                        transfers |-> Range(CurrentExport.outputs)]
  OBVIOUS
<1>3. Len(transfers) \in Nat /\ DOMAIN transfers = 1 .. Len(transfers) /\ Len(requests) \in Nat
  BY HotLengths
<1>4. inputs \in InputSets(Len(transfers))
  BY <1>1, <1>3 DEF InputSets
<1>5. /\ requests' \in Seq(InputSets(Len(transfers)))
      /\ Len(requests') = n
      /\ \A k \in 1 .. Len(requests) : requests'[k] = requests[k]
      /\ requests'[n] = inputs
  BY <1>0, <1>1, <1>4, AppendProperties DEF HotInv
<1>6. HotInv'
  BY <1>2, <1>5 DEF HotInv
<1>7. Kept
  BY <1>0, <1>2, <1>3, <1>5 DEF Kept, DeviceInv
<1>8. signings \in Nat /\ signings' \in Nat
  BY <1>2 DEF DeviceInv
<1>9. \A p \in payloads : Good(p)'
  BY <1>6, <1>7, <1>8, GoodKept DEF GoodPayloads
<1>10. Good(new)'
  <2>1. /\ new.kind = "unsigned" /\ new.request = n
        /\ new.inputs = {transfers[i] : i \in inputs}
        /\ new.transfers = Range(CurrentExport.outputs)
    BY <1>n
  <2>2. new.transfers \subseteq OwnOutputs
    <3>1. CurrentExport.outputs \in Seq(OwnOutputs)
      BY CurrentExportGood DEF GoodExport
    <3>2. \A i \in DOMAIN CurrentExport.outputs : CurrentExport.outputs[i] \in OwnOutputs
      BY <3>1, LenProperties, ElementOfSeq
    <3> QED
      BY <2>1, <3>2 DEF Range
  <2>3. n \in 1 .. Len(requests')
    BY <1>0, <1>3, <1>5
  <2>4. Wanted(n)' = {transfers[i] : i \in inputs}
    BY <1>2, <1>5 DEF Wanted
  <2> QED
    BY <2>1, <2>2, <2>3, <2>4 DEF Good, GoodUnsigned
<1>11. GoodPayloads'
  BY <1>1, <1>n, <1>9, <1>10 DEF GoodPayloads
<1>12. DeviceInv' /\ ChainInv' /\ ChangeMined'
  BY <1>1, <1>2 DEF DeviceInv, ChainInv, ChangeMined
<1>13. OneSetPerSigning'
  <2>1. new.kind # "signed"
    BY <1>n
  <2>2. payloads' = payloads \cup {new}
    BY <1>1, <1>n
  <2> QED
    BY <2>1, <2>2 DEF OneSetPerSigning
<1>14. ArrivedOnce' /\ Numbered' /\ KeyImagesTrue' /\ ChangeKnownOnArrival'
  BY <1>2 DEF ArrivedOnce, Numbered, IncomingCount, KeyImagesTrue, ChangeKnownOnArrival
<1> QED
  BY <1>6, <1>11, <1>12, <1>13, <1>14

-----------------------------------------------------------------------------
(* A payload comes back. *)

(* What a good reply holds verifies, wherever it is shown. *)
LEMMA GoodReplyImports ==
    ASSUME HotInv, NEW p, GoodReply(p)
    PROVE  /\ Imports(p)
           /\ \A i \in 1 .. Len(transfers) :
                 i - p.offset \in DOMAIN p.images
                    => p.images[i - p.offset].image = Image(transfers[i])
<1>1. /\ p.offset \in Nat /\ Len(p.images) \in Nat
      /\ p.offset + Len(p.images) <= Len(transfers)
      /\ DOMAIN p.images = 1 .. Len(p.images)
      /\ \A i \in 1 .. Len(p.images) : p.images[i] = Signed(transfers[p.offset + i])
  BY DEF GoodReply
<1>2. \A i \in DOMAIN p.images :
         LET key == transfers[p.offset + i].pubkey
         IN  CheckRingSignature(p.images[i].image, key, p.images[i].image, p.images[i].signature)
  BY <1>1, SignedVerifies
<1>3. ASSUME NEW i \in 1 .. Len(transfers), i - p.offset \in DOMAIN p.images
      PROVE  p.images[i - p.offset].image = Image(transfers[i])
  <2>1. Len(transfers) \in Nat /\ p.offset + (i - p.offset) = i
    BY <1>1, HotLengths
  <2>2. p.images[i - p.offset] = Signed(transfers[p.offset + (i - p.offset)])
    BY <1>1, <1>3
  <2> QED
    BY <2>1, <2>2, SignedVerifies
<1> QED
  BY <1>1, <1>2, <1>3 DEF Imports

LEMMA ImportStep == ASSUME NEW p \in payloads, IInv, ImportKeyImages(p) PROVE IInv'
<1> USE DEF IInv
<1>1. /\ keyImages' = [i \in DOMAIN keyImages |->
                         IF i - p.offset \in DOMAIN p.images
                         THEN p.images[i - p.offset].image ELSE keyImages[i]]
      /\ UNCHANGED <<transfers, coldImages, spentSeen, requests, payloads, device, signings, chain>>
  BY DEF ImportKeyImages
<1>2. GoodReply(p)
  BY GoodByKind DEF ImportKeyImages
<1>3. /\ Len(transfers) \in Nat /\ DOMAIN transfers = 1 .. Len(transfers)
      /\ DOMAIN keyImages = 1 .. Len(transfers)
      /\ \A i \in 1 .. Len(transfers) : transfers[i] \in OwnOutputs
      /\ \A i \in 1 .. Len(transfers) : keyImages[i] \in Images \cup {None}
  BY HotLengths
<1>4. /\ DOMAIN keyImages' = 1 .. Len(transfers)
      /\ \A i \in 1 .. Len(transfers) : keyImages'[i] \in {keyImages[i], Image(transfers[i])}
  BY <1>1, <1>2, <1>3, GoodReplyImports
<1>5. \A i \in 1 .. Len(transfers) : Image(transfers[i]) \in Images
  BY <1>3 DEF Images
<1>6. keyImages' \in Seq(Images \cup {None}) /\ Len(keyImages') = Len(transfers)
  <2>1. keyImages' \in [1 .. Len(transfers) -> Images \cup {None}]
    <3>1. \A i \in 1 .. Len(transfers) : keyImages'[i] \in Images \cup {None}
      BY <1>3, <1>4, <1>5
    <3>2. keyImages' = [i \in 1 .. Len(transfers) |-> keyImages'[i]]
      BY <1>1, <1>3
    <3> QED
      BY <3>1, <3>2
  <2>2. keyImages' \in Seq(Images \cup {None})
    BY <1>3, <2>1, SeqDef
  <2> QED
    BY <1>3, <1>4, <2>2, LenProperties
<1>7. HotInv'
  BY <1>1, <1>6 DEF HotInv
<1>8. KeyImagesTrue'
  <2> SUFFICES ASSUME NEW i \in 1 .. Len(transfers), keyImages'[i] # None
               PROVE  keyImages'[i] = TrueImage(transfers[i].pubkey)
    BY <1>1, <1>3 DEF KeyImagesTrue
  <2> QED
    BY <1>3, <1>4 DEF KeyImagesTrue, Image
<1>9. ChangeKnownOnArrival'
  <2> SUFFICES ASSUME NEW i \in 1 .. Len(transfers), NEW s \in 1 .. MaxSignings,
                      transfers[i] = Change(s)
               PROVE  keyImages'[i] # None
    BY <1>1, <1>3 DEF ChangeKnownOnArrival
  <2>1. keyImages[i] # None
    BY <1>3 DEF ChangeKnownOnArrival
  <2> QED
    BY <1>4, <1>5, <2>1, NoneIsNoImage
<1>10. \A q : Good(q)' <=> Good(q)
  BY <1>1 DEF Good, GoodExport, GoodReply, GoodUnsigned, GoodSigned, Wanted
<1>11. GoodPayloads' /\ DeviceInv' /\ OneSetPerSigning' /\ ChainInv'
  BY <1>1, <1>10 DEF GoodPayloads, DeviceInv, OneSetPerSigning, ChainInv
<1>12. ArrivedOnce' /\ Numbered' /\ ChangeMined'
  BY <1>1 DEF ArrivedOnce, Numbered, IncomingCount, ChangeMined
<1> QED
  BY <1>7, <1>8, <1>9, <1>11, <1>12

(* A signed set is loaded: more images, and perhaps one more transaction. *)
LEMMA LoadedStep ==
    ASSUME NEW p \in payloads, IInv, p.kind = "signed",
           coldImages' = coldImages \cup p.pairs,
           \/ chain' = chain \cup
                 {[request |-> p.request, signing |-> p.signing, images |-> p.images]}
           \/ chain' = chain,
           UNCHANGED <<transfers, keyImages, requests, payloads, device, signings>>
    PROVE  IInv'
<1> USE DEF IInv
<1>1. GoodSigned(p)
  BY GoodByKind
<1>2. HotInv'
  BY <1>1 DEF HotInv, GoodSigned
<1>3. \A q : Good(q)' <=> Good(q)
  BY DEF Good, GoodExport, GoodReply, GoodUnsigned, GoodSigned, Wanted
<1>4. GoodPayloads' /\ DeviceInv' /\ OneSetPerSigning'
  BY <1>3 DEF GoodPayloads, DeviceInv, OneSetPerSigning
<1>5. ChainInv'
  <2>1. \A t \in chain' :
           t \in chain \/ t = [request |-> p.request, signing |-> p.signing, images |-> p.images]
    OBVIOUS
  <2>2. \A q : q.pairs \subseteq coldImages => q.pairs \subseteq coldImages'
    OBVIOUS
  <2> QED
    BY <2>1, <2>2 DEF ChainInv
<1>6. chain \subseteq chain'
  OBVIOUS
<1>7. ArrivedOnce' /\ Numbered' /\ ChangeMined' /\ KeyImagesTrue' /\ ChangeKnownOnArrival'
  BY <1>6 DEF ArrivedOnce, Numbered, IncomingCount, ChangeMined, KeyImagesTrue,
              ChangeKnownOnArrival
<1> QED
  BY <1>2, <1>4, <1>5, <1>7

LEMMA BroadcastStep == ASSUME NEW p \in payloads, IInv, Broadcast(p) PROVE IInv'
BY LoadedStep DEF Broadcast

LEMMA DoubleSpendStep == ASSUME NEW p \in payloads, IInv, DoubleSpend(p) PROVE IInv'
BY LoadedStep DEF DoubleSpend

-----------------------------------------------------------------------------
(* The device works. *)

(* Taking a payload in, and losing power over it. *)
LEMMA DeviceStep ==
    ASSUME IInv, device' \in payloads \cup {Idle},
           device' # Idle /\ device'.kind = "unsigned" => signings < MaxSignings,
           UNCHANGED <<transfers, keyImages, coldImages, requests, payloads, signings, chain>>
    PROVE  IInv'
<1> USE DEF IInv
<1>1. \A q : Good(q)' <=> Good(q)
  BY DEF Good, GoodExport, GoodReply, GoodUnsigned, GoodSigned, Wanted
<1>2. HotInv' /\ GoodPayloads' /\ DeviceInv' /\ OneSetPerSigning' /\ ChainInv'
  BY <1>1 DEF HotInv, GoodPayloads, DeviceInv, OneSetPerSigning, ChainInv
<1>3. ArrivedOnce' /\ Numbered' /\ ChangeMined' /\ KeyImagesTrue' /\ ChangeKnownOnArrival'
  BY DEF ArrivedOnce, Numbered, IncomingCount, ChangeMined, KeyImagesTrue, ChangeKnownOnArrival
<1> QED
  BY <1>2, <1>3

LEMMA ScanStep == ASSUME NEW p \in payloads, IInv, Scan(p) PROVE IInv'
<1>1. device' = p /\ (p.kind = "unsigned" => signings < MaxSignings)
  BY DEF Scan
<1>2. UNCHANGED <<transfers, keyImages, coldImages, requests, payloads, signings, chain>>
  BY DEF Scan, hot
<1> QED
  BY <1>1, <1>2, DeviceStep

LEMMA PowerOffStep == ASSUME IInv, PowerOff PROVE IInv'
BY DeviceStep DEF PowerOff, hot

LEMMA FinishKeyImagesStep == ASSUME IInv, FinishKeyImages PROVE IInv'
<1> USE DEF IInv
<1>1. PICK new : new = KeyImageReply(device)
  OBVIOUS
<1>2. /\ payloads' = payloads \cup {new} /\ device' = Idle
      /\ UNCHANGED <<transfers, keyImages, coldImages, requests, chain, signings>>
  BY <1>1 DEF FinishKeyImages, hot
<1>3. GoodExport(device)
  <2>1. device \in payloads /\ device.kind = "outputs"
    BY DEF FinishKeyImages, DeviceInv
  <2> QED
    BY <2>1, GoodByKind
<1>4. /\ new.kind = "images" /\ new.offset = device.offset
      /\ new.images = [i \in DOMAIN device.outputs |-> SignKeyImage(device.outputs[i])]
  BY <1>1 DEF KeyImageReply
<1>5. Len(device.outputs) \in Nat /\ DOMAIN device.outputs = 1 .. Len(device.outputs)
  BY <1>3, LenProperties DEF GoodExport
<1>6. \A i \in 1 .. Len(device.outputs) : device.outputs[i] \in OwnOutputs
  BY <1>3, ElementOfSeq DEF GoodExport
<1>7. \A i \in 1 .. Len(device.outputs) :
         SignKeyImage(device.outputs[i]) = Signed(transfers[device.offset + i])
  BY <1>3, <1>6, OwnSigned DEF GoodExport
<1>8. /\ DOMAIN new.images = 1 .. Len(device.outputs)
      /\ \A i \in 1 .. Len(device.outputs) :
            new.images[i] = Signed(transfers[device.offset + i])
  BY <1>4, <1>5, <1>7
<1>9. Len(new.images) = Len(device.outputs)
  <2>1. new.images \in Seq({SignKeyImage(device.outputs[i]) : i \in 1 .. Len(device.outputs)})
    BY <1>4, <1>5, SeqDef
  <2> QED
    BY <1>5, <1>8, <2>1, LenProperties
<1>10. Good(new)
  <2>1. device.offset \in Nat /\ device.offset + Len(device.outputs) <= Len(transfers)
    BY <1>3 DEF GoodExport
  <2> QED
    BY <1>4, <1>5, <1>8, <1>9, <2>1 DEF Good, GoodReply
<1> QED
  BY <1>2, <1>4, <1>10, MorePayloads

LEMMA FinishSignStep == ASSUME IInv, FinishSign PROVE IInv'
<1> USE DEF IInv
<1>1. PICK new : new = SignedReply(device)
  OBVIOUS
<1>2. /\ payloads' = payloads \cup {new} /\ device' = Idle /\ signings' = signings + 1
      /\ UNCHANGED <<transfers, keyImages, coldImages, requests, chain>>
  BY <1>1 DEF FinishSign, hot
<1>3. GoodUnsigned(device) /\ signings \in 0 .. MaxSignings /\ signings < MaxSignings
  <2>1. /\ device \in payloads /\ device.kind = "unsigned"
        /\ signings \in 0 .. MaxSignings /\ signings < MaxSignings
    BY DEF FinishSign, DeviceInv
  <2> QED
    BY <2>1, GoodByKind
<1>4. signings \in Nat /\ signings' \in 1 .. MaxSignings
  BY <1>2, <1>3, BoundAssumption
<1>5. /\ new.kind = "signed" /\ new.request = device.request /\ new.signing = signings + 1
      /\ new.images = InputImages(device)
      /\ new.pairs = ChangePairs \cup
            {<<out.pubkey, SignKeyImage(out).image>> : out \in device.transfers}
  BY <1>1 DEF SignedReply
<1>6. ChangePairs = {Pair(Change(signings + 1))}
  BY ChangeRebuilt DEF ChangePairs, Pair, Image, TrueImage, PublicOf
<1>7. \A out \in OwnOutputs : SignKeyImage(out).image = Image(out)
  BY OwnSigned, SignedVerifies
<1>8. {<<out.pubkey, SignKeyImage(out).image>> : out \in device.transfers} \subseteq Pairs
  <2>1. \A out \in device.transfers : <<out.pubkey, SignKeyImage(out).image>> = Pair(out)
    BY <1>3, <1>7 DEF GoodUnsigned, Pair
  <2> QED
    BY <1>3, <2>1 DEF GoodUnsigned, Pairs
<1>9. Change(signings + 1) \in OwnOutputs
  BY <1>2, <1>4 DEF OwnOutputs
<1>10. new.pairs \subseteq Pairs /\ Pair(Change(signings + 1)) \in new.pairs
  BY <1>5, <1>6, <1>8, <1>9 DEF Pairs
<1>11. new.images = {Image(out) : out \in Wanted(new.request)}
  <2>1. device.inputs = Wanted(new.request) /\ Wanted(new.request) \subseteq OwnOutputs
    BY <1>3, <1>5, HotLengths DEF GoodUnsigned, Wanted
  <2>2. \A out \in Wanted(new.request) : SignKeyImage(out).image = Image(out)
    BY <1>7, <2>1
  <2> QED
    BY <1>5, <2>1, <2>2 DEF InputImages
<1>12. HotInv'
  BY <1>2 DEF HotInv
<1>13. Kept
  BY <1>2, <1>4, HotLengths DEF Kept
<1>14. \A p \in payloads : Good(p)'
  BY <1>4, <1>12, <1>13, GoodKept DEF GoodPayloads
<1>15. Good(new)'
  <2>1. Wanted(new.request)' = Wanted(new.request)
    BY <1>2 DEF Wanted
  <2>2. new.signing \in 1 .. signings' /\ Change(new.signing) = Change(signings + 1)
    BY <1>2, <1>4, <1>5
  <2>3. new.request \in 1 .. Len(requests')
    BY <1>2, <1>3, <1>5 DEF GoodUnsigned
  <2> QED
    BY <1>5, <1>10, <1>11, <2>1, <2>2, <2>3 DEF Good, GoodSigned
<1>16. GoodPayloads'
  BY <1>2, <1>14, <1>15 DEF GoodPayloads
<1>17. DeviceInv'
  BY <1>2, <1>4, BoundAssumption DEF DeviceInv
<1>18. OneSetPerSigning'
  <2>1. \A p \in payloads : p.kind = "signed" => p.signing # new.signing
    <3>1. \A p \in payloads : p.kind = "signed" => p.signing \in 1 .. signings
      BY GoodByKind DEF GoodSigned
    <3> QED
      BY <1>4, <1>5, <3>1
  <2> QED
    BY <1>2, <2>1 DEF OneSetPerSigning
<1>19. ChainInv' /\ ChangeMined'
  BY <1>2 DEF ChainInv, ChangeMined
<1>20. ArrivedOnce' /\ Numbered' /\ KeyImagesTrue' /\ ChangeKnownOnArrival'
  BY <1>2 DEF ArrivedOnce, Numbered, IncomingCount, KeyImagesTrue, ChangeKnownOnArrival
<1> QED
  BY <1>12, <1>16, <1>17, <1>18, <1>19, <1>20

-----------------------------------------------------------------------------
(* The invariant holds. *)

LEMMA InvInit == Init => IInv
<1> SUFFICES ASSUME Init PROVE IInv
  OBVIOUS
<1> USE DEF Init
<1>1. /\ Len(transfers) = 0 /\ Len(requests) = 0 /\ Len(keyImages) = 0
      /\ DOMAIN transfers = {} /\ DOMAIN keyImages = {}
  OBVIOUS
<1>2. HotInv
  <2>1. \A S : <<>> \in Seq(S)
    BY EmptySeq
  <2> QED
    BY <2>1 DEF HotInv
<1>3. GoodPayloads /\ DeviceInv /\ OneSetPerSigning /\ ChainInv
  BY BoundAssumption DEF GoodPayloads, DeviceInv, OneSetPerSigning, ChainInv
<1>4. IncomingCount = 0
  <2>1. IncomingAt = {}
    BY <1>1 DEF IncomingAt
  <2> QED
    BY <2>1, FS_EmptySet DEF IncomingCount, IncomingAt
<1>5. Range(transfers) = {}
  BY <1>1 DEF Range
<1>6. ArrivedOnce /\ Numbered /\ ChangeMined
  BY <1>1, <1>4, <1>5 DEF ArrivedOnce, Numbered, ChangeMined
<1>7. KeyImagesTrue /\ ChangeKnownOnArrival
  BY <1>1 DEF KeyImagesTrue, ChangeKnownOnArrival
<1> QED
  BY <1>2, <1>3, <1>6, <1>7 DEF IInv

LEMMA InvStep == IInv /\ [Next]_vars => IInv'
<1> SUFFICES ASSUME IInv, [Next]_vars PROVE IInv'
  OBVIOUS
<1>1. CASE ReceivePayment
  BY <1>1, ReceivePaymentStep
<1>2. CASE ReceiveChange
  BY <1>2, ReceiveChangeStep
<1>3. CASE ExportOutputs
  BY <1>3, ExportOutputsStep
<1>4. CASE CreateUnsigned
  BY <1>4, CreateUnsignedStep
<1>5. CASE PowerOff
  BY <1>5, PowerOffStep
<1>6. CASE FinishKeyImages
  BY <1>6, FinishKeyImagesStep
<1>7. CASE FinishSign
  BY <1>7, FinishSignStep
<1>8. ASSUME NEW p \in payloads,
             Scan(p) \/ ImportKeyImages(p) \/ Broadcast(p) \/ DoubleSpend(p)
      PROVE  IInv'
  BY <1>8, ScanStep, ImportStep, BroadcastStep, DoubleSpendStep
<1>9. CASE UNCHANGED vars
  <2>1. UNCHANGED <<transfers, keyImages, coldImages, requests, payloads, signings, chain, device>>
    BY <1>9 DEF vars, hot
  <2> QED
    BY <2>1, DeviceStep DEF IInv, DeviceInv
<1> QED
  BY <1>1, <1>2, <1>3, <1>4, <1>5, <1>6, <1>7, <1>8, <1>9 DEF Next

LEMMA Invariant == Spec => []IInv
<1>1. Init => IInv
  BY InvInit
<1>2. IInv /\ [Next]_vars => IInv'
  BY InvStep
<1> QED
  BY <1>1, <1>2, PTL DEF Spec

(* Every key image the hot wallet holds is the one its transfer is spent
   with, those of change included, for which it checks no signature. *)
THEOREM HotImagesTrue == Spec => []KeyImagesTrue
<1>1. IInv => KeyImagesTrue
  BY DEF IInv
<1> QED
  BY <1>1, Invariant, PTL

(* A key image reply can be imported whenever it is shown. *)
THEOREM RepliesAlwaysImport == Spec => []RepliesImport
<1>1. IInv => RepliesImport
  BY GoodByKind, GoodReplyImports DEF IInv, RepliesImport
<1> QED
  BY <1>1, Invariant, PTL

(* The change of a mined transaction arrives with its key image known. *)
THEOREM ChangeArrivesKnown == Spec => []ChangeKnownOnArrival
<1>1. IInv => ChangeKnownOnArrival
  BY DEF IInv
<1> QED
  BY <1>1, Invariant, PTL

-----------------------------------------------------------------------------
(* The round trip implements the ledger. *)

LedgerReceived == Range(transfers) \cup {Change(t.signing) : t \in chain}

LedgerSpent == {out \in Range(transfers) : TrueImage(out.pubkey) \in SpentImages}

LedgerRequests == [n \in DOMAIN requests |-> {transfers[i] : i \in requests[n]}]

LedgerPaid == {t.request : t \in chain}

LedgerUnchanged == UNCHANGED <<LedgerReceived, LedgerSpent, LedgerRequests, LedgerPaid>>

LEMMA LedgerStutter == LedgerUnchanged => UNCHANGED Abstract!vars
BY DEF LedgerUnchanged, Abstract!vars, LedgerReceived, LedgerSpent, LedgerRequests, LedgerPaid

LEMMA OthersStutter ==
    ASSUME UNCHANGED <<transfers, requests, chain>>
    PROVE  LedgerUnchanged
BY DEF LedgerUnchanged, LedgerReceived, LedgerSpent, LedgerRequests, LedgerPaid, SpentImages

(* What is spent on the chain is what the mined requests want. *)
LEMMA MinedImages ==
    ASSUME IInv, NEW t \in chain
    PROVE  /\ t.request \in 1 .. Len(requests)
           /\ t.images = {Image(out) : out \in Wanted(t.request)}
BY MinedSigned DEF IInv, GoodSigned

LEMMA WantedReceived ==
    ASSUME IInv, NEW n \in 1 .. Len(requests)
    PROVE  /\ Wanted(n) \subseteq Range(transfers) /\ Wanted(n) # {}
           /\ Wanted(n) \subseteq OwnOutputs
<1>1. /\ DOMAIN transfers = 1 .. Len(transfers)
      /\ \A i \in 1 .. Len(transfers) : transfers[i] \in OwnOutputs
      /\ requests[n] \subseteq 1 .. Len(transfers) /\ requests[n] # {}
  BY HotLengths DEF IInv
<1> QED
  BY <1>1 DEF Wanted, Range

LEMMA TransfersOwn == ASSUME IInv PROVE Range(transfers) \subseteq OwnOutputs
BY HotLengths DEF IInv, Range

(* An output that was not there is not spent either. *)
LEMMA ArrivalLedger ==
    ASSUME IInv, NEW out \in OwnOutputs, out \notin Range(transfers), Arrives(out)
    PROVE  /\ LedgerReceived' = LedgerReceived \cup {out}
           /\ UNCHANGED <<LedgerSpent, LedgerRequests, LedgerPaid>>
<1>1. /\ transfers' = Append(transfers, out) /\ UNCHANGED <<requests, chain>>
      /\ HotInv
  BY DEF Arrives, IInv
<1>2. Range(transfers') = Range(transfers) \cup {out}
  BY <1>1, RangeOnArrival
<1>3. SpentImages' = SpentImages
  BY <1>1 DEF SpentImages
<1>4. Image(out) \notin SpentImages
  <2> SUFFICES ASSUME Image(out) \in SpentImages PROVE FALSE
    OBVIOUS
  <2>1. PICK t \in chain : Image(out) \in t.images
    BY DEF SpentImages
  <2>2. PICK other \in Wanted(t.request) : Image(out) = Image(other)
    BY <2>1, MinedImages
  <2>3. other \in Range(transfers) /\ other \in OwnOutputs
    BY <2>2, MinedImages, WantedReceived
  <2> QED
    BY <2>2, <2>3, ImagesDiffer
<1>5. LedgerSpent' = LedgerSpent
  BY <1>2, <1>3, <1>4 DEF LedgerSpent, Image
<1>6. LedgerRequests' = LedgerRequests
  <2>1. \A i \in 1 .. Len(transfers) : transfers'[i] = transfers[i]
    BY <1>1, AppendProperties DEF HotInv
  <2>2. \A n \in DOMAIN requests : requests[n] \subseteq 1 .. Len(transfers)
    BY <1>1, HotLengths
  <2>3. \A n \in DOMAIN requests :
           {transfers'[i] : i \in requests[n]} = {transfers[i] : i \in requests[n]}
    BY <2>1, <2>2
  <2> QED
    BY <1>1, <2>3 DEF LedgerRequests
<1>7. LedgerPaid' = LedgerPaid
  BY <1>1 DEF LedgerPaid
<1>8. LedgerReceived' = LedgerReceived \cup {out}
  BY <1>1, <1>2 DEF LedgerReceived
<1> QED
  BY <1>5, <1>6, <1>7, <1>8

LEMMA PaymentIsReceive == ASSUME IInv, ReceivePayment PROVE Abstract!Receive
<1> DEFINE out == Incoming(IncomingCount + 1)
<1>1. out \in OwnOutputs /\ out \notin Range(transfers) /\ Arrives(out)
  BY PaymentNew DEF ReceivePayment
<1>2. out \notin LedgerReceived
  BY <1>1, IncomingDiffer DEF LedgerReceived
<1> HIDE DEF out
<1>3. /\ LedgerReceived' = LedgerReceived \cup {out}
      /\ UNCHANGED <<LedgerSpent, LedgerRequests, LedgerPaid>>
  BY <1>1, ArrivalLedger
<1> QED
  BY <1>2, <1>3 DEF Abstract!Receive, LedgerReceived, LedgerSpent, LedgerRequests, LedgerPaid

LEMMA ChangeIsStutter == ASSUME IInv, ReceiveChange PROVE LedgerUnchanged
<1>1. PICK t \in chain : Change(t.signing) \notin Range(transfers) /\ Arrives(Change(t.signing))
  BY DEF ReceiveChange
<1>2. Change(t.signing) \in OwnOutputs
  BY MinedSigned DEF IInv, OwnOutputs
<1>3. Change(t.signing) \in LedgerReceived
  BY DEF LedgerReceived
<1>4. /\ LedgerReceived' = LedgerReceived \cup {Change(t.signing)}
      /\ UNCHANGED <<LedgerSpent, LedgerRequests, LedgerPaid>>
  BY <1>1, <1>2, ArrivalLedger
<1> QED
  BY <1>3, <1>4 DEF LedgerUnchanged

LEMMA UnsignedIsRequest == ASSUME IInv, CreateUnsigned PROVE Abstract!Request
<1>1. PICK inputs \in (SUBSET (DOMAIN transfers \ (Unknown \cup spentSeen))) \ {{}} :
         requests' = Append(requests, inputs)
  BY DEF CreateUnsigned
<1>2. UNCHANGED <<transfers, chain>>
  BY DEF CreateUnsigned
<1>3. PICK outs : outs = {transfers[i] : i \in inputs}
  OBVIOUS
<1>4. outs \in (SUBSET LedgerReceived) \ {{}}
  <2>1. inputs \subseteq DOMAIN transfers /\ inputs # {}
    BY <1>1
  <2>2. outs \subseteq LedgerReceived /\ outs # {}
    BY <1>3, <2>1 DEF LedgerReceived, Range
  <2> QED
    BY <2>2
<1>5. UNCHANGED <<LedgerReceived, LedgerSpent, LedgerPaid>>
  BY <1>2 DEF LedgerReceived, LedgerSpent, LedgerPaid, SpentImages
<1>6. LedgerRequests' = Append(LedgerRequests, outs)
  <2>1. /\ Len(requests) \in Nat /\ DOMAIN requests = 1 .. Len(requests)
        /\ requests \in Seq(InputSets(Len(transfers)))
        /\ DOMAIN transfers = 1 .. Len(transfers)
    BY HotLengths DEF IInv, HotInv
  <2>2. inputs \in InputSets(Len(transfers))
    BY <1>1, <2>1 DEF InputSets
  <2>3. /\ requests' \in Seq(InputSets(Len(transfers)))
        /\ Len(requests') = Len(requests) + 1
        /\ \A n \in 1 .. Len(requests) : requests'[n] = requests[n]
        /\ requests'[Len(requests) + 1] = inputs
    BY <1>1, <2>1, <2>2, AppendProperties
  <2>4. DOMAIN requests' = 1 .. Len(requests) + 1
    BY <2>3, LenProperties
  <2>5. LedgerRequests \in Seq({LedgerRequests[n] : n \in 1 .. Len(requests)} \cup {outs})
    BY <2>1, SeqDef DEF LedgerRequests
  <2>6. LedgerRequests' \in Seq({LedgerRequests[n] : n \in 1 .. Len(requests)} \cup {outs})
    <3>1. \A n \in 1 .. Len(requests) : LedgerRequests'[n] = LedgerRequests[n]
      BY <1>2, <2>1, <2>3, <2>4 DEF LedgerRequests
    <3>2. LedgerRequests'[Len(requests) + 1] = outs
      BY <1>2, <1>3, <2>1, <2>3, <2>4 DEF LedgerRequests
    <3>3. LedgerRequests' = [n \in 1 .. Len(requests) + 1 |-> LedgerRequests'[n]]
      BY <2>4 DEF LedgerRequests
    <3>4. LedgerRequests' \in [1 .. Len(requests) + 1 ->
                                  {LedgerRequests[n] : n \in 1 .. Len(requests)} \cup {outs}]
      <4>1. \A n \in 1 .. Len(requests) + 1 :
               LedgerRequests'[n] \in {LedgerRequests[k] : k \in 1 .. Len(requests)} \cup {outs}
        BY <2>1, <3>1, <3>2
      <4> QED
        BY <3>3, <4>1
    <3>5. Len(requests) + 1 \in Nat
      BY <2>1
    <3> QED
      BY <3>4, <3>5, SeqDef
  <2>7. LedgerRequests'[Len(requests) + 1] = outs /\
        \A n \in 1 .. Len(requests) : LedgerRequests'[n] = LedgerRequests[n]
    BY <1>2, <1>3, <2>1, <2>3, <2>4 DEF LedgerRequests
  <2>8. Len(LedgerRequests) = Len(requests) /\ Len(LedgerRequests') = Len(requests) + 1
    BY <2>1, <2>4, <2>5, <2>6, LenProperties DEF LedgerRequests
  <2> DEFINE T == {LedgerRequests[n] : n \in 1 .. Len(requests)} \cup {outs}
  <2>9. outs \in T
    OBVIOUS
  <2>10. LedgerRequests \in Seq(T) /\ LedgerRequests' \in Seq(T)
    BY <2>5, <2>6
  <2> HIDE DEF T
  <2>11. /\ Append(LedgerRequests, outs) \in Seq(T)
         /\ Len(Append(LedgerRequests, outs)) = Len(LedgerRequests) + 1
         /\ \A n \in 1 .. Len(LedgerRequests) :
               Append(LedgerRequests, outs)[n] = LedgerRequests[n]
         /\ Append(LedgerRequests, outs)[Len(LedgerRequests) + 1] = outs
    BY <2>9, <2>10, AppendProperties
  <2>12. \A n \in 1 .. Len(LedgerRequests') :
            LedgerRequests'[n] = Append(LedgerRequests, outs)[n]
    BY <2>1, <2>7, <2>8, <2>11
  <2>13. Len(LedgerRequests') = Len(Append(LedgerRequests, outs))
    BY <2>8, <2>11
  <2> QED
    BY <2>10, <2>11, <2>12, <2>13, SeqEqual
<1>7. /\ \E wanted \in (SUBSET LedgerReceived) \ {{}} :
            LedgerRequests' = Append(LedgerRequests, wanted)
      /\ UNCHANGED <<LedgerReceived, LedgerSpent, LedgerPaid>>
  BY <1>4, <1>5, <1>6
<1> QED
  BY <1>7 DEF Abstract!Request, LedgerReceived, LedgerSpent, LedgerRequests, LedgerPaid

(* A request is paid once, with exactly its inputs: a transaction that pays
   it again, or spends one of them, meets a spent key image. *)
LEMMA BroadcastIsPay ==
    ASSUME IInv, NEW p \in payloads, Broadcast(p)
    PROVE  p.request \in DOMAIN LedgerRequests /\ Abstract!Pay(p.request)
<1>1. PICK n : n = p.request
  OBVIOUS
<1>2. /\ GoodSigned(p) /\ p.images \cap SpentImages = {}
      /\ chain' = chain \cup {[request |-> p.request, signing |-> p.signing, images |-> p.images]}
      /\ UNCHANGED <<transfers, requests>>
  BY GoodByKind DEF Broadcast, IInv
<1>3. /\ n \in 1 .. Len(requests) /\ DOMAIN requests = 1 .. Len(requests)
      /\ p.images = {Image(out) : out \in Wanted(n)}
  BY <1>1, <1>2, HotLengths DEF GoodSigned, IInv
<1>4. /\ Wanted(n) \subseteq Range(transfers) /\ Wanted(n) # {}
      /\ Wanted(n) \subseteq OwnOutputs /\ Range(transfers) \subseteq OwnOutputs
  BY <1>3, WantedReceived, TransfersOwn
<1>5. \A t \in chain : t.images # p.images
  <2>1. p.images # {}
    BY <1>3, <1>4
  <2> QED
    BY <1>2, <2>1 DEF SpentImages
<1>6. n \notin LedgerPaid
  BY <1>3, <1>5, MinedImages DEF LedgerPaid
<1>7. LedgerRequests[n] = Wanted(n)
  BY <1>3 DEF LedgerRequests, Wanted
<1>8. Wanted(n) \cap LedgerSpent = {}
  BY <1>2, <1>3 DEF LedgerSpent, Image
<1>9. PICK mined : /\ chain' = chain \cup {mined}
                   /\ mined.request = n /\ mined.signing = p.signing /\ mined.images = p.images
  <2>1. PICK mined :
           mined = [request |-> p.request, signing |-> p.signing, images |-> p.images]
    OBVIOUS
  <2>2. mined.request = n /\ mined.signing = p.signing /\ mined.images = p.images
    BY <1>1, <2>1
  <2>3. chain' = chain \cup {mined}
    BY <1>2, <2>1
  <2> QED
    BY <2>2, <2>3
<1>10. LedgerPaid' = LedgerPaid \cup {n}
  BY <1>9 DEF LedgerPaid
<1>11. SpentImages' = SpentImages \cup p.images
  BY <1>9 DEF SpentImages
<1>12. LedgerSpent' = LedgerSpent \cup Wanted(n)
  <2>1. \A out \in Range(transfers) : Image(out) \in p.images <=> out \in Wanted(n)
    BY <1>3, <1>4, ImagesDiffer
  <2> QED
    BY <1>2, <1>4, <1>11, <2>1 DEF LedgerSpent, Image
<1>13. LedgerReceived' = LedgerReceived \cup {Change(p.signing)}
  BY <1>2, <1>9 DEF LedgerReceived
<1>14. Change(p.signing) \notin LedgerReceived
  <2>1. \A t \in chain : t.signing # p.signing
    <3> SUFFICES ASSUME NEW t \in chain, t.signing = p.signing PROVE FALSE
      OBVIOUS
    <3>1. PICK q \in payloads :
             q.kind = "signed" /\ t.signing = q.signing /\ t.images = q.images
      BY MinedSigned DEF IInv, GoodSigned
    <3>2. q = p
      BY <1>2, <3>1 DEF IInv, OneSetPerSigning, GoodSigned
    <3> QED
      BY <1>5, <3>1, <3>2
  <2>2. Change(p.signing) \notin Range(transfers)
    <3>1. p.signing \in 1 .. MaxSignings
      BY <1>2, BoundAssumption DEF IInv, DeviceInv, GoodSigned
    <3> QED
      BY <2>1, <3>1 DEF IInv, ChangeMined
  <2> QED
    BY <2>1, <2>2, IncomingDiffer DEF LedgerReceived
<1>15. LedgerRequests' = LedgerRequests
  BY <1>2 DEF LedgerRequests
<1>16. /\ n \notin LedgerPaid
       /\ LedgerRequests[n] \cap LedgerSpent = {}
       /\ LedgerPaid' = LedgerPaid \cup {n}
       /\ LedgerSpent' = LedgerSpent \cup LedgerRequests[n]
       /\ \E change \in LedgerReceived' :
             change \notin LedgerReceived /\ LedgerReceived' = LedgerReceived \cup {change}
       /\ LedgerRequests' = LedgerRequests
  BY <1>6, <1>7, <1>8, <1>10, <1>12, <1>13, <1>14, <1>15
<1>17. Abstract!Pay(n)
  BY <1>16 DEF Abstract!Pay, LedgerReceived, LedgerSpent, LedgerRequests, LedgerPaid
<1> QED
  BY <1>1, <1>3, <1>17 DEF LedgerRequests

LEMMA LedgerInit == Init => Abstract!Init
<1> SUFFICES ASSUME Init PROVE Abstract!Init
  OBVIOUS
<1>1. DOMAIN transfers = {} /\ DOMAIN requests = {} /\ chain = {}
  BY DEF Init
<1>2. Range(transfers) = {}
  BY <1>1 DEF Range
<1>3. [n \in DOMAIN requests |-> {transfers[i] : i \in requests[n]}] = <<>>
  BY <1>1
<1> QED
  BY <1>1, <1>2, <1>3 DEF Abstract!Init

LEMMA LedgerStep == IInv /\ [Next]_vars => [Abstract!Next]_(Abstract!vars)
<1> SUFFICES ASSUME IInv, [Next]_vars PROVE Abstract!Next \/ UNCHANGED Abstract!vars
  OBVIOUS
<1>1. CASE ReceivePayment
  BY <1>1, PaymentIsReceive DEF Abstract!Next
<1>2. CASE ReceiveChange
  BY <1>2, ChangeIsStutter, LedgerStutter
<1>3. CASE CreateUnsigned
  BY <1>3, UnsignedIsRequest DEF Abstract!Next
<1>4. ASSUME NEW p \in payloads, Broadcast(p)
      PROVE  Abstract!Next
  BY <1>4, BroadcastIsPay DEF Abstract!Next, LedgerRequests
<1>5. CASE ExportOutputs \/ PowerOff \/ FinishKeyImages \/ FinishSign
  <2>1. UNCHANGED <<transfers, requests, chain>>
    BY <1>5 DEF ExportOutputs, PowerOff, FinishKeyImages, FinishSign, hot
  <2> QED
    BY <2>1, OthersStutter, LedgerStutter
<1>6. ASSUME NEW p \in payloads, Scan(p) \/ ImportKeyImages(p) \/ DoubleSpend(p)
      PROVE  UNCHANGED Abstract!vars
  <2>1. UNCHANGED <<transfers, requests, chain>>
    BY <1>6 DEF Scan, ImportKeyImages, DoubleSpend, hot
  <2> QED
    BY <2>1, OthersStutter, LedgerStutter
<1>7. CASE UNCHANGED vars
  <2>1. UNCHANGED <<transfers, requests, chain>>
    BY <1>7 DEF vars, hot
  <2> QED
    BY <2>1, OthersStutter, LedgerStutter
<1> QED
  BY <1>1, <1>2, <1>3, <1>4, <1>5, <1>6, <1>7 DEF Next

(* The ledger's promise, refined: each requested payment is made at most
   once and spends what was requested, whatever is shown how often. *)
THEOREM LedgerKept == Spec => ImplementsLedger
<1>1. Init => Abstract!Init
  BY LedgerInit
<1>2. IInv /\ [Next]_vars => [Abstract!Next]_(Abstract!vars)
  BY LedgerStep
<1> QED
  BY <1>1, <1>2, Invariant, PTL DEF Spec, ImplementsLedger, Abstract!Spec
=============================================================================
