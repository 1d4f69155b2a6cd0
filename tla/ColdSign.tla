------------------------------ MODULE ColdSign ------------------------------
(***************************************************************************)
(* The signing half of the signer, one run of `xmr-signer sign`: the set   *)
(* is opened and read (txset.rs), then sign of sign.rs turns it into the   *)
(* signed reply.  Each transaction goes through the numbered sections of   *)
(* construct_and_sign, one action each; then the key images of the         *)
(* transfers exported with the set are added and the reply is built.  The  *)
(* first error ends the run without a reply.                               *)
(*                                                                         *)
(* The set is a payload record [magic, wrapper, sealedBy, layout, txes,    *)
(* transfers], the transfers being exported outputs.  A transaction is     *)
(*   [supported, sources, change, dests, nonce]                            *)
(* where supported gathers the unlock time, the construction flags and the *)
(* RingCT configuration, and nonce is the extra's nonce: "none", "long",   *)
(* "short" or "unreadable".  A source is an exported output with           *)
(*   [amount, mask, ring, real],                                           *)
(* ring a sequence of [global, key, commitment], and a destination         *)
(*   [owner, index, amount, sub],                                          *)
(* whose address is that of subaddress index of the wallet owner, and sub  *)
(* what the set says of it: that it is a subaddress or that it is not.  An *)
(* address whose keys are not curve points has the owner NoPoint.          *)
(***************************************************************************)
EXTENDS OneTimeKeys, FiniteSets, Functions

CONSTANTS
    Sets,       \* the unsigned sets that may be shown to the device
    Lookahead,  \* DEFAULT_LOOKAHEAD, (5, 200)
    MaxOutputs, \* outputs one Bulletproof+ can cover, 16
    AmountLimit,\* what a sum of amounts is reduced by, 2^64
    ByteLimit,  \* what a position in a ring is cut to, 2^8
    ScalarLimit,\* the order of the group, which a canonical scalar is below
    ImageRank,  \* the byte order of key images, by output key
    NoPoint,    \* the owner of an address that is no address
    NoIndex, None

ASSUME LookaheadAssumption == Lookahead \in Nat \X Nat

ASSUME WidthAssumption ==
    AmountLimit \in Nat \ {0} /\ ByteLimit \in Nat \ {0} /\ ScalarLimit \in Nat \ {0}

ASSUME NoIndexAssumption == NoIndex \notin Nat \X Nat

IsSeq(s) == s \in Seq(Range(s))

(* What a set is once its bytes have been read: vectors, unsigned numbers
   and pairs of them, whatever their values. *)
IsSource(source) ==
    /\ IsSeq(source.additional) /\ IsSeq(source.ring)
    /\ {source.position, source.real, source.amount, source.mask} \subseteq Nat
    /\ \A j \in DOMAIN source.ring : source.ring[j].global \in Nat

IsDestination(d) ==
    /\ d = [owner |-> d.owner, index |-> d.index, amount |-> d.amount, sub |-> d.sub]
    /\ d.amount \in Nat /\ d.sub \in BOOLEAN

ASSUME SetAssumption ==
    \A s \in Sets :
        /\ IsSeq(s.txes) /\ IsSeq(s.transfers)
        /\ \A i \in DOMAIN s.transfers : s.transfers[i].index \in Nat \X Nat
        /\ \A tx \in Range(s.txes) :
              /\ IsSeq(tx.sources) /\ IsSeq(tx.dests)
              /\ \A source \in Range(tx.sources) : IsSource(source)
              /\ \A d \in Range(tx.dests) : IsDestination(d)

VARIABLES
    pc,      \* the section about to run
    set,     \* the unsigned set
    ins,     \* inputs of the current transaction, in key image order
    dests,   \* its destinations, shuffled
    txKey,   \* its transaction public key
    nonce,   \* its extra nonce as it will be written
    outputs, \* its outputs
    signed,  \* the transactions signed so far
    images,  \* the <<output key, key image>> pairs of the reply
    outcome  \* "pending", "signed" or "refused"

work == <<ins, dests, txKey, nonce, outputs>>
vars == <<pc, set, work, signed, images, outcome>>

-----------------------------------------------------------------------------
(* The subaddress table.  It is taken as the function of the key that it is
   proved to be (KeyImages_proofs, RefinesEager). *)

Window == (0 .. Lookahead[1] - 1) \X (0 .. Lookahead[2] - 1)

Listed == {set.transfers[i].index : i \in DOMAIN set.transfers}

Reachable == {Primary} \cup Listed \cup Window

(* Mutant: the indices listed in the set are not in the table. *)
LookupUnlisted(spend) ==
    IF \E i \in {Primary} \cup Window : SpendPublic(Account, i) = spend
    THEN CHOOSE i \in {Primary} \cup Window : SpendPublic(Account, i) = spend
    ELSE NoIndex

Lookup(spend) ==
    IF \E i \in Reachable : SpendPublic(Account, i) = spend
    THEN CHOOSE i \in Reachable : SpendPublic(Account, i) = spend
    ELSE NoIndex

-----------------------------------------------------------------------------
(* Destinations *)

Spend(d) == SpendPublic(d.owner, d.index)

View(d) == AddressView(d.owner, d.index)

IsSubaddress(d) == d.sub

OnCurve(d) == d.owner # NoPoint

SameAddress(d, e) == Spend(d) = Spend(e) /\ View(d) = View(e)

Number == Len(signed) + 1

Tx == set.txes[Number]

IsChange(d) == SameAddress(d, Tx.change)

Address(d) == [owner |-> d.owner, index |-> d.index]

(* The destinations that are counted: of each address paid the first, whose
   flag is the one that counts, and none of the change. *)
Payees ==
    {i \in DOMAIN dests :
        ~IsChange(dests[i]) /\ \A j \in 1 .. i - 1 : ~SameAddress(dests[j], dests[i])}

Standard == {i \in Payees : ~IsSubaddress(dests[i])}

Subaddresses == {i \in Payees : IsSubaddress(dests[i])}

(* Mutant: several subaddresses share the one transaction key. *)
NeedAdditionalMixedOnly == Subaddresses # {} /\ Standard # {}

NeedAdditional ==
    Subaddresses # {} /\ (Standard # {} \/ Cardinality(Subaddresses) > 1)

(* destination_view_key: the one payee of a non-zero amount, the change when
   there is none, nobody when there are several. *)
NoncePayee ==
    LET paid == {Address(d) : d \in {e \in Range(dests) : e.amount # 0 /\ ~IsChange(e)}}
    IN  IF paid = {} THEN Address(Tx.change)
        ELSE IF Cardinality(paid) = 1 THEN CHOOSE d \in paid : TRUE
        ELSE None

-----------------------------------------------------------------------------
(* Inputs *)

Real(source) == source.ring[source.real + 1]

(* The output keys the sets spend, and the order of their images: images of
   different keys differ. *)
RealKeys ==
    (UNION {UNION {{Real(source).key : source \in {r \in Range(tx.sources) : r.real < Len(r.ring)}} :
                      tx \in Range(s.txes)} : s \in Sets}) \ {InvalidKey}

ASSUME RankAssumption ==
    \A k, l \in RealKeys :
        ImageRank[k] \in Nat /\ (ImageRank[k] = ImageRank[l] => k = l)

(* spent_key: the derivations from which a spend key of the table is left. *)
SpentMatches(source) ==
    {d \in {Derivation(ViewSecret(Account), key) :
              key \in Range(Candidates(source.txKey, source.additional, source.position))
                      \ {NotAPoint}} :
        Lookup(SpendCandidate(Real(source).key, d, source.position)) # NoIndex}

SpentSecret(source) ==
    LET d == CHOOSE e \in SpentMatches(source) : TRUE
    IN  OneTimeSecret(Account, d, source.position,
                      Lookup(SpendCandidate(Real(source).key, d, source.position)))

Recoverable(source) ==
    /\ Real(source).key # InvalidKey
    /\ SpentMatches(source) # {}
    /\ PublicOf(SpentSecret(source)) = Real(source).key

Signer(source) == source.real % ByteLimit

(* A commitment that decompresses to no point. *)
NoCommitment == <<>>

IsMember(member) == member.key # InvalidKey /\ member.commitment # NoCommitment

(* Mutant: the amount of the source is taken on trust. *)
RingUsableUnopened(source) ==
    /\ \A j \in DOMAIN source.ring : IsMember(source.ring[j])
    /\ \A j \in 1 .. Len(source.ring) - 1 :
          source.ring[j].global <= source.ring[j + 1].global
    /\ Len(source.ring) < ByteLimit
    /\ source.mask < ScalarLimit

(* The ring is sorted, of points, short enough for its positions to fit in a
   byte, and opens at the one kept with a mask that is a scalar. *)
RingUsable(source) ==
    /\ \A j \in DOMAIN source.ring : IsMember(source.ring[j])
    /\ \A j \in 1 .. Len(source.ring) - 1 :
          source.ring[j].global <= source.ring[j + 1].global
    /\ Len(source.ring) < ByteLimit
    /\ source.mask < ScalarLimit
    /\ source.ring[Signer(source) + 1].commitment = <<source.mask, source.amount>>

Input(source) ==
    [image |-> KeyImageOf(SpentSecret(source), Real(source).key),
     secret |-> SpentSecret(source),
     ring |-> source.ring,
     signer |-> Signer(source)]

Descending(s) ==
    \A i, j \in DOMAIN s : i < j => ImageRank[s[i].image.base] >= ImageRank[s[j].image.base]

Arrangements(sources) ==
    {[i \in DOMAIN sources |-> Input(sources[p[i]])] :
        p \in Bijection(DOMAIN sources, DOMAIN sources)}

(* Mutant: the key images are sorted, the rings and secrets are not. *)
SortedImagesOnly(sources) ==
    LET s == CHOOSE t \in Arrangements(sources) : Descending(t)
    IN  [i \in DOMAIN sources |-> [Input(sources[i]) EXCEPT !.image = s[i].image]]

SortedInputs(sources) == CHOOSE s \in Arrangements(sources) : Descending(s)

-----------------------------------------------------------------------------
(* Outputs *)

OutputDerivation(i) ==
    LET d == dests[i]
    IN  IF IsChange(d) THEN Derivation(ViewSecret(Account), txKey)
        ELSE IF IsSubaddress(d) /\ NeedAdditional
             THEN Derivation(AdditionalSecret(Number, i - 1), View(d))
             ELSE Derivation(TxSecret(Number), View(d))

(* Mutant: the position is left out of the one-time key. *)
OutputUnindexed(i) ==
    LET der == OutputDerivation(i)
    IN  [key |-> OneTimePublic(der, 0, Spend(dests[i])),
         tag |-> <<der, 0>>,
         amount |-> [under |-> <<der, 0>>, value |-> dests[i].amount]]

Output(i) ==
    LET der == OutputDerivation(i)
    IN  [key |-> OneTimePublic(der, i - 1, Spend(dests[i])),
         tag |-> <<der, i - 1>>,
         amount |-> [under |-> <<der, i - 1>>, value |-> dests[i].amount]]

AdditionalKeys ==
    IF NeedAdditional
    THEN [i \in DOMAIN dests |->
            IF IsSubaddress(dests[i])
            THEN SubaddressKey(AdditionalSecret(Number, i - 1), Spend(dests[i]))
            ELSE StandardKey(AdditionalSecret(Number, i - 1))]
    ELSE <<>>

(* Mutant: change is taken to come back to the primary address. *)
ChangeImagesPrimary ==
    LET secret(i) == OneTimeSecret(Account, OutputDerivation(i), i - 1, Primary)
    IN  {<<PublicOf(secret(i)), KeyImageOf(secret(i), PublicOf(secret(i)))>> :
            i \in {j \in DOMAIN dests : IsChange(dests[j])}}

(* The key image of each change output, when the table knows the change
   address; nothing when it does not. *)
ChangeImages ==
    LET index == Lookup(Spend(Tx.change))
        secret(i) == OneTimeSecret(Account, OutputDerivation(i), i - 1, index)
    IN  IF index = NoIndex THEN {}
        ELSE {<<PublicOf(secret(i)), KeyImageOf(secret(i), PublicOf(secret(i)))>> :
                 i \in {j \in DOMAIN dests : IsChange(dests[j])}}

(* Sums of amounts wrap, as unchecked additions of a release build do. *)
Total(s) == SumFunction([i \in DOMAIN s |-> s[i].amount]) % AmountLimit

-----------------------------------------------------------------------------
(* The transfers of the set, through keyimage::one_time_key *)

TransferError ==
    \E i \in DOMAIN set.transfers : OneTimeKeyError(set.transfers[i]) # "None"

TransferImages ==
    {<<set.transfers[i].pubkey, SignKeyImage(set.transfers[i]).image>> :
        i \in DOMAIN set.transfers}

-----------------------------------------------------------------------------

Init ==
    /\ pc = "open"
    /\ set \in Sets
    /\ ins = <<>> /\ dests = <<>> /\ txKey = BasePoint /\ nonce = None /\ outputs = <<>>
    /\ signed = <<>>
    /\ images = {}
    /\ outcome = "pending"

Refuse ==
    /\ pc' = "done"
    /\ outcome' = "refused"
    /\ UNCHANGED <<set, work, signed, images>>

(* UnsignedTxSet::parse: the wrapper, the layout, and a real member in every
   ring.  The account is known by its view key alone. *)

Readable ==
    /\ set.magic = "Monero unsigned tx set"
    /\ Decrypt(set) = "None"
    /\ set.layout = "known"
    /\ \A n \in DOMAIN set.txes :
          \A source \in Range(set.txes[n].sources) : source.real < Len(source.ring)

Open ==
    /\ pc = "open"
    /\ Readable
    /\ pc' = "inputs"
    /\ UNCHANGED <<set, work, signed, images, outcome>>

RefuseSet == pc = "open" /\ ~Readable /\ Refuse

HasTx == Number <= Len(set.txes)

(* 1. inputs *)

Acceptable ==
    /\ Tx.supported
    /\ Tx.sources # <<>>
    /\ \A i \in DOMAIN Tx.sources : Recoverable(Tx.sources[i]) /\ RingUsable(Tx.sources[i])

RecoverInputs ==
    /\ pc = "inputs" /\ HasTx
    /\ Acceptable
    /\ ins' = SortedInputs(Tx.sources)
    /\ pc' = "shuffle"
    /\ UNCHANGED <<set, dests, txKey, nonce, outputs, signed, images, outcome>>

RefuseInputs == pc = "inputs" /\ HasTx /\ ~Acceptable /\ Refuse

(* 2. destinations: any permutation *)

Shuffle ==
    /\ pc = "shuffle"
    /\ \E p \in Bijection(DOMAIN Tx.dests, DOMAIN Tx.dests) :
          dests' = [i \in DOMAIN Tx.dests |-> Tx.dests[p[i]]]
    /\ pc' = "keys"
    /\ UNCHANGED <<set, ins, txKey, nonce, outputs, signed, images, outcome>>

(* 3. transaction keys: r*D when one subaddress is the only payee *)

OneSubaddress == Standard = {} /\ Cardinality(Subaddresses) = 1

KeysError == OneSubaddress /\ \E s \in Subaddresses : ~OnCurve(dests[s])

DrawKeys ==
    /\ pc = "keys"
    /\ ~KeysError
    /\ txKey' = IF OneSubaddress
                THEN SubaddressKey(TxSecret(Number), Spend(dests[CHOOSE s \in Subaddresses : TRUE]))
                ELSE StandardKey(TxSecret(Number))
    /\ pc' = "extra"
    /\ UNCHANGED <<set, ins, dests, nonce, outputs, signed, images, outcome>>

RefuseKeys == pc = "keys" /\ KeysError /\ Refuse

(* 4. tx_extra: encrypt the short payment id, or a dummy one when there are
   at most two outputs *)

(* Mutant: the payment id is encrypted for the change address. *)
EncryptedForChange(id) == [id |-> id, under |-> Derivation(TxSecret(Number), View(Tx.change))]

Encrypted(id) == [id |-> id, under |-> Derivation(TxSecret(Number), View(NoncePayee))]

HasReader == NoncePayee # None /\ OnCurve(NoncePayee)

NonceError ==
    Tx.nonce = "unreadable" \/ (Tx.nonce = "short" /\ ~HasReader)

BuildExtra ==
    /\ pc = "extra"
    /\ ~NonceError
    /\ nonce' = IF Tx.nonce = "short" THEN Encrypted("payment id")
                ELSE IF Tx.nonce = "long" THEN "long"
                ELSE IF Len(dests) <= 2 /\ HasReader THEN Encrypted("zero")
                ELSE None
    /\ pc' = "outputs"
    /\ UNCHANGED <<set, ins, dests, txKey, outputs, signed, images, outcome>>

RefuseExtra == pc = "extra" /\ NonceError /\ Refuse

(* 5. outputs, and the key images of our own change *)

MakeOutputs ==
    /\ pc = "outputs"
    /\ \A d \in Range(dests) : OnCurve(d)
    /\ outputs' = [i \in DOMAIN dests |-> Output(i)]
    /\ images' = images \cup ChangeImages
    /\ pc' = "seal"
    /\ UNCHANGED <<set, ins, dests, txKey, nonce, signed, outcome>>

RefuseOutputs == pc = "outputs" /\ (\E d \in Range(dests) : ~OnCurve(d)) /\ Refuse

(* 6. and 7. the fee is what the inputs leave; range proof and CLSAGs *)

Balanced ==
    /\ Total(dests) <= Total(Tx.sources)
    /\ Len(dests) \in 1 .. MaxOutputs

Seal ==
    /\ pc = "seal"
    /\ Balanced
    /\ signed' = Append(signed,
          [inputs |-> ins, outputs |-> outputs, txKey |-> txKey,
           additional |-> AdditionalKeys, nonce |-> nonce,
           fee |-> Total(Tx.sources) - Total(dests)])
    /\ pc' = "inputs"
    /\ UNCHANGED <<set, work, images, outcome>>

RefuseSeal == pc = "seal" /\ ~Balanced /\ Refuse

(* The reply, once every transaction is signed *)

Reply ==
    /\ pc = "inputs" /\ ~HasTx
    /\ ~TransferError
    /\ images' = images \cup TransferImages
    /\ outcome' = "signed"
    /\ pc' = "done"
    /\ UNCHANGED <<set, work, signed>>

RefuseTransfer == pc = "inputs" /\ ~HasTx /\ TransferError /\ Refuse

Next ==
    \/ Open \/ RefuseSet
    \/ RecoverInputs \/ RefuseInputs
    \/ Shuffle
    \/ DrawKeys \/ RefuseKeys
    \/ BuildExtra \/ RefuseExtra
    \/ MakeOutputs \/ RefuseOutputs
    \/ Seal \/ RefuseSeal
    \/ Reply \/ RefuseTransfer

Spec == Init /\ [][Next]_vars

-----------------------------------------------------------------------------
(* Properties *)

(* What the owner of an address finds when scanning position p of a signed
   transaction, with the transaction key or the additional key of p. *)
Received(tx, p, d) ==
    \E key \in Range(Candidates(tx.txKey, tx.additional, p - 1)) :
        LET der == Derivation(ViewSecret(d.owner), key)
        IN  /\ SpendCandidate(tx.outputs[p].key, der, p - 1) = Spend(d)
            /\ tx.outputs[p].tag = <<der, p - 1>>
            /\ tx.outputs[p].amount = [under |-> <<der, p - 1>>, value |-> d.amount]

(* What the set says of an address, wherever it names it, is so. *)
Truthful(tx, d) ==
    \A e \in Range(tx.dests) : SameAddress(e, d) => (e.sub <=> e.index # Primary)

(* construct_and_sign: every destination of the request, whatever mix of
   standard addresses, subaddresses and change it sits in and wherever the
   shuffle put it, is found and can be spent by its owner for its amount,
   and nothing else is paid.  What is said of the kind of other addresses
   takes nothing from it; change is found whatever is said of its own.  A
   change address that is not ours (the dummy wallet2 adds when there is no
   change) is readable by nobody. *)
RecipientsReceive ==
    \A n \in DOMAIN signed :
        LET tx == set.txes[n]
            asked == tx.dests
            mine(d) == IF SameAddress(d, tx.change) THEN d.owner = Account ELSE Truthful(tx, d)
        IN  /\ Len(signed[n].outputs) = Len(asked)
            /\ \A d \in Range(asked) :
                  mine(d) => Cardinality({p \in DOMAIN signed[n].outputs : Received(signed[n], p, d)})
                                = Cardinality({i \in DOMAIN asked :
                                     SameAddress(asked[i], d) /\ asked[i].amount = d.amount})

(* No two outputs of a signed set share a one-time key, so no two can end up
   with one key image, of which the chain would accept only one spend. *)
OutputKeysDistinct ==
    \A m, n \in DOMAIN signed :
        \A p \in DOMAIN signed[m].outputs, q \in DOMAIN signed[n].outputs :
            signed[m].outputs[p].key = signed[n].outputs[q].key => m = n /\ p = q

(* The sort by key image, the rings, the signer positions and the secrets
   stay aligned: inputs are in the descending order the network demands,
   each is signed with the secret of its ring's real member, and together
   they spend exactly the requested sources. *)
InputsAligned ==
    \A n \in DOMAIN signed :
        LET inputs == signed[n].inputs
            member(i) == inputs[i].ring[inputs[i].signer + 1]
        IN  /\ \A i, j \in DOMAIN inputs :
                  i < j => ImageRank[inputs[i].image.base] > ImageRank[inputs[j].image.base]
            /\ \A i \in DOMAIN inputs :
                  /\ PublicOf(inputs[i].secret) = member(i).key
                  /\ inputs[i].image = TrueImage(member(i).key)
            /\ {member(i).key : i \in DOMAIN inputs} = {Real(s).key : s \in Range(set.txes[n].sources)}
            /\ Len(inputs) = Len(set.txes[n].sources)

(* destination_address: the payment id of an integrated address is left out. *)
DestinationAddress(d) ==
    IF OnCurve(d)
    THEN [kind |-> IF IsSubaddress(d) THEN "subaddress" ELSE "legacy", spend |-> Spend(d), view |-> View(d)]
    ELSE None

(* None is what no address is. *)
ASSUME NoneAssumption ==
    \A s \in Sets : \A tx \in Range(s.txes) : \A d \in Range(tx.dests) \cup {tx.change} :
        None # Address(d) /\ (OnCurve(d) => None # DestinationAddress(d))

(* summarize, what the screen shows before signing; the subtraction
   saturates where signing refuses. *)
Summary(tx) ==
    LET change == {i \in DOMAIN tx.dests : SameAddress(tx.dests[i], tx.change)}
        in == Total(tx.sources)
        out == Total(tx.dests)
    IN  [fee |-> IF in < out THEN 0 ELSE in - out,
         change |-> SumFunction([i \in change |-> tx.dests[i].amount]) % AmountLimit,
         payments |-> [i \in DOMAIN tx.dests \ change |->
                          [to |-> DestinationAddress(tx.dests[i]), amount |-> tx.dests[i].amount]]]

(* The fee, the change and the payments shown are those of the transaction
   signed, and the amounts the rings commit to cover its outputs and its fee:
   exactly when the sums fit the width of an amount, up to that width when
   they wrap. *)
ShownIsSigned ==
    \A n \in DOMAIN signed :
        LET tx == signed[n]
            back == {p \in DOMAIN tx.outputs : tx.outputs[p].key.spend = Spend(set.txes[n].change)}
            value(p) == tx.outputs[p].amount.value
            committed(i) == tx.inputs[i].ring[tx.inputs[i].signer + 1].commitment[2]
            shown == Summary(set.txes[n]).payments
        IN  /\ tx.fee = Summary(set.txes[n]).fee
            /\ SumFunction([p \in back |-> value(p)]) % AmountLimit = Summary(set.txes[n]).change
            /\ \A payment \in Range(shown) :
                  /\ payment.to # None
                  /\ Cardinality({p \in DOMAIN tx.outputs \ back :
                        tx.outputs[p].key.spend = payment.to.spend /\ value(p) = payment.amount})
                     = Cardinality({i \in DOMAIN shown :
                           shown[i].to.spend = payment.to.spend /\ shown[i].amount = payment.amount})
            /\ LET spent == SumFunction([i \in DOMAIN tx.inputs |-> committed(i)])
                   paid == SumFunction([p \in DOMAIN tx.outputs |-> value(p)])
               IN  /\ spent % AmountLimit = (paid + tx.fee) % AmountLimit
                   /\ spent < AmountLimit /\ paid < AmountLimit => spent = paid + tx.fee

(* tx_key_images: every image in the reply is the one its output will be
   spent with, every exported transfer has one, and so has every change
   output at an address of the table. *)
ReplyImagesTrue ==
    /\ \A pair \in images : pair[2] = TrueImage(pair[1])
    /\ outcome = "signed" =>
          /\ \A i \in DOMAIN set.transfers :
                \E pair \in images : pair[1] = set.transfers[i].pubkey
          /\ \A n \in DOMAIN signed :
                LET change == set.txes[n].change
                IN  change.owner = Account /\ change.index \in Reachable =>
                        \A p \in DOMAIN signed[n].outputs :
                            signed[n].outputs[p].key.spend = Spend(change) =>
                                \E pair \in images : pair[1] = signed[n].outputs[p].key

(* A short payment id can be read by whom it was meant for: the payee
   decrypts it with its view key and the transaction key in the extra. *)
PaymentIdReadable ==
    \A n \in DOMAIN signed :
        set.txes[n].nonce = "short" =>
            /\ signed[n].nonce.id = "payment id"
            /\ \A d \in Range(set.txes[n].dests) :
                  d.amount # 0 /\ ~SameAddress(d, set.txes[n].change) /\ Truthful(set.txes[n], d) =>
                      signed[n].nonce.under = Derivation(ViewSecret(d.owner), signed[n].txKey)

(* What the hot wallet has to get right for a transaction to be signed. *)
OwnedSource(s) ==
    /\ Real(s).key # InvalidKey
    /\ \E key \in Range(Candidates(s.txKey, s.additional, s.position)) \ {NotAPoint}, i \in Reachable :
          Real(s).key = OneTimePublic(Derivation(ViewSecret(Account), key), s.position,
                                      SpendPublic(Account, i))

Signable(tx) ==
    LET paid == {d \in Range(tx.dests) : d.amount # 0 /\ ~SameAddress(d, tx.change)}
    IN  /\ tx.supported
        /\ tx.sources # <<>>
        /\ \A s \in Range(tx.sources) :
              /\ OwnedSource(s)
              /\ Len(s.ring) < ByteLimit
              /\ s.mask < ScalarLimit /\ Real(s).commitment = <<s.mask, s.amount>>
              /\ \A j \in DOMAIN s.ring : IsMember(s.ring[j])
              /\ \A j, k \in DOMAIN s.ring : j < k => s.ring[j].global <= s.ring[k].global
        /\ tx.nonce # "unreadable"
        /\ tx.nonce = "short" =>
              /\ \A d, e \in paid : SameAddress(d, e)
              /\ paid = {} => OnCurve(tx.change)
        /\ \A d \in Range(tx.dests) : OnCurve(d)
        /\ Len(tx.dests) \in 1 .. MaxOutputs
        /\ Total(tx.dests) <= Total(tx.sources)

(* A set that can be read is signed if and only if every transaction of it spends outputs
   the account owns at known addresses, within its means and in the
   supported form, and every transfer is the account's: one transaction
   that is not spoils the whole set, none that is is refused, and none is
   left out of the reply. *)
SignsExactlySignable ==
    pc = "done" =>
        /\ outcome = "signed" <=>
              /\ Readable
              /\ \A n \in DOMAIN set.txes : Signable(set.txes[n])
              /\ \A i \in DOMAIN set.transfers : OneTimeKeyError(set.transfers[i]) = "None"
        /\ outcome = "signed" => Len(signed) = Len(set.txes)

(* FORMATS.md, section 6, point 5: key images for outputs the new transaction
   sends back to us (change) go into tx_key_images. *)
ChangeImagesReturned ==
    outcome = "signed" =>
        \A n \in DOMAIN signed :
            set.txes[n].change.owner = Account =>
                \A p \in DOMAIN signed[n].outputs :
                    signed[n].outputs[p].key.spend = Spend(set.txes[n].change) =>
                        \E pair \in images : pair[1] = signed[n].outputs[p].key
=============================================================================
