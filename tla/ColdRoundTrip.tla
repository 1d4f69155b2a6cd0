--------------------------- MODULE ColdRoundTrip ---------------------------
(***************************************************************************)
(* The whole exchange of README.md: a view-only hot wallet and the signer, *)
(* which share nothing but payloads.  A payload is a file or a sequence of *)
(* QR frames; once made it can be shown late, more than once, out of order *)
(* or never.  The signer keeps nothing between two payloads and can lose   *)
(* power while it works on one.                                            *)
(*                                                                         *)
(* The signer's answers are those of the services proved or checked for    *)
(* its two halves (KeyImages, ColdSign).  The hot wallet and the chain are *)
(* not part of the repository: they are modelled as far as the signer's    *)
(* documents and scripts rely on them.                                     *)
(***************************************************************************)
EXTENDS OneTimeKeys, FiniteSets, Functions

CONSTANTS
    MaxIncoming, \* payments others make to the account
    MaxRequests, \* payments the owner asks for
    MaxSignings, \* signed sets the device makes
    None, Idle

ASSUME BoundAssumption ==
    MaxIncoming \in Nat /\ MaxRequests \in Nat /\ MaxSignings \in Nat

VARIABLES
    transfers,  \* hot: the outputs it has seen, in chain order
    keyImages,  \* hot: the key image it holds for each of them, or None
    coldImages, \* hot: <<output key, image>> pairs from signed sets
    spentSeen,  \* hot: positions of the transfers it has marked spent
    requests,   \* hot: the positions each unsigned set spends
    payloads,   \* every payload made so far
    device,     \* the payload the device works on, Idle when it is off
    signings,   \* how many signed sets were made
    chain       \* the mined transactions

hot == <<transfers, keyImages, coldImages, spentSeen, requests>>
vars == <<hot, payloads, device, signings, chain>>

-----------------------------------------------------------------------------
(* Outputs: a payment by somebody else, and the change of a signed set.
   Every signing draws a transaction key of its own. *)

Received(tx) ==
    [pubkey |-> SentTo(TxSecret(tx), ViewKey(Account), 0, SpendPublic(Account, Primary)),
     txKey |-> StandardKey(TxSecret(tx)), additional |-> <<>>,
     position |-> 0, index |-> Primary]

Incoming(n) == Received(<<"incoming", n>>)

Change(signing) == Received(<<"signing", signing>>)

ASSUME NoneAssumption ==
    /\ \A n \in 1 .. MaxIncoming : TrueImage(Incoming(n).pubkey) # None
    /\ \A s \in 1 .. MaxSignings : TrueImage(Change(s).pubkey) # None

(* construct_and_sign derives the change from its own view key and the
   transaction key. *)
ChangeSecret(signing) ==
    OneTimeSecret(Account, Derivation(ViewSecret(Account), Change(signing).txKey), 0, Primary)

SpentImages == UNION {t.images : t \in chain}

-----------------------------------------------------------------------------
(* The chain and the hot wallet *)

IncomingCount ==
    Cardinality({i \in DOMAIN transfers : \E n \in 1 .. MaxIncoming : transfers[i] = Incoming(n)})

(* A new transfer has a key image already if a signed set brought it. *)
Arrives(out) ==
    /\ transfers' = Append(transfers, out)
    /\ keyImages' = Append(keyImages,
          IF \E pair \in coldImages : pair[1] = out.pubkey
          THEN (CHOOSE pair \in coldImages : pair[1] = out.pubkey)[2]
          ELSE None)
    /\ UNCHANGED <<coldImages, spentSeen, requests, payloads, device, signings, chain>>

ReceivePayment ==
    /\ IncomingCount < MaxIncoming
    /\ Arrives(Incoming(IncomingCount + 1))

ReceiveChange ==
    \E t \in chain :
        /\ Change(t.signing) \notin Range(transfers)
        /\ Arrives(Change(t.signing))

(* export_outputs, all = false: everything from the first transfer whose key
   image is unknown. *)
Unknown == {i \in DOMAIN transfers : keyImages[i] = None}

Offset ==
    IF Unknown = {} THEN Len(transfers)
    ELSE (CHOOSE i \in Unknown : \A j \in Unknown : i <= j) - 1

CurrentExport ==
    [kind |-> "outputs", offset |-> Offset,
     outputs |-> SubSeq(transfers, Offset + 1, Len(transfers))]

ExportOutputs ==
    /\ Unknown # {}
    /\ payloads' = payloads \cup {CurrentExport}
    /\ UNCHANGED <<hot, device, signings, chain>>

(* import_key_images: every record must verify against the transfer at its
   position, or none is taken. *)
Imports(p) ==
    /\ p.offset + Len(p.images) <= Len(transfers)
    /\ \A i \in DOMAIN p.images :
          LET key == transfers[p.offset + i].pubkey
          IN  CheckRingSignature(p.images[i].image, key, p.images[i].image, p.images[i].signature)

ImportKeyImages(p) ==
    /\ p.kind = "images"
    /\ Imports(p)
    /\ keyImages' = [i \in DOMAIN keyImages |->
                        IF i - p.offset \in DOMAIN p.images
                        THEN p.images[i - p.offset].image ELSE keyImages[i]]
    /\ UNCHANGED <<transfers, coldImages, spentSeen, requests, payloads, device, signings, chain>>

(* A payment: inputs with known key images, not marked spent.  They are not
   marked now: a second request made before the first is broadcast can take
   the same ones. *)
CreateUnsigned ==
    /\ Len(requests) < MaxRequests
    /\ \E inputs \in (SUBSET (DOMAIN transfers \ (Unknown \cup spentSeen))) \ {{}} :
          /\ requests' = Append(requests, inputs)
          /\ payloads' = payloads \cup
                {[kind |-> "unsigned", request |-> Len(requests) + 1,
                  inputs |-> {transfers[i] : i \in inputs},
                  transfers |-> Range(CurrentExport.outputs)]}
    /\ UNCHANGED <<transfers, keyImages, coldImages, spentSeen, device, signings, chain>>

(* The signed set is loaded, its images kept, and the transaction sent; the
   network takes it unless one of its key images is spent already. *)
Broadcast(p) ==
    /\ p.kind = "signed"
    /\ p.images \cap SpentImages = {}
    /\ chain' = chain \cup {[request |-> p.request, signing |-> p.signing, images |-> p.images]}
    /\ coldImages' = coldImages \cup p.pairs
    /\ spentSeen' = spentSeen \cup requests[p.request]
    /\ UNCHANGED <<transfers, keyImages, requests, payloads, device, signings>>

DoubleSpend(p) ==
    /\ p.kind = "signed"
    /\ p.images \cap SpentImages # {}
    /\ coldImages' = coldImages \cup p.pairs
    /\ UNCHANGED <<transfers, keyImages, spentSeen, requests, payloads, device, signings, chain>>

-----------------------------------------------------------------------------
(* The device: main.rs, one run per payload *)

Scan(p) ==
    /\ device = Idle
    /\ p.kind = "outputs" \/ (p.kind = "unsigned" /\ signings < MaxSignings)
    /\ device' = p
    /\ UNCHANGED <<hot, payloads, signings, chain>>

PowerOff ==
    /\ device # Idle
    /\ device' = Idle
    /\ UNCHANGED <<hot, payloads, signings, chain>>

(* keyimages: one record for each output, in order, at the offset. *)
(* Mutants: the offset is not echoed; the last output gets no record. *)
KeyImageReplyFromZero(p) ==
    [kind |-> "images", offset |-> 0,
     images |-> [i \in DOMAIN p.outputs |-> SignKeyImage(p.outputs[i])]]

KeyImageReplyShort(p) ==
    [kind |-> "images", offset |-> p.offset,
     images |-> [i \in 1 .. Len(p.outputs) - 1 |-> SignKeyImage(p.outputs[i])]]

KeyImageReply(p) ==
    [kind |-> "images", offset |-> p.offset,
     images |-> [i \in DOMAIN p.outputs |-> SignKeyImage(p.outputs[i])]]

(* sign: the inputs' images; pairs for the change and for every transfer
   exported with the set. *)
(* Mutant: the images hash the key of the change. *)
InputImagesOfChange(p) ==
    {KeyImageOf(Secret(out), PublicOf(ChangeSecret(signings + 1))) : out \in p.inputs}

InputImages(p) == {SignKeyImage(out).image : out \in p.inputs}

(* Mutant: the hash is that of the key one output further. *)
ChangePairsWrongBase ==
    LET secret == ChangeSecret(signings + 1)
        next == [PublicOf(secret) EXCEPT !.position = @ + 1]
    IN  {<<PublicOf(secret), KeyImageOf(secret, next)>>}

ChangePairs ==
    LET secret == ChangeSecret(signings + 1)
    IN  {<<PublicOf(secret), KeyImageOf(secret, PublicOf(secret))>>}

(* Mutant: only the exported transfers get an image. *)
SignedReplyNoChange(p) ==
    [kind |-> "signed", request |-> p.request, signing |-> signings + 1,
     images |-> InputImages(p),
     pairs |-> {<<out.pubkey, SignKeyImage(out).image>> : out \in p.transfers}]

SignedReply(p) ==
    [kind |-> "signed", request |-> p.request, signing |-> signings + 1,
     images |-> InputImages(p),
     pairs |-> ChangePairs \cup {<<out.pubkey, SignKeyImage(out).image>> : out \in p.transfers}]

FinishKeyImages ==
    /\ device # Idle
    /\ device.kind = "outputs"
    /\ payloads' = payloads \cup {KeyImageReply(device)}
    /\ device' = Idle
    /\ UNCHANGED <<hot, signings, chain>>

FinishSign ==
    /\ device # Idle
    /\ device.kind = "unsigned"
    /\ payloads' = payloads \cup {SignedReply(device)}
    /\ signings' = signings + 1
    /\ device' = Idle
    /\ UNCHANGED <<hot, chain>>

-----------------------------------------------------------------------------

Init ==
    /\ transfers = <<>> /\ keyImages = <<>> /\ coldImages = {}
    /\ spentSeen = {} /\ requests = <<>>
    /\ payloads = {}
    /\ device = Idle
    /\ signings = 0
    /\ chain = {}

Next ==
    \/ ReceivePayment \/ ReceiveChange
    \/ ExportOutputs \/ CreateUnsigned
    \/ PowerOff \/ FinishKeyImages \/ FinishSign
    \/ \E p \in payloads : Scan(p) \/ ImportKeyImages(p) \/ Broadcast(p) \/ DoubleSpend(p)

Spec == Init /\ [][Next]_vars

(* An owner who keeps retrying: exports again while images are missing, puts
   the device to work on the newest export again and again, does not cut its
   power every time, and imports the newest reply.  No single attempt is
   assumed to succeed. *)
ScanNewest == CurrentExport \in payloads /\ Unknown # {} /\ Scan(CurrentExport)

FinishNewest == device = CurrentExport /\ FinishKeyImages

ImportNewest ==
    \E p \in payloads :
        /\ p.kind = "images"
        /\ p.offset <= Offset
        /\ p.offset + Len(p.images) = Len(transfers)
        /\ Unknown # {}
        /\ ImportKeyImages(p)

Fairness ==
    /\ WF_vars(ExportOutputs)
    /\ SF_vars(ScanNewest)
    /\ SF_vars(FinishNewest)
    /\ WF_vars(FinishKeyImages \/ FinishSign \/ PowerOff)
    /\ WF_vars(ImportNewest)

FairSpec == Spec /\ Fairness

-----------------------------------------------------------------------------
(* Properties *)

(* A key image the hot wallet holds for a transfer is the one that transfer
   is spent with, though the images of change are taken without a signature
   to check: a wrong one would show a spent output as unspent for ever. *)
KeyImagesTrue ==
    \A i \in DOMAIN transfers :
        keyImages[i] # None => keyImages[i] = TrueImage(transfers[i].pubkey)

(* A key image reply can be imported whenever it is shown, after any other
   replies and newer transfers: the echoed offset keeps its records on the
   transfers they were made for. *)
RepliesImport ==
    \A p \in payloads : p.kind = "images" => Imports(p)

(* The change of a broadcast transaction arrives with its key image known,
   so spending it needs no second key image exchange. *)
ChangeKnownOnArrival ==
    \A i \in DOMAIN transfers :
        (\E s \in 1 .. MaxSignings : transfers[i] = Change(s)) => keyImages[i] # None

(* Whatever is shown how often, each requested payment is made at most once
   and spends what was requested. *)
Abstract == INSTANCE Ledger
    WITH received <- Range(transfers) \cup {Change(t.signing) : t \in chain},
         spent <- {out \in Range(transfers) : TrueImage(out.pubkey) \in SpentImages},
         requests <- [n \in DOMAIN requests |-> {transfers[i] : i \in requests[n]}],
         paid <- {t.request : t \in chain}

ImplementsLedger == Abstract!Spec

(* An owner who keeps trying gets every key image in the end, in spite of
   power cuts and stale payloads. *)
SyncCompletes == <>[](Unknown = {})
=============================================================================
