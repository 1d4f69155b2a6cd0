------------------------------- MODULE TxExtra -------------------------------
(***************************************************************************)
(* Section 4 of construct_and_sign at the level of bytes: parse_extra      *)
(* reads the fields the hot wallet put into tx_extra, the signer replaces  *)
(* the keys and the payment id among them, write_extra writes them sorted  *)
(* by tag.  ColdSign has what this means for the payees; here the question *)
(* is whether the fields survive and can be read back.                     *)
(***************************************************************************)
EXTENDS Archive

CONSTANTS
    KeyLen, IdLen, HashLen,  \* 32, 8 and 32 bytes
    Extras,                  \* what the hot wallet may have put there
    TxKey, IdPad,            \* txkey_pub, payment_id_xor: bytes
    AdditionalKeys,          \* the lists additional_pubs is made of
    XorBytes(_, _)           \* of two bytes

ASSUME LengthAssumption ==
    /\ KeyLen \in Nat \ {0} /\ IdLen \in Nat /\ HashLen \in Nat
    /\ ByteSize > 5 /\ 1 + IdLen < WordSize

(* A list of keys is shorter than a word can count. *)
ASSUME BytesAssumption ==
    /\ Extras \subseteq Seq(Byte)
    /\ TxKey \in Seq(Byte) /\ Len(TxKey) = KeyLen
    /\ IdPad \in Seq(Byte) /\ Len(IdPad) = IdLen
    /\ \A keys \in AdditionalKeys :
          /\ keys \in Seq(Range(keys)) /\ Len(keys) < WordSize
          /\ \A key \in Range(keys) : key \in Seq(Byte) /\ Len(key) = KeyLen
    /\ \A a, b \in Byte : XorBytes(a, b) \in Byte

VARIABLES
    pc,         \* "parse", "nonce", "write", "done" or "refused"
    extra,      \* the hot wallet's bytes
    pos,        \* how far they are parsed
    fields,     \* the fields so far, [tag, body]
    manyDests,  \* whether there are more than two outputs
    reader,     \* whether one address can read the payment id
    additional, \* the additional keys, none unless they are needed
    out         \* the bytes written

request == <<extra, manyDests, reader, additional>>
vars == <<pc, pos, fields, out, request>>

Padding == 0
Key == 1
Nonce == 2
MergeMining == 3
Additional == 4
MinerGate == ByteSize - 1 \* 0xde

-----------------------------------------------------------------------------

(* One turn of parse_extra. *)
Body(tag, r) ==
    CASE tag = Padding -> Bytes(r, Remaining(r))
      [] tag = Key -> Bytes(r, KeyLen)
      [] tag \in {Nonce, MergeMining, MinerGate} -> Counted(r, 1)
      [] tag = Additional -> Counted(r, KeyLen)
      [] OTHER -> [status |-> "unknown field", value |-> 0, pos |-> r.pos]

(* The tag is there: parse_extra goes on only while something remains. *)
ReadField(data, at) ==
    LET body == Body(data[at + 1], [data |-> data, pos |-> at + 1])
    IN  Then(body, LAMBDA bytes : [tag |-> data[at + 1], body |-> bytes])

(* Mutant: the additional keys are counted in bytes. *)
WriteFieldInBytes(f) ==
    <<f.tag>> \o (IF f.tag \in {Padding, Key} THEN <<>> ELSE WriteVarint(Len(f.body))) \o f.body

(* What stands between the tag and the body. *)
Counter(f) ==
    CASE f.tag \in {Padding, Key} -> <<>>
      [] f.tag = Additional -> WriteVarint(Len(f.body) \div KeyLen)
      [] OTHER -> WriteVarint(Len(f.body))

WriteField(f) == <<f.tag>> \o Counter(f) \o f.body

OfTags(fs, tags) ==
    FlattenSeq([i \in DOMAIN fs |-> IF fs[i].tag \in tags THEN <<fs[i]>> ELSE <<>>])

Tagged(fs, tag) == OfTags(fs, {tag})

(* Mutant: the fields are put in a map, which keeps one for each tag. *)
SortedUnique(fs) ==
    FlattenSeq([t \in 1 .. ByteSize |->
        IF Tagged(fs, t - 1) = <<>> THEN <<>> ELSE <<Last(Tagged(fs, t - 1))>>])

(* sort_by_key is stable. *)
Sorted(fs) == FlattenSeq([t \in 1 .. ByteSize |-> Tagged(fs, t - 1)])

WriteExtra(fs) == FlattenSeq([i \in DOMAIN Sorted(fs) |-> WriteField(Sorted(fs)[i])])

-----------------------------------------------------------------------------

Init ==
    /\ pc = "parse"
    /\ extra \in Extras
    /\ pos = 0
    /\ fields = <<>>
    /\ manyDests \in BOOLEAN /\ reader \in BOOLEAN
    /\ additional \in AdditionalKeys
    /\ out = <<>>

Refuse == pc' = "refused" /\ UNCHANGED out

Field == ReadField(extra, pos)

ParseField ==
    /\ pc = "parse" /\ pos < Len(extra)
    /\ Field.status = "ok"
    /\ fields' = Append(fields, Field.value)
    /\ pos' = Field.pos
    /\ UNCHANGED <<pc, out, request>>

ParseFails ==
    /\ pc = "parse" /\ pos < Len(extra)
    /\ Field.status # "ok"
    /\ Refuse
    /\ UNCHANGED <<pos, fields, request>>

(* The hot wallet's own keys are dropped. *)
ParseDone ==
    /\ pc = "parse" /\ pos = Len(extra)
    /\ fields' = OfTags(fields, Byte \ {Key, Additional})
    /\ pc' = "nonce"
    /\ UNCHANGED <<pos, out, request>>

IsShortId(nonce) == Len(nonce) = 1 + IdLen /\ nonce[1] = 1

IsLongId(nonce) == Len(nonce) = 1 + HashLen /\ nonce[1] = 0

Nonces == {i \in DOMAIN fields : fields[i].tag = Nonce}

FirstNonce == CHOOSE i \in Nonces : \A j \in Nonces : i <= j

HasShortId == Nonces # {} /\ IsShortId(fields[FirstNonce].body)

HasLongId == Nonces # {} /\ IsLongId(fields[FirstNonce].body)

Blinded(id) == [i \in 1 .. IdLen |-> XorBytes(id[i], IdPad[i])]

EncryptId ==
    /\ pc = "nonce" /\ HasShortId /\ reader
    /\ fields' = [fields EXCEPT ![FirstNonce].body = <<1>> \o Blinded(Tail(@))]
    /\ pc' = "write"
    /\ UNCHANGED <<pos, out, request>>

RefuseId ==
    /\ pc = "nonce" /\ HasShortId /\ ~reader
    /\ Refuse
    /\ UNCHANGED <<pos, fields, request>>

AddDummy == ~HasShortId /\ ~HasLongId /\ ~manyDests /\ reader

KeepNonce ==
    /\ pc = "nonce" /\ ~HasShortId
    /\ fields' = IF AddDummy THEN Append(fields, [tag |-> Nonce, body |-> <<1>> \o IdPad])
                             ELSE fields
    /\ pc' = "write"
    /\ UNCHANGED <<pos, out, request>>

KeyFields ==
    <<[tag |-> Key, body |-> TxKey]>>
    \o IF additional = <<>> THEN <<>>
       ELSE <<[tag |-> Additional, body |-> FlattenSeq(additional)]>>

Write ==
    /\ pc = "write"
    /\ fields' = fields \o KeyFields
    /\ out' = WriteExtra(fields')
    /\ pc' = "done"
    /\ UNCHANGED <<pos, request>>

Next ==
    \/ ParseField \/ ParseFails \/ ParseDone
    \/ EncryptId \/ RefuseId \/ KeepNonce
    \/ Write

Spec == Init /\ [][Next]_vars

-----------------------------------------------------------------------------
(* Properties *)

(* What a reader of the bytes finds, up to where it can read on. *)
Parsed(data) ==
    LET From[at \in 0 .. Len(data)] ==
            IF at = Len(data) \/ ReadField(data, at).status # "ok" THEN <<>>
            ELSE LET f == ReadField(data, at) IN <<f.value>> \o From[f.pos]
    IN  From[0]

(* The hot wallet put no padding there. *)
Unpadded == Tagged(fields, Padding) = <<>>

(* Whoever scans the transaction finds the transaction key and the additional
   keys in its extra, each once and whole, and not the hot wallet's; without
   them an output is lost to its payee.  Padding from the hot wallet breaks
   this: sorted by tag it comes first, and what follows it is taken for it. *)
KeysReadable ==
    pc = "done" /\ Unpadded =>
        \A found \in {Parsed(out)} :
            /\ Tagged(found, Key) = <<[tag |-> Key, body |-> TxKey]>>
            /\ Tagged(found, Additional) = Tagged(KeyFields, Additional)

(* "keep the hot wallet's fields": fields that are neither keys nor the
   payment id are there as they were, as often and in the same order, and
   all that was written can be read. *)
FieldsKept ==
    pc = "done" /\ Unpadded =>
        \A given \in {Parsed(extra)}, found \in {Parsed(out)} :
            /\ \A tag \in {MergeMining, MinerGate} : Tagged(found, tag) = Tagged(given, tag)
            /\ DOMAIN Tagged(given, Nonce) \subseteq DOMAIN Tagged(found, Nonce)
            /\ \A i \in DOMAIN Tagged(given, Nonce) :
                  \/ Tagged(found, Nonce)[i] = Tagged(given, Nonce)[i]
                  \/ i = 1 /\ IsShortId(Tagged(given, Nonce)[1].body)
            /\ WriteExtra(found) = out
=============================================================================
