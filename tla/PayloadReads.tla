---------------------------- MODULE PayloadReads ----------------------------
(***************************************************************************)
(* outputs.rs and txset.rs: what OutputsExport::parse and                  *)
(* UnsignedTxSet::parse_plain read of a decrypted payload, field by field, *)
(* and the parts of it that sign.rs puts into its reply as they were.      *)
(*                                                                         *)
(* A form is the sequence of things that are read for a struct.  The       *)
(* payload that a wallet wrote is a sequence of fields [kind, value, part, *)
(* tx]; it may come cut short or altered.                                  *)
(***************************************************************************)
EXTENDS Archive

CONSTANTS
    KeyLen,        \* bytes of a key, 32
    KlrkiLen,      \* bytes of the multisig part of a source, 128
    LongLen, ShortLen, \* bytes of a u64_le and of a u32_le
    IndexBits,     \* bits of a subaddress index, 32
    Account,       \* the public keys of the account: <<spend, view>>
    Payloads,      \* what wallets write: [form, fields]
    Damaged(_)     \* what may come of some bytes

ASSUME LengthAssumption == {KeyLen, KlrkiLen, LongLen, ShortLen, IndexBits} \subseteq Nat \ {0}

VARIABLES
    payload,      \* what was written
    sent, data,   \* its bytes, and those that came
    pos,          \* Reader.pos
    todo,         \* what is still to be read
    read,         \* <<value, bytes taken>> of each field so far
    ring, real,   \* of the source that is read: ring.len(), real_output
    echoes,       \* raw, raw_change, raw_selected_transfers, raw_dests
    outcome       \* "reading", "whole", or the error

vars == <<payload, sent, data, pos, todo, read, ring, real, echoes, outcome>>

-----------------------------------------------------------------------------
(* The forms *)

Key == <<"bytes", KeyLen>>
Number == <<"varint">>
Index == <<"index">>
Long == <<"fixed", LongLen>>
Flag == <<"bool">>
Is(n) == <<"is", n>>
Many(form) == <<"many", form>>
Slice(form) == <<"slice", form>>

OutputForm ==
    <<<<"at least", 1>>, Key, Number, Number, Key, <<"byte">>, Number, Many("key"), Index, Index>>

ExportForm == <<Key, Key, <<"account">>, Is(3), Number, Number, Many("output")>>

DestinationForm == <<<<"blob">>, Number, Key, Key, Flag, Flag>>

RingForm == <<Is(2), Number, Key, Key>>

SourceForm ==
    <<Many("ring"), <<"real", LongLen>>, Key, Many("key"), Long, Long, Flag, Key,
      <<"bytes", KlrkiLen>>, <<"in ring">>>>

TxForm ==
    <<Many("source"), Slice("destination"), Many("destination"),
      Slice("transfers"), <<"blob">>, Long, <<"byte">>, Is(0), Number, Number,
      Slice("destinations"), <<"fixed", ShortLen>>, Many("index")>>

UnsignedForm == <<Is(2), Many("rawTx"), Is(3), Number, Number, Many("output")>>

Form ==
    [key |-> <<Key>>, number |-> <<Number>>, index |-> <<Index>>,
     output |-> OutputForm, export |-> ExportForm,
     destination |-> DestinationForm, destinations |-> <<Many("destination")>>,
     transfers |-> <<Many("number")>>, ring |-> RingForm, source |-> SourceForm,
     tx |-> TxForm, rawTx |-> <<Slice("tx")>>, unsigned |-> UnsignedForm]

-----------------------------------------------------------------------------
(* What the wallet writes *)

WriteField(f) ==
    CASE f.kind \in {"varint", "index"} -> WriteVarint(f.value)
      [] f.kind = "long"   -> WriteFixedLE(f.value, LongLen)
      [] f.kind = "short"  -> WriteFixedLE(f.value, ShortLen)
      [] f.kind = "byte"   -> <<f.value>>
      [] f.kind = "bool"   -> WriteBool(f.value)
      [] f.kind = "bytes"  -> f.value
      [] f.kind = "blob"   -> WriteVarint(Len(f.value)) \o f.value

Written(fields) == FlattenSeq([i \in DOMAIN fields |-> WriteField(fields[i])])

-----------------------------------------------------------------------------
(* The reader *)

Init ==
    /\ payload \in Payloads
    /\ sent = Written(payload.fields)
    /\ data \in Damaged(sent)
    /\ pos = 0
    /\ todo = Form[payload.form]
    /\ read = <<>> /\ echoes = <<>>
    /\ ring = 0 /\ real = 0
    /\ outcome = "reading"

Now == Head(todo)

Must(r, Holds(_)) ==
    IF r.status = "ok" /\ ~Holds(r.value) THEN [r EXCEPT !.status = "malformed"] ELSE r

Reads == {"varint", "index", "is", "at least", "bytes", "byte", "bool", "fixed", "real", "blob", "many"}

ReadNow ==
    LET r == [data |-> data, pos |-> pos]
        kind == Now[1]
    IN  CASE kind = "varint"   -> Varint(r)
          [] kind = "index"    -> Then(Varint(r), LAMBDA v : v % 2 ^ IndexBits)
          [] kind = "is"       -> Must(Varint(r), LAMBDA v : v = Now[2])
          [] kind = "at least" -> Must(Varint(r), LAMBDA v : v >= Now[2])
          [] kind = "bytes"    -> Bytes(r, Now[2])
          [] kind = "byte"     -> U8(r)
          [] kind = "bool"     -> Bool(r)
          [] kind \in {"fixed", "real"} -> FixedLE(r, Now[2])
          [] kind = "blob"     -> Counted(r, 1)
          [] kind = "many"     -> Count(r)

(* A count announces that many elements. *)
Announced(n) ==
    IF Now[1] # "many" THEN <<>>
    ELSE LET form == Form[Now[2]]
         IN  [k \in 1 .. n * Len(form) |-> form[((k - 1) % Len(form)) + 1]]

Going == outcome = "reading" /\ todo # <<>>

FieldRead ==
    /\ Going /\ Now[1] \in Reads
    /\ \E r \in {ReadNow} :
          /\ r.status = "ok"
          /\ read' = Append(read, <<r.value, r.pos - pos>>)
          /\ pos' = r.pos
          /\ todo' = Announced(r.value) \o Tail(todo)
          /\ ring' = IF Now[1] = "many" /\ Now[2] = "ring" THEN r.value ELSE ring
          /\ real' = IF Now[1] = "real" THEN r.value ELSE real
    /\ UNCHANGED <<payload, sent, data, echoes, outcome>>

FieldRefused ==
    /\ Going /\ Now[1] \in Reads
    /\ ReadNow.status # "ok"
    /\ outcome' = ReadNow.status
    /\ UNCHANGED <<payload, sent, data, pos, todo, read, ring, real, echoes>>

(* The two checks that concern several fields. *)
Agrees ==
    CASE Now[1] = "account" -> <<read[1][1], read[2][1]>> = Account
      [] Now[1] = "in ring" -> real < ring

Checked ==
    /\ Going /\ Now[1] \in {"account", "in ring"}
    /\ IF Agrees THEN todo' = Tail(todo) /\ UNCHANGED outcome
                 ELSE outcome' = Now[1] /\ UNCHANGED todo
    /\ UNCHANGED <<payload, sent, data, pos, read, ring, real, echoes>>

SliceBegins ==
    /\ Going /\ Now[1] = "slice"
    /\ todo' = Form[Now[2]] \o << <<"echo", pos>> >> \o Tail(todo)
    /\ UNCHANGED <<payload, sent, data, pos, read, ring, real, echoes, outcome>>

(* Mutant: the slice is left open. *)
SliceLeftOpen ==
    /\ Going /\ Now[1] = "echo"
    /\ echoes' = Append(echoes, SubSeq(data, Now[2] + 1, Len(data)))
    /\ todo' = Tail(todo)
    /\ UNCHANGED <<payload, sent, data, pos, read, ring, real, outcome>>

SliceEnds ==
    /\ Going /\ Now[1] = "echo"
    /\ echoes' = Append(echoes, SubSeq(data, Now[2] + 1, pos))
    /\ todo' = Tail(todo)
    /\ UNCHANGED <<payload, sent, data, pos, read, ring, real, outcome>>

PayloadRead ==
    /\ outcome = "reading" /\ todo = <<>>
    /\ outcome' = IF Remaining([data |-> data, pos |-> pos]) = 0 THEN "whole" ELSE "trailing bytes"
    /\ UNCHANGED <<payload, sent, data, pos, todo, read, ring, real, echoes>>

Next ==
    \/ FieldRead \/ FieldRefused \/ Checked
    \/ SliceBegins \/ SliceEnds
    \/ PayloadRead

Spec == Init /\ [][Next]_vars

-----------------------------------------------------------------------------
(* Properties *)

Genuine == IsPrefix(data, sent)

(* A subaddress index too wide for its type is cut (outputs.rs:60). *)
Value(f) == IF f.kind = "index" THEN f.value % 2 ^ IndexBits ELSE f.value

(* Field by field the reader finds what the wallet wrote, whatever the widths
   of the numbers and however many inputs, ring members, payees and transfers
   there are; a whole payload is taken, and one that comes short or with
   something after it is not.  Altered data does not take it past its end. *)
ReadsBack ==
    /\ pos \in 0 .. Len(data)
    /\ Genuine => /\ Len(read) <= Len(payload.fields)
                  /\ \A i \in DOMAIN read : read[i][1] = Value(payload.fields[i])
    /\ data = sent => outcome \in {"reading", "whole"}
    /\ outcome = "whole" /\ (Genuine \/ IsStrictPrefix(sent, data)) => data = sent

(* What the signed reply repeats of each transaction, for the hot wallet to
   read as its own: its change, its selected transfers, its payees and all of
   it, each from its first byte to its last. *)
EchoVerbatim ==
    LET Of(tx, part) ==
            Written(SelectSeq(payload.fields,
                              LAMBDA f : f.tx = tx /\ (part = "tx" \/ f.part = part)))
        Parts == <<"change", "selected", "dests", "tx">>
        Txs == Len(echoes) \div Len(Parts)
    IN  data = sent /\ outcome = "whole" =>
            /\ \A f \in Range(payload.fields) : f.tx <= Txs
            /\ echoes = [i \in 1 .. Txs * Len(Parts) |->
                            Of(((i - 1) \div Len(Parts)) + 1, Parts[((i - 1) % Len(Parts)) + 1])]
=============================================================================
