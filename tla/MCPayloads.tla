------------------------------ MODULE MCPayloads ------------------------------
(***************************************************************************)
(* Bytes of 2 + 1 bits and words of 5, so that, as with 7 + 1 and 64, the  *)
(* last digit of the widest varint has room for one bit only.  Keys and    *)
(* long integers of two bytes, indexes of three bits.  Payloads of up to   *)
(* two of everything, with one number out of the ordinary, cut short       *)
(* anywhere, with a byte too many or with one byte changed.                *)
(***************************************************************************)
EXTENDS PayloadReads

MCAccount == << <<1, 2>>, <<3, 4>> >>

F(kind, value) == [kind |-> kind, value |-> value, part |-> "none", tx |-> 0]

N(value) == F("varint", value)

K(a, b) == F("bytes", <<a, b>>)

In(part, fields) == [i \in DOMAIN fields |-> [fields[i] EXCEPT !.part = part]]

Of(tx, fields) == [i \in DOMAIN fields |-> [fields[i] EXCEPT !.tx = tx]]

(* n elements after their count. *)
Listed(n, element) == <<N(n)>> \o FlattenSeq([i \in 1 .. n |-> element])

MCOutput(keys) ==
    <<N(1), K(5, 6), N(0), N(9), K(7, 0), F("byte", 5), N(12)>>
    \o Listed(keys, <<K(2, 5)>>) \o <<F("index", 1), F("index", 6)>>

MCExport(outputs, keys) ==
    <<K(1, 2), K(3, 4), N(3), N(0), N(outputs)>> \o Listed(outputs, MCOutput(keys))

MCDestination(original) ==
    <<F("blob", original), N(8), K(4, 4), K(0, 1), F("bool", TRUE), F("bool", FALSE)>>

MCSource(members, keys) ==
    Listed(members, <<N(2), N(17), K(6, 6), K(7, 7)>>)
    \o <<F("long", members - 1), K(1, 5)>> \o Listed(keys, <<K(3, 3)>>)
    \o <<F("long", 1), F("long", 40), F("bool", TRUE), K(2, 2), F("bytes", <<0, 7, 0>>)>>

MCTx(sources, payees, transfers, extra) ==
    Listed(sources, MCSource(sources, payees))
    \o In("change", MCDestination(<<>>))
    \o Listed(payees, MCDestination(<<7, 7>>))
    \o In("selected", Listed(transfers, <<N(5)>>))
    \o <<F("blob", extra), F("long", 0), F("byte", 3), N(0), N(4), N(4)>>
    \o In("dests", Listed(payees, MCDestination(<<7, 7>>)))
    \o <<F("short", 5)>> \o Listed(transfers, <<F("index", 2)>>)

MCUnsigned(txes, outputs) ==
    <<N(2), N(Len(txes))>> \o FlattenSeq([t \in DOMAIN txes |-> Of(t, txes[t])])
    \o <<N(3), N(2), N(4)>> \o Listed(outputs, MCOutput(1))

Wrapped(form, fieldses) == {[form |-> form, fields |-> fields] : fields \in fieldses}

MCWhole ==
    Wrapped("export", {MCExport(0, 0), MCExport(1, 1), MCExport(2, 0)})
    \cup Wrapped("unsigned",
           {MCUnsigned(<<>>, 0),
            MCUnsigned(<<MCTx(1, 1, 1, <<1, 2, 3>>)>>, 1),
            MCUnsigned(<<MCTx(1, 0, 0, <<>>), MCTx(2, 2, 2, <<7>>)>>, 0)})

(* The numbers that neither a count nor a check depends on. *)
Free(fields) ==
    {i \in DOMAIN fields :
        \/ fields[i].kind = "index"
        \/ fields[i].kind = "varint" /\ fields[i].value \in {17, 8, 9, 12, 5, 4}}

MCPayloads ==
    UNION {{p} \cup {[p EXCEPT !.fields[i].value = v] : i \in Free(p.fields), v \in {0, 3, 4, 15, 16, 31}} :
              p \in MCWhole}

MCDamaged(bytes) ==
    {bytes, Append(bytes, 0)}
    \cup (IF \E p \in MCWhole : Written(p.fields) = bytes
          THEN {SubSeq(bytes, 1, n) : n \in 0 .. Len(bytes)}
               \cup {[bytes EXCEPT ![i] = b] : i \in DOMAIN bytes, b \in {0, 1, 5}}
          ELSE {})
=============================================================================
