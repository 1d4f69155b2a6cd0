------------------------------ MODULE MCTxExtra ------------------------------
(***************************************************************************)
(* Keys of two bytes, ids of one and hashes of two.  The extras are every  *)
(* string of up to four bytes and every sequence of up to three fields.    *)
(***************************************************************************)
EXTENDS TxExtra, Bitwise

FieldOf(tag, body) == [tag |-> tag, body |-> body]

MCFields ==
    {FieldOf(Key, <<6, 1>>), FieldOf(Additional, <<6, 2, 6, 3>>),
     FieldOf(Nonce, <<1, 6>>), FieldOf(Nonce, <<0, 1, 2>>), FieldOf(Nonce, <<5>>),
     FieldOf(MergeMining, <<4, 0>>), FieldOf(MergeMining, <<2, 1, 0, 2>>),
     FieldOf(MinerGate, <<>>)}

AllBytes == UNION {[1 .. n -> Byte] : n \in 0 .. 4}

AllFields ==
    {FlattenSeq([i \in DOMAIN fs |-> WriteField(fs[i])]) :
        fs \in UNION {[1 .. n -> MCFields] : n \in 2 .. 3}}

MCExtras == AllBytes \cup AllFields

MCTxKey == <<3, 7>>

MCIdPad == <<5>>

MCXorBytes(a, b) == a ^^ b

MCAdditionalKeys == {<<>>, << <<7, 0>>, <<1, 4>> >>}
=============================================================================
