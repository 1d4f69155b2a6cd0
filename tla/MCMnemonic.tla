------------------------------ MODULE MCMnemonic ------------------------------
(***************************************************************************)
(* Thirteen words and numbers of eleven bits: as with 1626 words and 32    *)
(* bits, three words have a little more values than a number.  Two groups. *)
(* The checksum is a sum with weights.                                     *)
(***************************************************************************)
EXTENDS Mnemonic, SequencesExt

MCChecksum(words) ==
    FoldLeftDomain(LAMBDA sum, i : sum + i * words[i] + words[i] \div 5, 7, words)

Corner == {0, 12, 13, 168, 169, 1000, 2035, 2047}

MCSeeds == {<<a, b>> : a \in Corner, b \in Numbers} \cup {<<a, b>> : a \in Numbers, b \in {1000}}

Word3 == [1 .. 3 -> {0, 1, 6, 11, 12}]

MCStrays ==
    {a \o <<3, 4, 8>> \o <<c>> : a \in Word3, c \in {0, 3, 4, 8, 11, 12, Unknown}}
    \cup {SubSeq(<<1, 2, 3, 4, 5, 6, 1, 2>>, 1, n) : n \in {0, 6, 8}}
=============================================================================
