------------------------------- MODULE Archive -------------------------------
(***************************************************************************)
(* archive.rs: the reader and writer of monero's binary archive.           *)
(*                                                                         *)
(* A byte is a number of DigitBits + 1 bits whose top bit says that a      *)
(* varint goes on (7 + 1 in the code); a word has WordBits (64).  A reader *)
(* is a record [data, pos]; each of its methods returns the record         *)
(* [status, value, pos], where status is "ok" or the error.                *)
(***************************************************************************)
EXTENDS Integers, Sequences, SequencesExt

CONSTANTS DigitBits, WordBits

ASSUME WidthAssumption == DigitBits \in Nat \ {0} /\ WordBits \in Nat \ {0}

Two[n \in Nat] == IF n = 0 THEN 1 ELSE 2 * Two[n - 1]

More == Two[DigitBits]

ByteSize == 2 * More

Byte == 0 .. ByteSize - 1

WordSize == Two[WordBits]

-----------------------------------------------------------------------------
(* Reader *)

Remaining(r) == Len(r.data) - r.pos

Then(read, Value(_)) ==
    IF read.status = "ok" THEN [read EXCEPT !.value = Value(@)] ELSE read

Bytes(r, n) ==
    IF Remaining(r) < n
    THEN [status |-> "end of data", value |-> 0, pos |-> r.pos]
    ELSE [status |-> "ok", value |-> SubSeq(r.data, r.pos + 1, r.pos + n), pos |-> r.pos + n]

U8(r) == Then(Bytes(r, 1), LAMBDA bytes : bytes[1])

Bool(r) == Then(U8(r), LAMBDA byte : byte # 0)

(* u32_le and u64_le, of n bytes. *)
FixedLE(r, n) ==
    Then(Bytes(r, n),
         LAMBDA bytes : FoldRight(LAMBDA byte, high : byte + ByteSize * high, bytes, 0))

(* Mutant: a digit must fit as a whole. *)
NoRoomForAll(shift) == shift + DigitBits > WordBits

NoRoom(shift) == shift >= WordBits

(* The loop of varint ends at the first byte that does not say that it goes
   on, or that has no room in the word.  The shift drops the bits that do not
   fit. *)
Varint(r) ==
    LET Shift(i) == (i - r.pos - 1) * DigitBits
        stops == {i \in r.pos + 1 .. Len(r.data) : r.data[i] < More \/ NoRoom(Shift(i))}
        stop == CHOOSE i \in stops : \A j \in stops : i <= j
    IN  IF stops = {} THEN [status |-> "end of data", value |-> 0, pos |-> Len(r.data)]
        ELSE IF NoRoom(Shift(stop)) THEN [status |-> "varint too long", value |-> 0, pos |-> stop]
        ELSE [status |-> "ok", pos |-> stop,
              value |-> FoldRight(LAMBDA byte, high : (byte % More) + More * high,
                                  SubSeq(r.data, r.pos + 1, stop), 0) % WordSize]

Count(r) ==
    LET n == Varint(r)
    IN  [n EXCEPT !.status =
            IF n.value > Len(r.data) - n.pos /\ @ = "ok" THEN "count exceeds data" ELSE @]

(* count, then as many bytes. *)
Counted(r, size) ==
    LET n == Count(r)
    IN  IF n.status = "ok" THEN Bytes([r EXCEPT !.pos = n.pos], n.value * size) ELSE n

-----------------------------------------------------------------------------
(* Writer *)

WriteVarint(value) ==
    LET Digits[v \in 0 .. WordSize - 1] ==
            IF v >= More THEN <<(v % More) + More>> \o Digits[v \div More] ELSE <<v>>
    IN  Digits[value]

WriteFixedLE(value, n) == [i \in 1 .. n |-> (value \div ByteSize ^ (i - 1)) % ByteSize]

WriteBool(value) == IF value THEN <<1>> ELSE <<0>>
=============================================================================
