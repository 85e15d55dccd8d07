------------------------------- MODULE Codec -------------------------------
(***************************************************************************)
(* QuantizeCodec (src/rfsn_kv/codecs/quantize.py): the bytes of a page are *)
(* split into groups, and each byte becomes an index between the least and *)
(* the greatest byte of its group.  The stream of groups has no lengths:   *)
(* the decoder cuts it by the group size, and all but the last group are   *)
(* full.                                                                   *)
(*                                                                         *)
(* The code divides floating-point numbers and rounds ties to even; for    *)
(* bytes and both widths that gives what exact division gives.             *)
(***************************************************************************)
EXTENDS Integers, Sequences, SequencesExt

CONSTANTS
    Bytes,         \* the bytes pages are made of
    MaxLength,     \* bound on the length of a page
    GroupSizes     \* group_size of a codec

CodecAssumption ==
    /\ Bytes \subseteq 0..255
    /\ MaxLength \in Nat
    /\ GroupSizes \subseteq Nat \ {0, 1}

VARIABLES
    codec,         \* bit_width and group_size
    page           \* the data of the page to compress

vars == <<codec, page>>

Codecs == [width : {4, 8}, groupSize : GroupSizes]

TypeOK == codec \in Codecs /\ page \in Seq(Bytes) /\ Len(page) <= MaxLength

Init == codec \in Codecs /\ page = <<>>

\* Another byte of the page, or another page.
Next ==
    /\ \/ Len(page) < MaxLength /\ \E b \in Bytes : page' = Append(page, b)
       \/ page # <<>> /\ page' = <<>>
    /\ UNCHANGED codec

Spec == Init /\ [][Next]_vars

-----------------------------------------------------------------------------

Smaller(m, n) == IF m < n THEN m ELSE n
LeastOf(s) == CHOOSE b \in ToSet(s) : \A c \in ToSet(s) : b <= c
GreatestOf(s) == CHOOSE b \in ToSet(s) : \A c \in ToSet(s) : c <= b

\* round(n / d)
Rounded(n, d) ==
    LET q == n \div d
        twice == 2 * (n % d)
    IN IF twice < d \/ (twice = d /\ q % 2 = 0) THEN q ELSE q + 1

MaxIndex == IF codec.width = 4 THEN 15 ELSE 255

\* num_groups of a page of n bytes.
GroupCount(n) == (n + codec.groupSize - 1) \div codec.groupSize

\* _split_groups
Group(data, i) ==
    SubSeq(data, (i - 1) * codec.groupSize + 1, Smaller(i * codec.groupSize, Len(data)))

Mutant_Index_Floored(b, min, max) ==
    IF min = max THEN 0 ELSE ((b - min) * MaxIndex) \div (max - min)

Index(b, min, max) ==
    IF min = max THEN 0 ELSE Rounded((b - min) * MaxIndex, max - min)

\* _pack_4bit, or one byte for each index.
Packed(indices) ==
    IF codec.width = 8 THEN indices
    ELSE [i \in 1..((Len(indices) + 1) \div 2) |->
             16 * indices[2 * i - 1] + (IF 2 * i <= Len(indices) THEN indices[2 * i] ELSE 0)]

\* _unpack_4bit: at most n indices.
Unpacked(bytes, n) ==
    IF codec.width = 8 THEN bytes
    ELSE [i \in 1..Smaller(2 * Len(bytes), n) |->
             LET byte == bytes[(i + 1) \div 2] IN
             IF i % 2 = 1 THEN byte \div 16 ELSE byte % 16]

\* A group as compress writes it: its least and greatest byte, its indices.
Encoded(group) ==
    LET min == LeastOf(group)
        max == GreatestOf(group)
    IN <<min, max>> \o Packed([i \in DOMAIN group |-> Index(group[i], min, max)])

\* compress, after the header with the group size and the number of groups.
Compress(data) == FlattenSeq([i \in 1..GroupCount(Len(data)) |-> Encoded(Group(data, i))])

PackedLength(n) == IF codec.width = 8 THEN n ELSE (n + 1) \div 2

\* A group as decompress reads it.
Decoded(group) ==
    LET indices == Unpacked(SubSeq(group, 3, Len(group)), codec.groupSize) IN
    [i \in DOMAIN indices |-> group[1] + Rounded(indices[i] * (group[2] - group[1]), MaxIndex)]

\* decompress
Decompress(stream, count) ==
    LET size == 2 + PackedLength(codec.groupSize)
        Read(i) == SubSeq(stream, (i - 1) * size + 1, Smaller(i * size, Len(stream)))
    IN FlattenSeq([i \in 1..count |-> Decoded(Read(i))])

-----------------------------------------------------------------------------

\* What a page loses on the way through the codec, for every length against the
\* group size: nothing with 8 bits; with 4 bits a byte is off by half a step of
\* its group at most, rounded, and nothing is displaced.  The page comes back
\* one byte longer when the last group is short and odd, since the decoder takes
\* the padding of _pack_4bit for an index.
RoundTrip ==
    LET n == Len(page)
        out == Decompress(Compress(page), GroupCount(n))
        last == n % codec.groupSize
    IN
    /\ codec.width = 8 => out = page
    /\ codec.width = 4 =>
          /\ Len(out) = n + (last % 2)
          /\ \A i \in 1..n :
                LET group == Group(page, (i - 1) \div codec.groupSize + 1)
                    off == IF out[i] < page[i] THEN page[i] - out[i] ELSE out[i] - page[i]
                IN 30 * off <= GreatestOf(group) - LeastOf(group) + 15
=============================================================================
