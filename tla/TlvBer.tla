------------------------------- MODULE TlvBer -------------------------------
(***************************************************************************)
(* lib/shared/tlv: the encoder and the parser of tag-length-value objects  *)
(* (TlvBer) and the integers in them (TlvSerialize).                       *)
(*                                                                         *)
(* An object is the record of its tag, the sequence of its bytes, and of   *)
(* its value, bytes if it is primitive and objects if it is constructed.   *)
(***************************************************************************)
EXTENDS Integers, SequencesExt

\* The lowest bytes of a number, the most significant first.
GetBytesBigEndianFromBitMap(value, desiredLength) ==
    [i \in 1..desiredLength |-> (value \div 256 ^ (desiredLength - i)) % 256]
\* The number of the bytes, of which eight or more are read as 0.
ReadSizeTFromBytesBigEndian(bytes) ==
    IF Len(bytes) >= 8 THEN 0
    ELSE LET number[i \in 0..Len(bytes)] ==
                 IF i = 0 THEN 0 ELSE number[i - 1] * 256 + bytes[i]
         IN  number[Len(bytes)]

---------------------------------------------------------------------------
Primitive(tag, value) == [tag |-> tag, value |-> value, values |-> << >>]
Constructed(tag, values) == [tag |-> tag, value |-> << >>, values |-> values]

\* Whether a tag's first byte announces objects for a value.
TypeConstructed(byte) == (byte \div 32) % 2 = 1
IsConstructed(tlv) == TypeConstructed(tlv.tag[1])

LengthFormShortMax == 127
\* Lengths of three bytes are as long as they get here.
GetLengthEncoding(length) ==
    LET numBytes == CHOOSE n \in 1..3 : 256 ^ (n - 1) <= length /\ length < 256 ^ n
    IN  IF length <= LengthFormShortMax THEN <<length>>
        ELSE <<128 + numBytes>> \o GetBytesBigEndianFromBitMap(length, numBytes)

Encoded(tag, value) == tag \o GetLengthEncoding(Len(value)) \o value
\* An object, when it is known how the objects in it are written.
BytesAround(tlv, Inner(_)) ==
    Encoded(tlv.tag, IF IsConstructed(tlv)
                     THEN FlattenSeq([i \in DOMAIN tlv.values |-> Inner(tlv.values[i])])
                     ELSE tlv.value)
\* No object here has more than two objects around it.
ToBytes(tlv) ==
    LET innermost(t) == Encoded(t.tag, t.value)
        inner(t) == BytesAround(t, innermost)
    IN  BytesAround(tlv, inner)

---------------------------------------------------------------------------
(* Parsing.  A result is the object and the number of bytes it took.       *)

Failed == [succeeded |-> FALSE, bytesParsed |-> 0, tlv |-> << >>]
Succeeded(bytesParsed, tlv) ==
    [succeeded |-> TRUE, bytesParsed |-> bytesParsed, tlv |-> tlv]
\* A result behind the first n bytes.
Behind(n, result) == Succeeded(n + result.bytesParsed, result.tlv)
\* What is left of the data behind its first n bytes.
Subspan(data, n) == SubSeq(data, n + 1, Len(data))

TagValueLongField == 31
\* The bytes of the tag that the data begin with, 0 if it is not one.
ParseTag(data) ==
    IF data = << >> THEN 0
    ELSE IF data[1] % 32 # TagValueLongField THEN 1
    ELSE IF Len(data) < 2 \/ data[2] < 31 THEN 0
    ELSE IF data[2] < 128 THEN 2
    ELSE IF Len(data) < 3 \/ data[3] >= 128 THEN 0
    ELSE 3

MaxNumOctetsInLengthEncoding == 5
\* The bytes of the length, 0 if it is not one, and the length.
ParseLength(data) ==
    LET following == IF data # << >> /\ data[1] > LengthFormShortMax THEN data[1] - 128 ELSE 0
    IN  IF \/ data = << >>
           \/ following >= MaxNumOctetsInLengthEncoding
           \/ Len(data) < 1 + following
        THEN [bytes |-> 0, length |-> 0]
        ELSE [bytes |-> 1 + following,
              length |-> IF data[1] <= LengthFormShortMax THEN data[1]
                         ELSE ReadSizeTFromBytesBigEndian(SubSeq(data, 2, 1 + following))]

ParsePrimitiveValue(tag, length, data) ==
    IF Len(data) < length THEN Failed
    ELSE Succeeded(length, Primitive(tag, SubSeq(data, 1, length)))

\* An object at the beginning of the data, when the objects are known that take
\* the first n of the last k bytes, objects[k][n].  (Objects that are to take more
\* than there is run into the end of the data.)
ParseFirst(data, objects) ==
    LET tagBytes == ParseTag(data)
        length == ParseLength(Subspan(data, tagBytes))
        header == tagBytes + length.bytes
        value == Subspan(data, header)
        tag == SubSeq(data, 1, tagBytes)
        parsed == IF TypeConstructed(tag[1])
                  THEN LET inner == objects[Len(value)][length.length] IN
                       IF inner.succeeded
                       THEN Succeeded(length.length, Constructed(tag, inner.tlv)) ELSE Failed
                  ELSE ParsePrimitiveValue(tag, length.length, value)
    IN  IF \/ tagBytes = 0 \/ length.bytes = 0
           \/ Len(value) < length.length
           \/ ~parsed.succeeded
        THEN Failed
        ELSE Behind(header, parsed)

\* Objects one after the other, until they have taken the first n of the last k
\* bytes exactly, when those are known that take the first of fewer than k.
ParseObjects(data, objects, k, n) ==
    LET first == ParseFirst(Subspan(data, Len(data) - k), objects)
        rest == objects[k - first.bytesParsed][n - first.bytesParsed]
    IN  IF n = 0 THEN Succeeded(0, << >>)
        ELSE IF ~first.succeeded \/ first.bytesParsed \notin 1..n THEN Failed
        ELSE IF ~rest.succeeded THEN Failed
        ELSE Succeeded(n, <<first.tlv>> \o rest.tlv)
\* The ones that take the first n of the last k bytes, for all n and k.
ParseConstructedValue(data) ==
    LET objects[k \in 0..Len(data)] == [n \in 0..k |-> ParseObjects(data, objects, k, n)]
    IN  objects
Parse(data) == ParseFirst(data, ParseConstructedValue(data))
=============================================================================
