------------------------------- MODULE Codec -------------------------------
(***************************************************************************)
(* src/src/codec.rs: the encoding of integers and strings in the payloads, *)
(* as operators on sequences of bytes.                                     *)
(*                                                                         *)
(* Bytes, tags and lengths are the code's own.  Only the widths of a u32   *)
(* and of a usize are constants, so that their arithmetic fits TLC's.      *)
(***************************************************************************)
EXTENDS Naturals, Sequences

CONSTANTS
    IntWidth,   \* bytes of a u32
    UsizeWidth  \* bytes of a usize

\* 4 and 8 in the code; a u32 always fits a usize.
ASSUME CodecAssumption == IntWidth \in 2..4 /\ UsizeWidth \in (IntWidth + 1)..8

Byte == 0..255
\* 256 to the power k.
Power[k \in 0..UsizeWidth] == IF k = 0 THEN 1 ELSE 256 * Power[k - 1]
UsizeMod == Power[UsizeWidth]

TAG_INT == 2
TAG_STRING_U8 == 85
TAG_STRING_U16 == 86
TAG_STRING_U32 == 87

\* The size of an element, by tag.
ElemSize == [tag \in {TAG_STRING_U8, TAG_STRING_U16, TAG_STRING_U32} |->
                CASE tag = TAG_STRING_U8 -> 1 [] tag = TAG_STRING_U16 -> 2
                  [] tag = TAG_STRING_U32 -> 4]

\* A decoded value: what as_int and as_bytes give, each none or one.
IntValue(n) == [as_int |-> {n}, as_bytes |-> {}]
BytesValue(b) == [as_int |-> {}, as_bytes |-> {b}]
The(set) == CHOOSE x \in set : TRUE

-----------------------------------------------------------------------------
(* Encoding. *)

\* Mutant: digits not cut to a byte.
BigEndianUncut(n, w) == [i \in 1..w |-> n \div Power[w - i]]

\* The last `w` bytes of to_be_bytes.
BigEndian(n, w) == [i \in 1..w |-> (n \div Power[w - i]) % 256]

PackInt(n, w) == <<TAG_INT, w>> \o BigEndian(n, w)
AsnInt(n) == PackInt(n, IntWidth)

\* The number of elements, in one byte or behind a count of bytes.
WidthOf(n) == CHOOSE w \in 1..UsizeWidth : Power[w - 1] <= n /\ n < Power[w]
LengthField(n) ==
    IF n < 128 THEN <<n>> ELSE <<128 + WidthOf(n)>> \o BigEndian(n, WidthOf(n))

\* A format is a sequence of these: B, H and L are FieldSpec("n", width, 0), s and S
\* are FieldSpec("s", element size, capacity in elements).
FieldSpec(kind, size, capacity) == [kind |-> kind, size |-> size, capacity |-> capacity]
S(capacity) == FieldSpec("s", 1, capacity)
B == FieldSpec("n", 1, 0)
H == FieldSpec("n", 2, 0)
L == FieldSpec("n", IntWidth, 0)

\* Mutant: the count is of elements, not of bytes.
PackStringInElements(value, spec) ==
    LET padding == spec.capacity * spec.size - Len(value)
    IN <<CHOOSE tag \in DOMAIN ElemSize : ElemSize[tag] = spec.size>>
       \o LengthField(Len(value) \div spec.size) \o AsnInt(spec.capacity) \o AsnInt(padding)
       \o value \o [i \in 1..padding |-> 0]

PackString(value, spec) ==
    LET count == spec.capacity * spec.size
        padding == count - Len(value)
    IN <<CHOOSE tag \in DOMAIN ElemSize : ElemSize[tag] = spec.size>>
       \o LengthField(Len(value) \div spec.size) \o AsnInt(count) \o AsnInt(padding)
       \o value \o [i \in 1..padding |-> 0]

\* What pack refuses: missing or superfluous arguments, arguments of the wrong
\* type, strings of broken elements or too long for their field.
Packable(fmt, args) ==
    /\ Len(fmt) = Len(args)
    /\ \A i \in DOMAIN fmt :
        \/ fmt[i].kind = "n" /\ args[i].as_int # {}
        \/ /\ fmt[i].kind = "s"
           /\ \E value \in args[i].as_bytes :
                /\ Len(value) % fmt[i].size = 0
                /\ Len(value) \div fmt[i].size <= fmt[i].capacity

PackField(spec, arg) ==
    IF spec.kind = "n" THEN PackInt(The(arg.as_int), spec.size)
    ELSE PackString(The(arg.as_bytes), spec)

Pack(fmt, args) ==
    LET out[i \in 0..Len(fmt)] ==
            IF i = 0 THEN <<>> ELSE out[i - 1] \o PackField(fmt[i], args[i])
    IN out[Len(fmt)]

-----------------------------------------------------------------------------
(* Decoding, from the position `p` behind the bytes already taken.           *)

Error == [ok |-> FALSE, value |-> IntValue(0), next |-> 0]
Taken(value, next) == [ok |-> TRUE, value |-> value, next |-> next]

\* The bytes of an integer put together, the first highest.
NumberBE(digits) ==
    LET value[i \in 0..Len(digits)] == IF i = 0 THEN 0 ELSE 256 * value[i - 1] + digits[i]
    IN value[Len(digits)]

\* take_asn_int.
IntAt(data, p) ==
    IF p + 2 <= Len(data) /\ data[p + 1] = TAG_INT /\ data[p + 2] \in 1..IntWidth
       /\ p + 2 + data[p + 2] <= Len(data)
    THEN LET next == p + 2 + data[p + 2]
         IN Taken(IntValue(NumberBE(SubSeq(data, p + 3, next))), next)
    ELSE Error

\* x | y, of bytes.
Or(x, y) ==
    LET New(bit) == IF (x \div bit) % 2 < (y \div bit) % 2 THEN bit ELSE 0
    IN x + New(1) + New(2) + New(4) + New(8) + New(16) + New(32) + New(64) + New(128)

\* The length bytes put together, the first lowest.  In a release build a shift
\* by more than a usize starts over from the lowest.
NumberLE(digits) ==
    LET value[j \in 0..Len(digits)] ==
            IF j = 0 THEN 0
            ELSE LET before == value[j - 1]
                     place == Power[(j - 1) % UsizeWidth]
                     there == (before \div place) % 256
                 IN before + (Or(there, digits[j]) - there) * place
    IN value[Len(digits)]

\* take_string up to the payload.  `width` is the number of length bytes, of
\* which the code keeps four bits, `bytes` the length before it is cut to a
\* usize.
HeaderAt(data, p) ==
    LET tagged == p + 2 <= Len(data) /\ data[p + 1] \in DOMAIN ElemSize
        long == tagged /\ data[p + 2] >= 128
        width == IF long THEN data[p + 2] % 16 ELSE 0
        p1 == p + 2 + width
        elements == IF long THEN NumberLE(SubSeq(data, p + 3, p1)) ELSE data[p + 2]
        count == IntAt(data, p1)
        padding == IntAt(data, count.next)
    IN [tagged |-> tagged,
        width |-> width,
        bytes |-> IF tagged /\ p1 <= Len(data) THEN elements * ElemSize[data[p + 1]] ELSE 0,
        ok |-> p1 <= Len(data) /\ count.ok /\ padding.ok,
        count |-> The(count.value.as_int), padding |-> The(padding.value.as_int),
        next |-> padding.next]

\* Where a debug build panics: at the shift, the product and the sum.
OverflowsAt(data, p) ==
    LET header == HeaderAt(data, p)
    IN /\ header.tagged
       /\ \/ header.width > UsizeWidth /\ p + 2 + UsizeWidth < Len(data)
          \/ header.bytes >= UsizeMod
          \/ /\ header.ok /\ header.count # 0
             /\ header.bytes + header.padding >= UsizeMod

\* Mutant: the padding is skipped without looking whether it is there.
StringAtUnbounded(data, p) ==
    LET header == HeaderAt(data, p)
        valid == header.bytes % UsizeMod
        end == header.next + valid
    IN IF /\ header.tagged /\ header.ok
          /\ header.count \in {0, (valid + header.padding) % UsizeMod}
          /\ end <= Len(data)
       THEN Taken(BytesValue(SubSeq(data, header.next + 1, end)), end + header.padding)
       ELSE Error

\* Mutant: the count is not compared.
StringAtAnyCount(data, p) ==
    LET header == HeaderAt(data, p)
        valid == header.bytes % UsizeMod
        end == header.next + valid + header.padding
    IN IF header.tagged /\ header.ok /\ end <= Len(data)
       THEN Taken(BytesValue(SubSeq(data, header.next + 1, header.next + valid)), end)
       ELSE Error

\* What take_string makes of the header, in a release build.
StringAt(data, p) ==
    LET header == HeaderAt(data, p)
        valid == header.bytes % UsizeMod
        end == header.next + valid + header.padding
    IN IF /\ header.tagged /\ header.ok
          /\ header.count \in {0, (valid + header.padding) % UsizeMod}
          /\ end <= Len(data)
       THEN Taken(BytesValue(SubSeq(data, header.next + 1, header.next + valid)), end)
       ELSE Error
=============================================================================
