--------------------------- MODULE PayloadsProofs ---------------------------
(***************************************************************************)
(* Theorems about Payloads and Codec: the codec decodes what it encodes,   *)
(* for integers and lengths of any width, each message of the program fits *)
(* its format, and the decoders keep in step over any payload.             *)
(***************************************************************************)
EXTENDS Payloads, FiniteSetTheorems, WellFoundedInduction, SequenceTheorems, TLAPS

-----------------------------------------------------------------------------
(* Induction and recursion along an interval, over sets of numbers.         *)

\* In a set of numbers there is one that no relation without descent takes lower.
LEMMA Minimal ==
    ASSUME NEW R, IsWellFoundedOn(R, Nat), NEW A, A \subseteq Nat, A # {}
    PROVE  \E i \in A : \A j \in A : ~(<<j, i>> \in R)
BY WFMin, Zenon

\* A set of numbers has a least one.
LEMMA Least ==
    ASSUME NEW A, A \subseteq Nat, A # {}
    PROVE  \E i \in A : \A j \in A : i <= j
<1> DEFINE R == OpToRel(<, Nat)
<1>1. IsWellFoundedOn(R, Nat)
  BY NatLessThanWellFounded, Zenon
<1>2. \E i \in A : \A j \in A : ~(<<j, i>> \in R)
  <2> HIDE DEF R
  <2> QED BY <1>1, Minimal, Zenon
<1>3. \E i \in A : \A j \in A : ~(j < i)
  BY <1>2, Zenon DEF OpToRel
<1> HIDE DEF R
<1> QED BY <1>3

\* A set with 0 and each successor up to n holds all numbers up to n.
Inductive(T, n) == 0 \in T /\ \A i \in 1..n : i - 1 \in T => i \in T

\* Induction along an interval, of which the set T stands for the hypothesis.
LEMMA Induction ==
    ASSUME NEW n \in Nat, NEW T, Inductive(T, n)
    PROVE  0..n \subseteq T
<1> DEFINE Rest == {i \in 0..n : i \notin T}
<1> SUFFICES ASSUME Rest # {} PROVE FALSE
  OBVIOUS
<1>1. PICK i \in Rest : \A j \in Rest : i <= j
  <2>1. Rest \subseteq Nat
    OBVIOUS
  <2> HIDE DEF Rest
  <2> QED BY <2>1, Least
<1>2. i \in 1..n /\ i - 1 \in 0..n /\ ~(i <= i - 1)
  BY DEF Inductive
<1>3. i - 1 \in T
  BY <1>1, <1>2
<1> QED BY <1>2, <1>3 DEF Inductive

\* A function can be defined along an interval, and stays in its set.
Follows(f, n, D, base, G) ==
    /\ f \in [0..n -> D]
    /\ f[0] = base
    /\ \A i \in 1..n : f[i] = G[i][f[i - 1]]

\* A step G and a first value determine the values along an interval: what a
\* recursive function of Codec or Payloads computes does exist.
LEMMA Recursion ==
    ASSUME NEW n \in Nat, NEW D, NEW base \in D, NEW G \in [1..n -> [D -> D]]
    PROVE  \E f : Follows(f, n, D, base, G)
<1> DEFINE T == {m \in 0..n : \E f : Follows(f, m, D, base, G)}
<1>1. 0 \in T
  <2> DEFINE f == [j \in 0..0 |-> base]
  <2>1. f \in [0..0 -> D] /\ f[0] = base
    OBVIOUS
  <2>2. \A i \in 1..0 : f[i] = G[i][f[i - 1]]
    OBVIOUS
  <2> HIDE DEF f
  <2>3. Follows(f, 0, D, base, G)
    BY <2>1, <2>2 DEF Follows
  <2> QED BY <2>3
<1>2. ASSUME NEW m \in 1..n, m - 1 \in T PROVE m \in T
  <2>1. PICK f : Follows(f, m - 1, D, base, G)
    BY <1>2
  <2> DEFINE g == [j \in 0..m |-> IF j = m THEN G[m][f[m - 1]] ELSE f[j]]
  <2>2. f \in [0..(m - 1) -> D] /\ f[m - 1] \in D /\ G[m][f[m - 1]] \in D
    BY <2>1 DEF Follows
  <2>3. g \in [0..m -> D]
    BY <2>2
  <2>4. g[0] = base
    BY <2>1 DEF Follows
  <2>5. ASSUME NEW i \in 1..m PROVE g[i] = G[i][g[i - 1]]
    <3>1. i \in 0..m /\ i - 1 \in 0..m /\ i - 1 # m
      OBVIOUS
    <3>2. g[i - 1] = f[i - 1]
      BY <3>1
    <3>3. CASE i = m
      BY <3>1, <3>2, <3>3
    <3>4. CASE i # m
      <4>1. i \in 1..(m - 1) /\ g[i] = f[i]
        BY <3>1, <3>4
      <4> QED BY <2>1, <3>2, <4>1 DEF Follows
    <3> QED BY <3>3, <3>4
  <2> HIDE DEF g
  <2>6. Follows(g, m, D, base, G)
    BY <2>3, <2>4, <2>5 DEF Follows
  <2>7. m \in 0..n
    OBVIOUS
  <2> QED BY <2>6, <2>7
<1>3. Inductive(T, n)
  <2> HIDE DEF T
  <2> QED BY <1>1, <1>2 DEF Inductive
<1>4. n \in T
  <2> HIDE DEF T
  <2> QED BY <1>3, Induction
<1> QED BY <1>4

\* Values keep the type of the first one if each step keeps it.
LEMMA RecursionType ==
    ASSUME NEW n \in Nat, NEW D, NEW v, v[0] \in D, \A i \in 1..n : v[i - 1] \in D => v[i] \in D
    PROVE  \A i \in 0..n : v[i] \in D
<1> DEFINE T == {i \in 0..n : v[i] \in D}
<1>1. Inductive(T, n)
  BY DEF Inductive
<1>2. 0..n \subseteq T
  <2> HIDE DEF T
  <2> QED BY <1>1, Induction
<1> QED BY <1>2

-----------------------------------------------------------------------------
(* The recursive functions of Codec.                                        *)

\* The widths, as intervals the provers can use.
LEMMA WidthType == UsizeWidth \in 3..8 /\ IntWidth \in 2..4 /\ IntWidth < UsizeWidth
BY CodecAssumption

\* Power satisfies its recursive definition.
LEMMA PowerDef ==
    /\ Power[0] = 1
    /\ \A k \in 1..UsizeWidth : Power[k] = 256 * Power[k - 1]
    /\ \A k \in 0..UsizeWidth : Power[k] \in Nat \ {0}
<1> DEFINE D == Nat \ {0}
           G == [i \in 1..UsizeWidth |-> [x \in D |-> 256 * x]]
           Value(v) == v = [k \in 0..UsizeWidth |-> IF k = 0 THEN 1 ELSE 256 * v[k - 1]]
<1>0. UsizeWidth \in Nat
  BY WidthType
<1>1. G \in [1..UsizeWidth -> [D -> D]] /\ 1 \in D
  OBVIOUS
<1>2. PICK f : Follows(f, UsizeWidth, D, 1, G)
  <2> HIDE DEF G, D
  <2> QED BY <1>0, <1>1, Recursion
<1>3. \A i \in 1..UsizeWidth : f[i] = 256 * f[i - 1]
  <2> TAKE i \in 1..UsizeWidth
  <2>1. f[i - 1] \in D
    BY <1>0, <1>2 DEF Follows
  <2> QED BY <1>2, <2>1 DEF Follows
<1>4. Value(f)
  BY <1>0, <1>2, <1>3 DEF Follows
<1>5. Value(Power)
  <2>1. Power = CHOOSE v : Value(v)
    BY DEF Power
  <2> HIDE DEF Value
  <2> QED BY <1>4, <2>1
<1>6. Power[0] = 1 /\ \A k \in 1..UsizeWidth : Power[k] = 256 * Power[k - 1]
  BY <1>0, <1>5
<1>7. \A k \in 0..UsizeWidth : Power[k] \in D
  <2>1. \A k \in 1..UsizeWidth : Power[k - 1] \in D => Power[k] \in D
    BY <1>6
  <2>2. Power[0] \in D
    BY <1>6
  <2> HIDE DEF D
  <2> QED BY <1>0, <2>1, <2>2, RecursionType
<1> QED BY <1>6, <1>7

\* The value of an integer, byte by byte.
LEMMA NumberBEDef ==
    ASSUME NEW digits \in Seq(Byte)
    PROVE  \E v \in [0..Len(digits) -> Nat] :
              /\ v[0] = 0
              /\ \A i \in 1..Len(digits) : v[i] = 256 * v[i - 1] + digits[i]
              /\ NumberBE(digits) = v[Len(digits)]
<1> DEFINE n == Len(digits)
           G == [i \in 1..n |-> [x \in Nat |-> 256 * x + digits[i]]]
           Value(v) == v = [i \in 0..n |-> IF i = 0 THEN 0 ELSE 256 * v[i - 1] + digits[i]]
           value == CHOOSE v : Value(v)
<1>0. n \in Nat /\ \A i \in 1..n : digits[i] \in Nat
  <2>1. n \in Nat /\ \A i \in 1..n : digits[i] \in Byte
    OBVIOUS
  <2>2. Byte \subseteq Nat
    BY DEF Byte
  <2> QED BY <2>1, <2>2
<1> HIDE DEF n
<1>1. G \in [1..n -> [Nat -> Nat]] /\ 0 \in Nat
  BY <1>0
<1>2. PICK f : Follows(f, n, Nat, 0, G)
  <2> HIDE DEF G
  <2> QED BY <1>0, <1>1, Recursion
<1>3. \A i \in 1..n : f[i] = 256 * f[i - 1] + digits[i]
  <2> TAKE i \in 1..n
  <2>1. f[i - 1] \in Nat
    BY <1>0, <1>2 DEF Follows
  <2> QED BY <1>2, <2>1 DEF Follows
<1>4. Value(f)
  BY <1>0, <1>2, <1>3 DEF Follows
<1>5. Value(value)
  <2> HIDE DEF Value
  <2> QED BY <1>4
<1>6. NumberBE(digits) = value[n]
  BY Zenon DEF NumberBE, n
<1> HIDE DEF value
<1>7. value[0] = 0 /\ \A i \in 1..n : value[i] = 256 * value[i - 1] + digits[i]
  BY <1>0, <1>5
<1>8. \A i \in 0..n : value[i] \in Nat
  <2>1. \A i \in 1..n : value[i - 1] \in Nat => value[i] \in Nat
    <3> TAKE i \in 1..n
    <3>1. value[i] = 256 * value[i - 1] + digits[i] /\ digits[i] \in Nat
      BY <1>0, <1>7
    <3> QED BY <3>1
  <2>2. value[0] \in Nat
    BY <1>7
  <2> QED BY <1>0, <2>1, <2>2, RecursionType
<1>9. value \in [0..n -> Nat]
  BY <1>5, <1>8
<1> QED BY <1>6, <1>7, <1>9 DEF n

\* x | y keeps x, and is y on top of nothing.
LEMMA OrType == \A x, y \in Byte : Or(x, y) \in Nat /\ Or(x, y) >= x
<1> SUFFICES ASSUME NEW x \in Byte, NEW y \in Byte PROVE Or(x, y) \in Nat /\ Or(x, y) >= x
  OBVIOUS
<1> DEFINE New(bit) == IF (x \div bit) % 2 < (y \div bit) % 2 THEN bit ELSE 0
<1>1. Or(x, y) = x + New(1) + New(2) + New(4) + New(8) + New(16) + New(32) + New(64) + New(128)
  BY DEF Or
<1>2. \A bit \in Nat : New(bit) \in Nat
  OBVIOUS
<1>3. x \in Nat
  BY DEF Byte
<1>4. /\ New(1) \in Nat /\ New(2) \in Nat /\ New(4) \in Nat /\ New(8) \in Nat
      /\ New(16) \in Nat /\ New(32) \in Nat /\ New(64) \in Nat /\ New(128) \in Nat
  <2> HIDE DEF New
  <2> QED BY <1>2
<1> HIDE DEF New
<1> QED BY <1>1, <1>3, <1>4

\* A length byte written over nothing is that byte.
LEMMA OrNothing == \A y \in Byte : Or(0, y) = y
BY SMTT(30) DEF Or, Byte

\* The step of the loop that puts the length bytes together.
Merge(j, before, digit) ==
    LET place == Power[(j - 1) % UsizeWidth]
        there == (before \div place) % 256
    IN before + (Or(there, digit) - there) * place

\* Writing a length byte over a number gives a number.
LEMMA MergeType ==
    ASSUME NEW j \in Nat \ {0}, NEW before \in Nat, NEW digit \in Byte
    PROVE  Merge(j, before, digit) \in Nat
<1> DEFINE place == Power[(j - 1) % UsizeWidth]
           there == (before \div place) % 256
<1>1. (j - 1) % UsizeWidth \in 0..UsizeWidth
  BY WidthType
<1>2. place \in Nat \ {0}
  BY <1>1, PowerDef
<1> HIDE DEF place
<1>3. before \div place \in Nat
  BY <1>2
<1>4. there \in Byte
  BY <1>3 DEF Byte
<1> HIDE DEF there
<1>5. Or(there, digit) - there \in Nat
  <2>1. Or(there, digit) \in Nat /\ Or(there, digit) >= there
    BY <1>4, OrType
  <2>2. there \in Nat
    BY <1>4 DEF Byte
  <2> QED BY <2>1, <2>2
<1> DEFINE more == Or(there, digit) - there
<1>6. Merge(j, before, digit) = before + more * place
  BY Zenon DEF Merge, there, place
<1> HIDE DEF more
<1>7. more * place \in Nat
  BY <1>2, <1>5 DEF more
<1> QED BY <1>6, <1>7

\* NumberLE satisfies its recursive definition.
LEMMA NumberLEDef ==
    ASSUME NEW digits \in Seq(Byte)
    PROVE  \E v \in [0..Len(digits) -> Nat] :
              /\ v[0] = 0
              /\ \A i \in 1..Len(digits) : v[i] = Merge(i, v[i - 1], digits[i])
              /\ NumberLE(digits) = v[Len(digits)]
<1> DEFINE n == Len(digits)
           G == [i \in 1..n |-> [x \in Nat |-> Merge(i, x, digits[i])]]
           Value(v) == v = [i \in 0..n |-> IF i = 0 THEN 0 ELSE Merge(i, v[i - 1], digits[i])]
           value == CHOOSE v : Value(v)
<1>0. n \in Nat /\ \A i \in 1..n : digits[i] \in Byte
  OBVIOUS
<1> HIDE DEF n
<1>1. G \in [1..n -> [Nat -> Nat]] /\ 0 \in Nat
  BY <1>0, MergeType
<1>2. PICK f : Follows(f, n, Nat, 0, G)
  <2> HIDE DEF G
  <2> QED BY <1>0, <1>1, Recursion
<1>3. \A i \in 1..n : f[i] = Merge(i, f[i - 1], digits[i])
  <2> TAKE i \in 1..n
  <2>1. f[i - 1] \in Nat
    BY <1>0, <1>2 DEF Follows
  <2> QED BY <1>2, <2>1 DEF Follows
<1>4. Value(f)
  BY <1>0, <1>2, <1>3 DEF Follows
<1>5. Value(value)
  <2> HIDE DEF Value
  <2> QED BY <1>4
<1>6. NumberLE(digits) = value[n]
  BY Zenon DEF NumberLE, Merge, n
<1> HIDE DEF value
<1>7. value[0] = 0 /\ \A i \in 1..n : value[i] = Merge(i, value[i - 1], digits[i])
  BY <1>0, <1>5
<1>8. \A i \in 0..n : value[i] \in Nat
  <2>1. \A i \in 1..n : value[i - 1] \in Nat => value[i] \in Nat
    <3> TAKE i \in 1..n
    <3> HAVE value[i - 1] \in Nat
    <3>1. i \in Nat \ {0} /\ digits[i] \in Byte /\ value[i] = Merge(i, value[i - 1], digits[i])
      BY <1>0, <1>7
    <3> QED BY <3>1, MergeType
  <2>2. value[0] \in Nat
    BY <1>7
  <2> QED BY <1>0, <2>1, <2>2, RecursionType
<1>9. value \in [0..n -> Nat]
  BY <1>5, <1>8
<1> QED BY <1>6, <1>7, <1>9 DEF n

-----------------------------------------------------------------------------
(* The decoders take what is there and no more.                             *)

\* A part of a payload.
LEMMA PartType ==
    ASSUME NEW bytes \in Seq(Byte), NEW m \in 1..(Len(bytes) + 1), NEW n \in (m - 1)..Len(bytes)
    PROVE  /\ SubSeq(bytes, m, n) \in Seq(Byte)
           /\ Len(SubSeq(bytes, m, n)) = n - m + 1
           /\ \A i \in 1..(n - m + 1) : SubSeq(bytes, m, n)[i] = bytes[m + i - 1]
BY SubSeqProperties

\* Bytes are numbers up to 255.
LEMMA ByteAt ==
    ASSUME NEW bytes \in Seq(Byte), NEW i \in 1..Len(bytes)
    PROVE  bytes[i] \in 0..255
<1>1. bytes[i] \in Byte
  OBVIOUS
<1> QED BY <1>1 DEF Byte

\* What is put together of bytes, in either order, is a number.
LEMMA NumberTypes ==
    ASSUME NEW digits \in Seq(Byte)
    PROVE  NumberBE(digits) \in Nat /\ NumberLE(digits) \in Nat
<1>1. Len(digits) \in 0..Len(digits)
  OBVIOUS
<1>2. NumberBE(digits) \in Nat
  BY <1>1, NumberBEDef
<1>3. NumberLE(digits) \in Nat
  BY <1>1, NumberLEDef
<1> QED BY <1>2, <1>3

\* What take_asn_int returns is a number and some bytes, which are there.
LEMMA IntAtType ==
    ASSUME NEW bytes \in Seq(Byte), NEW p \in Nat
    PROVE  /\ IntAt(bytes, p).ok \in BOOLEAN
           /\ IntAt(bytes, p).next \in Nat
           /\ The(IntAt(bytes, p).value.as_int) \in Nat
           /\ IntAt(bytes, p).ok => p < IntAt(bytes, p).next /\ IntAt(bytes, p).next <= Len(bytes)
<1> DEFINE There == p + 2 <= Len(bytes) /\ bytes[p + 1] = TAG_INT /\ bytes[p + 2] \in 1..IntWidth
                    /\ p + 2 + bytes[p + 2] <= Len(bytes)
           next == p + 2 + bytes[p + 2]
           number == NumberBE(SubSeq(bytes, p + 3, next))
<1>1. CASE There
  <2>1. IntAt(bytes, p) = [ok |-> TRUE, value |-> IntValue(number), next |-> next]
    BY <1>1, Zenon DEF IntAt, Taken
  <2>2. bytes[p + 2] \in Nat \ {0} /\ next \in Nat /\ p + 2 < next /\ next <= Len(bytes)
    BY <1>1, WidthType
  <2>3. number \in Nat
    <3> HIDE DEF next
    <3>1. p + 3 \in 1..(Len(bytes) + 1) /\ next \in (p + 3 - 1)..Len(bytes)
      BY <2>2
    <3>2. SubSeq(bytes, p + 3, next) \in Seq(Byte)
      BY <3>1, PartType
    <3> QED BY <3>2, NumberTypes
  <2>4. The(IntValue(number).as_int) = number
    BY DEF The, IntValue
  <2> HIDE DEF number, next
  <2> QED BY <2>1, <2>2, <2>3, <2>4
<1>2. CASE ~There
  <2>1. IntAt(bytes, p) = [ok |-> FALSE, value |-> IntValue(0), next |-> 0]
    BY <1>2, Zenon DEF IntAt, Error
  <2>2. The(IntValue(0).as_int) = 0
    BY DEF The, IntValue
  <2> QED BY <2>1, <2>2
<1> QED BY <1>1, <1>2

\* The lengths in the header of a string are numbers, and what they are of begins
\* behind the header.
LEMMA HeaderType ==
    ASSUME NEW bytes \in Seq(Byte), NEW p \in Nat
    PROVE  /\ HeaderAt(bytes, p).bytes \in Nat
           /\ HeaderAt(bytes, p).count \in Nat /\ HeaderAt(bytes, p).padding \in Nat
           /\ HeaderAt(bytes, p).next \in Nat
           /\ HeaderAt(bytes, p).tagged /\ HeaderAt(bytes, p).ok => p < HeaderAt(bytes, p).next
<1> DEFINE tagged == p + 2 <= Len(bytes) /\ bytes[p + 1] \in DOMAIN ElemSize
           long == tagged /\ bytes[p + 2] >= 128
           width == IF long THEN bytes[p + 2] % 16 ELSE 0
           p1 == p + 2 + width
           elements == IF long THEN NumberLE(SubSeq(bytes, p + 3, p1)) ELSE bytes[p + 2]
           size == ElemSize[bytes[p + 1]]
           count == IntAt(bytes, p1)
           padding == IntAt(bytes, count.next)
<1>1. HeaderAt(bytes, p) =
        [tagged |-> tagged, width |-> width,
         bytes |-> IF tagged /\ p1 <= Len(bytes) THEN elements * size ELSE 0,
         ok |-> p1 <= Len(bytes) /\ count.ok /\ padding.ok,
         count |-> The(count.value.as_int), padding |-> The(padding.value.as_int),
         next |-> padding.next]
  BY Zenon DEF HeaderAt
<1>0. tagged => bytes[p + 2] \in Nat
  <2>1. ASSUME tagged PROVE p + 2 \in 1..Len(bytes)
    BY <2>1
  <2>2. ASSUME p + 2 \in 1..Len(bytes) PROVE bytes[p + 2] \in 0..255
    BY <2>2, ByteAt, Zenon
  <2>3. 0..255 \subseteq Nat
    OBVIOUS
  <2> HIDE DEF tagged
  <2> QED BY <2>1, <2>2, <2>3
<1> HIDE DEF tagged
<1>2. p1 \in Nat /\ p < p1
  <2>1. width \in Nat
    <3>1. CASE long
      <4>1. bytes[p + 2] \in Nat
        BY <3>1, <1>0
      <4> QED BY <3>1, <4>1
    <3> QED BY <3>1
  <2> HIDE DEF width
  <2> QED BY <2>1
<1>3. /\ The(count.value.as_int) \in Nat /\ count.next \in Nat
      /\ count.ok => p1 < count.next
  <2> HIDE DEF p1
  <2> QED BY <1>2, IntAtType
<1>4. /\ The(padding.value.as_int) \in Nat /\ padding.next \in Nat
      /\ padding.ok => count.next < padding.next
  <2> HIDE DEF count
  <2> QED BY <1>3, IntAtType
<1>5. ASSUME tagged, p1 <= Len(bytes) PROVE elements * size \in Nat
  <2>1. size \in {1, 2, 4}
    BY <1>5 DEF tagged, ElemSize, TAG_STRING_U8, TAG_STRING_U16, TAG_STRING_U32
  <2>2. CASE long
    <3>1. p + 3 \in 1..(Len(bytes) + 1) /\ p1 \in (p + 3 - 1)..Len(bytes)
      <4>1. bytes[p + 2] \in Nat
        BY <2>2, <1>0
      <4> QED BY <1>2, <1>5, <4>1
    <3>2. SubSeq(bytes, p + 3, p1) \in Seq(Byte)
      <4> HIDE DEF p1
      <4> QED BY <3>1, PartType
    <3>3. elements \in Nat
      <4> HIDE DEF p1
      <4> QED BY <2>2, <3>2, NumberTypes
    <3> HIDE DEF elements, size
    <3> QED BY <2>1, <3>3
  <2>3. CASE ~long
    <3>1. elements \in Nat
      BY <1>5, <2>3, <1>0
    <3> HIDE DEF elements, size
    <3> QED BY <2>1, <3>1
  <2> QED BY <2>2, <2>3
<1> HIDE DEF tagged, width, p1, elements, size, count, padding
<1>6. (IF tagged /\ p1 <= Len(bytes) THEN elements * size ELSE 0) \in Nat
  BY <1>5
<1>7. p1 \in Nat /\ count.next \in Nat /\ padding.next \in Nat
  BY <1>2, <1>3, <1>4
<1>8. /\ HeaderAt(bytes, p).bytes \in Nat
      /\ HeaderAt(bytes, p).count = The(count.value.as_int)
      /\ HeaderAt(bytes, p).padding = The(padding.value.as_int)
      /\ HeaderAt(bytes, p).next = padding.next
      /\ HeaderAt(bytes, p).ok => count.ok /\ padding.ok
  <2> DEFINE number == IF tagged /\ p1 <= Len(bytes) THEN elements * size ELSE 0
             ok == p1 <= Len(bytes) /\ count.ok /\ padding.ok
  <2>1. number \in Nat /\ ok \in BOOLEAN
    BY <1>6, IntAtType, <1>7
  <2> HIDE DEF number, ok
  <2>2. HeaderAt(bytes, p) =
          [tagged |-> tagged, width |-> width, bytes |-> number, ok |-> ok,
           count |-> The(count.value.as_int), padding |-> The(padding.value.as_int),
           next |-> padding.next]
    BY <1>1, Zenon DEF number, ok
  <2>3. HeaderAt(bytes, p).ok = ok
    BY <2>2
  <2>4. ok => count.ok /\ padding.ok
    BY Zenon DEF ok
  <2> QED BY <2>1, <2>2, <2>3, <2>4
<1> QED BY <1>2, <1>3, <1>4, <1>6, <1>7, <1>8

\* What take_string returns, it has taken, the padding behind it included.
LEMMA StringAtType ==
    ASSUME NEW bytes \in Seq(Byte), NEW p \in Nat, StringAt(bytes, p).ok
    PROVE  LET header == HeaderAt(bytes, p)
               valid == header.bytes % UsizeMod
               next == StringAt(bytes, p).next
           IN /\ header.tagged /\ header.ok /\ valid \in Nat
              /\ next = header.next + valid + header.padding
              /\ p < next /\ next <= Len(bytes)
              /\ header.count \in {0, (valid + header.padding) % UsizeMod}
              /\ StringAt(bytes, p).value
                 = BytesValue(SubSeq(bytes, header.next + 1, header.next + valid))
<1> DEFINE header == HeaderAt(bytes, p)
           valid == header.bytes % UsizeMod
           next == header.next + valid + header.padding
           There == /\ header.tagged /\ header.ok
                    /\ header.count \in {0, (valid + header.padding) % UsizeMod}
                    /\ next <= Len(bytes)
           part == SubSeq(bytes, header.next + 1, header.next + valid)
<1>1. StringAt(bytes, p) = IF There THEN Taken(BytesValue(part), next) ELSE Error
  BY Zenon DEF StringAt
<1>2. There /\ StringAt(bytes, p) = Taken(BytesValue(part), next)
  <2> HIDE DEF There
  <2> QED BY <1>1 DEF Error
<1>3. UsizeMod \in Nat \ {0}
  BY PowerDef, WidthType DEF UsizeMod
<1>4. header.bytes \in Nat /\ header.padding \in Nat /\ header.next \in Nat /\ p < header.next
  BY <1>2, HeaderType
<1> HIDE DEF header
<1>5. valid \in Nat
  BY <1>3, <1>4
<1> HIDE DEF valid
<1>6. p < next
  BY <1>4, <1>5
<1>7. StringAt(bytes, p).next = next /\ StringAt(bytes, p).value = BytesValue(part)
  BY <1>2 DEF Taken
<1> HIDE DEF next, part
<1> QED BY <1>2, <1>5, <1>6, <1>7 DEF header, valid, next, part

-----------------------------------------------------------------------------
(* Integers: what is decoded of the bytes of a number.                      *)

\* The powers that occur as widths.
LEMMA Powers ==
    /\ Power[0] = 1 /\ Power[1] = 256 /\ Power[2] = 65536 /\ Power[3] = 16777216
    /\ UsizeWidth >= 4 => Power[4] = 4294967296
<1>1. UsizeWidth \in 3..8
  BY WidthType
<1>2. Power[1] = 256 * Power[0] /\ Power[2] = 256 * Power[1] /\ Power[3] = 256 * Power[2]
  <2>1. 1 \in 1..UsizeWidth /\ 2 \in 1..UsizeWidth /\ 3 \in 1..UsizeWidth
    BY <1>1
  <2>2. 1 - 1 = 0 /\ 2 - 1 = 1 /\ 3 - 1 = 2
    OBVIOUS
  <2> QED BY <2>1, <2>2, PowerDef
<1>3. UsizeWidth >= 4 => Power[4] = 256 * Power[3]
  <2>1. UsizeWidth >= 4 => 4 \in 1..UsizeWidth
    BY <1>1
  <2>2. 4 - 1 = 3
    OBVIOUS
  <2> QED BY <2>1, <2>2, PowerDef
<1> QED BY <1>2, <1>3, PowerDef, SMT

\* The bytes of a number.
LEMMA BigEndianType ==
    ASSUME NEW n \in Nat, NEW w \in 0..UsizeWidth
    PROVE  /\ BigEndian(n, w) \in Seq(Byte) /\ Len(BigEndian(n, w)) = w
           /\ \A i \in 1..w : BigEndian(n, w)[i] = (n \div Power[w - i]) % 256
<1>1. w \in Nat /\ \A i \in 1..w : w - i \in 0..UsizeWidth
  BY WidthType
<1>2. ASSUME NEW i \in 1..w PROVE (n \div Power[w - i]) % 256 \in Byte
  <2>1. Power[w - i] \in Nat \ {0}
    BY <1>1, PowerDef
  <2>2. n \div Power[w - i] \in Nat
    BY <2>1
  <2> QED BY <2>2 DEF Byte
<1>3. BigEndian(n, w) = [i \in 1..w |-> (n \div Power[w - i]) % 256]
  BY DEF BigEndian
<1>4. BigEndian(n, w) \in [1..w -> Byte]
  BY <1>2, <1>3
<1> HIDE DEF Byte
<1>5. BigEndian(n, w) \in Seq(Byte) /\ Len(BigEndian(n, w)) = w
  BY <1>1, <1>4
<1> QED BY <1>3, <1>5

\* Two sequences of the same bytes are the same.
LEMMA SameBytes ==
    ASSUME NEW s \in Seq(Byte), NEW t \in Seq(Byte), Len(s) = Len(t),
           \A i \in 1..Len(s) : s[i] = t[i]
    PROVE  s = t
OBVIOUS

\* Multiplication keeps the order.
LEMMA Times ==
    ASSUME NEW P \in Nat, NEW a \in Int, NEW b \in Int, a <= b
    PROVE  P * a <= P * b
<1>1. (b - a) \in Nat
  OBVIOUS
<1>2. P * (b - a) \in Nat
  BY <1>1
<1>3. P * (b - a) = P * b - P * a
  BY SMT
<1> QED BY <1>2, <1>3

\* Integer division, and what determines it.
LEMMA Division ==
    ASSUME NEW n \in Nat, NEW P \in Nat \ {0}
    PROVE  /\ n \div P \in Nat /\ P * (n \div P) <= n /\ n < P * (n \div P + 1)
           /\ \A r \in Nat : P * r <= n /\ n < P * (r + 1) => n \div P = r
<1> DEFINE q == n \div P
<1>1. q \in Nat /\ P * q <= n /\ n < P * (q + 1)
  BY SMT
<1> HIDE DEF q
<1>2. ASSUME NEW r \in Nat, P * r <= n, n < P * (r + 1) PROVE q = r
  <2>1. CASE q < r
    <3>1. P * (q + 1) <= P * r
      BY <1>1, <2>1, Times
    <3>2. P * (q + 1) \in Int /\ P * r \in Int
      BY <1>1
    <3> QED BY <1>1, <1>2, <3>1, <3>2
  <2>2. CASE r < q
    <3>1. P * (r + 1) <= P * q
      BY <1>1, <2>2, Times
    <3>2. P * (r + 1) \in Int /\ P * q \in Int
      BY <1>1
    <3> QED BY <1>1, <1>2, <3>1, <3>2
  <2> QED BY <1>1, <2>1, <2>2
<1> QED BY <1>1, <1>2 DEF q

\* The next digit of a number.
NextDigit(n, P) == n \div P = 256 * (n \div (256 * P)) + ((n \div P) % 256)

\* Dividing by 256 times P is dividing by P and then by 256.
LEMMA DivideAgain ==
    ASSUME NEW n \in Nat, NEW P \in Nat \ {0}
    PROVE  NextDigit(n, P)
<1> DEFINE q == n \div P
           r == q \div 256
<1>1. q \in Nat /\ P * q <= n /\ n < P * (q + 1)
  BY Division
<1> HIDE DEF q
<1>2. r \in Nat /\ 256 * r <= q /\ q + 1 <= 256 * (r + 1) /\ q = 256 * r + (q % 256)
  BY <1>1, SMT
<1> HIDE DEF r
<1>3. P * (256 * r) <= P * q /\ P * (q + 1) <= P * (256 * (r + 1))
  <2>1. 256 * r \in Int /\ 256 * (r + 1) \in Int /\ q + 1 \in Int
    BY <1>1, <1>2
  <2> QED BY <1>1, <1>2, <2>1, Times
<1>4. P * (256 * r) = (256 * P) * r /\ P * (256 * (r + 1)) = (256 * P) * (r + 1)
  BY <1>2, SMT
<1>5. (256 * P) * r <= n /\ n < (256 * P) * (r + 1)
  <2>1. P * q \in Int /\ P * (q + 1) \in Int /\ (256 * P) * r \in Int /\ (256 * P) * (r + 1) \in Int
    BY <1>1, <1>2
  <2> QED BY <1>1, <1>3, <1>4, <2>1
<1>6. 256 * P \in Nat \ {0}
  OBVIOUS
<1>7. n \div (256 * P) = r
  BY <1>2, <1>5, <1>6, Division
<1> QED BY <1>2, <1>7 DEF q, NextDigit
\* What is put together of the bytes of a number is the number.
LEMMA BigEndianRead ==
    ASSUME NEW w \in 1..UsizeWidth, NEW n \in 0..(Power[w] - 1)
    PROVE  NumberBE(BigEndian(n, w)) = n
<1> DEFINE d == BigEndian(n, w)
<1>1. w \in Nat /\ w \in 0..UsizeWidth /\ \A i \in 0..w : Power[w - i] \in Nat \ {0}
  <2>1. w \in 0..UsizeWidth /\ \A i \in 0..w : w - i \in 0..UsizeWidth
    BY WidthType
  <2> QED BY <2>1, PowerDef
<1>2. n \in Nat /\ n < Power[w]
  BY <1>1, PowerDef
<1>3. d \in Seq(Byte) /\ Len(d) = w /\ \A i \in 1..w : d[i] = (n \div Power[w - i]) % 256
  BY <1>1, <1>2, BigEndianType
<1> HIDE DEF d
<1>4. PICK v \in [0..w -> Nat] :
        v[0] = 0 /\ (\A i \in 1..w : v[i] = 256 * v[i - 1] + d[i]) /\ NumberBE(d) = v[w]
  BY <1>3, NumberBEDef
<1> DEFINE T == {i \in 0..w : v[i] = n \div Power[w - i]}
<1>5. 0 \in T
  <2>1. Power[w] \in Nat \ {0}
    BY <1>1, PowerDef
  <2>2. Power[w] * 0 <= n /\ n < Power[w] * (0 + 1)
    BY <1>2, <2>1
  <2>3. n \div Power[w] = 0
    BY <1>2, <2>1, <2>2, Division
  <2>4. w - 0 = w /\ 0 \in 0..w
    BY <1>1
  <2> QED BY <1>4, <2>3, <2>4
<1>6. ASSUME NEW i \in 1..w, i - 1 \in T PROVE i \in T
  <2>1. v[i - 1] = n \div Power[w - (i - 1)] /\ i \in 0..w
    BY <1>6
  <2>2. Power[w - (i - 1)] = 256 * Power[w - i]
    <3>1. w - (i - 1) \in 1..UsizeWidth /\ (w - (i - 1)) - 1 = w - i
      BY <1>1, WidthType
    <3> QED BY <3>1, PowerDef
  <2> DEFINE P == Power[w - i]
  <2>3. P \in Nat \ {0}
    BY <1>1, <2>1
  <2>4. n \div P = 256 * (n \div (256 * P)) + ((n \div P) % 256)
    <3> HIDE DEF P
    <3>1. NextDigit(n, P)
      BY <1>2, <2>3, DivideAgain, Zenon
    <3> QED BY <3>1 DEF NextDigit
  <2>5. v[i] = 256 * v[i - 1] + ((n \div P) % 256)
    BY <1>3, <1>4
  <2> HIDE DEF P
  <2>6. v[i] = n \div P
    BY <2>1, <2>2, <2>4, <2>5 DEF P
  <2> QED BY <2>1, <2>6 DEF P
<1>7. v[w] = n \div Power[0]
  <2>1. Inductive(T, w)
    <3> HIDE DEF T
    <3> QED BY <1>5, <1>6 DEF Inductive
  <2>2. w \in T
    <3>1. 0..w \subseteq T /\ w \in 0..w
      <4> HIDE DEF T
      <4> QED BY <1>1, <2>1, Induction
    <3> QED BY <3>1
  <2> QED BY <1>1, <2>2
<1> QED BY <1>2, <1>4, <1>7, PowerDef DEF d

\* Some bytes stand at a place in a payload.
At(bytes, p, part) ==
    /\ p + Len(part) <= Len(bytes)
    /\ \A i \in 1..Len(part) : bytes[p + i] = part[i]

\* Two sequences one after the other are somewhere when each is in its place.
LEMMA AtConcat ==
    ASSUME NEW bytes \in Seq(Byte), NEW p \in Nat, NEW s \in Seq(Byte), NEW t \in Seq(Byte)
    PROVE  At(bytes, p, s \o t) <=> At(bytes, p, s) /\ At(bytes, p + Len(s), t)
<1>1. Len(s) \in Nat /\ Len(t) \in Nat /\ Len(bytes) \in Nat /\ Len(s \o t) = Len(s) + Len(t)
  OBVIOUS
<1>2. /\ \A i \in 1..Len(s) : (s \o t)[i] = s[i]
      /\ \A i \in 1..Len(t) : (s \o t)[Len(s) + i] = t[i]
  OBVIOUS
<1>3. ASSUME At(bytes, p, s \o t) PROVE At(bytes, p, s) /\ At(bytes, p + Len(s), t)
  <2>1. p + Len(s) + Len(t) <= Len(bytes) /\ p + Len(s) <= Len(bytes)
    BY <1>1, <1>3 DEF At
  <2>2. ASSUME NEW i \in 1..Len(s) PROVE bytes[p + i] = s[i]
    <3>1. i \in 1..(Len(s) + Len(t))
      BY <1>1
    <3> QED BY <1>1, <1>2, <1>3, <3>1 DEF At
  <2>3. ASSUME NEW i \in 1..Len(t) PROVE bytes[(p + Len(s)) + i] = t[i]
    <3>1. Len(s) + i \in 1..(Len(s) + Len(t)) /\ (p + Len(s)) + i = p + (Len(s) + i)
      BY <1>1
    <3> QED BY <1>1, <1>2, <1>3, <3>1 DEF At
  <2> QED BY <2>1, <2>2, <2>3 DEF At
<1>4. ASSUME At(bytes, p, s), At(bytes, p + Len(s), t) PROVE At(bytes, p, s \o t)
  <2>1. p + Len(s \o t) <= Len(bytes)
    BY <1>1, <1>4 DEF At
  <2>2. ASSUME NEW i \in 1..Len(s \o t) PROVE bytes[p + i] = (s \o t)[i]
    <3>1. CASE i \in 1..Len(s)
      BY <1>2, <1>4, <3>1 DEF At
    <3>2. CASE i \notin 1..Len(s)
      <4> DEFINE j == i - Len(s)
      <4>1. j \in 1..Len(t) /\ i = Len(s) + j /\ p + i = (p + Len(s)) + j
        BY <1>1, <3>2
      <4> HIDE DEF j
      <4> QED BY <1>2, <1>4, <4>1 DEF At
    <3> QED BY <3>1, <3>2
  <2> QED BY <2>1, <2>2 DEF At
<1> QED BY <1>3, <1>4

\* The part of a payload where some bytes stand is those bytes.
LEMMA AtPart ==
    ASSUME NEW bytes \in Seq(Byte), NEW p \in Nat, NEW s \in Seq(Byte), At(bytes, p, s)
    PROVE  SubSeq(bytes, p + 1, p + Len(s)) = s
<1> DEFINE part == SubSeq(bytes, p + 1, p + Len(s))
<1>1. /\ p + 1 \in 1..(Len(bytes) + 1) /\ p + Len(s) \in (p + 1 - 1)..Len(bytes)
      /\ (p + Len(s)) - (p + 1) + 1 = Len(s)
  BY DEF At
<1>2. /\ part \in Seq(Byte) /\ Len(part) = Len(s)
      /\ \A i \in 1..Len(s) : part[i] = bytes[p + 1 + i - 1]
  BY <1>1, PartType
<1> HIDE DEF part
<1>3. ASSUME NEW i \in 1..Len(part) PROVE part[i] = s[i]
  <2>1. i \in 1..Len(s) /\ p + 1 + i - 1 = p + i
    BY <1>2
  <2> QED BY <1>2, <2>1 DEF At
<1>4. part = s
  BY <1>2, <1>3, SameBytes
<1> QED BY <1>4 DEF part

-----------------------------------------------------------------------------
(* Lengths: how many bytes they take, and what is read of them.             *)

\* Powers grow.
LEMMA PowerOrder ==
    ASSUME NEW i \in 0..UsizeWidth, NEW j \in i..UsizeWidth
    PROVE  Power[i] <= Power[j]
<1> DEFINE n == j - i
           T == {d \in 0..n : Power[i] <= Power[i + d]}
<1>1. n \in Nat /\ i + n = j /\ i + 0 = i /\ \A d \in 0..n : i + d \in 0..UsizeWidth
  BY WidthType
<1>2. 0 \in T
  BY <1>1, PowerDef
<1>3. ASSUME NEW d \in 1..n, d - 1 \in T PROVE d \in T
  <2>1. i + d \in 1..UsizeWidth /\ (i + d) - 1 = i + (d - 1) /\ i + (d - 1) \in 0..UsizeWidth
    BY <1>1
  <2>2. Power[i + d] = 256 * Power[i + (d - 1)]
    BY <2>1, PowerDef
  <2>3. Power[i + (d - 1)] \in Nat /\ Power[i] \in Nat /\ Power[i] <= Power[i + (d - 1)]
    BY <1>3, <2>1, PowerDef
  <2>4. Power[i] <= Power[i + d] /\ d \in 0..n
    BY <2>2, <2>3
  <2> QED BY <2>4
<1>4. 0..n \subseteq T
  <2> HIDE DEF T, n
  <2> QED BY <1>1, <1>2, <1>3, Induction DEF Inductive
<1> QED BY <1>1, <1>4

\* Each number of 1 or more below the limit has a width, the one of its highest byte.
LEMMA WidthOfType ==
    ASSUME NEW n \in 1..(Power[IntWidth] - 1)
    PROVE  /\ WidthOf(n) \in 1..IntWidth
           /\ Power[WidthOf(n) - 1] <= n /\ n < Power[WidthOf(n)]
<1> DEFINE A == {w \in 0..IntWidth : n < Power[w]}
           Fits(w) == Power[w - 1] <= n /\ n < Power[w]
<1>1. IntWidth \in Nat /\ 0..IntWidth \subseteq 0..UsizeWidth
  BY WidthType
<1>2. n \in Nat \ {0} /\ n < Power[IntWidth] /\ IntWidth \in A
  BY <1>1, PowerDef
<1>3. PICK w \in A : \A j \in A : w <= j
  <2>1. A \subseteq Nat /\ A # {}
    BY <1>2
  <2> HIDE DEF A
  <2> QED BY <2>1, Least, Zenon
<1>4. w \in 1..IntWidth
  BY <1>2, PowerDef
<1>5. w - 1 \in 0..IntWidth /\ ~(w <= w - 1)
  BY <1>1, <1>4
<1>6. Power[w - 1] <= n
  <2>1. w - 1 \notin A
    BY <1>3, <1>5
  <2> QED BY <1>1, <1>2, <1>5, <2>1, PowerDef
<1>7. \E x \in 1..UsizeWidth : Fits(x)
  BY <1>1, <1>3, <1>4, <1>6
<1>8. WidthOf(n) \in 1..UsizeWidth /\ Fits(WidthOf(n))
  <2>1. WidthOf(n) = CHOOSE x \in 1..UsizeWidth : Fits(x)
    BY Zenon DEF WidthOf
  <2> HIDE DEF Fits
  <2> QED BY <1>7, <2>1
<1>9. ASSUME IntWidth < WidthOf(n) PROVE FALSE
  <2>1. IntWidth \in 0..UsizeWidth /\ WidthOf(n) - 1 \in IntWidth..UsizeWidth
        /\ WidthOf(n) - 1 \in 0..UsizeWidth
    BY <1>1, <1>8, <1>9, WidthType
  <2>2. Power[IntWidth] <= Power[WidthOf(n) - 1]
    BY <2>1, PowerOrder
  <2>3. Power[IntWidth] \in Nat /\ Power[WidthOf(n) - 1] \in Nat
    BY <2>1, PowerDef
  <2> QED BY <1>2, <1>8, <2>2, <2>3
<1> QED BY <1>1, <1>8, <1>9, WidthType

\* As long as the bytes fit a usize, each is put at a place where nothing is yet.
LEMMA MergeFits ==
    ASSUME NEW j \in 1..UsizeWidth, NEW before \in 0..(Power[j - 1] - 1), NEW digit \in Byte
    PROVE  /\ Merge(j, before, digit) = before + digit * Power[j - 1]
           /\ before + digit * Power[j - 1] < Power[j]
<1> DEFINE place == Power[j - 1]
           there == (before \div place) % 256
<1>1. j - 1 \in 0..UsizeWidth /\ (j - 1) % UsizeWidth = j - 1
  BY WidthType
<1>2. place \in Nat \ {0} /\ Power[j] = 256 * place
  BY <1>1, PowerDef
<1>3. Merge(j, before, digit) = before + (Or(there, digit) - there) * place
  BY <1>1 DEF Merge
<1> HIDE DEF place
<1>4. before \in Nat /\ before < place
  BY <1>2 DEF place
<1>5. before \div place = 0
  <2>1. place * 0 <= before /\ before < place * (0 + 1)
    BY <1>2, <1>4
  <2> QED BY <1>2, <1>4, <2>1, Division
<1>6. there = 0
  BY <1>5
<1>7. digit \in 0..255 /\ Or(there, digit) = digit
  BY <1>6, OrNothing DEF Byte
<1>8. digit * place = place * digit /\ place * digit <= place * 255
  BY <1>2, <1>7, Times
<1>9. Merge(j, before, digit) = before + digit * place
  BY <1>3, <1>6, <1>7
<1>10. before + digit * place < 256 * place
  <2>1. digit * place \in Int
    BY <1>2, <1>7
  <2> QED BY <1>2, <1>4, <1>8, <2>1
<1> QED BY <1>2, <1>9, <1>10 DEF place

\* The bytes read from the lowest, as long as they fit a usize.
LEMMA LittleEndian ==
    ASSUME NEW digits \in Seq(Byte), Len(digits) <= UsizeWidth
    PROVE  /\ NumberLE(digits) \in 0..(Power[Len(digits)] - 1)
           /\ \E v \in [0..Len(digits) -> Nat] :
                /\ v[0] = 0
                /\ \A i \in 1..Len(digits) : v[i] = v[i - 1] + digits[i] * Power[i - 1]
                /\ NumberLE(digits) = v[Len(digits)]
<1> DEFINE n == Len(digits)
<1>1. n \in Nat /\ n \in 0..UsizeWidth /\ \A i \in 1..n : digits[i] \in Byte
  BY WidthType
<1>2. PICK v \in [0..n -> Nat] :
        /\ v[0] = 0
        /\ \A i \in 1..n : v[i] = Merge(i, v[i - 1], digits[i])
        /\ NumberLE(digits) = v[n]
  BY NumberLEDef
<1> HIDE DEF n
<1> DEFINE T == {i \in 0..n : v[i] < Power[i]}
<1>3. ASSUME NEW i \in 1..n, i - 1 \in T
      PROVE  v[i] = v[i - 1] + digits[i] * Power[i - 1] /\ i \in T
  <2>1. /\ i \in 1..UsizeWidth /\ i - 1 \in 0..UsizeWidth
        /\ i \in 0..n /\ i - 1 \in 0..n
    BY <1>1, WidthType
  <2>2. v[i - 1] \in 0..(Power[i - 1] - 1)
    <3>1. v[i - 1] < Power[i - 1]
      BY <1>3
    <3>2. v[i - 1] \in Nat /\ Power[i - 1] \in Nat
      BY <2>1, PowerDef
    <3> QED BY <3>1, <3>2
  <2>3. /\ Merge(i, v[i - 1], digits[i]) = v[i - 1] + digits[i] * Power[i - 1]
        /\ v[i - 1] + digits[i] * Power[i - 1] < Power[i]
    BY <1>1, <2>1, <2>2, MergeFits
  <2>4. v[i] = v[i - 1] + digits[i] * Power[i - 1]
    BY <1>2, <2>3
  <2> QED BY <2>1, <2>3, <2>4
<1>4. 0..n \subseteq T
  <2>1. 0 \in T
    BY <1>1, <1>2, PowerDef
  <2>2. Inductive(T, n)
    <3> HIDE DEF T
    <3> QED BY <1>3, <2>1 DEF Inductive
  <2> HIDE DEF T
  <2> QED BY <1>1, <2>2, Induction
<1>5. \A i \in 1..n : i - 1 \in T
  <2>1. \A i \in 1..n : i - 1 \in 0..n
    BY <1>1
  <2> QED BY <1>4, <2>1
<1>6. \A i \in 1..n : v[i] = v[i - 1] + digits[i] * Power[i - 1]
  <2> HIDE DEF T
  <2> QED BY <1>3, <1>5
<1>7. v[n] \in 0..(Power[n] - 1)
  <2>1. n \in T /\ v[n] \in Nat
    BY <1>1, <1>4
  <2> QED BY <1>1, <2>1, PowerDef
<1> QED BY <1>2, <1>6, <1>7 DEF n

\* What two ways to put bytes together have in common: those that are the same in
\* both orders.
Both(d) == \A i \in 1..Len(d) : d[i] = d[Len(d) + 1 - i]

Shifted(x, digit) == 256 * x + digit
Added(x, digit, place) == x + digit * place

\* A length of one byte reads the same in both orders.
LEMMA SameOne == \A a \in Byte : Shifted(0, a) = Added(0, a, 1)
BY SMT DEF Shifted, Added, Byte

AlikeTwo(a, b) ==
    Shifted(Shifted(0, a), b)
    = Added(Added(0, a, Power[0]), b, Power[1])
    <=> a = b

\* A length of two bytes reads the same in both orders just if they are alike.
LEMMA SameTwo ==
    ASSUME NEW a \in Byte, NEW b \in Byte
    PROVE  AlikeTwo(a, b)
<1>1. a \in 0..255 /\ b \in 0..255
  BY DEF Byte
<1>2. Shifted(Shifted(0, a), b) = 256 * a + b
  BY <1>1, SMT DEF Shifted
<1>3. Added(Added(0, a, Power[0]), b, Power[1]) = a + b * 256
  BY <1>1, Powers, SMT DEF Added
<1>4. 256 * a + b = a + b * 256 <=> a = b
  BY <1>1, SMT
<1> QED BY <1>2, <1>3, <1>4, SMT DEF AlikeTwo

AlikeThree(a, b, c) ==
    Shifted(Shifted(Shifted(0, a), b), c)
    = Added(Added(Added(0, a, Power[0]), b, Power[1]), c, Power[2])
    <=> a = c

\* Of three bytes, just if the outer ones are alike.
LEMMA SameThree ==
    ASSUME NEW a \in Byte, NEW b \in Byte, NEW c \in Byte
    PROVE  AlikeThree(a, b, c)
<1>1. a \in 0..255 /\ b \in 0..255 /\ c \in 0..255
  BY DEF Byte
<1>2. Shifted(Shifted(Shifted(0, a), b), c) = 256 * (256 * a + b) + c
  BY <1>1, SMT DEF Shifted
<1>3. Added(Added(Added(0, a, Power[0]), b, Power[1]), c, Power[2]) = a + b * 256 + c * 65536
  BY <1>1, Powers, SMT DEF Added
<1>4. 256 * (256 * a + b) + c = a + b * 256 + c * 65536 <=> a = c
  BY <1>1, SMT
<1> QED BY <1>2, <1>3, <1>4, SMT DEF AlikeThree

AlikeFour(a, b, c, d) ==
    Shifted(Shifted(Shifted(Shifted(0, a), b), c), d)
    = Added(Added(Added(Added(0, a, Power[0]), b, Power[1]), c, Power[2]), d, Power[3])
    <=> a = d /\ b = c

\* Of four bytes, just if the outer two and the inner two are alike.
LEMMA SameFour ==
    ASSUME NEW a \in Byte, NEW b \in Byte, NEW c \in Byte, NEW d \in Byte
    PROVE  AlikeFour(a, b, c, d)
<1>1. a \in 0..255 /\ b \in 0..255 /\ c \in 0..255 /\ d \in 0..255
  BY DEF Byte
<1>2. Shifted(Shifted(Shifted(Shifted(0, a), b), c), d) = 256 * (256 * (256 * a + b) + c) + d
  BY <1>1, SMT DEF Shifted
<1>3. Added(Added(Added(Added(0, a, Power[0]), b, Power[1]), c, Power[2]), d, Power[3]) = a + b * 256 + c * 65536 + d * 16777216
  BY <1>1, Powers, SMT DEF Added
<1>4. 256 * (256 * (256 * a + b) + c) + d = a + b * 256 + c * 65536 + d * 16777216 <=> a = d /\ b = c
  BY <1>1, SMT
<1> QED BY <1>2, <1>3, <1>4, SMT DEF AlikeFour

\* Length bytes read the same in both orders just if they are a palindrome.
LEMMA BothOrders ==
    ASSUME NEW d \in Seq(Byte), Len(d) \in 1..4, Len(d) <= UsizeWidth
    PROVE  NumberLE(d) = NumberBE(d) <=> Both(d)
<1> DEFINE n == Len(d)
<1>1. PICK v \in [0..n -> Nat] :
        v[0] = 0 /\ (\A i \in 1..n : v[i] = 256 * v[i - 1] + d[i]) /\ NumberBE(d) = v[n]
  BY NumberBEDef
<1>2. PICK x \in [0..n -> Nat] :
        x[0] = 0 /\ (\A i \in 1..n : x[i] = x[i - 1] + d[i] * Power[i - 1]) /\ NumberLE(d) = x[n]
  BY LittleEndian
<1>3. \A i \in 1..n : d[i] \in Byte
  OBVIOUS
<1>4. Both(d) <=> \A i \in 1..n : d[i] = d[n + 1 - i]
  BY Zenon DEF Both
<1>5. n \in 1..4
  OBVIOUS
<1> HIDE DEF n
<1>6. \A i \in 1..n : v[i] = Shifted(v[i - 1], d[i]) /\ x[i] = Added(x[i - 1], d[i], Power[i - 1])
  BY <1>1, <1>2, Zenon DEF Shifted, Added
<1>11. v[0] = 0 /\ x[0] = 0 /\ NumberBE(d) = v[n] /\ NumberLE(d) = x[n]
  BY <1>1, <1>2, Zenon
<1>7. CASE n = 1
  <2>1. /\ v[1] = Shifted(v[0], d[1]) /\ x[1] = Added(x[0], d[1], Power[0])
    <3>1. 1 \in 1..n /\ 1 - 1 = 0
      BY <1>7
    <3> QED BY <1>6, <3>1
  <2>2. d[1] \in Byte
    BY <1>3, <1>7
  <2>3. v[1] = x[1]
    <3>1. v[1] = Shifted(0, d[1]) /\ x[1] = Added(0, d[1], 1)
      BY <1>11, <2>1, PowerDef, Zenon
    <3>2. Shifted(0, d[1]) = Added(0, d[1], 1)
      BY <2>2, SameOne, Zenon
    <3> QED BY <3>1, <3>2
  <2>4. \A i \in 1..1 : d[i] = d[1 + 1 - i]
    OBVIOUS
  <2> QED BY <1>1, <1>2, <1>4, <1>7, <2>3, <2>4
<1>8. CASE n = 2
  <2>1. /\ v[1] = Shifted(v[0], d[1]) /\ x[1] = Added(x[0], d[1], Power[0])
        /\ v[2] = Shifted(v[1], d[2]) /\ x[2] = Added(x[1], d[2], Power[1])
    <3>1. 1 \in 1..n /\ 1 - 1 = 0 /\ 2 \in 1..n /\ 2 - 1 = 1
      BY <1>8
    <3> QED BY <1>6, <3>1
  <2>2. d[1] \in Byte /\ d[2] \in Byte
    BY <1>3, <1>8
  <2>3. NumberBE(d) = Shifted(Shifted(0, d[1]), d[2])
        /\ NumberLE(d) = Added(Added(0, d[1], Power[0]), d[2], Power[1])
    BY <1>11, <1>8, <2>1, Zenon
  <2>4. NumberLE(d) = NumberBE(d) <=> d[1] = d[2]
    <3>1. Shifted(Shifted(0, d[1]), d[2])
          = Added(Added(0, d[1], Power[0]), d[2], Power[1])
          <=> d[1] = d[2]
      <4>1. AlikeTwo(d[1], d[2])
        BY <2>2, SameTwo, Zenon
      <4> QED BY <4>1, Zenon DEF AlikeTwo
    <3> QED BY <2>3, <3>1, Zenon
  <2>5. (\A i \in 1..2 : d[i] = d[2 + 1 - i]) <=> d[1] = d[2]
    <3>1. 1 \in 1..2 /\ 2 + 1 - 1 = 2 /\ 2 \in 1..2 /\ 2 + 1 - 2 = 1
      OBVIOUS
    <3>2. 1..2 = {1, 2}
      OBVIOUS
    <3> QED BY <3>1, <3>2
  <2> QED BY <1>4, <1>8, <2>4, <2>5, Zenon
<1>9. CASE n = 3
  <2>1. /\ v[1] = Shifted(v[0], d[1]) /\ x[1] = Added(x[0], d[1], Power[0])
        /\ v[2] = Shifted(v[1], d[2]) /\ x[2] = Added(x[1], d[2], Power[1])
        /\ v[3] = Shifted(v[2], d[3]) /\ x[3] = Added(x[2], d[3], Power[2])
    <3>1. 1 \in 1..n /\ 1 - 1 = 0 /\ 2 \in 1..n /\ 2 - 1 = 1 /\ 3 \in 1..n /\ 3 - 1 = 2
      BY <1>9
    <3> QED BY <1>6, <3>1
  <2>2. d[1] \in Byte /\ d[2] \in Byte /\ d[3] \in Byte
    BY <1>3, <1>9
  <2>3. NumberBE(d) = Shifted(Shifted(Shifted(0, d[1]), d[2]), d[3])
        /\ NumberLE(d) = Added(Added(Added(0, d[1], Power[0]), d[2], Power[1]), d[3], Power[2])
    BY <1>11, <1>9, <2>1, Zenon
  <2>4. NumberLE(d) = NumberBE(d) <=> d[1] = d[3]
    <3>1. Shifted(Shifted(Shifted(0, d[1]), d[2]), d[3])
          = Added(Added(Added(0, d[1], Power[0]), d[2], Power[1]), d[3], Power[2])
          <=> d[1] = d[3]
      <4>1. AlikeThree(d[1], d[2], d[3])
        BY <2>2, SameThree, Zenon
      <4> QED BY <4>1, Zenon DEF AlikeThree
    <3> QED BY <2>3, <3>1, Zenon
  <2>5. (\A i \in 1..3 : d[i] = d[3 + 1 - i]) <=> d[1] = d[3]
    <3>1. 1 \in 1..3 /\ 3 + 1 - 1 = 3 /\ 2 \in 1..3 /\ 3 + 1 - 2 = 2 /\ 3 \in 1..3 /\ 3 + 1 - 3 = 1
      OBVIOUS
    <3>2. 1..3 = {1, 2, 3}
      OBVIOUS
    <3> QED BY <3>1, <3>2
  <2> QED BY <1>4, <1>9, <2>4, <2>5, Zenon
<1>10. CASE n = 4
  <2>1. /\ v[1] = Shifted(v[0], d[1]) /\ x[1] = Added(x[0], d[1], Power[0])
        /\ v[2] = Shifted(v[1], d[2]) /\ x[2] = Added(x[1], d[2], Power[1])
        /\ v[3] = Shifted(v[2], d[3]) /\ x[3] = Added(x[2], d[3], Power[2])
        /\ v[4] = Shifted(v[3], d[4]) /\ x[4] = Added(x[3], d[4], Power[3])
    <3>1. 1 \in 1..n /\ 1 - 1 = 0 /\ 2 \in 1..n /\ 2 - 1 = 1 /\ 3 \in 1..n /\ 3 - 1 = 2 /\ 4 \in 1..n /\ 4 - 1 = 3
      BY <1>10
    <3> QED BY <1>6, <3>1
  <2>2. d[1] \in Byte /\ d[2] \in Byte /\ d[3] \in Byte /\ d[4] \in Byte
    BY <1>3, <1>10
  <2>3. NumberBE(d) = Shifted(Shifted(Shifted(Shifted(0, d[1]), d[2]), d[3]), d[4])
        /\ NumberLE(d) = Added(Added(Added(Added(0, d[1], Power[0]), d[2], Power[1]), d[3], Power[2]), d[4], Power[3])
    BY <1>11, <1>10, <2>1, Zenon
  <2>4. NumberLE(d) = NumberBE(d) <=> d[1] = d[4] /\ d[2] = d[3]
    <3>1. Shifted(Shifted(Shifted(Shifted(0, d[1]), d[2]), d[3]), d[4])
          = Added(Added(Added(Added(0, d[1], Power[0]), d[2], Power[1]), d[3], Power[2]), d[4], Power[3])
          <=> d[1] = d[4] /\ d[2] = d[3]
      <4>1. AlikeFour(d[1], d[2], d[3], d[4])
        BY <2>2, SameFour, Zenon
      <4> QED BY <4>1, Zenon DEF AlikeFour
    <3> QED BY <2>3, <3>1, Zenon
  <2>5. (\A i \in 1..4 : d[i] = d[4 + 1 - i]) <=> d[1] = d[4] /\ d[2] = d[3]
    <3>1. 1 \in 1..4 /\ 4 + 1 - 1 = 4 /\ 2 \in 1..4 /\ 4 + 1 - 2 = 3 /\ 3 \in 1..4 /\ 4 + 1 - 3 = 2 /\ 4 \in 1..4 /\ 4 + 1 - 4 = 1
      OBVIOUS
    <3>2. 1..4 = {1, 2, 3, 4}
      OBVIOUS
    <3> QED BY <3>1, <3>2
  <2> QED BY <1>4, <1>10, <2>4, <2>5, Zenon
<1> QED BY <1>5, <1>7, <1>8, <1>9, <1>10

-----------------------------------------------------------------------------
(* Fields: what is decoded where a field stands.                            *)

\* A pair of bytes as a sequence.
LEMMA TwoBytes ==
    ASSUME NEW a \in Byte, NEW b \in Byte
    PROVE  <<a, b>> \in Seq(Byte) /\ Len(<<a, b>>) = 2 /\ <<a, b>>[1] = a /\ <<a, b>>[2] = b
OBVIOUS

\* Bytes one after the other.
LEMMA ConcatBytes ==
    ASSUME NEW s \in Seq(Byte), NEW t \in Seq(Byte), Len(s) >= 1
    PROVE  s \o t \in Seq(Byte) /\ Len(s \o t) = Len(s) + Len(t) /\ (s \o t)[1] = s[1]
OBVIOUS

\* An integer takes its tag, its width and as many bytes.
LEMMA PackIntType ==
    ASSUME NEW w \in 1..IntWidth, NEW n \in Nat
    PROVE  /\ PackInt(n, w) \in Seq(Byte) /\ Len(PackInt(n, w)) = 2 + w
           /\ PackInt(n, w)[1] = TAG_INT
<1>1. w \in Nat /\ w \in 0..UsizeWidth /\ w \in Byte /\ TAG_INT \in Byte
  BY WidthType DEF Byte, TAG_INT
<1>2. BigEndian(n, w) \in Seq(Byte) /\ Len(BigEndian(n, w)) = w
  BY <1>1, BigEndianType
<1>3. <<TAG_INT, w>> \in Seq(Byte) /\ Len(<<TAG_INT, w>>) = 2 /\ <<TAG_INT, w>>[1] = TAG_INT
  BY <1>1, TwoBytes, Zenon
<1> DEFINE s == <<TAG_INT, w>>
           t == BigEndian(n, w)
<1>4. PackInt(n, w) = s \o t
  BY Zenon DEF PackInt
<1>5. s \in Seq(Byte) /\ Len(s) = 2 /\ s[1] = TAG_INT /\ t \in Seq(Byte) /\ Len(t) = w
  BY <1>2, <1>3
<1> HIDE DEF s, t
<1>6. s \o t \in Seq(Byte) /\ Len(s \o t) = Len(s) + Len(t) /\ (s \o t)[1] = s[1]
  <2>1. Len(s) >= 1
    BY <1>5
  <2> QED BY <1>5, <2>1, ConcatBytes, Zenon
<1> QED BY <1>4, <1>5, <1>6

\* take_asn_int decodes what pack encodes, for each width and number.
LEMMA IntDecodes ==
    ASSUME NEW bytes \in Seq(Byte), NEW p \in Nat, NEW w \in 1..IntWidth,
           NEW n \in 0..(Power[w] - 1), At(bytes, p, PackInt(n, w))
    PROVE  IntAt(bytes, p) = Taken(IntValue(n), p + 2 + w)
<1> DEFINE s == <<TAG_INT, w>>
           t == BigEndian(n, w)
           next == p + 2 + w
<1>1. w \in Nat /\ w \in 1..UsizeWidth /\ w \in 0..UsizeWidth /\ w \in Byte /\ TAG_INT \in Byte
  BY WidthType DEF Byte, TAG_INT
<1>2. n \in Nat
  BY <1>1, PowerDef
<1>3. t \in Seq(Byte) /\ Len(t) = w
  BY <1>1, <1>2, BigEndianType
<1>4. s \in Seq(Byte) /\ Len(s) = 2 /\ s[1] = TAG_INT /\ s[2] = w
  BY <1>1, TwoBytes, Zenon
<1>5. At(bytes, p, s \o t)
  BY Zenon DEF PackInt
<1>6. NumberBE(t) = n
  BY <1>1, BigEndianRead
<1> HIDE DEF s, t
<1>7. At(bytes, p, s) /\ At(bytes, p + 2, t)
  BY <1>3, <1>4, <1>5, AtConcat
<1>8. bytes[p + 1] = TAG_INT /\ bytes[p + 2] = w
  <2>1. 1 \in 1..Len(s) /\ 2 \in 1..Len(s)
    BY <1>4
  <2> QED BY <1>4, <1>7, <2>1 DEF At
<1>9. p + 2 <= Len(bytes) /\ next <= Len(bytes)
  BY <1>1, <1>3, <1>4, <1>7 DEF At
<1>10. SubSeq(bytes, p + 3, next) = t
  <2>1. p + 2 \in Nat /\ (p + 2) + 1 = p + 3 /\ (p + 2) + Len(t) = next
    BY <1>1, <1>3
  <2> HIDE DEF next
  <2>2. SubSeq(bytes, (p + 2) + 1, (p + 2) + Len(t)) = t
    BY <1>3, <1>7, <2>1, AtPart
  <2> QED BY <2>1, <2>2
<1>11. IntAt(bytes, p) = Taken(IntValue(NumberBE(SubSeq(bytes, p + 3, next))), next)
  BY <1>8, <1>9, Zenon DEF IntAt
<1> QED BY <1>6, <1>10, <1>11

\* What is read of a length: the length, where its bytes are the same in both orders.
Elements(k) == IF k < 128 THEN k ELSE NumberLE(BigEndian(k, WidthOf(k)))

\* The length read of a length field is the one written just if its bytes read the
\* same both ways.
LEMMA ElementsRead ==
    ASSUME NEW k \in 0..(Power[IntWidth] - 1)
    PROVE  /\ Elements(k) \in 0..(Power[IntWidth] - 1)
           /\ Elements(k) = k <=> SameBothWays(k)
<1>1. IntWidth \in 0..UsizeWidth /\ Power[IntWidth] \in Nat
  <2>1. IntWidth \in 0..UsizeWidth
    BY WidthType
  <2> QED BY <2>1, PowerDef
<1>2. CASE k < 128
  BY <1>1, <1>2 DEF Elements, SameBothWays
<1>3. CASE ~(k < 128)
  <2> DEFINE w == WidthOf(k)
             d == BigEndian(k, w)
  <2>1. k \in 1..(Power[IntWidth] - 1) /\ k \in Nat
    BY <1>1, <1>3
  <2>2. w \in 1..IntWidth /\ k < Power[w]
    BY <2>1, WidthOfType
  <2> HIDE DEF w
  <2>3. w \in 1..4 /\ w \in 1..UsizeWidth /\ w \in 0..UsizeWidth /\ IntWidth \in w..UsizeWidth
    BY <2>2, WidthType
  <2>4. k \in 0..(Power[w] - 1) /\ Power[w] \in Nat
    BY <2>1, <2>2, <2>3, PowerDef
  <2>5. d \in Seq(Byte) /\ Len(d) = w
    BY <2>1, <2>3, BigEndianType
  <2>6. NumberBE(d) = k
    BY <2>3, <2>4, BigEndianRead
  <2>7. Elements(k) = NumberLE(d)
    BY <1>3, Zenon DEF Elements, w
  <2>8. SameBothWays(k) <=> \A i \in 1..w : d[i] = d[w + 1 - i]
    BY <1>3, Zenon DEF SameBothWays, w
  <2> HIDE DEF d
  <2>9. Len(d) \in 1..4 /\ Len(d) <= UsizeWidth
    BY <2>3, <2>5, WidthType
  <2>10. NumberLE(d) = NumberBE(d) <=> Both(d)
    BY <2>5, <2>9, BothOrders
  <2>11. NumberLE(d) \in 0..(Power[w] - 1)
    BY <2>5, <2>9, LittleEndian
  <2>12. Power[w] <= Power[IntWidth]
    BY <2>3, PowerOrder
  <2> QED BY <1>1, <2>4, <2>5, <2>6, <2>7, <2>8, <2>10, <2>11, <2>12 DEF Both
<1> QED BY <1>2, <1>3

\* The length field of pack_string: one byte below 128, else a count and the bytes.
LEMMA LengthFieldType ==
    ASSUME NEW k \in 0..(Power[IntWidth] - 1)
    PROVE  LET field == LengthField(k)
           IN /\ field \in Seq(Byte)
              /\ k < 128 => Len(field) = 1 /\ field[1] = k
              /\ ~(k < 128) => /\ WidthOf(k) \in 1..IntWidth
                               /\ Len(field) = 1 + WidthOf(k) /\ field[1] = 128 + WidthOf(k)
                               /\ field = <<128 + WidthOf(k)>> \o BigEndian(k, WidthOf(k))
<1> DEFINE field == LengthField(k)
<1>1. Power[IntWidth] \in Nat /\ k \in Nat
  <2>1. IntWidth \in 0..UsizeWidth
    BY WidthType
  <2> QED BY <2>1, PowerDef
<1>2. CASE k < 128
  <2>1. field = <<k>> /\ k \in Byte
    BY <1>1, <1>2 DEF LengthField, Byte
  <2> QED BY <1>2, <2>1
<1>3. CASE ~(k < 128)
  <2> DEFINE w == WidthOf(k)
             t == BigEndian(k, w)
             s == <<128 + w>>
  <2>1. k \in 1..(Power[IntWidth] - 1)
    BY <1>1, <1>3
  <2>2. w \in 1..IntWidth
    BY <2>1, WidthOfType
  <2>3. field = s \o t
    BY <1>3, Zenon DEF LengthField
  <2> HIDE DEF w
  <2>4. w \in Nat /\ w \in 0..UsizeWidth /\ 128 + w \in Byte
    BY <2>2, WidthType DEF Byte
  <2>5. t \in Seq(Byte) /\ Len(t) = w
    BY <1>1, <2>4, BigEndianType
  <2>6. s \in Seq(Byte) /\ Len(s) = 1 /\ s[1] = 128 + w
    BY <2>4
  <2> HIDE DEF s, t
  <2>7. field \in Seq(Byte) /\ Len(field) = 1 + w /\ field[1] = 128 + w
    <3>1. s \o t \in Seq(Byte) /\ Len(s \o t) = Len(s) + Len(t) /\ (s \o t)[1] = s[1]
      <4>1. Len(s) >= 1
        BY <2>6
      <4> QED BY <2>5, <2>6, <4>1, ConcatBytes, Zenon
    <3> HIDE DEF field
    <3> QED BY <2>3, <2>5, <2>6, <3>1
  <2> QED BY <1>3, <2>2, <2>3, <2>7 DEF s, t, w
<1> QED BY <1>2, <1>3

\* A string in a payload: its header, its bytes and its padding.
HeaderOf(tag, k, count, padding) ==
    <<tag>> \o LengthField(k) \o AsnInt(count) \o AsnInt(padding)

\* The tags of strings are bytes other than that of integers, one for each element size.
LEMMA Tags ==
    /\ \A tag \in DOMAIN ElemSize : tag \in Byte /\ tag # TAG_INT /\ ElemSize[tag] \in {1, 2, 4}
    /\ \A size \in {1, 2, 4} : \E tag \in DOMAIN ElemSize : ElemSize[tag] = size
BY DEF ElemSize, Byte, TAG_INT, TAG_STRING_U8, TAG_STRING_U16, TAG_STRING_U32

\* The length of what pack_string puts before the bytes of a string.
LEMMA HeadType ==
    ASSUME NEW tag \in DOMAIN ElemSize, NEW k \in 0..(Power[IntWidth] - 1),
           NEW count \in Nat, NEW padding \in Nat
    PROVE  /\ HeaderOf(tag, k, count, padding) \in Seq(Byte)
           /\ Len(HeaderOf(tag, k, count, padding))
              = 1 + Len(LengthField(k)) + (2 + IntWidth) + (2 + IntWidth)
           /\ HeaderOf(tag, k, count, padding)[1] = tag
<1> DEFINE a == <<tag>>
           b == LengthField(k)
           c == AsnInt(count)
           d == AsnInt(padding)
<1>1. a \in Seq(Byte) /\ Len(a) = 1 /\ a[1] = tag
  BY Tags
<1>2. b \in Seq(Byte)
  BY LengthFieldType
<1>3. IntWidth \in 1..IntWidth /\ IntWidth \in Nat
  BY WidthType
<1>4. c \in Seq(Byte) /\ d \in Seq(Byte) /\ Len(c) = 2 + IntWidth /\ Len(d) = 2 + IntWidth
  BY <1>3, PackIntType DEF AsnInt
<1>5. HeaderOf(tag, k, count, padding) = a \o b \o c \o d
  BY Zenon DEF HeaderOf
<1> HIDE DEF a, b, c, d
<1>6. a \o b \in Seq(Byte) /\ Len(a \o b) = 1 + Len(b) /\ (a \o b)[1] = tag
  <2>1. Len(a) >= 1
    BY <1>1
  <2>2. a \o b \in Seq(Byte) /\ Len(a \o b) = Len(a) + Len(b) /\ (a \o b)[1] = a[1]
    BY <1>1, <1>2, <2>1, ConcatBytes, Zenon
  <2> QED BY <1>1, <2>2
<1>7. /\ a \o b \o c \in Seq(Byte) /\ Len(a \o b \o c) = 1 + Len(b) + (2 + IntWidth)
      /\ (a \o b \o c)[1] = tag
  <2> DEFINE x == a \o b
  <2>1. x \in Seq(Byte) /\ Len(x) >= 1 /\ x[1] = tag
    BY <1>2, <1>6
  <2> HIDE DEF x
  <2>2. x \o c \in Seq(Byte) /\ Len(x \o c) = Len(x) + Len(c) /\ (x \o c)[1] = tag
    BY <1>4, <2>1, ConcatBytes, Zenon
  <2> QED BY <1>4, <1>6, <2>2 DEF x
<1>8. /\ a \o b \o c \o d \in Seq(Byte)
      /\ Len(a \o b \o c \o d) = 1 + Len(b) + (2 + IntWidth) + (2 + IntWidth)
      /\ (a \o b \o c \o d)[1] = tag
  <2> DEFINE x == a \o b \o c
  <2>1. x \in Seq(Byte) /\ Len(x) >= 1 /\ x[1] = tag
    <3>1. Len(b) \in Nat
      BY <1>2
    <3> QED BY <1>3, <1>7, <3>1
  <2> HIDE DEF x
  <2>2. x \o d \in Seq(Byte) /\ Len(x \o d) = Len(x) + Len(d) /\ (x \o d)[1] = tag
    BY <1>4, <2>1, ConcatBytes, Zenon
  <2> QED BY <1>4, <1>7, <2>2 DEF x
<1> QED BY <1>5, <1>8 DEF b

HeaderIs(header, p, tag, k, count, padding) ==
    /\ header.tagged /\ header.ok
    /\ header.width \in 0..IntWidth
    /\ header.bytes = Elements(k) * ElemSize[tag]
    /\ header.count = count /\ header.padding = padding
    /\ header.next = p + Len(HeaderOf(tag, k, count, padding))

\* take_string finds in the header what pack_string has put there, but for the order
\* of the length bytes.
LEMMA HeaderDecodes ==
    ASSUME NEW bytes \in Seq(Byte), NEW p \in Nat, NEW tag \in DOMAIN ElemSize,
           NEW k \in 0..(Power[IntWidth] - 1), NEW count \in 0..(Power[IntWidth] - 1),
           NEW padding \in 0..(Power[IntWidth] - 1), At(bytes, p, HeaderOf(tag, k, count, padding))
    PROVE  HeaderIs(HeaderAt(bytes, p), p, tag, k, count, padding)
<1> DEFINE a == <<tag>>
           b == LengthField(k)
           c == AsnInt(count)
           d == AsnInt(padding)
           w == WidthOf(k)
           digits == BigEndian(k, w)
<1>1. a \in Seq(Byte) /\ Len(a) = 1 /\ a[1] = tag
  BY Tags
<1>2. /\ b \in Seq(Byte) /\ Len(b) \in Nat
      /\ k < 128 => Len(b) = 1 /\ b[1] = k
      /\ ~(k < 128) => w \in 1..IntWidth /\ Len(b) = 1 + w /\ b[1] = 128 + w
                       /\ b = <<128 + w>> \o digits
  BY LengthFieldType
<1>3. IntWidth \in 1..IntWidth /\ IntWidth \in 1..4 /\ Power[IntWidth] \in Nat
  <2>1. IntWidth \in 1..4 /\ IntWidth \in 0..UsizeWidth
    BY WidthType
  <2> QED BY <2>1, PowerDef
<1>4. count \in Nat /\ padding \in Nat /\ k \in Nat
  BY <1>3
<1>5. c \in Seq(Byte) /\ d \in Seq(Byte) /\ Len(c) = 2 + IntWidth /\ Len(d) = 2 + IntWidth
  BY <1>3, <1>4, PackIntType DEF AsnInt
<1>6. At(bytes, p, a \o b \o c \o d)
  BY Zenon DEF HeaderOf
<1> DEFINE p1 == p + 1 + Len(b)
           p2 == p1 + 2 + IntWidth
<1> HIDE DEF a, b, c, d, w, digits
<1>7. a \o b \in Seq(Byte) /\ Len(a \o b) = 1 + Len(b)
  <2>1. Len(a) >= 1
    BY <1>1
  <2>2. a \o b \in Seq(Byte) /\ Len(a \o b) = Len(a) + Len(b)
    BY <1>1, <1>2, <2>1, ConcatBytes, Zenon
  <2> QED BY <1>1, <2>2
<1>8. a \o b \o c \in Seq(Byte) /\ Len(a \o b \o c) = 1 + Len(b) + (2 + IntWidth)
  <2> DEFINE x == a \o b
  <2>1. x \in Seq(Byte) /\ Len(x) = 1 + Len(b) /\ Len(x) >= 1
    BY <1>2, <1>7
  <2> HIDE DEF x
  <2>2. x \o c \in Seq(Byte) /\ Len(x \o c) = Len(x) + Len(c)
    BY <1>5, <2>1, ConcatBytes, Zenon
  <2> QED BY <1>5, <2>1, <2>2 DEF x
<1>9. At(bytes, p, a) /\ At(bytes, p + 1, b) /\ At(bytes, p1, c) /\ At(bytes, p2, d)
  <2>1. At(bytes, p, a \o b \o c) /\ At(bytes, p + Len(a \o b \o c), d)
    <3> DEFINE x == a \o b \o c
    <3>1. x \in Seq(Byte)
      BY <1>8
    <3> HIDE DEF x
    <3> QED BY <1>5, <1>6, <3>1, AtConcat, Zenon DEF x
  <2>2. At(bytes, p, a \o b) /\ At(bytes, p + Len(a \o b), c)
    <3> DEFINE x == a \o b
    <3>1. x \in Seq(Byte)
      BY <1>7
    <3> HIDE DEF x
    <3> QED BY <1>5, <2>1, <3>1, AtConcat, Zenon DEF x
  <2>3. At(bytes, p, a) /\ At(bytes, p + Len(a), b)
    BY <1>1, <1>2, <2>2, AtConcat, Zenon
  <2>4. p + Len(a) = p + 1 /\ p + Len(a \o b) = p1 /\ p + Len(a \o b \o c) = p2
    BY <1>1, <1>2, <1>3, <1>7, <1>8
  <2> QED BY <2>1, <2>2, <2>3, <2>4, Zenon
<1>10. p1 \in Nat /\ p2 \in Nat
  BY <1>2, <1>3
<1>11. IntAt(bytes, p1) = Taken(IntValue(count), p2)
  <2> HIDE DEF p1
  <2> QED BY <1>3, <1>9, <1>10, IntDecodes, Zenon DEF c, AsnInt
<1>12. IntAt(bytes, p2) = Taken(IntValue(padding), p2 + 2 + IntWidth)
  <2> HIDE DEF p2
  <2> QED BY <1>3, <1>9, <1>10, IntDecodes, Zenon DEF d, AsnInt
<1>13. /\ bytes[p + 1] = tag /\ bytes[p + 2] = b[1]
       /\ p + 2 <= Len(bytes) /\ p1 <= Len(bytes)
  <2>1. 1 \in 1..Len(a) /\ 1 \in 1..Len(b)
    BY <1>1, <1>2
  <2>2. bytes[p + 1] = a[1] /\ bytes[(p + 1) + 1] = b[1] /\ (p + 1) + Len(b) <= Len(bytes)
    BY <1>9, <2>1 DEF At
  <2>3. (p + 1) + 1 = p + 2 /\ (p + 1) + Len(b) = p1
    BY <1>2
  <2> QED BY <1>1, <1>2, <2>1, <2>2, <2>3
<1> DEFINE long == bytes[p + 2] >= 128
           width == IF long THEN bytes[p + 2] % 16 ELSE 0
           elements == IF long THEN NumberLE(SubSeq(bytes, p + 3, p1)) ELSE bytes[p + 2]
<1>14. width \in 0..IntWidth /\ p + 2 + width = p1 /\ elements = Elements(k)
  <2>1. CASE k < 128
    <3>1. bytes[p + 2] = k /\ ~(k >= 128) /\ p1 = p + 2
      <4>1. bytes[p + 2] = k /\ Len(b) = 1
        BY <1>2, <1>13, <2>1, Zenon
      <4>2. p + 1 + Len(b) = p + 2 /\ ~(k >= 128)
        BY <1>4, <2>1, <4>1
      <4> QED BY <4>1, <4>2, Zenon
    <3>2. ~long /\ elements = k /\ width = 0
      BY <3>1
    <3> HIDE DEF p1, elements, width
    <3> QED BY <1>3, <2>1, <3>1, <3>2 DEF Elements
  <2>2. CASE ~(k < 128)
    <3>1. bytes[p + 2] = 128 + w /\ w \in 1..4 /\ w \in 1..IntWidth
      <4>1. bytes[p + 2] = 128 + w /\ w \in 1..IntWidth
        BY <1>2, <1>13, <2>2
      <4> QED BY <1>3, <4>1
    <3>2. long /\ width = w
      BY <3>1
    <3>3. p1 = p + 2 + w /\ b = <<128 + w>> \o digits
      <4>1. Len(b) = 1 + w /\ b = <<128 + w>> \o digits
        BY <1>2, <2>2, Zenon
      <4>2. w \in Nat
        BY <3>1
      <4>3. p1 = p + 2 + w
        BY <4>1, <4>2
      <4> QED BY <4>1, <4>3, Zenon
    <3>4. digits \in Seq(Byte) /\ Len(digits) = w
      <4>1. w \in 0..UsizeWidth
        BY <3>1, WidthType
      <4> QED BY <1>4, <4>1, BigEndianType DEF digits
    <3> HIDE DEF p1, width
    <3>5. At(bytes, p + 2, digits)
      <4>1. <<128 + w>> \in Seq(Byte) /\ Len(<<128 + w>>) = 1
        BY <3>1 DEF Byte
      <4> DEFINE x == <<128 + w>>
      <4>2. At(bytes, p + 1, x \o digits) /\ x \in Seq(Byte) /\ Len(x) = 1 /\ p + 1 \in Nat
        BY <1>9, <3>3, <4>1
      <4> HIDE DEF x
      <4>3. At(bytes, (p + 1) + Len(x), digits)
        BY <3>4, <4>2, AtConcat, Zenon
      <4>4. (p + 1) + Len(x) = p + 2
        BY <4>2
      <4> QED BY <4>3, <4>4
    <3>6. SubSeq(bytes, p + 3, p1) = digits
      <4>1. p + 2 \in Nat /\ (p + 2) + 1 = p + 3 /\ (p + 2) + Len(digits) = p1
        BY <3>1, <3>3, <3>4
      <4>2. SubSeq(bytes, (p + 2) + 1, (p + 2) + Len(digits)) = digits
        BY <3>4, <3>5, <4>1, AtPart, Zenon
      <4> QED BY <4>1, <4>2
    <3>7. elements = NumberLE(digits)
      BY <3>2, <3>6
    <3>8. Elements(k) = NumberLE(digits)
      BY <2>2, Zenon DEF Elements, digits, w
    <3>9. p + 2 + width = p1 /\ width \in 0..IntWidth
      BY <1>3, <3>1, <3>2, <3>3
    <3> QED BY <3>7, <3>8, <3>9
  <2> QED BY <2>1, <2>2
<1>15. HeaderAt(bytes, p) =
         [tagged |-> TRUE, width |-> width, bytes |-> elements * ElemSize[tag], ok |-> TRUE,
          count |-> count, padding |-> padding, next |-> p2 + 2 + IntWidth]
  <2> DEFINE Tagged == p + 2 <= Len(bytes) /\ bytes[p + 1] \in DOMAIN ElemSize
             Long == Tagged /\ bytes[p + 2] >= 128
             Width == IF Long THEN bytes[p + 2] % 16 ELSE 0
             P1 == p + 2 + Width
             Elems == IF Long THEN NumberLE(SubSeq(bytes, p + 3, P1)) ELSE bytes[p + 2]
             Count == IntAt(bytes, P1)
             Padding == IntAt(bytes, Count.next)
  <2>1. HeaderAt(bytes, p) =
          [tagged |-> Tagged, width |-> Width,
           bytes |-> IF Tagged /\ P1 <= Len(bytes) THEN Elems * ElemSize[bytes[p + 1]] ELSE 0,
           ok |-> P1 <= Len(bytes) /\ Count.ok /\ Padding.ok,
           count |-> The(Count.value.as_int), padding |-> The(Padding.value.as_int),
           next |-> Padding.next]
    BY Zenon DEF HeaderAt
  <2>2. Tagged = TRUE /\ Width = width /\ P1 = p1 /\ Elems = elements
    <3>1. Tagged = TRUE
      BY <1>13
    <3>2. Long <=> long
      BY <3>1
    <3>3. Width = width
      BY <3>2, Zenon
    <3>4. P1 = p1
      BY <1>14, <3>3, Zenon
    <3>5. Elems = elements
      <4> HIDE DEF P1, p1, Long, long
      <4> QED BY <3>2, <3>4
    <3> HIDE DEF Tagged, Width, P1, Elems, width, p1, elements
    <3> QED BY <3>1, <3>3, <3>4, <3>5
  <2> HIDE DEF Tagged, Width, P1, Elems, width, p1, elements, long
  <2>3. Count = Taken(IntValue(count), p2)
    BY <1>11, <2>2
  <2>4. Count.ok = TRUE /\ Count.next = p2 /\ The(Count.value.as_int) = count
    BY <2>3 DEF Taken, IntValue, The
  <2>5. Padding = Taken(IntValue(padding), p2 + 2 + IntWidth)
    BY <1>12, <2>4
  <2> HIDE DEF p2
  <2>6. Padding.ok = TRUE /\ Padding.next = p2 + 2 + IntWidth /\ The(Padding.value.as_int) = padding
    BY <2>5 DEF Taken, IntValue, The
  <2> HIDE DEF Count, Padding
  <2>7. (P1 <= Len(bytes)) = TRUE
    BY <1>13, <2>2
  <2> QED BY <1>13, <2>1, <2>2, <2>4, <2>6, <2>7
<1>16. Len(HeaderOf(tag, k, count, padding)) = 1 + Len(b) + (2 + IntWidth) + (2 + IntWidth)
  BY <1>4, HeadType DEF b
<1>17. p2 + 2 + IntWidth = p + Len(HeaderOf(tag, k, count, padding))
  BY <1>2, <1>3, <1>16
<1> HIDE DEF p2, p1, width, elements
<1> QED BY <1>14, <1>15, <1>17 DEF HeaderIs

\* A usize is at least a byte longer than a u32.
LEMMA UsizeRoom == UsizeMod \in Nat /\ Power[IntWidth] \in Nat \ {0} /\ 256 * Power[IntWidth] <= UsizeMod
<1>1. /\ IntWidth + 1 \in 1..UsizeWidth /\ IntWidth + 1 \in 0..UsizeWidth /\ IntWidth \in 0..UsizeWidth
      /\ (IntWidth + 1) - 1 = IntWidth
      /\ UsizeWidth \in 0..UsizeWidth /\ UsizeWidth \in (IntWidth + 1)..UsizeWidth
  BY WidthType
<1>2. Power[IntWidth + 1] = 256 * Power[IntWidth]
  BY <1>1, PowerDef
<1>3. Power[IntWidth + 1] <= Power[UsizeWidth]
  BY <1>1, PowerOrder
<1> QED BY <1>1, <1>2, <1>3, PowerDef DEF UsizeMod

\* A string of k elements in a field of so many bytes.
StringFits(value, spec, k) ==
    /\ spec.size \in {1, 2, 4} /\ spec.capacity \in Nat
    /\ value \in Seq(Byte) /\ k \in 0..spec.capacity /\ Len(value) = k * spec.size
    /\ spec.capacity * spec.size < Power[IntWidth]

Padding(value, spec) == spec.capacity * spec.size - Len(value)
StringTag(spec) == CHOOSE tag \in DOMAIN ElemSize : ElemSize[tag] = spec.size
StringHead(value, spec, k) ==
    HeaderOf(StringTag(spec), k, spec.capacity * spec.size, Padding(value, spec))

\* The numbers in the header of a string that fits its field.
LEMMA StringLengths ==
    ASSUME NEW value, NEW spec, NEW k, StringFits(value, spec, k)
    PROVE  /\ StringTag(spec) \in DOMAIN ElemSize /\ ElemSize[StringTag(spec)] = spec.size
           /\ k \in 0..(Power[IntWidth] - 1) /\ k \in Nat /\ Len(value) \div spec.size = k
           /\ spec.capacity * spec.size \in 0..(Power[IntWidth] - 1)
           /\ Padding(value, spec) \in 0..(Power[IntWidth] - 1) /\ Padding(value, spec) \in Nat
           /\ Len(value) + Padding(value, spec) = spec.capacity * spec.size
           /\ k <= spec.capacity * spec.size
           /\ Len(value) % spec.size = 0 /\ k <= spec.capacity
<1> DEFINE size == spec.size
           capacity == spec.capacity
           P == Power[IntWidth]
<1>1. /\ size \in {1, 2, 4} /\ capacity \in Nat /\ k \in Nat /\ k <= capacity
      /\ Len(value) = k * size /\ capacity * size < P /\ P \in Nat
  BY UsizeRoom DEF StringFits
<1>2. StringTag(spec) \in DOMAIN ElemSize /\ ElemSize[StringTag(spec)] = size
  <2>1. \E tag \in DOMAIN ElemSize : ElemSize[tag] = spec.size
    BY <1>1, Tags
  <2> QED BY <2>1, Zenon DEF StringTag
<1> DEFINE count == capacity * size
           length == Len(value)
<1> HIDE DEF size, capacity, P
<1>3. /\ count \in Nat /\ length \in Nat /\ k <= count /\ length <= count
      /\ length \div size = k /\ length % size = 0
  <2>1. CASE size = 1
    BY <1>1, <2>1
  <2>2. CASE size = 2
    BY <1>1, <2>2
  <2>3. CASE size = 4
    BY <1>1, <2>3
  <2> QED BY <1>1, <2>1, <2>2, <2>3
<1> HIDE DEF count, length
<1>4. /\ k \in 0..(P - 1) /\ count \in 0..(P - 1) /\ count - length \in 0..(P - 1)
      /\ count - length \in Nat /\ length + (count - length) = count
  BY <1>1, <1>3 DEF count
<1> QED BY <1>1, <1>2, <1>3, <1>4 DEF Padding, size, capacity, count, length, P

StringLayout(value, spec, k) ==
    LET head == StringHead(value, spec, k)
        zeros == [i \in 1..Padding(value, spec) |-> 0]
    IN /\ head \in Seq(Byte) /\ Len(head) >= 1 /\ head[1] \in DOMAIN ElemSize
       /\ zeros \in Seq(Byte) /\ Len(zeros) = Padding(value, spec)
       /\ value \in Seq(Byte)
       /\ PackString(value, spec) = head \o value \o zeros
       /\ head \o value \in Seq(Byte) /\ Len(head \o value) = Len(head) + Len(value)
       /\ PackString(value, spec) \in Seq(Byte)
       /\ Len(PackString(value, spec)) = Len(head) + Len(value) + Padding(value, spec)
       /\ PackString(value, spec)[1] = head[1]

\* A string is its header, its bytes and its padding.
LEMMA PackStringType ==
    ASSUME NEW value, NEW spec, NEW k, StringFits(value, spec, k)
    PROVE  StringLayout(value, spec, k)
<1> DEFINE head == StringHead(value, spec, k)
           padding == Padding(value, spec)
           zeros == [i \in 1..padding |-> 0]
<1>1. padding \in Nat /\ Len(value) \div spec.size = k
  BY StringLengths
<1>2. zeros \in Seq(Byte) /\ Len(zeros) = padding
  <2> HIDE DEF padding
  <2>1. zeros \in [1..padding -> Byte]
    BY DEF Byte
  <2>2. zeros \in Seq(Byte)
    BY <1>1, <2>1
  <2>3. Len(zeros) = padding
    BY <1>1
  <2> QED BY <2>2, <2>3
<1>3. head \in Seq(Byte) /\ Len(head) >= 1 /\ head[1] \in DOMAIN ElemSize
  <2>1. /\ StringTag(spec) \in DOMAIN ElemSize /\ k \in 0..(Power[IntWidth] - 1)
        /\ spec.capacity * spec.size \in Nat /\ padding \in Nat
    BY StringLengths, UsizeRoom
  <2>2. LengthField(k) \in Seq(Byte)
    BY <2>1, LengthFieldType
  <2>3. head \in Seq(Byte) /\ head[1] = StringTag(spec)
        /\ Len(head) = 1 + Len(LengthField(k)) + (2 + IntWidth) + (2 + IntWidth)
    BY <2>1, HeadType, Zenon DEF StringHead
  <2>4. Len(LengthField(k)) \in Nat
    BY <2>2
  <2> HIDE DEF head
  <2> QED BY <2>1, <2>3, <2>4, WidthType
<1>4. value \in Seq(Byte)
  BY DEF StringFits
<1>5. PackString(value, spec) = head \o value \o zeros
  BY <1>1, Zenon DEF PackString, StringHead, HeaderOf, StringTag, Padding
<1> HIDE DEF head, zeros, padding
<1>6. head \o value \in Seq(Byte) /\ Len(head \o value) = Len(head) + Len(value)
      /\ (head \o value)[1] = head[1]
  BY <1>3, <1>4, ConcatBytes, Zenon
<1>7. Len(head \o value) >= 1
  BY <1>3, <1>4, <1>6
<1> DEFINE x == head \o value
<1>8. x \o zeros \in Seq(Byte) /\ Len(x \o zeros) = Len(x) + Len(zeros) /\ (x \o zeros)[1] = x[1]
  <2>1. x \in Seq(Byte) /\ Len(x) >= 1
    BY <1>6, <1>7
  <2> HIDE DEF x
  <2> QED BY <1>2, <2>1, ConcatBytes, Zenon
<1> QED BY <1>2, <1>3, <1>4, <1>5, <1>6, <1>8, Zenon DEF StringLayout, head, zeros, padding, x

\* take_string decodes what pack_string encodes if the length reads the same both
\* ways, and otherwise reports an error, never another string.
LEMMA StringDecodes ==
    ASSUME NEW bytes \in Seq(Byte), NEW p \in Nat, NEW value, NEW spec, NEW k,
           StringFits(value, spec, k), At(bytes, p, PackString(value, spec))
    PROVE  /\ SameBothWays(k) =>
                StringAt(bytes, p) = Taken(BytesValue(value), p + Len(PackString(value, spec)))
           /\ ~SameBothWays(k) => ~StringAt(bytes, p).ok
           /\ ~OverflowsAt(bytes, p)
<1> DEFINE head == StringHead(value, spec, k)
           padding == Padding(value, spec)
           zeros == [i \in 1..padding |-> 0]
           count == spec.capacity * spec.size
           h == HeaderAt(bytes, p)
           size == spec.size
           P == Power[IntWidth]
           length == Len(value)
<1>1. /\ head \in Seq(Byte) /\ zeros \in Seq(Byte) /\ Len(zeros) = padding
      /\ value \in Seq(Byte) /\ PackString(value, spec) = head \o value \o zeros
      /\ head \o value \in Seq(Byte) /\ Len(head \o value) = Len(head) + length
      /\ Len(PackString(value, spec)) = Len(head) + length + padding
  BY PackStringType, Zenon DEF StringLayout
<1>2. /\ StringTag(spec) \in DOMAIN ElemSize /\ ElemSize[StringTag(spec)] = size
      /\ k \in 0..(P - 1) /\ k \in Nat
      /\ count \in 0..(P - 1) /\ padding \in 0..(P - 1) /\ padding \in Nat
      /\ length + padding = count /\ k <= count
  BY StringLengths
<1>3. size \in {1, 2, 4} /\ length = k * size /\ length \in Nat
  BY <1>1 DEF StringFits
<1>4. P \in Nat /\ UsizeMod \in Nat /\ 256 * P <= UsizeMod
  BY UsizeRoom
<1> HIDE DEF head, zeros, padding, count, size, P, length
<1>5. At(bytes, p, head) /\ At(bytes, p + Len(head), value)
      /\ At(bytes, p + Len(head) + length, zeros)
  <2>1. At(bytes, p, head \o value) /\ At(bytes, p + Len(head \o value), zeros)
    <3> DEFINE x == head \o value
    <3>1. x \in Seq(Byte) /\ At(bytes, p, x \o zeros)
      BY <1>1
    <3> HIDE DEF x
    <3> QED BY <1>1, <3>1, AtConcat, Zenon DEF x
  <2>2. At(bytes, p, head) /\ At(bytes, p + Len(head), value)
    BY <1>1, <2>1, AtConcat, Zenon
  <2>3. p + Len(head \o value) = p + Len(head) + length
    BY <1>1, <1>3
  <2> QED BY <2>1, <2>2, <2>3, Zenon
<1>6. /\ h.tagged /\ h.ok /\ h.width \in 0..IntWidth /\ h.bytes = Elements(k) * size
      /\ h.count = count /\ h.padding = padding /\ h.next = p + Len(head)
  <2>1. At(bytes, p, HeaderOf(StringTag(spec), k, count, padding))
    BY <1>5, Zenon DEF head, StringHead, count, padding
  <2>2. head = HeaderOf(StringTag(spec), k, count, padding)
    BY Zenon DEF head, StringHead, count, padding
  <2>3. count \in 0..(Power[IntWidth] - 1) /\ padding \in 0..(Power[IntWidth] - 1)
        /\ k \in 0..(Power[IntWidth] - 1)
    BY <1>2 DEF P
  <2> DEFINE tag == StringTag(spec)
  <2>4. /\ h.tagged /\ h.ok /\ h.width \in 0..IntWidth
        /\ h.bytes = Elements(k) * ElemSize[tag]
        /\ h.count = count /\ h.padding = padding
        /\ h.next = p + Len(HeaderOf(tag, k, count, padding))
    <3> HIDE DEF tag
    <3>1. tag \in DOMAIN ElemSize /\ At(bytes, p, HeaderOf(tag, k, count, padding))
      BY <1>2, <2>1 DEF tag
    <3>2. HeaderIs(h, p, tag, k, count, padding)
      BY <2>3, <3>1, HeaderDecodes, Zenon
    <3> HIDE DEF h
    <3> QED BY <3>2, Zenon DEF HeaderIs
  <2> HIDE DEF h
  <2> QED BY <1>2, <2>2, <2>4, Zenon
<1> DEFINE E == Elements(k)
           next == p + Len(head)
<1> HIDE DEF h
<1>7. E \in 0..(P - 1) /\ (E = k <=> SameBothWays(k))
  BY <1>2, ElementsRead DEF P
<1> HIDE DEF E
<1>8. /\ E * size \in Nat /\ E * size <= 4 * P /\ (E * size = k * size => E = k)
      /\ E * size + padding \in Nat /\ E * size + padding < UsizeMod /\ E * size < UsizeMod
  <2>1. E \in Nat /\ E < P /\ padding < P
    BY <1>2, <1>4, <1>7
  <2>2. CASE size = 1
    BY <1>2, <1>4, <2>1, <2>2
  <2>3. CASE size = 2
    BY <1>2, <1>4, <2>1, <2>3
  <2>4. CASE size = 4
    BY <1>2, <1>4, <2>1, <2>4
  <2> QED BY <1>3, <2>2, <2>3, <2>4
<1>9. h.bytes = E * size
  BY <1>6 DEF E
<1> DEFINE bytesSaid == E * size
<1> HIDE DEF bytesSaid
<1>10. /\ bytesSaid \in Nat /\ bytesSaid < UsizeMod /\ bytesSaid + padding < UsizeMod
       /\ h.bytes = bytesSaid /\ (bytesSaid = length => E = k) /\ (E = k => bytesSaid = length)
  BY <1>3, <1>8, <1>9 DEF bytesSaid
<1>11. bytesSaid % UsizeMod = bytesSaid /\ (bytesSaid + padding) % UsizeMod = bytesSaid + padding
  BY <1>2, <1>4, <1>10
<1>12. ~OverflowsAt(bytes, p)
  <2>1. ~(h.width > UsizeWidth)
    BY <1>6, WidthType
  <2>2. ~(h.bytes >= UsizeMod)
    BY <1>4, <1>10
  <2>3. ~(h.bytes + h.padding >= UsizeMod)
    BY <1>2, <1>4, <1>6, <1>10
  <2> QED BY <2>1, <2>2, <2>3, Zenon DEF OverflowsAt, h
<1> DEFINE There == /\ h.tagged /\ h.ok
                    /\ h.count \in {0, (bytesSaid + padding) % UsizeMod}
                    /\ next + bytesSaid + padding <= Len(bytes)
           part == SubSeq(bytes, next + 1, next + bytesSaid)
<1>13. StringAt(bytes, p) = IF There THEN Taken(BytesValue(part), next + bytesSaid + padding) ELSE Error
  <2>1. StringAt(bytes, p) =
          IF /\ h.tagged /\ h.ok
             /\ h.count \in {0, ((h.bytes % UsizeMod) + h.padding) % UsizeMod}
             /\ h.next + (h.bytes % UsizeMod) + h.padding <= Len(bytes)
          THEN Taken(BytesValue(SubSeq(bytes, h.next + 1, h.next + (h.bytes % UsizeMod))),
                     h.next + (h.bytes % UsizeMod) + h.padding)
          ELSE Error
    BY Zenon DEF StringAt, h
  <2>2. h.bytes % UsizeMod = bytesSaid /\ h.padding = padding /\ h.next = next
    BY <1>6, <1>10, <1>11
  <2> HIDE DEF next
  <2> QED BY <2>1, <2>2, Zenon
<1>14. ASSUME SameBothWays(k)
       PROVE  StringAt(bytes, p) = Taken(BytesValue(value), p + Len(PackString(value, spec)))
  <2>1. bytesSaid = length
    BY <1>7, <1>10, <1>14
  <2>2. Len(head) \in Nat
    BY <1>1
  <2>3. next + bytesSaid + padding = p + Len(PackString(value, spec))
    BY <1>1, <1>2, <1>3, <2>1, <2>2
  <2>4. next + bytesSaid + padding <= Len(bytes)
    BY <1>1, <1>2, <1>3, <1>5, <2>1, <2>2 DEF At
  <2>5. part = value
    <3>1. next \in Nat
      BY <2>2
    <3> HIDE DEF next
    <3>2. At(bytes, next, value)
      BY <1>5 DEF next
    <3>3. SubSeq(bytes, next + 1, next + Len(value)) = value
      BY <1>1, <3>1, <3>2, AtPart, Zenon
    <3> QED BY <2>1, <3>3 DEF length
  <2>6. There
    BY <1>2, <1>6, <1>11, <2>1, <2>4
  <2> HIDE DEF There, next, part
  <2> QED BY <1>13, <2>3, <2>5, <2>6, Zenon
<1>15. ASSUME ~SameBothWays(k) PROVE ~StringAt(bytes, p).ok
  <2>1. bytesSaid # length
    BY <1>7, <1>10, <1>15
  <2>2. count # 0
    <3>1. ~(k < 128)
      BY <1>15 DEF SameBothWays
    <3> QED BY <1>2, <3>1
  <2>3. count # bytesSaid + padding
    BY <1>2, <1>3, <1>10, <2>1
  <2>4. ~There
    BY <1>6, <1>11, <2>2, <2>3
  <2>5. StringAt(bytes, p) = Error
    <3> HIDE DEF There
    <3> QED BY <1>13, <2>4, Zenon
  <2> QED BY <2>5 DEF Error
<1> QED BY <1>12, <1>14, <1>15

-----------------------------------------------------------------------------
(* Formats: sequences of fields and of the values in them.                  *)

Specs == [kind : {"n", "s"}, size : Nat, capacity : Nat]
Values == [as_int : SUBSET Nat, as_bytes : SUBSET Seq(Byte)]

IntFits(spec, arg) ==
    \E w \in 1..IntWidth : \E n \in 0..(Power[w] - 1) :
        spec = FieldSpec("n", w, 0) /\ arg = IntValue(n)
StrFits(spec, arg) ==
    spec.kind = "s" /\ \E value, k : StringFits(value, spec, k) /\ arg = BytesValue(value)

\* The fields with a value that can be encoded, and those that can be read back.
Fitting == {f \in Specs \X Values : IntFits(f[1], f[2]) \/ StrFits(f[1], f[2])}
Sound == {f \in Fitting : FieldReadable(f[1], f[2])}

\* The decoder of a field.
Decoded(spec, bytes, p) == IF spec.kind = "n" THEN IntAt(bytes, p) ELSE StringAt(bytes, p)

\* A field that fits takes at least one byte, the first its tag.
LEMMA FieldType ==
    ASSUME NEW spec, NEW arg, <<spec, arg>> \in Fitting
    PROVE  /\ PackField(spec, arg) \in Seq(Byte) /\ Len(PackField(spec, arg)) \in Nat \ {0}
           /\ \/ spec.kind = "n" /\ PackField(spec, arg)[1] = TAG_INT
              \/ spec.kind = "s" /\ PackField(spec, arg)[1] \in DOMAIN ElemSize
<1>0. IntFits(spec, arg) \/ StrFits(spec, arg)
  BY DEF Fitting
<1>1. CASE IntFits(spec, arg)
  <2>0. PICK w \in 1..IntWidth : \E n \in 0..(Power[w] - 1) :
          spec = FieldSpec("n", w, 0) /\ arg = IntValue(n)
    BY <1>1, Zenon DEF IntFits
  <2>1. PICK n \in 0..(Power[w] - 1) : spec = FieldSpec("n", w, 0) /\ arg = IntValue(n)
    BY <2>0, Zenon
  <2>2. spec.kind = "n" /\ spec.size = w /\ The(arg.as_int) = n
    BY <2>1 DEF FieldSpec, IntValue, The
  <2>3. PackField(spec, arg) = PackInt(n, w)
    BY <2>2, Zenon DEF PackField
  <2>4. n \in Nat /\ w \in Nat \ {0}
    <3>1. w \in 0..UsizeWidth
      BY WidthType
    <3> QED BY <3>1, PowerDef
  <2>5. PackInt(n, w) \in Seq(Byte) /\ Len(PackInt(n, w)) = 2 + w /\ PackInt(n, w)[1] = TAG_INT
    BY <2>4, PackIntType
  <2> QED BY <2>2, <2>3, <2>4, <2>5
<1>2. CASE StrFits(spec, arg)
  <2>1. PICK value, k : StringFits(value, spec, k) /\ arg = BytesValue(value)
    BY <1>2, Zenon DEF StrFits
  <2>2. spec.kind = "s" /\ The(arg.as_bytes) = value
    BY <1>2, <2>1 DEF StrFits, BytesValue, The
  <2>3. PackField(spec, arg) = PackString(value, spec)
    <3>1. "s" # "n"
      OBVIOUS
    <3> QED BY <2>2, <3>1 DEF PackField
  <2> DEFINE head == StringHead(value, spec, k)
             padding == Padding(value, spec)
  <2>4. /\ head \in Seq(Byte) /\ Len(head) >= 1 /\ head[1] \in DOMAIN ElemSize
        /\ value \in Seq(Byte)
        /\ PackString(value, spec) \in Seq(Byte)
        /\ Len(PackString(value, spec)) = Len(head) + Len(value) + padding
        /\ PackString(value, spec)[1] = head[1]
    <3>1. StringLayout(value, spec, k)
      BY <2>1, PackStringType, Zenon
    <3> QED BY <3>1, Zenon DEF StringLayout
  <2>5. padding \in Nat
    BY <2>1, StringLengths
  <2> HIDE DEF head, padding
  <2>6. Len(PackString(value, spec)) \in Nat \ {0}
    BY <2>4, <2>5
  <2> QED BY <2>2, <2>3, <2>4, <2>6
<1> QED BY <1>0, <1>1, <1>2

\* Both decoders give back the value of a field that reads the same both ways, and an
\* error for any other; they never panic over one.
LEMMA FieldDecodes ==
    ASSUME NEW spec, NEW arg, <<spec, arg>> \in Fitting,
           NEW bytes \in Seq(Byte), NEW p \in Nat, At(bytes, p, PackField(spec, arg))
    PROVE  /\ FieldReadable(spec, arg) =>
                Decoded(spec, bytes, p) = Taken(arg, p + Len(PackField(spec, arg)))
           /\ ~FieldReadable(spec, arg) => ~Decoded(spec, bytes, p).ok
           /\ spec.kind = "s" => ~OverflowsAt(bytes, p)
<1>0. IntFits(spec, arg) \/ StrFits(spec, arg)
  BY DEF Fitting
<1>1. CASE IntFits(spec, arg)
  <2>0. PICK w \in 1..IntWidth : \E n \in 0..(Power[w] - 1) :
          spec = FieldSpec("n", w, 0) /\ arg = IntValue(n)
    BY <1>1, Zenon DEF IntFits
  <2>1. PICK n \in 0..(Power[w] - 1) : spec = FieldSpec("n", w, 0) /\ arg = IntValue(n)
    BY <2>0, Zenon
  <2>2. spec.kind = "n" /\ spec.size = w /\ The(arg.as_int) = n /\ arg.as_bytes = {}
    BY <2>1 DEF FieldSpec, IntValue, The
  <2>3. PackField(spec, arg) = PackInt(n, w)
    BY <2>2, Zenon DEF PackField
  <2>4. IntAt(bytes, p) = Taken(IntValue(n), p + 2 + w)
    BY <2>3, IntDecodes, Zenon
  <2>5. p + 2 + w = p + Len(PackInt(n, w))
    <3>1. w \in 0..UsizeWidth /\ w \in Nat
      BY WidthType
    <3>2. n \in Nat
      BY <3>1, PowerDef
    <3>3. Len(PackInt(n, w)) = 2 + w
      BY <3>2, PackIntType
    <3> QED BY <3>1, <3>3
  <2>6. Decoded(spec, bytes, p) = Taken(arg, p + Len(PackField(spec, arg)))
    BY <2>1, <2>2, <2>3, <2>4, <2>5, Zenon DEF Decoded
  <2>7. FieldReadable(spec, arg)
    BY <2>2, Zenon DEF FieldReadable
  <2>8. spec.kind # "s"
    BY <2>2
  <2> QED BY <2>6, <2>7, <2>8, Zenon
<1>2. CASE StrFits(spec, arg)
  <2>1. PICK value, k : StringFits(value, spec, k) /\ arg = BytesValue(value)
    BY <1>2, Zenon DEF StrFits
  <2>2. spec.kind = "s" /\ spec.kind # "n" /\ The(arg.as_bytes) = value /\ arg.as_bytes = {value}
    BY <1>2, <2>1 DEF StrFits, BytesValue, The
  <2>3. PackField(spec, arg) = PackString(value, spec)
    BY <2>2, Zenon DEF PackField
  <2>4. /\ SameBothWays(k) =>
             StringAt(bytes, p) = Taken(BytesValue(value), p + Len(PackString(value, spec)))
        /\ ~SameBothWays(k) => ~StringAt(bytes, p).ok
        /\ ~OverflowsAt(bytes, p)
    BY <2>1, <2>3, StringDecodes, Zenon
  <2>5. Len(value) \div spec.size = k
    BY <2>1, StringLengths
  <2>6. FieldReadable(spec, arg) <=> SameBothWays(k)
    BY <2>2, <2>5 DEF FieldReadable
  <2> QED BY <2>1, <2>2, <2>3, <2>4, <2>6, Zenon DEF Decoded
<1> QED BY <1>0, <1>1, <1>2

\* A format and its values, field by field in a set of pairs.
AllIn(D, fmt, args) ==
    /\ fmt \in Seq(Specs) /\ args \in Seq(Values) /\ Len(fmt) = Len(args)
    /\ \A i \in 1..Len(fmt) : <<fmt[i], args[i]>> \in D

\* pack refuses nothing that fits its fields.
LEMMA FitsArePackable ==
    ASSUME NEW fmt, NEW args, AllIn(Fitting, fmt, args)
    PROVE  Packable(fmt, args)
<1>1. Len(fmt) = Len(args) /\ DOMAIN fmt = 1..Len(fmt)
  BY DEF AllIn
<1>2. ASSUME NEW i \in 1..Len(fmt)
      PROVE  \/ fmt[i].kind = "n" /\ args[i].as_int # {}
             \/ /\ fmt[i].kind = "s"
                /\ \E value \in args[i].as_bytes :
                     /\ Len(value) % fmt[i].size = 0
                     /\ Len(value) \div fmt[i].size <= fmt[i].capacity
  <2> DEFINE spec == fmt[i]
             arg == args[i]
  <2>1. IntFits(spec, arg) \/ StrFits(spec, arg)
    BY DEF AllIn, Fitting
  <2> HIDE DEF spec, arg
  <2>2. CASE IntFits(spec, arg)
    <3>0. PICK w \in 1..IntWidth : \E n \in 0..(Power[w] - 1) :
            spec = FieldSpec("n", w, 0) /\ arg = IntValue(n)
      BY <2>2, Zenon DEF IntFits
    <3>1. PICK n \in 0..(Power[w] - 1) : spec = FieldSpec("n", w, 0) /\ arg = IntValue(n)
      BY <3>0, Zenon
    <3>2. spec.kind = "n" /\ arg.as_int = {n}
      BY <3>1 DEF FieldSpec, IntValue
    <3> QED BY <3>2 DEF spec, arg
  <2>3. CASE StrFits(spec, arg)
    <3>1. PICK value, k : StringFits(value, spec, k) /\ arg = BytesValue(value)
      BY <2>3, Zenon DEF StrFits
    <3>2. spec.kind = "s" /\ arg.as_bytes = {value}
      BY <2>3, <3>1 DEF StrFits, BytesValue
    <3>3. Len(value) % spec.size = 0 /\ Len(value) \div spec.size <= spec.capacity
      BY <3>1, StringLengths
    <3> QED BY <3>2, <3>3 DEF spec, arg
  <2> QED BY <2>1, <2>2, <2>3
<1> QED BY <1>1, <1>2, Zenon DEF Packable

\* A sequence that is two others, one behind the other.
Joined(u, s, t, A) ==
    /\ u \in Seq(A) /\ Len(u) = Len(s) + Len(t)
    /\ \A i \in 1..Len(s) : u[i] = s[i]
    /\ \A i \in 1..Len(t) : u[Len(s) + i] = t[i]

\* Two sequences one after the other.
LEMMA ConcatSeq ==
    ASSUME NEW A, NEW s \in Seq(A), NEW t \in Seq(A)
    PROVE  Joined(s \o t, s, t, A)
BY DEF Joined

\* Two formats one after the other, with their values.
LEMMA Concat ==
    ASSUME NEW D, NEW fmt1, NEW args1, NEW fmt2, NEW args2,
           AllIn(D, fmt1, args1), AllIn(D, fmt2, args2)
    PROVE  AllIn(D, fmt1 \o fmt2, args1 \o args2)
<1> DEFINE n1 == Len(fmt1)
           n2 == Len(fmt2)
           fmt == fmt1 \o fmt2
           args == args1 \o args2
<1>1. /\ fmt1 \in Seq(Specs) /\ fmt2 \in Seq(Specs) /\ args1 \in Seq(Values) /\ args2 \in Seq(Values)
      /\ Len(args1) = n1 /\ Len(args2) = n2 /\ n1 \in Nat /\ n2 \in Nat
  BY DEF AllIn
<1>2. /\ fmt \in Seq(Specs) /\ args \in Seq(Values) /\ Len(fmt) = n1 + n2 /\ Len(args) = n1 + n2
      /\ \A i \in 1..n1 : fmt[i] = fmt1[i] /\ args[i] = args1[i]
      /\ \A i \in 1..n2 : fmt[n1 + i] = fmt2[i] /\ args[n1 + i] = args2[i]
  <2>1. Joined(fmt, fmt1, fmt2, Specs)
    BY <1>1, ConcatSeq, Zenon
  <2>2. Joined(args, args1, args2, Values)
    BY <1>1, ConcatSeq, Zenon
  <2> HIDE DEF n1, n2, fmt, args
  <2> QED BY <1>1, <2>1, <2>2, Zenon DEF Joined, n1, n2
<1>3. ASSUME NEW i \in 1..(n1 + n2) PROVE <<fmt[i], args[i]>> \in D
  <2>1. CASE i \in 1..n1
    BY <1>2, <2>1 DEF AllIn
  <2>2. CASE i \notin 1..n1
    <3> DEFINE j == i - n1
    <3>1. j \in 1..n2 /\ i = n1 + j
      BY <1>1, <2>2
    <3> HIDE DEF j
    <3>2. <<fmt2[j], args2[j]>> \in D
      BY <3>1 DEF AllIn
    <3> QED BY <1>2, <3>1, <3>2
  <2> QED BY <2>1, <2>2
<1> HIDE DEF fmt, args
<1> QED BY <1>2, <1>3 DEF AllIn, fmt, args

\* The payload up to each field.
Packs(out, fmt, args) ==
    /\ out \in [0..Len(fmt) -> Seq(Byte)]
    /\ out[0] = <<>>
    /\ \A i \in 1..Len(fmt) : out[i] = out[i - 1] \o PackField(fmt[i], args[i])

\* Pack satisfies its recursive definition.
LEMMA PackDef ==
    ASSUME NEW fmt, NEW args, AllIn(Fitting, fmt, args)
    PROVE  \E out : Packs(out, fmt, args) /\ Pack(fmt, args) = out[Len(fmt)]
<1> DEFINE n == Len(fmt)
           D == Seq(Byte)
           F(i) == PackField(fmt[i], args[i])
           G == [i \in 1..n |-> [x \in D |-> x \o F(i)]]
           Value(v) == v = [i \in 0..n |-> IF i = 0 THEN <<>> ELSE v[i - 1] \o F(i)]
           value == CHOOSE v : Value(v)
<1>0. n \in Nat /\ \A i \in 1..n : F(i) \in D
  <2>1. n \in Nat
    BY DEF AllIn
  <2>2. ASSUME NEW i \in 1..n PROVE F(i) \in D
    <3>1. <<fmt[i], args[i]>> \in Fitting
      BY DEF AllIn
    <3> QED BY <3>1, FieldType, Zenon
  <2> QED BY <2>1, <2>2
<1> HIDE DEF n
<1>1. G \in [1..n -> [D -> D]] /\ <<>> \in D
  <2>1. \A i \in 1..n : \A x \in D : x \o F(i) \in D
    <3> HIDE DEF F
    <3> QED BY <1>0
  <2> HIDE DEF F, D
  <2>2. G \in [1..n -> [D -> D]]
    BY <2>1
  <2> QED BY <2>2 DEF D
<1>2. PICK f : Follows(f, n, D, <<>>, G)
  <2> HIDE DEF G, D
  <2> QED BY <1>0, <1>1, Recursion, Zenon
<1> HIDE DEF F
<1>3. \A i \in 1..n : f[i] = f[i - 1] \o F(i)
  <2> TAKE i \in 1..n
  <2>1. f[i - 1] \in D
    <3>1. i - 1 \in 0..n
      BY <1>0
    <3> HIDE DEF D, G
    <3> QED BY <1>2, <3>1 DEF Follows
  <2>2. f[i] = G[i][f[i - 1]]
    BY <1>2, Zenon DEF Follows
  <2> HIDE DEF D
  <2> QED BY <2>1, <2>2
<1>4. Value(f)
  <2>1. f[0] = <<>> /\ f \in [0..n -> D]
    BY <1>2, Zenon DEF Follows
  <2> HIDE DEF D
  <2>2. \A i \in 0..n : i # 0 => i \in 1..n
    BY <1>0
  <2>3. \A i \in 0..n : f[i] = IF i = 0 THEN <<>> ELSE f[i - 1] \o F(i)
    BY <1>3, <2>1, <2>2, Zenon
  <2> QED BY <2>1, <2>3
<1>5. Value(value)
  <2> HIDE DEF Value
  <2> QED BY <1>4
<1>6. Pack(fmt, args) = value[n]
  BY Zenon DEF Pack, F, n
<1> HIDE DEF value
<1>7. value[0] = <<>> /\ \A i \in 1..n : value[i] = value[i - 1] \o F(i)
  <2>1. \A i \in 1..n : i \in 0..n /\ i # 0
    BY <1>0
  <2>2. 0 \in 0..n
    BY <1>0
  <2> QED BY <1>5, <2>1, <2>2
<1>8. \A i \in 0..n : value[i] \in D
  <2>1. \A i \in 1..n : value[i - 1] \in D => value[i] \in D
    <3> TAKE i \in 1..n
    <3> HAVE value[i - 1] \in D
    <3>1. value[i] = value[i - 1] \o F(i) /\ F(i) \in D
      BY <1>0, <1>7, Zenon DEF F
    <3> QED BY <3>1
  <2>2. value[0] \in D
    BY <1>7
  <2> HIDE DEF D
  <2> QED BY <1>0, <2>1, <2>2, RecursionType, Zenon
<1>9. value \in [0..n -> D]
  <2> HIDE DEF D
  <2> QED BY <1>5, <1>8
<1>10. Packs(value, fmt, args)
  BY <1>7, <1>9, Zenon DEF Packs, F, n
<1> QED BY <1>6, <1>10, Zenon DEF n

\* What a payload starts with.
LEMMA AtStart ==
    ASSUME NEW s \in Seq(Byte), NEW t \in Seq(Byte), NEW u \in Seq(Byte)
    PROVE  /\ At(s, 0, s) /\ At(s \o t, 0, s)
           /\ At(s, 0, t) /\ At(t, 0, u) => At(s, 0, u)
<1>1. At(s, 0, s)
  BY DEF At
<1>2. At(s \o t, 0, s)
  <2>1. Len(s \o t) = Len(s) + Len(t) /\ \A i \in 1..Len(s) : (s \o t)[i] = s[i]
    OBVIOUS
  <2>2. Len(s) \in Nat /\ Len(t) \in Nat
    OBVIOUS
  <2> QED BY <2>1, <2>2 DEF At
<1>3. ASSUME At(s, 0, t), At(t, 0, u) PROVE At(s, 0, u)
  <2>1. Len(t) <= Len(s) /\ Len(u) <= Len(t) /\ Len(s) \in Nat /\ Len(t) \in Nat /\ Len(u) \in Nat
    BY <1>3 DEF At
  <2>2. ASSUME NEW i \in 1..Len(u) PROVE s[0 + i] = u[i]
    <3>1. i \in 1..Len(t) /\ 0 + i = i
      BY <2>1
    <3> QED BY <1>3, <3>1 DEF At
  <2> QED BY <2>1, <2>2 DEF At
<1> QED BY <1>1, <1>2, <1>3

\* The payload up to a field is where the field stands in all of it.
LEMMA Places ==
    ASSUME NEW fmt, NEW args, AllIn(Fitting, fmt, args), NEW out, Packs(out, fmt, args),
           NEW k \in 0..(Len(fmt) - 1)
    PROVE  LET all == out[Len(fmt)]
               field == PackField(fmt[k + 1], args[k + 1])
           IN /\ all \in Seq(Byte) /\ out[k] \in Seq(Byte) /\ out[k + 1] \in Seq(Byte)
              /\ At(all, Len(out[k]), field)
              /\ Len(out[k + 1]) = Len(out[k]) + Len(field)
              /\ Len(out[k + 1]) <= Len(all)
<1> DEFINE n == Len(fmt)
           all == out[n]
           F(i) == PackField(fmt[i], args[i])
           T == {i \in 0..n : \A j \in 0..i : At(out[i], 0, out[j])}
<1>1. n \in Nat /\ \A i \in 1..n : F(i) \in Seq(Byte)
  <2>1. n \in Nat
    BY DEF AllIn
  <2>2. ASSUME NEW i \in 1..n PROVE F(i) \in Seq(Byte)
    <3>1. <<fmt[i], args[i]>> \in Fitting
      BY DEF AllIn
    <3> QED BY <3>1, FieldType, Zenon
  <2> QED BY <2>1, <2>2
<1>2. /\ \A i \in 0..n : out[i] \in Seq(Byte)
      /\ \A i \in 1..n : out[i] = out[i - 1] \o F(i)
  BY Zenon DEF Packs
<1> HIDE DEF n, F
<1>3. 0 \in T
  <2>1. \A j \in 0..0 : j = 0
    OBVIOUS
  <2>2. out[0] \in Seq(Byte) /\ 0 \in 0..n
    BY <1>1, <1>2
  <2>3. At(out[0], 0, out[0])
    BY <2>2, AtStart, Zenon
  <2> QED BY <2>1, <2>2, <2>3
<1>4. ASSUME NEW i \in 1..n, i - 1 \in T PROVE i \in T
  <2>1. i \in 0..n /\ i - 1 \in 0..n /\ \A j \in 0..i : j = i \/ j \in 0..(i - 1)
    BY <1>1
  <2>2. \A j \in 0..(i - 1) : At(out[i - 1], 0, out[j]) /\ j \in 0..n
    BY <1>1, <1>4
  <2>3. /\ out[i] \in Seq(Byte) /\ out[i - 1] \in Seq(Byte) /\ F(i) \in Seq(Byte)
        /\ out[i] = out[i - 1] \o F(i)
    BY <1>1, <1>2, <2>1, Zenon
  <2>4. At(out[i], 0, out[i]) /\ At(out[i], 0, out[i - 1])
    <3>1. At(out[i], 0, out[i])
      BY <2>3, AtStart, Zenon
    <3>2. At(out[i - 1] \o F(i), 0, out[i - 1])
      BY <2>3, AtStart, Zenon
    <3> QED BY <2>3, <3>1, <3>2, Zenon
  <2>5. ASSUME NEW j \in 0..i PROVE At(out[i], 0, out[j])
    <3>1. CASE j = i
      BY <2>4, <3>1, Zenon
    <3>2. CASE j \in 0..(i - 1)
      <4>1. At(out[i - 1], 0, out[j]) /\ out[j] \in Seq(Byte)
        BY <1>2, <2>2, <3>2, Zenon
      <4> QED BY <2>3, <2>4, <4>1, AtStart, Zenon
    <3> QED BY <2>1, <3>1, <3>2, Zenon
  <2> QED BY <2>1, <2>5
<1>5. \A j \in 0..n : At(all, 0, out[j])
  <2>1. 0..n \subseteq T /\ n \in 0..n
    <3>1. Inductive(T, n)
      <4> HIDE DEF T
      <4> QED BY <1>3, <1>4 DEF Inductive
    <3> HIDE DEF T
    <3> QED BY <1>1, <3>1, Induction
  <2> QED BY <2>1
<1>6. k \in 0..n /\ k + 1 \in 0..n /\ k + 1 \in 1..n /\ (k + 1) - 1 = k /\ n \in 0..n
  BY <1>1 DEF n
<1>7. /\ all \in Seq(Byte) /\ out[k] \in Seq(Byte) /\ out[k + 1] \in Seq(Byte)
      /\ F(k + 1) \in Seq(Byte) /\ out[k + 1] = out[k] \o F(k + 1)
  BY <1>1, <1>2, <1>6
<1>8. Len(out[k + 1]) = Len(out[k]) + Len(F(k + 1))
  BY <1>7
<1>9. At(all, 0, out[k + 1]) /\ Len(out[k + 1]) <= Len(all)
  <2>1. At(all, 0, out[k + 1])
    BY <1>5, <1>6
  <2>2. 0 + Len(out[k + 1]) <= Len(all)
    <3> HIDE DEF all
    <3> QED BY <2>1, Zenon DEF At
  <2>3. Len(out[k + 1]) \in Nat
    <3> DEFINE u == out[k + 1]
    <3>1. u \in Seq(Byte)
      BY <1>7, Zenon
    <3> HIDE DEF u
    <3>2. Len(u) \in Nat
      BY <3>1
    <3> QED BY <3>2 DEF u
  <2> QED BY <2>1, <2>2, <2>3
<1>10. At(all, Len(out[k]), F(k + 1))
  <2> DEFINE s == out[k]
             t == F(k + 1)
             all2 == all
  <2>1. At(all2, 0, s \o t) /\ s \in Seq(Byte) /\ t \in Seq(Byte) /\ all2 \in Seq(Byte) /\ 0 \in Nat
    BY <1>7, <1>9
  <2> HIDE DEF s, t, all2
  <2>2. At(all2, 0 + Len(s), t)
    BY <2>1, AtConcat, Zenon
  <2>3. 0 + Len(s) = Len(s)
    BY <2>1
  <2> QED BY <2>2, <2>3 DEF s, t, all2
<1> QED BY <1>7, <1>8, <1>9, <1>10 DEF F, n

\* Payloads of fields that fit are bytes.
LEMMA PackType ==
    ASSUME NEW fmt, NEW args, AllIn(Fitting, fmt, args)
    PROVE  Pack(fmt, args) \in Seq(Byte)
<1>1. PICK out : Packs(out, fmt, args) /\ Pack(fmt, args) = out[Len(fmt)]
  BY PackDef
<1>2. Len(fmt) \in 0..Len(fmt)
  BY DEF AllIn
<1> QED BY <1>1, <1>2 DEF Packs

-----------------------------------------------------------------------------
(* The messages of the program and of the firmware fit their formats.       *)

\* Lengths of less than two bytes, and one that is the same in both orders.
LEMMA Readings ==
    /\ \A k \in 0..255 : SameBothWays(k)
    /\ SameBothWays(257)
<1>1. ASSUME NEW k \in 128..255 PROVE SameBothWays(k)
  <2> DEFINE w == WidthOf(k)
  <2>1. k \in 1..(Power[IntWidth] - 1)
    <3>1. Power[2] <= Power[IntWidth]
      BY WidthType, PowerOrder
    <3>2. Power[2] = 65536 /\ Power[IntWidth] \in Nat
      BY Powers, UsizeRoom, SMT
    <3> QED BY <3>1, <3>2, SMT
  <2>2. w \in 1..IntWidth /\ Power[w - 1] <= k
    BY <2>1, WidthOfType
  <2> HIDE DEF w
  <2>3. w = 1
    <3>1. ASSUME w # 1 PROVE FALSE
      <4>1. 1 \in 0..UsizeWidth /\ w - 1 \in 1..UsizeWidth /\ w - 1 \in 0..UsizeWidth
        BY <2>2, <3>1, WidthType
      <4>2. Power[1] <= Power[w - 1] /\ Power[w - 1] \in Nat
        BY <4>1, PowerOrder, PowerDef
      <4>3. Power[1] = 256
        BY Powers, SMT
      <4> QED BY <2>2, <4>2, <4>3, SMT
    <3> QED BY <3>1
  <2>4. \A i \in 1..1 : i = 1 + 1 - i
    OBVIOUS
  <2> QED BY <2>3, <2>4 DEF SameBothWays, w
<1>2. \A k \in 0..255 : SameBothWays(k)
  <2> TAKE k \in 0..255
  <2>1. CASE k < 128
    BY <2>1 DEF SameBothWays
  <2>2. CASE ~(k < 128)
    <3>1. k \in 128..255
      BY <2>2
    <3> QED BY <1>1, <3>1
  <2> QED BY <2>1, <2>2
<1>3. SameBothWays(257)
  <2> DEFINE w == WidthOf(257)
  <2>1. 257 \in 1..(Power[IntWidth] - 1)
    <3>1. Power[2] <= Power[IntWidth]
      BY WidthType, PowerOrder
    <3>2. Power[2] = 65536 /\ Power[IntWidth] \in Nat
      BY Powers, UsizeRoom, SMT
    <3> QED BY <3>1, <3>2, SMT
  <2>2. w \in 1..IntWidth /\ Power[w - 1] <= 257 /\ 257 < Power[w]
    BY <2>1, WidthOfType
  <2> HIDE DEF w
  <2>3. w # 1
    <3>1. Power[1] = 256
      BY Powers, SMT
    <3> QED BY <2>2, <3>1, SMT
  <2>4. w <= 2
    <3>1. ASSUME ~(w <= 2) PROVE FALSE
      <4>1. 2 \in 0..UsizeWidth /\ w - 1 \in 2..UsizeWidth /\ w - 1 \in 0..UsizeWidth
        BY <2>2, <3>1, WidthType
      <4>2. Power[2] <= Power[w - 1] /\ Power[w - 1] \in Nat
        BY <4>1, PowerOrder, PowerDef
      <4>3. Power[2] = 65536
        BY Powers, SMT
      <4> QED BY <2>2, <4>2, <4>3, SMT
    <3> QED BY <3>1
  <2>5. w = 2
    BY <2>2, <2>3, <2>4, WidthType
  <2>6. BigEndian(257, 2)[1] = BigEndian(257, 2)[2]
    <3>1. 2 \in 0..UsizeWidth /\ 257 \in Nat /\ 1 \in 1..2 /\ 2 \in 1..2
      BY WidthType
    <3>2. /\ BigEndian(257, 2)[1] = (257 \div Power[2 - 1]) % 256
          /\ BigEndian(257, 2)[2] = (257 \div Power[2 - 2]) % 256
      BY <3>1, BigEndianType, SMT
    <3>3. 2 - 1 = 1 /\ 2 - 2 = 0 /\ Power[0] = 1 /\ Power[1] = 256
      BY Powers, SMT
    <3>4. (257 \div 256) % 256 = 1 /\ (257 \div 1) % 256 = 1
      BY SMT
    <3> QED BY <3>2, <3>3, <3>4, SMT
  <2>7. \A i \in 1..2 : BigEndian(257, 2)[i] = BigEndian(257, 2)[2 + 1 - i]
    <3>1. \A i \in 1..2 : (i = 1 /\ 2 + 1 - i = 2) \/ (i = 2 /\ 2 + 1 - i = 1)
      OBVIOUS
    <3> QED BY <2>6, <3>1
  <2> QED BY <2>5, <2>7, SMT DEF SameBothWays, w
<1> QED BY <1>2, <1>3

\* An integer of its width is decoded as it was.
LEMMA IntIsSound ==
    ASSUME NEW w \in 1..IntWidth, NEW n \in 0..(Power[w] - 1)
    PROVE  <<FieldSpec("n", w, 0), IntValue(n)>> \in Sound
<1> DEFINE spec == FieldSpec("n", w, 0)
           arg == IntValue(n)
<1>1. n \in Nat /\ w \in Nat
  <2>1. w \in 0..UsizeWidth
    BY WidthType
  <2> QED BY <2>1, PowerDef
<1>2. spec \in Specs /\ arg \in Values
  BY <1>1 DEF FieldSpec, IntValue, Specs, Values
<1>3. IntFits(spec, arg)
  BY Zenon DEF IntFits
<1>4. arg.as_bytes = {}
  BY DEF IntValue
<1> HIDE DEF spec, arg
<1>5. FieldReadable(spec, arg)
  BY <1>4 DEF FieldReadable
<1> QED BY <1>2, <1>3, <1>5 DEF Sound, Fitting, spec, arg

\* The integers of the messages.
LEMMA IntsAreSound ==
    /\ \A n \in 0..(Power[1] - 1) : <<B, IntValue(n)>> \in Sound
    /\ \A n \in 0..(Power[2] - 1) : <<H, IntValue(n)>> \in Sound /\ <<L, IntValue(n)>> \in Sound
    /\ \A n \in 0..6 \cup {1028, 65535} : <<H, IntValue(n)>> \in Sound /\ <<L, IntValue(n)>> \in Sound
    /\ <<B, IntValue(0)>> \in Sound /\ <<B, IntValue(1)>> \in Sound
<1>1. 1 \in 1..IntWidth /\ 2 \in 1..IntWidth /\ IntWidth \in 1..IntWidth
  BY WidthType
<1>2. Power[2] <= Power[IntWidth] /\ Power[IntWidth] \in Nat /\ Power[2] \in Nat
  BY WidthType, PowerOrder, PowerDef
<1>3. ASSUME NEW n \in 0..(Power[1] - 1) PROVE <<B, IntValue(n)>> \in Sound
  BY <1>1, IntIsSound, Zenon DEF B
<1>4. ASSUME NEW n \in 0..(Power[2] - 1) PROVE <<H, IntValue(n)>> \in Sound /\ <<L, IntValue(n)>> \in Sound
  <2>1. n \in 0..(Power[IntWidth] - 1)
    BY <1>2
  <2> QED BY <1>1, <2>1, IntIsSound, Zenon DEF H, L
<1>5. 0 \in 0..(Power[1] - 1) /\ 1 \in 0..(Power[1] - 1)
  BY Powers, SMT
<1>6. ASSUME NEW n \in 0..6 \cup {1028, 65535} PROVE n \in 0..(Power[2] - 1)
  <2>1. Power[2] = 65536 /\ Power[2] \in Int
    BY Powers, SMT
  <2>2. n \in Nat /\ n <= 65535
    BY SMT
  <2>3. n <= Power[2] - 1 /\ Power[2] - 1 \in Int
    BY <2>1, <2>2, SMT
  <2> QED BY <2>2, <2>3, SMT
<1>7. ASSUME NEW n \in 0..6 \cup {1028, 65535}
      PROVE  <<H, IntValue(n)>> \in Sound /\ <<L, IntValue(n)>> \in Sound
  BY <1>4, <1>6
<1> QED BY <1>3, <1>4, <1>5, <1>7

\* A string no longer than its field fits it.
LEMMA StringIsFitting ==
    ASSUME NEW size \in {1, 2, 4}, NEW capacity \in Nat, NEW value \in Seq(Byte),
           NEW k \in 0..capacity, Len(value) = k * size, capacity * size < Power[IntWidth]
    PROVE  /\ <<FieldSpec("s", size, capacity), BytesValue(value)>> \in Fitting
           /\ SameBothWays(k) => <<FieldSpec("s", size, capacity), BytesValue(value)>> \in Sound
<1> DEFINE spec == FieldSpec("s", size, capacity)
           arg == BytesValue(value)
<1>1. spec \in Specs /\ arg \in Values /\ spec.kind = "s" /\ spec.size = size
      /\ spec.capacity = capacity /\ arg.as_bytes = {value}
  BY DEF FieldSpec, BytesValue, Specs, Values
<1>2. StringFits(value, spec, k)
  BY <1>1 DEF StringFits
<1> HIDE DEF spec
<1>3. StrFits(spec, arg)
  BY <1>1, <1>2, Zenon DEF StrFits
<1> HIDE DEF arg
<1>4. <<spec, arg>> \in Fitting
  BY <1>1, <1>3 DEF Fitting
<1>5. Len(value) \div spec.size = k
  BY <1>2, StringLengths
<1>6. SameBothWays(k) => FieldReadable(spec, arg)
  BY <1>1, <1>5 DEF FieldReadable
<1> QED BY <1>4, <1>6 DEF Sound, spec, arg

\* The strings of bytes in the messages.
LEMMA BytesAreSound ==
    ASSUME NEW capacity \in Nat, NEW value \in Seq(Byte), Len(value) <= capacity
    PROVE  /\ capacity < Power[IntWidth] => <<S(capacity), BytesValue(value)>> \in Fitting
           /\ capacity <= 260 /\ (Len(value) < 256 \/ Len(value) = 257)
                => <<S(capacity), BytesValue(value)>> \in Sound
<1> DEFINE k == Len(value)
<1>1. k \in 0..capacity /\ k = k * 1 /\ capacity * 1 = capacity
  OBVIOUS
<1>2. ASSUME capacity < Power[IntWidth]
      PROVE  /\ <<S(capacity), BytesValue(value)>> \in Fitting
             /\ SameBothWays(k) => <<S(capacity), BytesValue(value)>> \in Sound
  <2>1. Len(value) = k * 1 /\ capacity * 1 < Power[IntWidth] /\ 1 \in {1, 2, 4}
    BY <1>1, <1>2
  <2> HIDE DEF k
  <2> QED BY <1>1, <2>1, StringIsFitting, Zenon DEF S
<1>3. ASSUME capacity <= 260 PROVE capacity < Power[IntWidth]
  <2>1. Power[2] <= Power[IntWidth]
    BY WidthType, PowerOrder
  <2>2. Power[2] = 65536 /\ Power[IntWidth] \in Nat
    BY Powers, UsizeRoom, SMT
  <2> QED BY <1>3, <2>1, <2>2, SMT
<1>4. k < 256 \/ k = 257 => SameBothWays(k)
  <2>1. k \in Nat
    OBVIOUS
  <2> HIDE DEF k
  <2>2. k < 256 => k \in 0..255
    BY <2>1
  <2> QED BY <2>2, Readings
<1> QED BY <1>2, <1>3, <1>4

\* Integers in a row.
LEMMA IntsIn ==
    ASSUME NEW D, NEW fmt \in Seq(Specs), NEW numbers \in Seq(Nat), Len(fmt) = Len(numbers),
           \A i \in 1..Len(fmt) : <<fmt[i], IntValue(numbers[i])>> \in D
    PROVE  AllIn(D, fmt, Ints(numbers))
<1> DEFINE n == Len(numbers)
           args == Ints(numbers)
<1>1. n \in Nat /\ DOMAIN numbers = 1..n /\ \A i \in 1..n : numbers[i] \in Nat
  OBVIOUS
<1>2. \A i \in 1..n : IntValue(numbers[i]) \in Values
  BY <1>1 DEF IntValue, Values
<1> HIDE DEF n
<1>3. args = [i \in 1..n |-> IntValue(numbers[i])]
  BY <1>1 DEF Ints
<1>4. args \in Seq(Values) /\ Len(args) = n /\ \A i \in 1..n : args[i] = IntValue(numbers[i])
  BY <1>1, <1>2, <1>3
<1> HIDE DEF args
<1> QED BY <1>4 DEF AllIn, n, args

\* The letters of the format language are fields.
LEMMA SpecTypes ==
    /\ B \in Specs /\ H \in Specs /\ L \in Specs /\ \A capacity \in Nat : S(capacity) \in Specs
BY WidthType DEF B, H, L, S, FieldSpec, Specs

\* A format of one field.
LEMMA OneIn ==
    ASSUME NEW D, D \subseteq Specs \X Values, NEW spec, NEW arg, <<spec, arg>> \in D
    PROVE  AllIn(D, <<spec>>, <<arg>>)
<1>1. spec \in Specs /\ arg \in Values
  OBVIOUS
<1>2. <<spec>> \in Seq(Specs) /\ <<arg>> \in Seq(Values) /\ Len(<<spec>>) = 1 /\ Len(<<arg>>) = 1
      /\ <<spec>>[1] = spec /\ <<arg>>[1] = arg
  BY <1>1
<1>3. \A i \in 1..1 : i = 1
  OBVIOUS
<1> QED BY <1>2, <1>3 DEF AllIn

\* What reads the same both ways fits.
LEMMA SoundFits ==
    /\ Sound \subseteq Fitting /\ Fitting \subseteq Specs \X Values
    /\ \A fmt, args : AllIn(Sound, fmt, args) => AllIn(Fitting, fmt, args)
BY DEF Sound, Fitting, AllIn

\* Bytes of the messages.
LEMMA ByteStrings ==
    ASSUME NEW n \in Nat
    PROVE  /\ Zeros(n) \in Seq(Byte) /\ Len(Zeros(n)) = n
           /\ Text(n) \in Seq(Byte) /\ Len(Text(n)) = n
           /\ \A x \in Byte : Many(n, x) \in Seq(Byte) /\ Len(Many(n, x)) = n
<1>1. \A i \in 1..n : 1 + (i % 100) \in Byte /\ 0 \in Byte
  BY DEF Byte
<1>2. Zeros(n) \in [1..n -> Byte] /\ Text(n) \in [1..n -> Byte]
  BY <1>1 DEF Zeros, Text
<1>3. \A x \in Byte : Many(n, x) \in [1..n -> Byte]
  BY DEF Many
<1>4. \A s \in [1..n -> Byte] : s \in Seq(Byte) /\ Len(s) = n
  OBVIOUS
<1> QED BY <1>2, <1>3, <1>4, Zenon

\* The fields of the requests without a name or a path in them.
LEMMA PlainRequests ==
    /\ AllIn(Sound, net_attach.fmt, net_attach.args)
    /\ AllIn(Sound, get_neg_ip.fmt, get_neg_ip.args)
    /\ AllIn(Sound, ps_connect.fmt, ps_connect.args)
    /\ AllIn(Sound, sys_get_info(0).fmt, sys_get_info(0).args)
<1>1. <<B, IntValue(0)>> \in Sound /\ <<L, IntValue(0)>> \in Sound /\ <<L, IntValue(6)>> \in Sound
      /\ <<H, IntValue(65535)>> \in Sound
  BY IntsAreSound, SMT
<1>2. AllIn(Sound, <<B, L, L, L, L, H, H, L, L>>, Ints(<<0, 0, 0, 0, 0, 65535, 65535, 0, 0>>))
  <2> DEFINE fmt == <<B, L, L, L, L, H, H, L, L>>
             numbers == <<0, 0, 0, 0, 0, 65535, 65535, 0, 0>>
  <2>1. fmt \in Seq(Specs) /\ numbers \in Seq(Nat) /\ Len(fmt) = 9 /\ Len(numbers) = 9
    BY SpecTypes, SMT
  <2>2. \A i \in 1..9 : <<fmt[i], IntValue(numbers[i])>> \in Sound
    BY <1>1, SMT
  <2> HIDE DEF fmt, numbers
  <2>3. \A i \in 1..Len(fmt) : <<fmt[i], IntValue(numbers[i])>> \in Sound
    BY <2>1, <2>2
  <2>4. AllIn(Sound, fmt, Ints(numbers))
    BY <2>1, <2>3, IntsIn, Zenon
  <2> QED BY <2>4, SMT DEF fmt, numbers
<1>3. AllIn(Sound, <<B, L, L>>, Ints(<<0, 0, 0>>))
  <2> DEFINE fmt == <<B, L, L>>
             numbers == <<0, 0, 0>>
  <2>1. fmt \in Seq(Specs) /\ numbers \in Seq(Nat) /\ Len(fmt) = 3 /\ Len(numbers) = 3
    BY SpecTypes
  <2>2. \A i \in 1..3 : <<fmt[i], IntValue(numbers[i])>> \in Sound
    BY <1>1, SMT
  <2> HIDE DEF fmt, numbers
  <2>3. AllIn(Sound, fmt, Ints(numbers))
    BY <2>1, <2>2, IntsIn, Zenon
  <2> QED BY <2>3, Zenon DEF fmt, numbers
<1>4. AllIn(Sound, <<B, L, L, L>>, Ints(<<0, 6, 0, 0>>))
  <2> DEFINE fmt == <<B, L, L, L>>
             numbers == <<0, 6, 0, 0>>
  <2>1. fmt \in Seq(Specs) /\ numbers \in Seq(Nat) /\ Len(fmt) = 4 /\ Len(numbers) = 4
    BY SpecTypes
  <2>2. \A i \in 1..4 : <<fmt[i], IntValue(numbers[i])>> \in Sound
    BY <1>1, SMT
  <2> HIDE DEF fmt, numbers
  <2>3. AllIn(Sound, fmt, Ints(numbers))
    BY <2>1, <2>2, IntsIn, Zenon
  <2> QED BY <2>3, Zenon DEF fmt, numbers
<1>5. AllIn(Sound, <<L, S(0), L>>, <<IntValue(0), BytesValue(<<>>), IntValue(0)>>)
  <2> DEFINE fmt == <<L, S(0), L>>
             args == <<IntValue(0), BytesValue(<<>>), IntValue(0)>>
  <2>1. <<S(0), BytesValue(<<>>)>> \in Sound
    <3>1. <<>> \in Seq(Byte) /\ Len(<<>>) <= 0 /\ Len(<<>>) < 256 /\ 0 <= 260 /\ 0 \in Nat
      OBVIOUS
    <3> QED BY <3>1, BytesAreSound
  <2>2. IntValue(0) \in Values /\ BytesValue(<<>>) \in Values
    BY <1>1, <2>1, SoundFits
  <2>3. fmt \in Seq(Specs) /\ args \in Seq(Values) /\ Len(fmt) = 3 /\ Len(args) = 3
    <3>1. S(0) \in Specs /\ L \in Specs
      BY SpecTypes
    <3> QED BY <2>2, <3>1
  <2>4. \A i \in 1..3 : <<fmt[i], args[i]>> \in Sound
    BY <1>1, <2>1
  <2> HIDE DEF fmt, args
  <2>5. AllIn(Sound, fmt, args)
    BY <2>3, <2>4 DEF AllIn
  <2> QED BY <2>5, Zenon DEF fmt, args
<1>6. /\ net_attach.fmt = <<B, L, L, L, L, H, H, L, L>>
      /\ net_attach.args = Ints(<<0, 0, 0, 0, 0, 65535, 65535, 0, 0>>)
  BY SMT DEF net_attach, Message
<1>7. /\ get_neg_ip.fmt = <<B, L, L>> /\ get_neg_ip.args = Ints(<<0, 0, 0>>)
      /\ ps_connect.fmt = <<B, L, L, L>> /\ ps_connect.args = Ints(<<0, 6, 0, 0>>)
      /\ sys_get_info(0).fmt = <<L, S(0), L>>
      /\ sys_get_info(0).args = <<IntValue(0), BytesValue(<<>>), IntValue(0)>>
  BY DEF get_neg_ip, ps_connect, sys_get_info, Message
<1>8. AllIn(Sound, net_attach.fmt, net_attach.args)
  <2> DEFINE fmt == <<B, L, L, L, L, H, H, L, L>>
             args == Ints(<<0, 0, 0, 0, 0, 65535, 65535, 0, 0>>)
  <2>1. AllIn(Sound, fmt, args) /\ net_attach.fmt = fmt /\ net_attach.args = args
    BY <1>2, <1>6, SMT
  <2> HIDE DEF fmt, args
  <2> QED BY <2>1, Zenon
<1> QED BY <1>3, <1>4, <1>5, <1>7, <1>8, Zenon

\* A path in its field; a longer one does not go into it.
LEMMA PathRequest ==
    ASSUME NEW n \in Nat
    PROVE  LET m == connect_to_datachannel(Text(n))
           IN /\ n < 24 => AllIn(Sound, m.fmt, m.args)
              /\ n >= 24 => ~Packable(m.fmt, m.args)
<1> DEFINE path == Append(Text(n), 0)
           m == connect_to_datachannel(Text(n))
<1>1. path \in Seq(Byte) /\ Len(path) = n + 1
  <2>1. Text(n) \in Seq(Byte) /\ Len(Text(n)) = n /\ 0 \in Byte
    BY ByteStrings DEF Byte
  <2> QED BY <2>1
<1>2. m.fmt = <<S(24)>> /\ m.args = <<BytesValue(path)>>
  BY DEF connect_to_datachannel, Message
<1> HIDE DEF m, path
<1>3. ASSUME n < 24 PROVE AllIn(Sound, m.fmt, m.args)
  <2>1. Len(path) <= 24 /\ Len(path) < 256 /\ 24 <= 260
    BY <1>1, <1>3
  <2>2. <<S(24), BytesValue(path)>> \in Sound
    BY <1>1, <2>1, BytesAreSound
  <2>3. Sound \subseteq Specs \X Values
    BY SoundFits
  <2> QED BY <1>2, <2>2, <2>3, OneIn, Zenon
<1>4. ASSUME n >= 24 PROVE ~Packable(m.fmt, m.args)
  <2>1. S(24).kind = "s" /\ S(24).size = 1 /\ S(24).capacity = 24 /\ BytesValue(path).as_bytes = {path}
    BY DEF S, FieldSpec, BytesValue
  <2>2. Len(path) \div 1 = n + 1
    BY <1>1
  <2>3. ~(Len(path) \div 1 <= 24)
    BY <1>4, <2>2
  <2>4. m.fmt[1] = S(24) /\ m.args[1] = BytesValue(path) /\ 1 \in DOMAIN m.fmt
    BY <1>2
  <2>5. ASSUME Packable(m.fmt, m.args) PROVE FALSE
    <3>1. \/ S(24).kind = "n" /\ BytesValue(path).as_int # {}
          \/ /\ S(24).kind = "s"
             /\ \E value \in BytesValue(path).as_bytes :
                  /\ Len(value) % S(24).size = 0
                  /\ Len(value) \div S(24).size <= S(24).capacity
      BY <2>4, <2>5, Zenon DEF Packable
    <3>2. S(24).kind # "n"
      BY <2>1
    <3> QED BY <2>1, <2>3, <3>1, <3>2
  <2> QED BY <2>5
<1> QED BY <1>3, <1>4 DEF m

\* A string of n bytes in a field of c.
Room(n, c) == n \in Nat /\ c \in Nat /\ n <= c /\ c <= 260 /\ (n < 256 \/ n = 257)

\* A byte string is decoded as it was at a length that reads the same both ways.
LEMMA StringIn ==
    ASSUME NEW value \in Seq(Byte), NEW n, Len(value) = n, NEW c, Room(n, c)
    PROVE  <<S(c), BytesValue(value)>> \in Sound
<1>1. /\ c \in Nat /\ c <= 260 /\ Len(value) <= c
      /\ (Len(value) < 256 \/ Len(value) = 257)
  BY DEF Room
<1> QED BY <1>1, BytesAreSound

\* A function on an interval is a sequence of its length.
LEMMA FunctionSeq ==
    ASSUME NEW A, NEW n \in Nat, NEW f \in [1..n -> A]
    PROVE  f \in Seq(A) /\ Len(f) = n
OBVIOUS

\* A format of three fields.
LEMMA ThreeIn ==
    ASSUME NEW D, D \subseteq Specs \X Values,
           NEW s1, NEW s2, NEW s3, NEW a1, NEW a2, NEW a3,
           <<s1, a1>> \in D, <<s2, a2>> \in D, <<s3, a3>> \in D
    PROVE  AllIn(D, <<s1, s2, s3>>, <<a1, a2, a3>>)
<1> DEFINE fmt == <<s1, s2, s3>>
           args == <<a1, a2, a3>>
<1>1. s1 \in Specs /\ s2 \in Specs /\ s3 \in Specs /\ a1 \in Values /\ a2 \in Values /\ a3 \in Values
  OBVIOUS
<1>2. fmt \in Seq(Specs) /\ args \in Seq(Values) /\ Len(fmt) = 3 /\ Len(args) = 3
  BY <1>1
<1>3. \A i \in 1..3 : <<fmt[i], args[i]>> \in D
  OBVIOUS
<1> HIDE DEF fmt, args
<1>4. AllIn(D, fmt, args)
  BY <1>2, <1>3 DEF AllIn
<1> QED BY <1>4 DEF fmt, args

\* The fields of the request for a mode.
LEMMA ModeRequest == AllIn(Sound, set_mode(1).fmt, set_mode(1).args)
<1> DEFINE v0 == IntValue(0)
           v1 == IntValue(1)
           v15 == IntValue(15)
<1>1. <<L, v0>> \in Sound /\ <<L, v1>> \in Sound /\ <<L, v15>> \in Sound
  <2>1. ASSUME NEW n \in 0..15 PROVE <<L, IntValue(n)>> \in Sound
    <3>1. Power[2] <= Power[IntWidth] /\ Power[IntWidth] \in Nat /\ Power[2] = 65536
      BY WidthType, PowerOrder, PowerDef, Powers
    <3>2. n \in 0..(Power[IntWidth] - 1)
      BY <3>1, SMT
    <3>3. IntWidth \in 1..IntWidth
      BY WidthType
    <3> QED BY <3>2, <3>3, IntIsSound, Zenon DEF L
  <2>2. 0 \in 0..15 /\ 1 \in 0..15 /\ 15 \in 0..15
    OBVIOUS
  <2> QED BY <2>1, <2>2, Zenon
<1>2. set_mode(1).fmt = <<L, L, L>> /\ set_mode(1).args = <<v0, v15, v1>>
  <2>1. Ints(<<0, 15, 1>>) = <<v0, v15, v1>>
    BY DEF Ints
  <2> QED BY <2>1 DEF set_mode, Message
<1> HIDE DEF v0, v1, v15
<1>3. AllIn(Sound, <<L, L, L>>, <<v0, v15, v1>>)
  BY <1>1, SoundFits, ThreeIn, Zenon
<1> QED BY <1>2, <1>3, Zenon

\* Any u32 is decoded as it was.
LEMMA ChallengeRequest ==
    ASSUME NEW value \in U32s
    PROVE  LET m == pack_u32(value)
           IN /\ m.of = "pack_u32" /\ The(m.args[1].as_int) = value
              /\ m.fmt = <<L>> /\ m.args = <<IntValue(value)>>
              /\ <<L, IntValue(value)>> \in Sound
              /\ AllIn(Sound, m.fmt, m.args)
<1> DEFINE m == pack_u32(value)
           arg == IntValue(value)
<1>1. m.of = "pack_u32" /\ m.fmt = <<L>> /\ m.args = <<arg>>
  BY DEF pack_u32, Message
<1>2. The(arg.as_int) = value
  BY DEF IntValue, The
<1>3. value \in 0..(Power[IntWidth] - 1)
  <2>1. Power[2] <= Power[IntWidth] /\ Power[IntWidth] \in Nat /\ Power[2] = 65536
    BY WidthType, PowerOrder, PowerDef, Powers
  <2>2. value = 0 \/ value = 258 \/ value = Power[IntWidth] - 1
    BY SMT DEF U32s
  <2> QED BY <2>1, <2>2, SMT
<1>4. IntWidth \in 1..IntWidth
  BY WidthType
<1>5. <<L, arg>> \in Sound
  BY <1>3, <1>4, IntIsSound, Zenon DEF L
<1> HIDE DEF m, arg
<1>6. AllIn(Sound, <<L>>, <<arg>>)
  BY <1>5, SoundFits, OneIn, Zenon
<1>7. m.args[1] = arg
  BY <1>1
<1> QED BY <1>1, <1>2, <1>5, <1>6, <1>7, Zenon DEF m, arg

\* A format of eight fields.
LEMMA EightIn ==
    ASSUME NEW D, D \subseteq Specs \X Values,
           NEW s1, NEW s2, NEW s3, NEW s4, NEW s5, NEW s6, NEW s7, NEW s8,
           NEW a1, NEW a2, NEW a3, NEW a4, NEW a5, NEW a6, NEW a7, NEW a8,
           <<s1, a1>> \in D, <<s2, a2>> \in D, <<s3, a3>> \in D, <<s4, a4>> \in D,
           <<s5, a5>> \in D, <<s6, a6>> \in D, <<s7, a7>> \in D, <<s8, a8>> \in D
    PROVE  AllIn(D, <<s1, s2, s3, s4, s5, s6, s7, s8>>, <<a1, a2, a3, a4, a5, a6, a7, a8>>)
<1> DEFINE fmt == <<s1, s2, s3, s4, s5, s6, s7, s8>>
           args == <<a1, a2, a3, a4, a5, a6, a7, a8>>
<1>1. /\ s1 \in Specs /\ s2 \in Specs /\ s3 \in Specs /\ s4 \in Specs
      /\ s5 \in Specs /\ s6 \in Specs /\ s7 \in Specs /\ s8 \in Specs
  OBVIOUS
<1>2. /\ a1 \in Values /\ a2 \in Values /\ a3 \in Values /\ a4 \in Values
      /\ a5 \in Values /\ a6 \in Values /\ a7 \in Values /\ a8 \in Values
  OBVIOUS
<1>3. fmt \in Seq(Specs) /\ Len(fmt) = 8
  BY <1>1
<1>4. args \in Seq(Values) /\ Len(args) = 8
  BY <1>2
<1>5. \A i \in 1..8 : <<fmt[i], args[i]>> \in D
  OBVIOUS
<1> HIDE DEF fmt, args
<1>6. AllIn(D, fmt, args)
  BY <1>3, <1>4, <1>5 DEF AllIn
<1> QED BY <1>6 DEF fmt, args

FlagsFit(flags) ==
    /\ flags \in Seq(Nat) /\ Len(flags) = 21
    /\ \A i \in 1..21 : <<L, IntValue(flags[i])>> \in Sound
ApnFits(apn, capacity) == apn \in Seq(Byte) /\ Len(apn) = 101 /\ capacity \in {103, 104}

\* Each profile of the attach configuration is decoded as it was.
LEMMA ProfileSound ==
    ASSUME NEW flags, FlagsFit(flags), NEW type, <<L, IntValue(type)>> \in Sound,
           NEW apn, NEW capacity, ApnFits(apn, capacity)
    PROVE  AllIn(Sound, Profile(flags, type, apn, capacity).fmt,
                        Profile(flags, type, apn, capacity).args)
<1> DEFINE fmt1 == <<S(260), L, S(66), S(65), S(250), B, S(252), H>>
           args1 == <<BytesValue(Zeros(257)), IntValue(0), BytesValue(Zeros(65)),
                      BytesValue(Zeros(65)), BytesValue(Zeros(250)), IntValue(0),
                      BytesValue(Zeros(250)), IntValue(0)>>
           fmt2 == Many(21, L)
           args2 == Ints(flags)
           fmt3 == <<S(20), L, S(capacity)>>
           args3 == <<BytesValue(Zeros(20)), IntValue(type), BytesValue(apn)>>
<1>1. Sound \subseteq Specs \X Values
  BY SoundFits
<1>2. AllIn(Sound, fmt1, args1)
  <2>1. ASSUME NEW n \in Nat, NEW c \in Nat, n <= c, c <= 260, n < 256 \/ n = 257
        PROVE  <<S(c), BytesValue(Zeros(n))>> \in Sound
    <3>1. Zeros(n) \in Seq(Byte) /\ Len(Zeros(n)) = n
      BY ByteStrings
    <3>2. Room(n, c)
      BY <2>1 DEF Room
    <3> QED BY <3>1, <3>2, StringIn, Zenon
  <2>2. <<S(260), BytesValue(Zeros(257))>> \in Sound
    BY <2>1
  <2>3. <<S(66), BytesValue(Zeros(65))>> \in Sound /\ <<S(65), BytesValue(Zeros(65))>> \in Sound
    BY <2>1
  <2>4. <<S(250), BytesValue(Zeros(250))>> \in Sound /\ <<S(252), BytesValue(Zeros(250))>> \in Sound
    BY <2>1
  <2>5. <<L, IntValue(0)>> \in Sound /\ <<B, IntValue(0)>> \in Sound /\ <<H, IntValue(0)>> \in Sound
    BY IntsAreSound, SMT
  <2> DEFINE s1 == S(260) s3 == S(66) s4 == S(65) s5 == S(250) s7 == S(252)
             a1 == BytesValue(Zeros(257)) a3 == BytesValue(Zeros(65)) a5 == BytesValue(Zeros(250))
             a2 == IntValue(0)
  <2>6. /\ <<s1, a1>> \in Sound /\ <<s3, a3>> \in Sound /\ <<s4, a3>> \in Sound
        /\ <<s5, a5>> \in Sound /\ <<s7, a5>> \in Sound
        /\ <<L, a2>> \in Sound /\ <<B, a2>> \in Sound /\ <<H, a2>> \in Sound
    BY <2>2, <2>3, <2>4, <2>5
  <2> HIDE DEF s1, s3, s4, s5, s7, a1, a2, a3, a5
  <2>7. AllIn(Sound, <<s1, L, s3, s4, s5, B, s7, H>>, <<a1, a2, a3, a3, a5, a2, a5, a2>>)
    BY <1>1, <2>6, EightIn, Zenon
  <2> QED BY <2>7 DEF s1, s3, s4, s5, s7, a1, a2, a3, a5
<1>3. AllIn(Sound, fmt2, args2)
  <2>1. fmt2 \in Seq(Specs) /\ Len(fmt2) = 21 /\ \A i \in 1..21 : fmt2[i] = L
    <3>1. L \in Specs
      BY SpecTypes
    <3> QED BY <3>1 DEF Many
  <2> HIDE DEF fmt2
  <2>2. \A i \in 1..Len(fmt2) : <<fmt2[i], IntValue(flags[i])>> \in Sound
    BY <2>1 DEF FlagsFit
  <2>3. Len(fmt2) = Len(flags) /\ flags \in Seq(Nat)
    BY <2>1 DEF FlagsFit
  <2> QED BY <2>1, <2>2, <2>3, IntsIn, Zenon
<1>4. AllIn(Sound, fmt3, args3)
  <2>1. <<S(20), BytesValue(Zeros(20))>> \in Sound
    <3>1. Zeros(20) \in Seq(Byte) /\ Len(Zeros(20)) = 20
      BY ByteStrings
    <3>2. Room(20, 20)
      BY DEF Room
    <3> QED BY <3>1, <3>2, StringIn, Zenon
  <2>2. <<S(capacity), BytesValue(apn)>> \in Sound
    <3>1. Room(101, capacity) /\ apn \in Seq(Byte) /\ Len(apn) = 101
      BY DEF Room, ApnFits
    <3> QED BY <3>1, StringIn, Zenon
  <2> DEFINE s1 == S(20) s3 == S(capacity) a1 == BytesValue(Zeros(20)) a3 == BytesValue(apn)
             a2 == IntValue(type)
  <2>3. <<s1, a1>> \in Sound /\ <<L, a2>> \in Sound /\ <<s3, a3>> \in Sound
    BY <2>1, <2>2
  <2> HIDE DEF s1, s3, a1, a2, a3
  <2>4. AllIn(Sound, <<s1, L, s3>>, <<a1, a2, a3>>)
    BY <1>1, <2>3, ThreeIn, Zenon
  <2> QED BY <2>4 DEF s1, s3, a1, a2, a3
<1>5. /\ Profile(flags, type, apn, capacity).fmt = fmt1 \o fmt2 \o fmt3
      /\ Profile(flags, type, apn, capacity).args = args1 \o args2 \o args3
  BY DEF Profile
<1> HIDE DEF fmt1, fmt2, fmt3, args1, args2, args3
<1>6. AllIn(Sound, fmt1 \o fmt2, args1 \o args2)
  BY <1>2, <1>3, Concat, Zenon
<1>7. AllIn(Sound, fmt1 \o fmt2 \o fmt3, args1 \o args2 \o args3)
  BY <1>4, <1>6, Concat, Zenon
<1> QED BY <1>5, <1>7, Zenon

\* So is the whole attach configuration, for an APN of any length that is not refused.
LEMMA AttachRequest ==
    ASSUME NEW n \in 0..101
    PROVE  AllIn(Sound, attach_config(Text(n)).fmt, attach_config(Text(n)).args)
<1> DEFINE apn == Text(n) \o Zeros(101 - Len(Text(n)))
           zeros == Zeros(101)
           empty == Profile(Zeros(21), 0, zeros, 104)
           first == Profile(Flags, 3, apn, 104)
           second == Profile(Flags, 3, apn, 103)
<1>1. apn \in Seq(Byte) /\ Len(apn) = 101 /\ zeros \in Seq(Byte) /\ Len(zeros) = 101
  <2>1. n \in Nat /\ 101 - n \in Nat
    OBVIOUS
  <2>2. /\ Text(n) \in Seq(Byte) /\ Len(Text(n)) = n
        /\ Zeros(101 - n) \in Seq(Byte) /\ Len(Zeros(101 - n)) = 101 - n
    BY <2>1, ByteStrings
  <2>3. Zeros(101) \in Seq(Byte) /\ Len(Zeros(101)) = 101
    BY ByteStrings
  <2> QED BY <2>1, <2>2, <2>3
<1>2. <<L, IntValue(0)>> \in Sound /\ <<L, IntValue(1)>> \in Sound /\ <<L, IntValue(3)>> \in Sound
      /\ <<L, IntValue(1028)>> \in Sound
  BY IntsAreSound, SMT
<1>3. FlagsFit(Zeros(21))
  <2> DEFINE none == Zeros(21)
  <2>1. none \in Seq(Nat) /\ Len(none) = 21 /\ \A i \in 1..21 : none[i] = 0
    BY DEF Zeros
  <2> HIDE DEF none
  <2>2. ASSUME NEW i \in 1..21 PROVE <<L, IntValue(none[i])>> \in Sound
    <3>1. none[i] = 0
      BY <2>1
    <3>2. <<L, IntValue(0)>> \in Sound
      BY <1>2, SMT
    <3> QED BY <3>1, <3>2, Zenon
  <2>3. FlagsFit(none)
    BY <2>1, <2>2 DEF FlagsFit
  <2> QED BY <2>3 DEF none
<1>4. FlagsFit(Flags)
  <2>1. \A i \in 1..21 : Flags[i] = 0 \/ Flags[i] = 1 \/ Flags[i] = 1028
    BY SMT DEF Flags
  <2>2. Flags \in Seq(Nat) /\ Len(Flags) = 21
    <3>1. Flags = [i \in 1..21 |-> Flags[i]]
      BY SMT DEF Flags
    <3>2. \A i \in 1..21 : Flags[i] \in Nat
      BY <2>1, SMT
    <3>3. Flags \in [1..21 -> Nat] /\ 21 \in Nat
      BY <3>1, <3>2
    <3> QED BY <3>3, FunctionSeq, Zenon
  <2>3. ASSUME NEW i \in 1..21 PROVE <<L, IntValue(Flags[i])>> \in Sound
    <3>1. CASE Flags[i] = 0
      BY <1>2, <3>1
    <3>2. CASE Flags[i] = 1
      BY <1>2, <3>2
    <3>3. CASE Flags[i] = 1028
      BY <1>2, <3>3, SMT
    <3> QED BY <2>1, <3>1, <3>2, <3>3, SMT
  <2> QED BY <2>2, <2>3 DEF FlagsFit
<1> HIDE DEF apn, zeros
<1>5. AllIn(Sound, empty.fmt, empty.args) /\ AllIn(Sound, first.fmt, first.args)
      /\ AllIn(Sound, second.fmt, second.args)
  <2>1. ApnFits(zeros, 104) /\ ApnFits(apn, 104) /\ ApnFits(apn, 103)
    BY <1>1 DEF ApnFits
  <2>2. <<L, IntValue(0)>> \in Sound /\ <<L, IntValue(3)>> \in Sound
    BY <1>2, SMT
  <2>3. AllIn(Sound, empty.fmt, empty.args)
    BY <1>3, <2>1, <2>2, ProfileSound, Zenon
  <2>4. AllIn(Sound, first.fmt, first.args)
    BY <1>4, <2>1, <2>2, ProfileSound, Zenon
  <2>5. AllIn(Sound, second.fmt, second.args)
    BY <1>4, <2>1, <2>2, ProfileSound, Zenon
  <2> QED BY <2>3, <2>4, <2>5
<1>6. AllIn(Sound, <<B>>, Ints(<<0>>))
  <2>1. <<B, IntValue(0)>> \in Sound /\ Sound \subseteq Specs \X Values
    BY IntsAreSound, SoundFits
  <2>2. Ints(<<0>>) = <<IntValue(0)>>
    BY DEF Ints
  <2> QED BY <2>1, <2>2, OneIn, Zenon
<1>7. AllIn(Sound, <<B, L>>, Ints(<<3, 0>>))
  <2> DEFINE fmt == <<B, L>>
             numbers == <<3, 0>>
  <2>1. fmt \in Seq(Specs) /\ numbers \in Seq(Nat) /\ Len(fmt) = 2 /\ Len(numbers) = 2
    BY SpecTypes
  <2>2. <<B, IntValue(3)>> \in Sound
    <3>1. Power[1] = 256
      BY Powers, SMT
    <3>2. 3 \in 0..(Power[1] - 1)
      BY <3>1, SMT
    <3> QED BY <3>2, IntsAreSound, SMT
  <2>3. \A i \in 1..2 : <<fmt[i], IntValue(numbers[i])>> \in Sound
    BY <1>2, <2>2
  <2> HIDE DEF fmt, numbers
  <2>4. AllIn(Sound, fmt, Ints(numbers))
    BY <2>1, <2>3, IntsIn, Zenon
  <2> QED BY <2>4, Zenon DEF fmt, numbers
<1>8. /\ attach_config(Text(n)).fmt
         = <<B>> \o empty.fmt \o empty.fmt \o first.fmt \o second.fmt \o <<B, L>>
      /\ attach_config(Text(n)).args
         = Ints(<<0>>) \o empty.args \o empty.args \o first.args \o second.args \o Ints(<<3, 0>>)
  <2>1. attach_config(Text(n)) =
          Message("attach_config",
                  <<B>> \o empty.fmt \o empty.fmt \o first.fmt \o second.fmt \o <<B, L>>,
                  Ints(<<0>>) \o empty.args \o empty.args \o first.args \o second.args
                  \o Ints(<<3, 0>>))
    BY Zenon DEF attach_config, apn, zeros
  <2> DEFINE f == <<B>> \o empty.fmt \o empty.fmt \o first.fmt \o second.fmt \o <<B, L>>
             a == Ints(<<0>>) \o empty.args \o empty.args \o first.args \o second.args
                  \o Ints(<<3, 0>>)
  <2> HIDE DEF f, a
  <2>2. attach_config(Text(n)) = [of |-> "attach_config", fmt |-> f, args |-> a]
    BY <2>1, Zenon DEF Message, f, a
  <2>3. attach_config(Text(n)).fmt = f /\ attach_config(Text(n)).args = a
    BY <2>2
  <2> QED BY <2>3, Zenon DEF f, a
<1> HIDE DEF empty, first, second
<1> DEFINE fmt1 == <<B>> \o empty.fmt
           args1 == Ints(<<0>>) \o empty.args
           fmt2 == fmt1 \o empty.fmt
           args2 == args1 \o empty.args
           fmt3 == fmt2 \o first.fmt
           args3 == args2 \o first.args
           fmt4 == fmt3 \o second.fmt
           args4 == args3 \o second.args
<1>9. AllIn(Sound, fmt1, args1)
  BY <1>5, <1>6, Concat, Zenon
<1>10. AllIn(Sound, fmt2, args2)
  <2> HIDE DEF fmt1, args1
  <2> QED BY <1>5, <1>9, Concat, Zenon
<1>11. AllIn(Sound, fmt3, args3)
  <2> HIDE DEF fmt2, args2
  <2> QED BY <1>5, <1>10, Concat, Zenon
<1>12. AllIn(Sound, fmt4, args4)
  <2> HIDE DEF fmt3, args3
  <2> QED BY <1>5, <1>11, Concat, Zenon
<1>13. AllIn(Sound, fmt4 \o <<B, L>>, args4 \o Ints(<<3, 0>>))
  <2> HIDE DEF fmt4, args4
  <2> QED BY <1>7, <1>12, Concat, Zenon
<1> QED BY <1>8, <1>13, Zenon

\* The answers of the firmware.
LEMMA TwoIn ==
    ASSUME NEW D, D \subseteq Specs \X Values, NEW s1, NEW s2, NEW a1, NEW a2,
           <<s1, a1>> \in D, <<s2, a2>> \in D
    PROVE  AllIn(D, <<s1, s2>>, <<a1, a2>>)
<1> DEFINE fmt == <<s1, s2>>
           args == <<a1, a2>>
<1>1. s1 \in Specs /\ s2 \in Specs /\ a1 \in Values /\ a2 \in Values
  OBVIOUS
<1>2. fmt \in Seq(Specs) /\ args \in Seq(Values) /\ Len(fmt) = 2 /\ Len(args) = 2
  BY <1>1
<1>3. \A i \in 1..2 : <<fmt[i], args[i]>> \in D
  OBVIOUS
<1> HIDE DEF fmt, args
<1>4. AllIn(D, fmt, args)
  BY <1>2, <1>3 DEF AllIn
<1> QED BY <1>4 DEF fmt, args

\* The four integers at the end of the answers.
LEMMA FourZeros == AllIn(Sound, <<L, L, L, L>>, Ints(Zeros(4)))
<1> DEFINE fmt == <<L, L, L, L>>
           numbers == Zeros(4)
<1>1. fmt \in Seq(Specs) /\ Len(fmt) = 4 /\ \A i \in 1..4 : fmt[i] = L
  BY SpecTypes
<1>2. numbers \in Seq(Nat) /\ Len(numbers) = 4 /\ \A i \in 1..4 : numbers[i] = 0
  BY DEF Zeros
<1>3. <<L, IntValue(0)>> \in Sound
  BY IntsAreSound, SMT
<1> HIDE DEF fmt, numbers
<1>4. \A i \in 1..Len(fmt) : <<fmt[i], IntValue(numbers[i])>> \in Sound
  BY <1>1, <1>2, <1>3, Zenon
<1>5. AllIn(Sound, fmt, Ints(numbers))
  BY <1>1, <1>2, <1>4, IntsIn, Zenon
<1> QED BY <1>5 DEF fmt, numbers

\* An address is four bytes.
LEMMA IPv4Type == \A n \in 0..255 : IPv4(n) \in Seq(Byte) /\ Len(IPv4(n)) = 4
BY DEF IPv4, Byte

\* The length of two sequences of bytes one after the other.
LEMMA Lengthened ==
    ASSUME NEW s \in Seq(Byte), NEW t \in Seq(Byte)
    PROVE  s \o t \in Seq(Byte) /\ Len(s \o t) = Len(s) + Len(t)
BY ConcatProperties

\* The address field of an answer has twelve bytes.
LEMMA SlotsType == \A slots \in Slots : slots.bytes \in Seq(Byte) /\ Len(slots.bytes) = 12
<1>1. Zeros(12) \in Seq(Byte) /\ Len(Zeros(12)) = 12
  BY ByteStrings
<1>2. ASSUME NEW n \in 1..3
      PROVE  LET bytes == Many(4 * (n - 1), 254) \o IPv4(n) \o Zeros(12 - 4 * n)
             IN bytes \in Seq(Byte) /\ Len(bytes) = 12
  <2> DEFINE a == Many(4 * (n - 1), 254)
             b == IPv4(n)
             c == Zeros(12 - 4 * n)
  <2>1. 4 * (n - 1) \in Nat /\ 12 - 4 * n \in Nat /\ 254 \in Byte /\ n \in 0..255
    BY DEF Byte
  <2>2. a \in Seq(Byte) /\ Len(a) = 4 * (n - 1)
    BY <2>1, ByteStrings
  <2>3. b \in Seq(Byte) /\ Len(b) = 4
    BY <2>1, IPv4Type
  <2>4. c \in Seq(Byte) /\ Len(c) = 12 - 4 * n
    BY <2>1, ByteStrings
  <2> HIDE DEF a, b, c
  <2>5. a \o b \in Seq(Byte) /\ Len(a \o b) = 4 * (n - 1) + 4
    <3> DEFINE k == 4 * (n - 1)
    <3> HIDE DEF k
    <3>1. k \in Nat /\ Len(a) = k /\ 4 \in Nat
      BY <2>1, <2>2 DEF k
    <3>2. a \o b \in Seq(Byte) /\ Len(a \o b) = Len(a) + Len(b)
      BY <2>2, <2>3, Lengthened, Zenon
    <3> QED BY <2>3, <3>1, <3>2 DEF k
  <2> DEFINE x == a \o b
  <2>6. x \in Seq(Byte) /\ Len(x) = 4 * (n - 1) + 4
    BY <2>5
  <2> HIDE DEF x
  <2>7. x \o c \in Seq(Byte) /\ Len(x \o c) = Len(x) + Len(c)
    BY <2>4, <2>6, Lengthened, Zenon
  <2>8. Len(x \o c) = 12
    BY <2>1, <2>4, <2>6, <2>7
  <2> QED BY <2>7, <2>8 DEF a, b, c, x
<1>3. ASSUME NEW slots \in Slots PROVE slots.bytes \in Seq(Byte) /\ Len(slots.bytes) = 12
  <2>1. CASE slots = [v4 |-> {}, bytes |-> Zeros(12)]
    <3>1. slots.bytes = Zeros(12)
      BY <2>1
    <3> QED BY <1>1, <3>1, Zenon
  <2>2. CASE \E n \in 1..3 :
               slots = [v4 |-> {IPv4(n)},
                        bytes |-> Many(4 * (n - 1), 254) \o IPv4(n) \o Zeros(12 - 4 * n)]
    <3>1. PICK n \in 1..3 :
               slots = [v4 |-> {IPv4(n)},
                        bytes |-> Many(4 * (n - 1), 254) \o IPv4(n) \o Zeros(12 - 4 * n)]
      BY <2>2
    <3>2. slots.bytes = Many(4 * (n - 1), 254) \o IPv4(n) \o Zeros(12 - 4 * n)
      BY <3>1
    <3> QED BY <1>2, <3>2
  <2> QED BY <2>1, <2>2 DEF Slots
<1> QED BY <1>3

\* The answer with the addresses is decoded as it was.
LEMMA NegIp ==
    ASSUME NEW slots \in Slots
    PROVE  AllIn(Sound, neg_ip(slots).fmt, neg_ip(slots).args)
<1> DEFINE s2 == S(12)
           a1 == IntValue(0)
           a2 == BytesValue(slots.bytes)
           zeros == Ints(Zeros(4))
<1>1. <<s2, a2>> \in Sound
  <2>1. Room(12, 12)
    BY DEF Room
  <2> QED BY <2>1, SlotsType, StringIn, Zenon
<1>2. <<L, a1>> \in Sound
  BY IntsAreSound, SMT
<1>3. neg_ip(slots).fmt = <<L, s2, L, L, L, L>> /\ neg_ip(slots).args = <<a1, a2>> \o zeros
  BY DEF neg_ip, Message
<1>4. AllIn(Sound, <<L, L, L, L>>, zeros) /\ Sound \subseteq Specs \X Values
  BY FourZeros, SoundFits
<1> HIDE DEF s2, a1, a2, zeros
<1>5. AllIn(Sound, <<L, s2>>, <<a1, a2>>)
  BY <1>1, <1>2, <1>4, TwoIn, Zenon
<1>6. AllIn(Sound, <<L, s2>> \o <<L, L, L, L>>, <<a1, a2>> \o zeros)
  BY <1>4, <1>5, Concat, Zenon
<1>7. <<L, s2, L, L, L, L>> = <<L, s2>> \o <<L, L, L, L>>
  OBVIOUS
<1> QED BY <1>3, <1>6, <1>7, Zenon

\* The entries of an answer with servers.
LEMMA ServersType ==
    \A e \in Servers : e.bytes \in Seq(Byte) /\ Len(e.bytes) \in 0..16 /\ e.kind \in {0, 1, 2}
<1>1. <<>> \in Seq(Byte) /\ Len(<<>>) = 0
  OBVIOUS
<1>2. \A n \in 1..3 : IPv4(n) \in Seq(Byte) /\ Len(IPv4(n)) = 4
  <2>1. ASSUME NEW n \in 1..3 PROVE n \in 0..255
    OBVIOUS
  <2> QED BY <2>1, IPv4Type
<1>3. IPv4(2) \o Zeros(12) \in Seq(Byte) /\ Len(IPv4(2) \o Zeros(12)) = 16
  <2> DEFINE a == IPv4(2)
             b == Zeros(12)
  <2>1. a \in Seq(Byte) /\ Len(a) = 4
    BY <1>2
  <2>2. b \in Seq(Byte) /\ Len(b) = 12
    BY ByteStrings
  <2> HIDE DEF a, b
  <2>3. a \o b \in Seq(Byte) /\ Len(a \o b) = Len(a) + Len(b)
    BY <2>1, <2>2, Lengthened, Zenon
  <2>4. Len(a \o b) = 16
    BY <2>1, <2>2, <2>3
  <2> QED BY <2>3, <2>4, Zenon DEF a, b
<1>4. Text(16) \in Seq(Byte) /\ Len(Text(16)) = 16
  BY ByteStrings
<1>5. ASSUME NEW e \in Servers
      PROVE  /\ e.kind \in {0, 1, 2}
             /\ \/ e.bytes = <<>> \/ e.bytes = IPv4(1) \/ e.bytes = IPv4(2) \o Zeros(12)
                \/ e.bytes = Text(16) \/ e.bytes = IPv4(3)
  BY DEF Servers
<1>6. ASSUME NEW e \in Servers PROVE e.bytes \in Seq(Byte) /\ Len(e.bytes) \in 0..16
  <2> DEFINE b == e.bytes
  <2>1. \/ b = <<>> \/ b = IPv4(1) \/ b = IPv4(2) \o Zeros(12) \/ b = Text(16) \/ b = IPv4(3)
    BY <1>5
  <2> HIDE DEF b
  <2>2. b \in Seq(Byte) /\ (Len(b) = 0 \/ Len(b) = 4 \/ Len(b) = 16)
    <3>1. CASE b = <<>>
      BY <1>1, <3>1
    <3>2. CASE b = IPv4(1) \/ b = IPv4(3)
      BY <1>2, <3>2
    <3>3. CASE b = IPv4(2) \o Zeros(12)
      BY <1>3, <3>3, Zenon
    <3>4. CASE b = Text(16)
      BY <1>4, <3>4, Zenon
    <3> QED BY <2>1, <3>1, <3>2, <3>3, <3>4, Zenon
  <2> QED BY <2>2 DEF b
<1> QED BY <1>5, <1>6

OfLength(f, A, n) == f \in Seq(A) /\ Len(f) = n

\* A function on an interval, as an opaque fact.
LEMMA FunctionIsSeq ==
    ASSUME NEW A, NEW n \in Nat, NEW f \in [1..n -> A]
    PROVE  OfLength(f, A, n)
BY FunctionSeq DEF OfLength

Associates(s, t, u) == (s \o t) \o u = s \o (t \o u)

\* It does not matter where sequences are put together first.
LEMMA Associative ==
    ASSUME NEW A, NEW s \in Seq(A), NEW t \in Seq(A), NEW u \in Seq(A)
    PROVE  Associates(s, t, u)
BY ConcatAssociative DEF Associates

\* The answer with the servers is decoded as it was, whatever its entries.
LEMMA NegDns ==
    ASSUME NEW first \in Servers, NEW second \in Servers, NEW last \in Servers
    PROVE  AllIn(Sound, neg_dns(Entries(first, second, last)).fmt,
                        neg_dns(Entries(first, second, last)).args)
<1> DEFINE entries == Entries(first, second, last)
           Spec1(i) == IF i % 2 = 1 THEN S(16) ELSE L
           Arg1(i) == IF i % 2 = 1 THEN BytesValue(entries[(i + 1) \div 2].bytes)
                      ELSE IntValue(entries[i \div 2].kind)
           fmt == [i \in 1..32 |-> Spec1(i)]
           args == [i \in 1..32 |-> Arg1(i)]
           zeros == Ints(Zeros(4))
           s2 == S(1)
           a1 == IntValue(0)
           a2 == BytesValue(<<>>)
<1>1. \A i \in 1..16 : /\ entries[i].bytes \in Seq(Byte) /\ Len(entries[i].bytes) \in 0..16
                       /\ entries[i].kind \in {0, 1, 2}
  <2> DEFINE none == [kind |-> 0, bytes |-> <<>>]
  <2>1. none \in Servers
    BY DEF Servers
  <2>2. \A i \in 1..16 : entries[i] \in Servers
    <3> HIDE DEF none
    <3>1. \A i \in 1..16 : entries[i] = first \/ entries[i] = second \/ entries[i] = last \/ entries[i] = none
      BY DEF Entries, none
    <3> HIDE DEF entries
    <3> QED BY <2>1, <3>1
  <2> HIDE DEF entries
  <2> QED BY <2>2, ServersType
<1> HIDE DEF entries
<1>2. Sound \subseteq Specs \X Values
  BY SoundFits
<1>3. ASSUME NEW i \in 1..32 PROVE <<Spec1(i), Arg1(i)>> \in Sound
  <2>1. CASE i % 2 = 1
    <3> DEFINE b == entries[(i + 1) \div 2].bytes
    <3>1. (i + 1) \div 2 \in 1..16
      OBVIOUS
    <3>2. b \in Seq(Byte) /\ Len(b) \in 0..16
      BY <1>1, <3>1
    <3> HIDE DEF b
    <3>3. Room(Len(b), 16)
      <4>1. Len(b) \in 0..16
        BY <3>2, Zenon
      <4> DEFINE m == Len(b)
      <4>2. m \in 0..16
        BY <4>1, Zenon
      <4> HIDE DEF m
      <4>3. Room(m, 16)
        BY <4>2 DEF Room
      <4> QED BY <4>3, Zenon DEF m
    <3>4. <<S(16), BytesValue(b)>> \in Sound
      BY <3>2, <3>3, StringIn, Zenon
    <3> QED BY <2>1, <3>4 DEF b
  <2>2. CASE i % 2 # 1
    <3> DEFINE k == entries[i \div 2].kind
    <3>1. i \div 2 \in 1..16
      BY <2>2
    <3>2. k \in {0, 1, 2}
      BY <1>1, <3>1
    <3> HIDE DEF k
    <3>3. <<L, IntValue(k)>> \in Sound
      BY <3>2, IntsAreSound, SMT
    <3> QED BY <2>2, <3>3 DEF k
  <2> QED BY <2>1, <2>2
<1> HIDE DEF Spec1, Arg1
<1>4. fmt \in Seq(Specs) /\ Len(fmt) = 32 /\ args \in Seq(Values) /\ Len(args) = 32
  <2>1. \A i \in 1..32 : Spec1(i) \in Specs /\ Arg1(i) \in Values
    BY <1>2, <1>3
  <2>2. fmt \in [1..32 -> Specs] /\ args \in [1..32 -> Values] /\ 32 \in Nat
    BY <2>1
  <2> HIDE DEF fmt, args
  <2>3. OfLength(fmt, Specs, 32)
    BY <2>2, FunctionIsSeq, Zenon
  <2>4. OfLength(args, Values, 32)
    BY <2>2, FunctionIsSeq, Zenon
  <2> QED BY <2>3, <2>4, Zenon DEF OfLength
<1>5. AllIn(Sound, fmt, args)
  <2>1. \A i \in 1..32 : fmt[i] = Spec1(i) /\ args[i] = Arg1(i)
    OBVIOUS
  <2> HIDE DEF fmt, args
  <2>2. \A i \in 1..32 : <<fmt[i], args[i]>> \in Sound
    BY <1>3, <2>1, Zenon
  <2> QED BY <1>4, <2>2 DEF AllIn
<1>6. <<L, a1>> \in Sound
  BY IntsAreSound, SMT
<1>7. <<s2, a2>> \in Sound
  <2>1. Room(0, 1) /\ <<>> \in Seq(Byte) /\ Len(<<>>) = 0
    BY DEF Room
  <2> QED BY <2>1, StringIn, Zenon
<1>8. AllIn(Sound, <<L, L, L, L>>, zeros)
  BY FourZeros
<1>9. AllIn(Sound, <<L>>, <<a1>>)
  <2> HIDE DEF a1
  <2> QED BY <1>2, <1>6, OneIn, Zenon
<1>10. AllIn(Sound, <<L, s2>>, <<a1, a2>>)
  <2> HIDE DEF a1, a2, s2
  <2> QED BY <1>2, <1>6, <1>7, TwoIn, Zenon
<1>11. /\ neg_dns(entries).fmt = <<L>> \o fmt \o <<L, s2, L, L, L, L>>
       /\ neg_dns(entries).args = Ints(<<0>>) \o args \o <<a1, a2>> \o zeros
  <2> DEFINE f == <<L>> \o fmt \o <<L, s2, L, L, L, L>>
             a == Ints(<<0>>) \o args \o <<a1, a2>> \o zeros
  <2>1. neg_dns(entries) = Message("neg_dns", f, a)
    BY Zenon DEF neg_dns, Spec1, Arg1
  <2> HIDE DEF f, a
  <2>2. neg_dns(entries) = [of |-> "neg_dns", fmt |-> f, args |-> a]
    BY <2>1, Zenon DEF Message
  <2>3. neg_dns(entries).fmt = f /\ neg_dns(entries).args = a
    BY <2>2
  <2> QED BY <2>3, Zenon DEF f, a
<1>12. Ints(<<0>>) = <<a1>>
  BY DEF Ints
<1>13. <<L, s2, L, L, L, L>> = <<L, s2>> \o <<L, L, L, L>>
  <2> HIDE DEF s2
  <2> QED OBVIOUS
<1> HIDE DEF fmt, args, zeros, s2, a1, a2
<1> DEFINE fmt1 == <<L>> \o fmt
           args1 == <<a1>> \o args
<1>14. AllIn(Sound, fmt1, args1)
  BY <1>5, <1>9, Concat, Zenon
<1> HIDE DEF fmt1, args1
<1>15. AllIn(Sound, fmt1 \o <<L, s2>>, args1 \o <<a1, a2>>)
  BY <1>10, <1>14, Concat, Zenon
<1>16. AllIn(Sound, (fmt1 \o <<L, s2>>) \o <<L, L, L, L>>, (args1 \o <<a1, a2>>) \o zeros)
  BY <1>8, <1>15, Concat, Zenon
<1>17. (fmt1 \o <<L, s2>>) \o <<L, L, L, L>> = fmt1 \o (<<L, s2>> \o <<L, L, L, L>>)
  <2> DEFINE t == <<L, s2>>
             u == <<L, L, L, L>>
  <2>1. fmt1 \in Seq(Specs) /\ t \in Seq(Specs) /\ u \in Seq(Specs)
    BY <1>8, <1>10, <1>14, Zenon DEF AllIn
  <2> HIDE DEF t, u
  <2>2. Associates(fmt1, t, u)
    BY <2>1, Associative, Zenon
  <2> QED BY <2>2, Zenon DEF Associates, t, u
<1>18. AllIn(Sound, neg_dns(entries).fmt, neg_dns(entries).args)
  BY <1>11, <1>12, <1>13, <1>16, <1>17, Zenon DEF fmt1, args1
<1> QED BY <1>18, Zenon DEF entries

\* Answers with strings of any length, of one, two or four bytes an element, fit.
LEMMA InfoAnswers ==
    ASSUME NEW n \in Lengths
    PROVE  /\ AllIn(Fitting, sys_info(n).fmt, sys_info(n).args)
           /\ \A size \in {2, 4} : AllIn(Fitting, wide(size, n).fmt, wide(size, n).args)
<1>1. n \in Nat /\ 4 * (n + 3) < Power[IntWidth] /\ Power[IntWidth] \in Nat
  BY PayloadsAssumption, UsizeRoom
<1>2. /\ <<L, IntValue(0)>> \in Fitting /\ <<L, IntValue(1)>> \in Fitting
      /\ <<B, IntValue(1)>> \in Fitting /\ Fitting \subseteq Specs \X Values
  <2>1. <<L, IntValue(0)>> \in Sound /\ <<L, IntValue(1)>> \in Sound
    BY IntsAreSound, SMT
  <2>2. <<B, IntValue(1)>> \in Sound
    BY IntsAreSound
  <2> QED BY <2>1, <2>2, SoundFits, Zenon
<1>3. AllIn(Fitting, sys_info(n).fmt, sys_info(n).args)
  <2> DEFINE s3 == S(n + 3)
             a1 == IntValue(0)
             a2 == IntValue(1)
             a3 == BytesValue(Text(n))
  <2>1. <<s3, a3>> \in Fitting
    <3>0. Text(n) \in Seq(Byte) /\ Len(Text(n)) = n
      BY <1>1, ByteStrings
    <3>1. Text(n) \in Seq(Byte) /\ Len(Text(n)) <= n + 3 /\ n + 3 \in Nat /\ n + 3 < Power[IntWidth]
      BY <1>1, <3>0
    <3> QED BY <3>1, BytesAreSound
  <2>2. sys_info(n).fmt = <<L, L, s3>> /\ sys_info(n).args = Ints(<<0, 1>>) \o <<a3>>
    BY DEF sys_info, Message
  <2>3. Ints(<<0, 1>>) = <<a1, a2>>
    BY DEF Ints
  <2>4. <<L, a1>> \in Fitting /\ <<L, a2>> \in Fitting
    BY <1>2
  <2> HIDE DEF s3, a1, a2, a3
  <2>5. <<a1, a2, a3>> = <<a1, a2>> \o <<a3>>
    OBVIOUS
  <2>6. AllIn(Fitting, <<L, L, s3>>, <<a1, a2, a3>>)
    BY <1>2, <2>1, <2>4, ThreeIn, Zenon
  <2> QED BY <2>2, <2>3, <2>5, <2>6, Zenon
<1>4. ASSUME NEW size \in {2, 4} PROVE AllIn(Fitting, wide(size, n).fmt, wide(size, n).args)
  <2> DEFINE s1 == FieldSpec("s", size, n + 1)
             value == Text(n * size)
             a1 == BytesValue(value)
             a2 == IntValue(1)
  <2>1. <<s1, a1>> \in Fitting
    <3>1. /\ size \in {1, 2, 4} /\ n + 1 \in Nat /\ n * size \in Nat /\ n \in 0..(n + 1)
          /\ (n + 1) * size < Power[IntWidth]
      <4>1. CASE size = 2
        BY <1>1, <4>1
      <4>2. CASE size = 4
        BY <1>1, <4>2
      <4> QED BY <4>1, <4>2
    <3>2. value \in Seq(Byte) /\ Len(value) = n * size
      <4> DEFINE m == n * size
      <4>1. m \in Nat
        BY <3>1
      <4> HIDE DEF m
      <4>2. Text(m) \in Seq(Byte) /\ Len(Text(m)) = m
        BY <4>1, ByteStrings, Zenon
      <4> QED BY <4>2 DEF m
    <3> HIDE DEF value
    <3> QED BY <3>1, <3>2, StringIsFitting, Zenon
  <2>2. wide(size, n).fmt = <<s1, B>> /\ wide(size, n).args = <<a1, a2>>
    BY DEF wide, Message
  <2>3. <<B, a2>> \in Fitting
    BY <1>2
  <2> HIDE DEF s1, a1, a2
  <2> QED BY <1>2, <2>1, <2>2, <2>3, TwoIn, Zenon
<1> QED BY <1>3, <1>4

-----------------------------------------------------------------------------
(* The request made of two answers is what the encoder would make of it.    *)

SameAt(out1, out2, n) == out1[n] = out2[n]

Alike(fmt1, args1, fmt2, args2, n) ==
    /\ n \in Nat /\ Len(fmt1) \in Nat /\ Len(fmt2) \in Nat /\ n <= Len(fmt1) /\ n <= Len(fmt2)
    /\ \A i \in 1..n : fmt1[i] = fmt2[i] /\ args1[i] = args2[i]

\* Formats that start alike are packed alike so far.
LEMMA SamePrefix ==
    ASSUME NEW out1, NEW fmt1, NEW args1, Packs(out1, fmt1, args1),
           NEW out2, NEW fmt2, NEW args2, Packs(out2, fmt2, args2),
           NEW n, Alike(fmt1, args1, fmt2, args2, n)
    PROVE  SameAt(out1, out2, n)
<1> USE DEF Alike
<1> DEFINE T == {i \in 0..n : out1[i] = out2[i]}
<1>1. 0 \in T
  BY DEF Packs
<1>2. ASSUME NEW i \in 1..n, i - 1 \in T PROVE i \in T
  <2>1. i \in 1..Len(fmt1) /\ i \in 1..Len(fmt2) /\ i \in 0..n
    OBVIOUS
  <2>2. out1[i] = out1[i - 1] \o PackField(fmt1[i], args1[i])
    BY <2>1, Zenon DEF Packs
  <2>3. out2[i] = out2[i - 1] \o PackField(fmt2[i], args2[i])
    BY <2>1, Zenon DEF Packs
  <2>4. out1[i - 1] = out2[i - 1]
    BY <1>2
  <2>5. out1[i] = out2[i]
    BY <2>2, <2>3, <2>4, Zenon
  <2> QED BY <2>1, <2>5
<1>3. Inductive(T, n)
  <2> HIDE DEF T
  <2> QED BY <1>1, <1>2 DEF Inductive
<1>4. n \in T
  <2> HIDE DEF T
  <2> QED BY <1>3, Induction
<1> QED BY <1>4 DEF SameAt

Appends(fmt, args, spec, arg) ==
    /\ AllIn(Fitting, fmt \o <<spec>>, args \o <<arg>>)
    /\ Pack(fmt \o <<spec>>, args \o <<arg>>) = Pack(fmt, args) \o PackField(spec, arg)

\* Packing one more field appends it.
LEMMA PackAppend ==
    ASSUME NEW fmt, NEW args, AllIn(Fitting, fmt, args), NEW spec, NEW arg, <<spec, arg>> \in Fitting
    PROVE  Appends(fmt, args, spec, arg)
<1> DEFINE n == Len(fmt)
           f == fmt \o <<spec>>
           a == args \o <<arg>>
<1>1. AllIn(Fitting, <<spec>>, <<arg>>)
  BY SoundFits, OneIn, Zenon
<1>2. AllIn(Fitting, f, a)
  BY <1>1, Concat, Zenon
<1>3. n \in Nat /\ fmt \in Seq(Specs) /\ args \in Seq(Values) /\ Len(args) = n
  BY DEF AllIn
<1>4. /\ Len(f) = n + 1 /\ f[n + 1] = spec /\ a[n + 1] = arg
      /\ \A i \in 1..n : f[i] = fmt[i] /\ a[i] = args[i]
  <2>1. <<spec>> \in Seq(Specs) /\ <<arg>> \in Seq(Values) /\ Len(<<spec>>) = 1 /\ Len(<<arg>>) = 1
    BY <1>1 DEF AllIn
  <2>2. Joined(f, fmt, <<spec>>, Specs)
    BY <1>3, <2>1, ConcatSeq, Zenon
  <2>3. Joined(a, args, <<arg>>, Values)
    BY <1>3, <2>1, ConcatSeq, Zenon
  <2> DEFINE t == <<spec>>
             u == <<arg>>
  <2>4. t[1] = spec /\ u[1] = arg
    OBVIOUS
  <2> HIDE DEF f, a, t, u
  <2>5. /\ Len(f) = Len(fmt) + Len(t) /\ \A i \in 1..Len(fmt) : f[i] = fmt[i]
        /\ \A i \in 1..Len(t) : f[Len(fmt) + i] = t[i]
    BY <2>2, Zenon DEF Joined, t
  <2>6. /\ \A i \in 1..Len(args) : a[i] = args[i]
        /\ \A i \in 1..Len(u) : a[Len(args) + i] = u[i]
    BY <2>3, Zenon DEF Joined, u
  <2>7. Len(t) = 1 /\ Len(u) = 1
    BY <2>1, Zenon DEF t, u
  <2> QED BY <1>3, <2>4, <2>5, <2>6, <2>7
<1> HIDE DEF f, a
<1>5. PICK out1 : Packs(out1, fmt, args) /\ Pack(fmt, args) = out1[n]
  BY PackDef
<1>6. PICK out2 : Packs(out2, f, a) /\ Pack(f, a) = out2[Len(f)]
  BY <1>2, PackDef
<1>7. out1[n] = out2[n]
  <2>1. n \in Nat /\ Len(fmt) \in Nat /\ Len(f) \in Nat /\ n <= Len(fmt) /\ n <= Len(f)
    BY <1>3, <1>4
  <2>2. \A i \in 1..n : fmt[i] = f[i] /\ args[i] = a[i]
    BY <1>4, Zenon
  <2>3. Alike(fmt, args, f, a, n)
    BY <2>1, <2>2, Zenon DEF Alike
  <2>4. Packs(out1, fmt, args) /\ Packs(out2, f, a)
    BY <1>5, <1>6
  <2> HIDE DEF n
  <2>5. SameAt(out1, out2, n)
    BY <2>3, <2>4, SamePrefix, Zenon
  <2> QED BY <2>5, Zenon DEF SameAt
<1>8. out2[n + 1] = out2[n] \o PackField(spec, arg)
  <2>1. n + 1 \in 1..Len(f) /\ (n + 1) - 1 = n
    BY <1>3, <1>4
  <2>2. out2[n + 1] = out2[(n + 1) - 1] \o PackField(f[n + 1], a[n + 1])
    BY <1>6, <2>1, Zenon DEF Packs
  <2> QED BY <1>4, <2>1, <2>2, Zenon
<1>9. Pack(f, a) = Pack(fmt, args) \o PackField(spec, arg)
  BY <1>4, <1>5, <1>6, <1>7, <1>8, Zenon
<1> QED BY <1>2, <1>9, Zenon DEF Appends, f, a

\* Nothing packs to nothing.
LEMMA PackNothing == AllIn(Fitting, <<>>, <<>>) /\ Pack(<<>>, <<>>) = <<>>
<1>1. AllIn(Fitting, <<>>, <<>>)
  BY DEF AllIn
<1>2. PICK out : Packs(out, <<>>, <<>>) /\ Pack(<<>>, <<>>) = out[Len(<<>>)]
  BY <1>1, PackDef
<1>3. Len(<<>>) = 0
  OBVIOUS
<1> QED BY <1>1, <1>2, <1>3, Zenon DEF Packs

\* One field packs to itself.
LEMMA PackOne ==
    ASSUME NEW spec, NEW arg, <<spec, arg>> \in Fitting
    PROVE  Pack(<<spec>>, <<arg>>) = PackField(spec, arg)
<1> DEFINE none == <<>>
           P == PackField(spec, arg)
<1>1. P \in Seq(Byte)
  BY FieldType, Zenon
<1>2. spec \in Specs /\ arg \in Values
  BY SoundFits
<1>3. none \o <<spec>> = <<spec>> /\ none \o <<arg>> = <<arg>>
  BY <1>2
<1>4. AllIn(Fitting, none, none) /\ Pack(none, none) = <<>>
  BY PackNothing
<1> HIDE DEF none, P
<1>5. <<>> \o P = P
  BY <1>1
<1>6. Appends(none, none, spec, arg)
  BY <1>4, PackAppend, Zenon
<1> QED BY <1>3, <1>4, <1>5, <1>6, Zenon DEF Appends, P

\* pack_u32 is short for packing one integer.
LEMMA Shorthand ==
    ASSUME NEW value \in U32s
    PROVE  LET m == pack_u32(value)
           IN AsnInt(The(m.args[1].as_int)) = Pack(m.fmt, m.args)
<1> DEFINE m == pack_u32(value)
           arg == IntValue(value)
<1>1. The(m.args[1].as_int) = value /\ m.fmt = <<L>> /\ m.args = <<arg>> /\ <<L, arg>> \in Sound
  BY ChallengeRequest, Zenon
<1>2. L.kind = "n" /\ L.size = IntWidth
  BY DEF L, FieldSpec
<1>3. The(arg.as_int) = value
  BY DEF IntValue, The
<1> HIDE DEF m, arg
<1>4. <<L, arg>> \in Fitting
  BY <1>1, SoundFits, Zenon
<1>5. Pack(<<L>>, <<arg>>) = PackField(L, arg)
  BY <1>4, PackOne, Zenon
<1>6. PackField(L, arg) = AsnInt(value)
  BY <1>2, <1>3, Zenon DEF PackField, AsnInt
<1> QED BY <1>1, <1>5, <1>6, Zenon DEF m

\* What was appended is cut off by its length.
CutsBack(s, t) == SubSeq(s \o t, 1, Len(s)) = s /\ Len(s \o t) - Len(t) = Len(s)

\* Cutting off what was appended.
LEMMA CutBack ==
    ASSUME NEW A, NEW s \in Seq(A), NEW t \in Seq(A)
    PROVE  CutsBack(s, t)
<1> DEFINE u == s \o t
           v == SubSeq(u, 1, Len(s))
<1>1. Joined(u, s, t, A)
  BY ConcatSeq, Zenon
<1> HIDE DEF u
<1>2. u \in Seq(A) /\ Len(u) = Len(s) + Len(t) /\ \A i \in 1..Len(s) : u[i] = s[i]
  BY <1>1, Zenon DEF Joined
<1>3. Len(s) \in Nat /\ Len(t) \in Nat
  OBVIOUS
<1>4. v = [i \in 1..Len(s) |-> u[i]]
  BY <1>2, <1>3
<1>5. \A i \in 1..Len(s) : v[i] = s[i]
  BY <1>2, <1>4
<1>6. v \in Seq(A) /\ Len(v) = Len(s)
  BY <1>2, <1>3
<1>7. Len(u) - Len(t) = Len(s)
  BY <1>2, <1>3
<1> HIDE DEF v
<1>8. v = s
  BY <1>5, <1>6
<1> QED BY <1>7, <1>8, Zenon DEF CutsBack, u, v

\* ConnectSetup, put together of two answers, is what pack would make of the fields it
\* has, so the modem reads it as such.
LEMMA Setup ==
    /\ AllIn(Sound, setup.fmt, setup.args)
    /\ ConnectSetup = Pack(setup.fmt, setup.args)
<1> DEFINE f3 == <<B, L, L>>
           v0 == IntValue(0)
           v5 == IntValue(5)
           v6 == IntValue(6)
           a3 == <<v0, v6, v0>>
           s4 == S(4)
           w == BytesValue(Text(3))
<1>1. /\ <<B, v0>> \in Sound /\ <<L, v0>> \in Sound /\ <<L, v5>> \in Sound /\ <<L, v6>> \in Sound
      /\ <<s4, w>> \in Sound
  <2>1. <<L, v0>> \in Sound /\ <<L, v5>> \in Sound /\ <<L, v6>> \in Sound
    BY IntsAreSound, SMT
  <2>2. <<B, v0>> \in Sound
    BY IntsAreSound
  <2>3. <<s4, w>> \in Sound
    <3>1. Text(3) \in Seq(Byte) /\ Len(Text(3)) = 3
      BY ByteStrings
    <3>2. Room(3, 4)
      BY DEF Room
    <3> QED BY <3>1, <3>2, StringIn, Zenon
  <2> QED BY <2>1, <2>2, <2>3
<1>2. ps_connect.fmt = <<B, L, L, L>> /\ ps_connect.args = <<v0, v6, v0, v0>>
  <2>1. Ints(<<0, 6, 0, 0>>) = <<v0, v6, v0, v0>>
    BY DEF Ints
  <2> QED BY <2>1 DEF ps_connect, Message
<1>3. datachannel.fmt = <<s4, L>> /\ datachannel.args = <<w, v5>>
  BY DEF datachannel, Message
<1>4. Ints(<<0>>) = <<v0>>
  BY DEF Ints
<1>5. /\ setup.fmt = SubSeq(ps_connect.fmt, 1, 3) \o datachannel.fmt \o <<L>>
      /\ setup.args = SubSeq(ps_connect.args, 1, 3) \o datachannel.args \o <<v0>>
  <2> DEFINE f == SubSeq(ps_connect.fmt, 1, 3) \o datachannel.fmt \o <<L>>
             a == SubSeq(ps_connect.args, 1, 3) \o datachannel.args \o <<v0>>
  <2>1. setup = Message("setup", f, a)
    BY <1>4, Zenon DEF setup
  <2> HIDE DEF f, a
  <2>2. setup = [of |-> "setup", fmt |-> f, args |-> a]
    BY <2>1, Zenon DEF Message
  <2>3. setup.fmt = f /\ setup.args = a
    BY <2>2
  <2> QED BY <2>3, Zenon DEF f, a
<1> HIDE DEF v0, v5, v6, s4, w
<1>6. <<B, L, L, L>> = f3 \o <<L>> /\ <<v0, v6, v0, v0>> = a3 \o <<v0>>
      /\ <<s4, L>> = <<s4>> \o <<L>> /\ <<w, v5>> = <<w>> \o <<v5>>
  <2>1. <<B, L, L, L>> = <<B, L, L>> \o <<L>>
    OBVIOUS
  <2>2. <<v0, v6, v0, v0>> = <<v0, v6, v0>> \o <<v0>>
    OBVIOUS
  <2>3. <<s4, L>> = <<s4>> \o <<L>>
    OBVIOUS
  <2>4. <<w, v5>> = <<w>> \o <<v5>>
    OBVIOUS
  <2> QED BY <2>1, <2>2, <2>3, <2>4, Zenon
<1>7. AllIn(Sound, f3, a3) /\ AllIn(Fitting, f3, a3)
  <2>1. AllIn(Sound, f3, a3)
    BY <1>1, SoundFits, ThreeIn, Zenon
  <2> QED BY <2>1, SoundFits, Zenon
<1>8. Len(f3) = 3 /\ Len(a3) = 3
  OBVIOUS
<1> HIDE DEF f3, a3
<1>9. /\ f3 \in Seq(Specs) /\ a3 \in Seq(Values)
      /\ <<L>> \in Seq(Specs) /\ <<s4>> \in Seq(Specs)
      /\ <<v0>> \in Seq(Values) /\ <<v5>> \in Seq(Values) /\ <<w>> \in Seq(Values)
  <2>1. AllIn(Sound, <<L>>, <<v0>>) /\ AllIn(Sound, <<s4>>, <<w>>) /\ AllIn(Sound, <<L>>, <<v5>>)
    BY <1>1, SoundFits, OneIn, Zenon
  <2> QED BY <1>7, <2>1, Zenon DEF AllIn
<1>10. SubSeq(ps_connect.fmt, 1, 3) = f3 /\ SubSeq(ps_connect.args, 1, 3) = a3
  <2>1. CutsBack(f3, <<L>>) /\ CutsBack(a3, <<v0>>)
    BY <1>9, CutBack, Zenon
  <2> QED BY <1>2, <1>6, <1>8, <2>1, Zenon DEF CutsBack
<1> DEFINE f4 == f3 \o <<s4>>
           a4 == a3 \o <<w>>
           f5 == f4 \o <<L>>
           a5 == a4 \o <<v5>>
<1>11. setup.fmt = f5 \o <<L>> /\ setup.args = a5 \o <<v0>>
  <2>1. Associates(f3, <<s4>>, <<L>>) /\ Associates(a3, <<w>>, <<v5>>)
    BY <1>9, Associative, Zenon
  <2> QED BY <1>3, <1>5, <1>6, <1>10, <2>1, Zenon DEF Associates
<1> DEFINE P == PackField(s4, w)
           Q == PackField(L, v5)
           R == PackField(L, v0)
           p3 == Pack(f3, a3)
<1>12. <<s4, w>> \in Fitting /\ <<L, v5>> \in Fitting /\ <<L, v0>> \in Fitting
  BY <1>1, SoundFits, Zenon
<1>13. AllIn(Fitting, f4, a4) /\ Pack(f4, a4) = p3 \o P
  <2>1. Appends(f3, a3, s4, w)
    BY <1>7, <1>12, PackAppend, Zenon
  <2> QED BY <2>1, Zenon DEF Appends
<1>14. AllIn(Fitting, f5, a5) /\ Pack(f5, a5) = Pack(f4, a4) \o Q
  <2> HIDE DEF f4, a4
  <2>1. Appends(f4, a4, L, v5)
    BY <1>12, <1>13, PackAppend, Zenon
  <2> QED BY <2>1, Zenon DEF Appends
<1>15. Pack(f5 \o <<L>>, a5 \o <<v0>>) = Pack(f5, a5) \o R
  <2> HIDE DEF f5, a5
  <2>1. Appends(f5, a5, L, v0)
    BY <1>12, <1>14, PackAppend, Zenon
  <2> QED BY <2>1, Zenon DEF Appends
<1>16. Pack(setup.fmt, setup.args) = ((p3 \o P) \o Q) \o R
  BY <1>11, <1>13, <1>14, <1>15, Zenon
<1>17. Pack(ps_connect.fmt, ps_connect.args) = p3 \o R
  <2>1. Appends(f3, a3, L, v0)
    BY <1>7, <1>12, PackAppend, Zenon
  <2> QED BY <1>2, <1>6, <2>1, Zenon DEF Appends
<1>18. Pack(datachannel.fmt, datachannel.args) = P \o Q
  <2> DEFINE none == <<>>
  <2>1. none \o <<s4>> = <<s4>> /\ none \o <<w>> = <<w>>
    BY <1>9
  <2>2. AllIn(Fitting, none, none) /\ Pack(none, none) = <<>>
    BY PackNothing
  <2> HIDE DEF none
  <2>3. <<>> \o P = P
    <3>1. P \in Seq(Byte)
      BY <1>12, FieldType, Zenon
    <3> HIDE DEF P
    <3> QED BY <3>1
  <2>4. AllIn(Fitting, <<s4>>, <<w>>) /\ Pack(<<s4>>, <<w>>) = P
    <3>1. Appends(none, none, s4, w)
      BY <1>12, <2>2, PackAppend, Zenon
    <3> QED BY <2>1, <2>2, <2>3, <3>1, Zenon DEF Appends
  <2>5. Pack(<<s4>> \o <<L>>, <<w>> \o <<v5>>) = P \o Q
    <3>1. Appends(<<s4>>, <<w>>, L, v5)
      BY <1>12, <2>4, PackAppend, Zenon
    <3> QED BY <2>4, <3>1, Zenon DEF Appends
  <2> QED BY <1>3, <1>6, <2>5, Zenon
<1>19. R = AsnInt(0) /\ R \in Seq(Byte) /\ Len(R) = IntWidth + 2
  <2>1. R = PackInt(0, IntWidth)
    <3>1. L.kind = "n" /\ L.size = IntWidth /\ v0.as_int = {0}
      BY DEF L, FieldSpec, IntValue, v0
    <3>2. The({0}) = 0
      BY DEF The
    <3> QED BY <3>1, <3>2, Zenon DEF PackField
  <2>2. IntWidth \in 0..UsizeWidth /\ 0 \in Nat
    BY WidthType
  <2>3. PackInt(0, IntWidth) \in Seq(Byte) /\ Len(PackInt(0, IntWidth)) = IntWidth + 2
    BY <2>2, WidthType, PackIntType
  <2> QED BY <2>1, <2>3, Zenon DEF AsnInt
<1>20. p3 \in Seq(Byte) /\ P \in Seq(Byte) /\ Q \in Seq(Byte)
  <2>1. p3 \in Seq(Byte)
    BY <1>7, PackType, Zenon
  <2>2. P \in Seq(Byte) /\ Q \in Seq(Byte)
    BY <1>12, FieldType, Zenon
  <2> QED BY <2>1, <2>2
<1> HIDE DEF P, Q, R, p3
<1>21. SubSeq(p3 \o R, 1, Len(p3 \o R) - (IntWidth + 2)) = p3
  <2>1. CutsBack(p3, R)
    BY <1>19, <1>20, CutBack, Zenon
  <2> QED BY <1>19, <2>1, Zenon DEF CutsBack
<1>22. ConnectSetup = (p3 \o (P \o Q)) \o R
  BY <1>17, <1>18, <1>19, <1>21, Zenon DEF ConnectSetup
<1>23. ConnectSetup = Pack(setup.fmt, setup.args)
  <2>1. Associates(p3, P, Q)
    BY <1>20, Associative, Zenon
  <2> QED BY <1>16, <1>22, <2>1, Zenon DEF Associates
<1>24. AllIn(Sound, setup.fmt, setup.args)
  <2>1. AllIn(Sound, <<L>>, <<v0>>) /\ AllIn(Sound, <<s4>>, <<w>>) /\ AllIn(Sound, <<L>>, <<v5>>)
    BY <1>1, SoundFits, OneIn, Zenon
  <2>2. AllIn(Sound, f4, a4)
    BY <1>7, <2>1, Concat, Zenon
  <2>3. AllIn(Sound, f5, a5)
    <3> HIDE DEF f4, a4
    <3> QED BY <2>1, <2>2, Concat, Zenon
  <2>4. AllIn(Sound, f5 \o <<L>>, a5 \o <<v0>>)
    <3> HIDE DEF f5, a5
    <3> QED BY <2>1, <2>3, Concat, Zenon
  <2> QED BY <1>11, <2>4, Zenon
<1> QED BY <1>23, <1>24

-----------------------------------------------------------------------------
(* All messages.                                                            *)

\* Only a path too long for its field is refused.
Refused(m) == \E n \in Paths : n >= 24 /\ m = connect_to_datachannel(Text(n))

Encodes(m) ==
    /\ AllIn(Fitting, m.fmt, m.args)
    /\ Packable(m.fmt, m.args)
    /\ Encoded(m) = Pack(m.fmt, m.args)
    /\ m \in Requests => AllIn(Sound, m.fmt, m.args)

\* Each request is decoded as it was, or refused for the length of its path.
LEMMA RequestsFit ==
    ASSUME NEW m \in Requests
    PROVE  \/ AllIn(Sound, m.fmt, m.args)
           \/ Refused(m) /\ ~Packable(m.fmt, m.args)
<1>1. CASE m \in {net_attach, get_neg_ip, ps_connect, sys_get_info(0), set_mode(1)}
  <2>1. m = net_attach \/ m = get_neg_ip \/ m = ps_connect \/ m = sys_get_info(0) \/ m = set_mode(1)
    BY <1>1
  <2> QED BY <2>1, PlainRequests, ModeRequest, Zenon
<1>2. CASE m \in {connect_to_datachannel(Text(n)) : n \in Paths}
  <2>1. PICK n \in Paths : m = connect_to_datachannel(Text(n))
    BY <1>2
  <2>2. n \in Nat
    BY PayloadsAssumption
  <2>3. n < 24 \/ n >= 24
    BY <2>2
  <2>4. /\ n < 24 => AllIn(Sound, m.fmt, m.args)
        /\ n >= 24 => ~Packable(m.fmt, m.args)
    BY <2>1, <2>2, PathRequest, Zenon
  <2> QED BY <2>1, <2>3, <2>4, Zenon DEF Refused
<1>3. CASE m \in {attach_config(Text(n)) : n \in Apns \cap 0..101}
  <2>1. PICK n \in Apns \cap 0..101 : m = attach_config(Text(n))
    BY <1>3
  <2>2. n \in 0..101
    BY <2>1
  <2> QED BY <2>1, <2>2, AttachRequest, Zenon
<1>4. CASE m \in {pack_u32(value) : value \in U32s}
  <2>1. PICK value \in U32s : m = pack_u32(value)
    BY <1>4
  <2> QED BY <2>1, ChallengeRequest, Zenon
<1> QED BY <1>1, <1>2, <1>3, <1>4, Zenon DEF Requests

\* Each answer fits.
LEMMA AnswersFit ==
    ASSUME NEW m \in Answers
    PROVE  AllIn(Fitting, m.fmt, m.args)
<1> DEFINE A1 == {neg_ip(slots) : slots \in Slots}
           A2 == {neg_dns(Entries(first, second, last)) : first, second, last \in Servers}
           A3 == {sys_info(n) : n \in Lengths}
           A4 == {wide(size, n) : size \in {2, 4}, n \in Lengths}
<1>1. CASE m \in A1
  <2>1. PICK slots \in Slots : m = neg_ip(slots)
    BY <1>1
  <2> QED BY <2>1, NegIp, SoundFits, Zenon
<1>2. CASE m \in A2
  <2>1. PICK first \in Servers, second \in Servers, last \in Servers :
          m = neg_dns(Entries(first, second, last))
    BY <1>2
  <2> QED BY <2>1, NegDns, SoundFits, Zenon
<1>3. CASE m \in A3
  <2>1. PICK n \in Lengths : m = sys_info(n)
    BY <1>3
  <2> QED BY <2>1, InfoAnswers, Zenon
<1>4. CASE m \in A4
  <2>1. PICK size \in {2, 4}, n \in Lengths : m = wide(size, n)
    BY <1>4
  <2> QED BY <2>1, InfoAnswers, Zenon
<1>5. Answers = A1 \cup A2 \cup A3 \cup A4
  BY DEF Answers
<1>6. m \in A1 \/ m \in A2 \/ m \in A3 \/ m \in A4
  <2> HIDE DEF A1, A2, A3, A4
  <2> QED BY <1>5
<1> HIDE DEF A1, A2, A3, A4
<1> QED BY <1>1, <1>2, <1>3, <1>4, <1>6, Zenon

\* Each message is encoded by its fields, or refused.
LEMMA MessagesFit ==
    ASSUME NEW m \in Messages
    PROVE  Encodes(m) \/ (Refused(m) /\ ~Packable(m.fmt, m.args))
<1> SUFFICES ASSUME ~(Refused(m) /\ ~Packable(m.fmt, m.args)) PROVE Encodes(m)
  BY Zenon
<1>1. /\ AllIn(Fitting, m.fmt, m.args)
      /\ m \in Requests => AllIn(Sound, m.fmt, m.args)
  <2>1. CASE m \in Requests
    <3>1. AllIn(Sound, m.fmt, m.args)
      BY <2>1, RequestsFit, Zenon
    <3> QED BY <3>1, SoundFits, Zenon
  <2>2. CASE m \in Answers /\ m \notin Requests
    BY <2>2, AnswersFit, Zenon
  <2>3. CASE m = setup
    BY <2>3, Setup, SoundFits, Zenon
  <2> QED BY <2>1, <2>2, <2>3, Zenon DEF Messages
<1>2. Encoded(m) = Pack(m.fmt, m.args)
  <2>1. CASE m = setup
    BY <2>1, Setup, Zenon DEF Encoded
  <2>2. CASE m # setup /\ m \in {pack_u32(value) : value \in U32s}
    <3>1. PICK value \in U32s : m = pack_u32(value)
      BY <2>2
    <3>2. AsnInt(The(m.args[1].as_int)) = Pack(m.fmt, m.args)
      BY <3>1, Shorthand, Zenon
    <3> QED BY <2>2, <3>2, Zenon DEF Encoded
  <2>3. CASE m # setup /\ m \notin {pack_u32(value) : value \in U32s}
    BY <2>3, Zenon DEF Encoded
  <2> QED BY <2>1, <2>2, <2>3, Zenon
<1>3. Packable(m.fmt, m.args)
  BY <1>1, FitsArePackable, Zenon
<1> QED BY <1>1, <1>2, <1>3, Zenon DEF Encodes

-----------------------------------------------------------------------------
(* What holds of the payload and of the decoder, whatever came in.          *)

\* take_asn_int gives an integer.
LEMMA IntAtValue ==
    ASSUME NEW bytes \in Seq(Byte), NEW p \in Nat, IntAt(bytes, p).ok
    PROVE  IntAt(bytes, p).value \in Values
<1> DEFINE There == p + 2 <= Len(bytes) /\ bytes[p + 1] = TAG_INT /\ bytes[p + 2] \in 1..IntWidth
                    /\ p + 2 + bytes[p + 2] <= Len(bytes)
           next == p + 2 + bytes[p + 2]
           number == NumberBE(SubSeq(bytes, p + 3, next))
<1>1. IntAt(bytes, p) = IF There THEN Taken(IntValue(number), next) ELSE Error
  BY Zenon DEF IntAt
<1>2. There
  <2> HIDE DEF There
  <2> QED BY <1>1 DEF Error
<1>3. number \in Nat
  <2>1. bytes[p + 2] \in Nat /\ next \in Nat /\ p + 2 < next /\ next <= Len(bytes)
    BY <1>2, WidthType
  <2> HIDE DEF next
  <2>2. p + 3 \in 1..(Len(bytes) + 1) /\ next \in (p + 3 - 1)..Len(bytes)
    BY <2>1
  <2>3. SubSeq(bytes, p + 3, next) \in Seq(Byte)
    BY <2>2, PartType
  <2> QED BY <2>3, NumberTypes
<1> HIDE DEF number, next
<1>4. IntAt(bytes, p).value = IntValue(number)
  BY <1>1, <1>2 DEF Taken
<1> QED BY <1>3, <1>4 DEF IntValue, Values

\* take_string gives a byte string.
LEMMA StringAtValue ==
    ASSUME NEW bytes \in Seq(Byte), NEW p \in Nat, StringAt(bytes, p).ok
    PROVE  StringAt(bytes, p).value \in Values
<1> DEFINE header == HeaderAt(bytes, p)
           valid == header.bytes % UsizeMod
           part == SubSeq(bytes, header.next + 1, header.next + valid)
<1>1. /\ header.tagged /\ header.ok /\ valid \in Nat
      /\ header.next + valid + header.padding <= Len(bytes)
      /\ StringAt(bytes, p).value = BytesValue(part)
  BY StringAtType
<1>2. header.next \in Nat /\ header.padding \in Nat
  BY HeaderType
<1> HIDE DEF header, valid
<1>3. /\ header.next + 1 \in 1..(Len(bytes) + 1)
      /\ header.next + valid \in (header.next + 1 - 1)..Len(bytes)
  BY <1>1, <1>2
<1>4. part \in Seq(Byte)
  BY <1>3, PartType
<1> HIDE DEF part
<1> QED BY <1>1, <1>4 DEF BytesValue, Values

\* At most fifteen length bytes are taken.
LEMMA WidthAt ==
    ASSUME NEW bytes \in Seq(Byte), NEW p \in Nat
    PROVE  HeaderAt(bytes, p).width \in 0..15
<1> DEFINE tagged == p + 2 <= Len(bytes) /\ bytes[p + 1] \in DOMAIN ElemSize
           long == tagged /\ bytes[p + 2] >= 128
           width == IF long THEN bytes[p + 2] % 16 ELSE 0
<1>1. HeaderAt(bytes, p).width = width
  BY DEF HeaderAt
<1>2. ASSUME long PROVE bytes[p + 2] \in Nat
  <2>1. p + 2 \in 1..Len(bytes)
    BY <1>2
  <2>2. bytes[p + 2] \in 0..255
    BY <2>1, ByteAt, Zenon
  <2>3. 0..255 \subseteq Nat
    OBVIOUS
  <2> HIDE DEF long
  <2> QED BY <2>2, <2>3
<1>3. width \in 0..15
  <2>1. CASE long
    <3> DEFINE x == bytes[p + 2]
    <3>1. x \in Nat
      BY <1>2, <2>1
    <3> HIDE DEF x
    <3>2. x % 16 \in 0..15
      BY <3>1
    <3> QED BY <2>1, <3>2 DEF x
  <2> QED BY <2>1
<1> QED BY <1>1, <1>3

\* A decoder that gets a field gets on, and not past the end.
GetsOn == pos < Field.next /\ Field.next <= Len(data) /\ Field.next \in Nat /\ Field.value \in Values

\* A decoder that does not fail gets on, within the payload.
LEMMA FieldGetsOn ==
    ASSUME data \in Seq(Byte), pos \in Nat, Field.ok
    PROVE  GetsOn
<1>1. CASE Expected = "n"
  <2>1. Field = IntAt(data, pos)
    BY <1>1, Zenon DEF Field
  <2> QED BY <2>1, IntAtType, IntAtValue DEF GetsOn
<1>2. CASE Expected = "s"
  <2>1. Field = StringAt(data, pos)
    BY <1>2 DEF Field
  <2>2. StringAt(data, pos).ok
    BY <2>1
  <2> DEFINE header == HeaderAt(data, pos)
             valid == header.bytes % UsizeMod
             next == StringAt(data, pos).next
  <2>3. pos < next /\ next <= Len(data) /\ next = header.next + valid + header.padding /\ valid \in Nat
    BY <2>2, StringAtType
  <2>4. header.next \in Nat /\ header.padding \in Nat
    BY HeaderType
  <2>5. StringAt(data, pos).value \in Values
    BY <2>2, StringAtValue
  <2> HIDE DEF header, valid
  <2>6. next \in Nat
    BY <2>3, <2>4
  <2> QED BY <2>1, <2>3, <2>5, <2>6 DEF GetsOn
<1>3. CASE Expected # "n" /\ Expected # "s"
  <2>1. Field = Error
    BY <1>3 DEF Field
  <2> QED BY <2>1 DEF Error
<1> QED BY <1>1, <1>2, <1>3, Zenon

Shape ==
    /\ message \in Messages /\ mode \in {"decode_values", "unpack"}
    /\ data \in Seq(Byte) /\ Len(data) < UsizeMod
    /\ pos \in Nat /\ values \in Seq(Values)
    /\ intact \in BOOLEAN
    /\ outcome \in {"decoding", "decoded", "error", "panic", "unsent"}

\* What the name of an answer says about it.
IsNegIp(m) == \E slots \in Slots : m = neg_ip(slots)
IsNegDns(m) ==
    \E first \in Servers : \E second \in Servers : \E last \in Servers :
        m = neg_dns(Entries(first, second, last))

Named(m, name) == \E fmt, args : m = Message(name, fmt, args)

\* The name of a message.
LEMMA NameIs ==
    ASSUME NEW m, NEW name, Named(m, name)
    PROVE  m.of = name
BY DEF Named, Message

\* A message is known by its name.
LEMMA ByName ==
    ASSUME NEW m \in Messages
    PROVE  /\ m.of = "neg_ip" => IsNegIp(m)
           /\ m.of = "neg_dns" => IsNegDns(m)
           /\ m.of = "wide" => Len(m.fmt) = 2
<1>2. CASE m \in Requests
  <2>1. \/ m.of = "net_attach" \/ m.of = "get_neg_ip" \/ m.of = "ps_connect" \/ m.of = "sys_get_info"
        \/ m.of = "set_mode" \/ m.of = "pack_u32"
        \/ m.of = "connect_to_datachannel" \/ m.of = "attach_config"
    <3>1. CASE m \in {net_attach, get_neg_ip, ps_connect, sys_get_info(0), set_mode(1)}
      BY <3>1 DEF net_attach, get_neg_ip, ps_connect, sys_get_info, set_mode, Message
    <3>4. CASE m \in {pack_u32(value) : value \in U32s}
      <4>1. PICK value \in U32s : m = pack_u32(value)
        BY <3>4
      <4> QED BY <4>1, ChallengeRequest, Zenon
    <3>2. CASE m \in {connect_to_datachannel(Text(n)) : n \in Paths}
      <4>1. PICK n \in Paths : m = connect_to_datachannel(Text(n))
        BY <3>2
      <4>2. m.of = "connect_to_datachannel"
        BY <4>1 DEF connect_to_datachannel, Message
      <4> QED BY <4>2
    <3>3. CASE m \in {attach_config(Text(n)) : n \in Apns \cap 0..101}
      <4>1. PICK n \in Apns \cap 0..101 : m = attach_config(Text(n))
        BY <3>3
      <4>2. Named(m, "attach_config")
        <5>1. \E fmt, args : m = Message("attach_config", fmt, args)
          BY <4>1, Zenon DEF attach_config
        <5> QED BY <5>1, Zenon DEF Named
      <4>3. m.of = "attach_config"
        BY <4>2, NameIs
      <4> QED BY <4>3
    <3> QED BY <1>2, <3>1, <3>2, <3>3, <3>4, Zenon DEF Requests
  <2> QED BY <2>1
<1>3. CASE m = setup
  <2>1. Named(m, "setup")
    BY <1>3, Zenon DEF setup, Named
  <2>2. m.of = "setup"
    BY <2>1, NameIs
  <2> QED BY <2>2
<1>4. CASE m \in Answers
  <2> DEFINE A1 == {neg_ip(slots) : slots \in Slots}
             A2 == {neg_dns(Entries(first, second, last)) : first, second, last \in Servers}
             A3 == {sys_info(n) : n \in Lengths}
             A4 == {wide(size, n) : size \in {2, 4}, n \in Lengths}
  <2>1. Answers = A1 \cup A2 \cup A3 \cup A4
    BY DEF Answers
  <2>2. m \in A1 \/ m \in A2 \/ m \in A3 \/ m \in A4
    <3> HIDE DEF A1, A2, A3, A4
    <3> QED BY <1>4, <2>1
  <2>3. m \in A1 => m.of = "neg_ip" /\ IsNegIp(m)
    <3>1. m \in A1 => Named(m, "neg_ip") /\ IsNegIp(m)
      BY Zenon DEF neg_ip, IsNegIp, Named
    <3> QED BY <3>1, NameIs
  <2>4. m \in A2 => m.of = "neg_dns" /\ IsNegDns(m)
    <3>1. ASSUME m \in A2 PROVE IsNegDns(m)
      BY <3>1 DEF IsNegDns
    <3> HIDE DEF A2
    <3>2. IsNegDns(m) => Named(m, "neg_dns")
      BY Zenon DEF neg_dns, IsNegDns, Named
    <3> QED BY <3>1, <3>2, NameIs
  <2>5. m \in A3 => m.of = "sys_info"
    <3>1. m \in A3 => Named(m, "sys_info")
      BY Zenon DEF sys_info, Named
    <3> QED BY <3>1, NameIs
  <2>6. ASSUME m \in A4 PROVE Len(m.fmt) = 2 /\ m.of = "wide"
    <3>1. PICK size \in {2, 4}, n \in Lengths : m = wide(size, n)
      BY <2>6
    <3>2. m.fmt = <<FieldSpec("s", size, n + 1), B>>
      BY <3>1 DEF wide, Message
    <3>3. Named(m, "wide")
      BY <3>1, Zenon DEF wide, Named
    <3>4. m.of = "wide"
      BY <3>3, NameIs
    <3> QED BY <3>2, <3>4
  <2> HIDE DEF A1, A2, A3, A4
  <2> QED BY <2>2, <2>3, <2>4, <2>5, <2>6
<1> QED BY <1>2, <1>3, <1>4, Zenon DEF Messages

\* The decoder so far, on a payload that nothing happened to: behind as many
\* fields as it has values, which are those that were encoded.
Reads(out) ==
    /\ Packs(out, message.fmt, message.args) /\ data = out[Len(message.fmt)]
    /\ Len(values) <= Len(message.fmt) /\ pos = Len(out[Len(values)])
    /\ \A i \in 1..Len(values) :
         /\ values[i] = message.args[i]
         /\ FieldReadable(message.fmt[i], message.args[i])
    /\ outcome \in {"decoding", "decoded", "error"}
    /\ outcome = "decoded" => Len(values) = Len(message.fmt)
    /\ outcome = "error" =>
         /\ Len(values) < Len(message.fmt)
         /\ ~FieldReadable(message.fmt[Len(values) + 1], message.args[Len(values) + 1])

Progress ==
    /\ outcome = "unsent" => Refused(message) /\ values = <<>>
    /\ outcome # "unsent" => Encodes(message)
    /\ outcome # "unsent" /\ intact => \E out : Reads(out)

IInv == Shape /\ Progress

\* The invariant holds at the start.
LEMMA InitIInv == Init => IInv
<1> SUFFICES ASSUME Init PROVE IInv
  OBVIOUS
<1>1. /\ message \in Messages /\ mode \in {"decode_values", "unpack"}
      /\ intact = TRUE /\ pos = 0 /\ values = <<>>
      /\ IF Packable(message.fmt, message.args)
         THEN data = Encoded(message) /\ outcome = "decoding"
         ELSE data = <<>> /\ outcome = "unsent"
  BY Zenon DEF Init
<1>2. values \in Seq(Values) /\ pos \in Nat /\ intact \in BOOLEAN /\ Len(values) = 0
  BY <1>1
<1>3. CASE Packable(message.fmt, message.args)
  <2>1. Encodes(message)
    BY <1>1, <1>3, MessagesFit, Zenon
  <2>2. data = Encoded(message) /\ outcome = "decoding"
    BY <1>1, <1>3, Zenon
  <2>3. AllIn(Fitting, message.fmt, message.args) /\ data = Pack(message.fmt, message.args)
    BY <2>1, <2>2, Zenon DEF Encodes
  <2>4. PICK out : Packs(out, message.fmt, message.args) /\ data = out[Len(message.fmt)]
    BY <2>3, PackDef, Zenon
  <2>5. data \in Seq(Byte)
    BY <2>3, PackType, Zenon
  <2>6. Len(data) < UsizeMod
    BY <1>1, <1>3, <2>2, PayloadsAssumption, Zenon
  <2>7. Reads(out)
    <3>1. Len(message.fmt) \in Nat
      BY <2>3 DEF AllIn
    <3>2. out[0] = <<>> /\ Len(<<>>) = 0
      BY <2>4 DEF Packs
    <3>3. Len(values) <= Len(message.fmt) /\ pos = Len(out[Len(values)])
      BY <1>1, <1>2, <3>1, <3>2
    <3>4. \A i \in 1..Len(values) : FALSE
      BY <1>2
    <3> QED BY <2>2, <2>4, <3>3, <3>4 DEF Reads
  <2>8. Shape
    BY <1>1, <1>2, <2>2, <2>5, <2>6 DEF Shape
  <2> QED BY <2>1, <2>2, <2>7, <2>8 DEF IInv, Progress
<1>4. CASE ~Packable(message.fmt, message.args)
  <2>1. Refused(message)
    BY <1>1, <1>4, MessagesFit, Zenon DEF Encodes
  <2>2. data = <<>> /\ outcome = "unsent"
    BY <1>1, <1>4, Zenon
  <2>3. data \in Seq(Byte) /\ Len(data) < UsizeMod
    <3>1. Len(data) = 0 /\ data \in Seq(Byte)
      BY <2>2
    <3> QED BY <3>1, UsizeRoom
  <2>4. Shape
    BY <1>1, <1>2, <2>2, <2>3 DEF Shape
  <2> QED BY <1>1, <2>1, <2>2, <2>4 DEF IInv, Progress
<1> QED BY <1>3, <1>4

\* The step from field to field of a payload that nothing happened to.
Stands(out) ==
    LET k == Len(values)
        spec == message.fmt[k + 1]
        arg == message.args[k + 1]
    IN /\ More <=> k < Len(message.fmt)
       /\ k < Len(message.fmt) =>
            /\ <<spec, arg>> \in Fitting
            /\ Field = Decoded(spec, data, pos) /\ Expected = spec.kind
            /\ At(data, pos, PackField(spec, arg))
            /\ Len(out[k + 1]) = pos + Len(PackField(spec, arg))

\* A decoder that has read the payload as it was packed stands where a field starts.
LEMMA ReadsStands ==
    ASSUME Shape, Encodes(message), NEW out, Reads(out)
    PROVE  Stands(out)
<1> DEFINE fmt == message.fmt
           args == message.args
           n == Len(fmt)
           k == Len(values)
           spec == fmt[k + 1]
           arg == args[k + 1]
           field == PackField(spec, arg)
<1>1. /\ AllIn(Fitting, fmt, args) /\ Packs(out, fmt, args) /\ data = out[n]
      /\ k <= n /\ pos = Len(out[k])
  BY Zenon DEF Encodes, Reads
<1>2. n \in Nat /\ k \in Nat /\ data \in Seq(Byte) /\ pos \in Nat
      /\ mode \in {"decode_values", "unpack"}
  BY <1>1 DEF AllIn, Shape
<1>3. ASSUME k < n
      PROVE  /\ <<spec, arg>> \in Fitting /\ At(data, pos, field)
             /\ Len(out[k + 1]) = pos + Len(field) /\ Len(out[k + 1]) <= Len(data)
             /\ Len(field) \in Nat \ {0}
             /\ \/ spec.kind = "n" /\ field[1] = TAG_INT
                \/ spec.kind = "s" /\ field[1] \in DOMAIN ElemSize
  <2>1. k \in 0..(n - 1) /\ k + 1 \in 1..n
    BY <1>2, <1>3
  <2> HIDE DEF k, fmt, args, n
  <2>2. <<spec, arg>> \in Fitting
    BY <1>1, <2>1, Zenon DEF AllIn, n
  <2>3. /\ At(out[n], Len(out[k]), field)
        /\ Len(out[k + 1]) = Len(out[k]) + Len(field) /\ Len(out[k + 1]) <= Len(out[n])
    BY <1>1, <2>1, Places, Zenon DEF n
  <2>4. /\ Len(field) \in Nat \ {0}
        /\ \/ spec.kind = "n" /\ field[1] = TAG_INT
           \/ spec.kind = "s" /\ field[1] \in DOMAIN ElemSize
    <3> HIDE DEF spec, arg
    <3> QED BY <2>2, FieldType, Zenon
  <2> QED BY <1>1, <2>2, <2>3, <2>4, Zenon
<1> HIDE DEF field, spec, arg
<1>4. More <=> k < n
  <2>1. CASE mode = "unpack"
    BY <2>1 DEF More
  <2>2. CASE mode = "decode_values"
    <3>1. More <=> pos < Len(data)
      BY <2>2 DEF More
    <3>2. CASE k < n
      <4>1. pos < Len(data)
        <5>1. Len(data) \in Nat
          BY <1>2
        <5> QED BY <1>2, <1>3, <3>2, <5>1
      <4> QED BY <3>1, <3>2, <4>1
    <3>3. CASE k = n
      <4>1. ~(pos < Len(data))
        <5>1. pos = Len(data)
          BY <1>1, <3>3, Zenon
        <5> QED BY <1>2, <5>1
      <4> QED BY <1>2, <3>1, <3>3, <4>1
    <3> QED BY <1>1, <1>2, <3>2, <3>3
  <2> QED BY <1>2, <2>1, <2>2
<1>5. ASSUME k < n PROVE Expected = spec.kind
  <2>1. CASE mode = "unpack"
    BY <2>1 DEF Expected, spec
  <2>2. CASE mode = "decode_values"
    <3>1. data[pos + 1] = field[1]
      <4>1. 1 \in 1..Len(field)
        BY <1>3, <1>5
      <4> QED BY <1>3, <1>5, <4>1, Zenon DEF At
    <3>2. Expected = IF field[1] = TAG_INT THEN "n"
                     ELSE IF field[1] \in DOMAIN ElemSize THEN "s" ELSE "bad tag"
      BY <2>2, <3>1 DEF Expected
    <3>3. TAG_INT \notin DOMAIN ElemSize
      BY DEF TAG_INT, ElemSize, TAG_STRING_U8, TAG_STRING_U16, TAG_STRING_U32
    <3> QED BY <1>3, <1>5, <3>2, <3>3, Zenon
  <2> QED BY <1>2, <2>1, <2>2
<1>6. ASSUME k < n PROVE Field = Decoded(spec, data, pos)
  <2>1. spec.kind = "n" \/ spec.kind = "s"
    BY <1>3, <1>6, Zenon
  <2> QED BY <1>5, <1>6, <2>1 DEF Field, Decoded
<1> QED BY <1>3, <1>4, <1>5, <1>6, Zenon DEF Stands, spec, arg, field

\* A decoder at work on a payload that something happened to.
LEMMA AlteredIInv ==
    ASSUME IInv, outcome = "decoding", UNCHANGED <<message, mode, pos, values, outcome>>,
           intact' = FALSE, data' \in Seq(Byte), Len(data') < UsizeMod
    PROVE  IInv'
<1>1. Shape /\ Encodes(message)
  BY DEF IInv, Progress
<1>2. Shape'
  BY <1>1 DEF Shape
<1>3. Encodes(message')
  <2>1. message' = message
    OBVIOUS
  <2> QED BY <1>1, <2>1, Zenon
<1>4. Progress'
  <2>1. outcome' = "decoding" /\ intact' = FALSE
    OBVIOUS
  <2> QED BY <1>3, <2>1 DEF Progress
<1> QED BY <1>2, <1>4 DEF IInv

\* A byte altered: the payload is not intact.
LEMMA AlterIInv == IInv /\ Alter => IInv'
<1> SUFFICES ASSUME IInv, Alter PROVE IInv'
  OBVIOUS
<1>1. /\ outcome = "decoding" /\ intact' = FALSE
      /\ UNCHANGED <<message, mode, pos, values, outcome>>
  BY DEF Alter
<1>2. data \in Seq(Byte) /\ Len(data) < UsizeMod /\ Altered \subseteq Byte
  BY PayloadsAssumption DEF IInv, Shape
<1>3. PICK i \in 1..MaxAltered, byte \in Altered :
        i <= Len(data) /\ data' = [data EXCEPT ![i] = byte]
  BY DEF Alter
<1>4. data' \in Seq(Byte) /\ Len(data') = Len(data)
  <2>1. byte \in Byte
    BY <1>2
  <2> QED BY <1>2, <1>3, <2>1
<1>5. Len(data') < UsizeMod
  BY <1>2, <1>4
<1> QED BY <1>1, <1>4, <1>5, AlteredIInv

\* Nor is one cut short.
LEMMA CutIInv == IInv /\ Cut => IInv'
<1> SUFFICES ASSUME IInv, Cut PROVE IInv'
  OBVIOUS
<1>1. /\ outcome = "decoding" /\ intact' = FALSE
      /\ UNCHANGED <<message, mode, pos, values, outcome>>
  BY DEF Cut
<1>2. data \in Seq(Byte) /\ Len(data) \in Nat /\ Len(data) < UsizeMod /\ MaxAltered \in Nat /\ UsizeMod \in Nat
  BY PayloadsAssumption, UsizeRoom DEF IInv, Shape
<1>3. PICK i \in 0..MaxAltered : i < Len(data) /\ data' = SubSeq(data, 1, i)
  BY DEF Cut
<1>4. 1 \in 1..(Len(data) + 1) /\ i \in (1 - 1)..Len(data)
  BY <1>2, <1>3
<1>5. SubSeq(data, 1, i) \in Seq(Byte) /\ Len(SubSeq(data, 1, i)) = i - 1 + 1
  BY <1>2, <1>4, PartType
<1>6. data' \in Seq(Byte) /\ Len(data') < UsizeMod
  BY <1>2, <1>3, <1>5
<1> QED BY <1>1, <1>6, AlteredIInv

\* A length in more bytes than it takes is no longer what was encoded.
LEMMA WriteLengthIInv == IInv /\ WriteLength => IInv'
<1> SUFFICES ASSUME IInv, WriteLength PROVE IInv'
  OBVIOUS
<1>1. /\ outcome = "decoding" /\ intact' = FALSE /\ intact /\ message.of = "wide"
      /\ UNCHANGED <<message, mode, pos, values, outcome>> /\ Len(data') < UsizeMod
  BY DEF WriteLength
<1>2. /\ data \in Seq(Byte) /\ Len(data) \in Nat /\ Altered \subseteq Byte /\ message \in Messages
      /\ Encodes(message)
  BY <1>1, PayloadsAssumption DEF IInv, Shape, Progress
<1>3. Len(data) >= 1
  <2>1. PICK out : Reads(out)
    BY <1>1, Zenon DEF IInv, Progress
  <2>2. Packs(out, message.fmt, message.args) /\ data = out[Len(message.fmt)]
        /\ AllIn(Fitting, message.fmt, message.args)
    BY <1>2, <2>1, Zenon DEF Reads, Encodes
  <2>3. Len(message.fmt) = 2
    BY <1>1, <1>2, ByName, Zenon
  <2>4. 0 \in 0..(Len(message.fmt) - 1) /\ 0 + 1 \in 1..Len(message.fmt) /\ 0 + 1 = 1
    BY <2>3
  <2> DEFINE field == PackField(message.fmt[0 + 1], message.args[0 + 1])
  <2>5. Len(out[0 + 1]) = Len(out[0]) + Len(field) /\ Len(out[0 + 1]) <= Len(data)
    BY <2>2, <2>4, Places, Zenon
  <2>6. Len(field) \in Nat \ {0}
    <3>1. <<message.fmt[0 + 1], message.args[0 + 1]>> \in Fitting
      BY <2>2, <2>4, Zenon DEF AllIn
    <3> QED BY <3>1, FieldType, Zenon
  <2>7. Len(out[0]) = 0
    BY <2>2 DEF Packs
  <2> HIDE DEF field
  <2> QED BY <1>2, <2>5, <2>6, <2>7
<1> DEFINE first == HeaderAt(data, 0).width + 3
           rest == SubSeq(data, first, Len(data))
           digits(width, i, byte) == [j \in 1..width |-> IF j = i THEN byte ELSE 0]
<1>4. PICK width \in 1..15, byte \in Altered :
        \E i \in 1..width : data' = <<data[1], 128 + width>> \o digits(width, i, byte) \o rest
  BY Zenon DEF WriteLength
<1>5. PICK i \in 1..width : data' = <<data[1], 128 + width>> \o digits(width, i, byte) \o rest
  BY <1>4
<1>6. rest \in Seq(Byte)
  <2>1. HeaderAt(data, 0).width \in 0..15
    BY <1>2, WidthAt
  <2>2. first \in Nat /\ first >= 1
    BY <2>1
  <2> HIDE DEF first
  <2>3. CASE first <= Len(data) + 1
    <3>1. first \in 1..(Len(data) + 1) /\ Len(data) \in (first - 1)..Len(data)
      BY <1>2, <2>2, <2>3
    <3> QED BY <1>2, <3>1, PartType
  <2>4. CASE ~(first <= Len(data) + 1)
    <3>1. rest = <<>>
      BY <1>2, <2>2, <2>4
    <3> QED BY <3>1
  <2> QED BY <2>3, <2>4
<1>7. digits(width, i, byte) \in Seq(Byte)
  <2>1. byte \in Byte /\ 0 \in Byte /\ width \in Nat
    BY <1>2 DEF Byte
  <2>2. digits(width, i, byte) \in [1..width -> Byte]
    BY <2>1
  <2> HIDE DEF digits
  <2> QED BY <2>1, <2>2, FunctionSeq, Zenon
<1>8. <<data[1], 128 + width>> \in Seq(Byte)
  <2>1. data[1] \in Byte
    BY <1>2, <1>3
  <2>2. 128 + width \in Byte
    BY DEF Byte
  <2> QED BY <2>1, <2>2
<1> DEFINE head == <<data[1], 128 + width>>
           tail == digits(width, i, byte)
<1>9. head \in Seq(Byte) /\ tail \in Seq(Byte) /\ rest \in Seq(Byte) /\ data' = (head \o tail) \o rest
  BY <1>5, <1>6, <1>7, <1>8
<1> HIDE DEF head, tail, rest
<1>10. head \o tail \in Seq(Byte)
  BY <1>9, Lengthened, Zenon
<1>11. (head \o tail) \o rest \in Seq(Byte)
  BY <1>9, <1>10, Lengthened, Zenon
<1>12. data' \in Seq(Byte)
  BY <1>9, <1>11
<1> QED BY <1>1, <1>12, AlteredIInv

\* A field taken of an intact payload is the next one that was packed.
LEMMA TakeFieldIInv == IInv /\ TakeField => IInv'
<1> SUFFICES ASSUME IInv, TakeField PROVE IInv'
  OBVIOUS
<1>1. /\ outcome = "decoding" /\ More /\ Field.ok
      /\ pos' = Field.next /\ values' = Append(values, Field.value)
      /\ UNCHANGED <<message, mode, data, intact, outcome>>
  BY Zenon DEF TakeField
<1>2. Shape /\ Encodes(message)
  BY <1>1 DEF IInv, Progress
<1>3. GetsOn
  BY <1>1, <1>2, FieldGetsOn DEF Shape
<1>4. Shape'
  <2>1. pos' \in Nat /\ values' \in Seq(Values)
    BY <1>1, <1>2, <1>3 DEF GetsOn, Shape
  <2> QED BY <1>1, <1>2, <2>1 DEF Shape
<1>5. Encodes(message') /\ outcome' = "decoding" /\ intact' = intact
  <2>1. message' = message /\ outcome' = "decoding" /\ intact' = intact
    BY <1>1
  <2> QED BY <1>2, <2>1, Zenon
<1>6. ASSUME intact PROVE \E out : Reads(out)'
  <2>1. PICK out : Reads(out)
    BY <1>1, <1>6, Zenon DEF IInv, Progress
  <2> DEFINE fmt == message.fmt
             args == message.args
             n == Len(fmt)
             k == Len(values)
             spec == fmt[k + 1]
             arg == args[k + 1]
             field == PackField(spec, arg)
  <2>2. Stands(out)
    BY <1>2, <2>1, ReadsStands, Zenon
  <2>3. /\ k < n /\ <<spec, arg>> \in Fitting /\ Field = Decoded(spec, data, pos)
        /\ At(data, pos, field) /\ Len(out[k + 1]) = pos + Len(field)
    BY <1>1, <2>2, Zenon DEF Stands
  <2>4. data \in Seq(Byte) /\ pos \in Nat /\ k \in Nat /\ values \in Seq(Values)
    BY <1>2 DEF Shape
  <2> HIDE DEF fmt, args, n, k, spec, arg, field
  <2>5. /\ FieldReadable(spec, arg) => Decoded(spec, data, pos) = Taken(arg, pos + Len(field))
        /\ ~FieldReadable(spec, arg) => ~Decoded(spec, data, pos).ok
    BY <2>3, <2>4, FieldDecodes, Zenon DEF field
  <2>6. FieldReadable(spec, arg) /\ Field = Taken(arg, pos + Len(field))
    BY <1>1, <2>3, <2>5, Zenon
  <2>7. pos' = pos + Len(field) /\ values' = Append(values, arg)
    <3>1. Taken(arg, pos + Len(field)).next = pos + Len(field) /\ Taken(arg, pos + Len(field)).value = arg
      BY DEF Taken
    <3> QED BY <1>1, <2>6, <3>1, Zenon
  <2>8. Len(values') = k + 1 /\ values'[k + 1] = arg /\ \A i \in 1..k : values'[i] = values[i]
    BY <2>4, <2>7 DEF k
  <2>9. /\ Packs(out, fmt, args) /\ data = out[n]
        /\ \A i \in 1..k : values[i] = args[i] /\ FieldReadable(fmt[i], args[i])
    BY <2>1, Zenon DEF Reads, fmt, args, n, k
  <2>10. \A i \in 1..(k + 1) : values'[i] = args[i] /\ FieldReadable(fmt[i], args[i])
    <3>1. \A i \in 1..(k + 1) : i \in 1..k \/ i = k + 1
      BY <2>4
    <3>2. \A i \in 1..k : values'[i] = args[i] /\ FieldReadable(fmt[i], args[i])
      BY <2>8, <2>9, Zenon
    <3>3. values'[k + 1] = args[k + 1] /\ FieldReadable(fmt[k + 1], args[k + 1])
      BY <2>6, <2>8, Zenon DEF spec, arg
    <3> QED BY <3>1, <3>2, <3>3, Zenon
  <2>11. n \in Nat
    BY <1>2 DEF Encodes, AllIn, n, fmt
  <2>12. k + 1 <= n
    BY <2>3, <2>4, <2>11
  <2>13. /\ message' = message /\ data' = data /\ outcome' = "decoding" /\ pos' = Len(out[k + 1])
         /\ fmt = message'.fmt /\ args = message'.args /\ n = Len(message'.fmt)
    BY <1>1, <2>3, <2>7 DEF fmt, args, n
  <2>14. /\ Packs(out, message'.fmt, message'.args) /\ data' = out[Len(message'.fmt)]
         /\ Len(values') <= Len(message'.fmt) /\ pos' = Len(out[Len(values')])
         /\ \A i \in 1..Len(values') :
              values'[i] = message'.args[i] /\ FieldReadable(message'.fmt[i], message'.args[i])
    BY <2>8, <2>9, <2>10, <2>12, <2>13, Zenon
  <2> QED BY <2>13, <2>14 DEF Reads
<1>7. Progress'
  BY <1>5, <1>6 DEF Progress
<1> QED BY <1>4, <1>7 DEF IInv

\* An intact payload fails only at a field that does not read the same both ways.
LEMMA FieldFailsIInv == IInv /\ FieldFails => IInv'
<1> SUFFICES ASSUME IInv, FieldFails PROVE IInv'
  OBVIOUS
<1>1. /\ outcome = "decoding" /\ More /\ ~Field.ok /\ outcome' = "error"
      /\ message' = message /\ mode' = mode /\ data' = data /\ pos' = pos
      /\ values' = values /\ intact' = intact
  BY Zenon DEF FieldFails
<1>2. Shape /\ Encodes(message)
  BY <1>1 DEF IInv, Progress
<1>3. Shape'
  BY <1>1, <1>2 DEF Shape
<1>4. Encodes(message')
  BY <1>1, <1>2, Zenon
<1>5. ASSUME intact PROVE \E out : Reads(out)'
  <2>1. PICK out : Reads(out)
    BY <1>1, <1>5, Zenon DEF IInv, Progress
  <2> DEFINE k == Len(values)
             spec == message.fmt[k + 1]
             arg == message.args[k + 1]
             field == PackField(spec, arg)
  <2>2. Stands(out)
    BY <1>2, <2>1, ReadsStands, Zenon
  <2>3. /\ k < Len(message.fmt) /\ <<spec, arg>> \in Fitting /\ Field = Decoded(spec, data, pos)
        /\ At(data, pos, field)
    BY <1>1, <2>2, Zenon DEF Stands
  <2>4. data \in Seq(Byte) /\ pos \in Nat
    BY <1>2 DEF Shape
  <2> HIDE DEF spec, arg
  <2>5. FieldReadable(spec, arg) => Decoded(spec, data, pos) = Taken(arg, pos + Len(field))
    BY <2>3, <2>4, FieldDecodes, Zenon
  <2>6. ~FieldReadable(spec, arg)
    <3>1. Taken(arg, pos + Len(field)).ok
      BY DEF Taken
    <3> QED BY <1>1, <2>3, <2>5, <3>1, Zenon
  <2>7. Len(values) < Len(message.fmt)
        /\ ~FieldReadable(message.fmt[Len(values) + 1], message.args[Len(values) + 1])
    BY <2>3, <2>6, Zenon DEF spec, arg
  <2>8. Reads(out)'
    BY <1>1, <2>1, <2>7 DEF Reads
  <2> QED BY <2>8
<1>6. Progress'
  BY <1>1, <1>4, <1>5 DEF Progress
<1> QED BY <1>3, <1>6 DEF IInv

\* An intact payload overflows nothing.
LEMMA PanicIInv == IInv /\ Panic => IInv'
<1> SUFFICES ASSUME IInv, Panic PROVE IInv'
  OBVIOUS
<1>1. /\ outcome = "decoding" /\ More /\ Expected = "s" /\ OverflowsAt(data, pos) /\ outcome' = "panic"
      /\ message' = message /\ mode' = mode /\ data' = data /\ pos' = pos
      /\ values' = values /\ intact' = intact
  BY Zenon DEF Panic
<1>2. Shape /\ Encodes(message)
  BY <1>1 DEF IInv, Progress
<1>3. Shape'
  BY <1>1, <1>2 DEF Shape
<1>4. Encodes(message')
  BY <1>1, <1>2, Zenon
<1>5. ASSUME intact PROVE FALSE
  <2>1. PICK out : Reads(out)
    BY <1>1, <1>5, Zenon DEF IInv, Progress
  <2> DEFINE k == Len(values)
             spec == message.fmt[k + 1]
             arg == message.args[k + 1]
  <2>2. Stands(out)
    BY <1>2, <2>1, ReadsStands, Zenon
  <2>3. /\ <<spec, arg>> \in Fitting /\ Expected = spec.kind
        /\ At(data, pos, PackField(spec, arg))
    BY <1>1, <2>2, Zenon DEF Stands
  <2>4. data \in Seq(Byte) /\ pos \in Nat
    BY <1>2 DEF Shape
  <2> HIDE DEF spec, arg
  <2>5. spec.kind = "s" => ~OverflowsAt(data, pos)
    BY <2>3, <2>4, FieldDecodes, Zenon
  <2> QED BY <1>1, <2>3, <2>5
<1>6. Progress'
  BY <1>1, <1>4, <1>5 DEF Progress
<1> QED BY <1>3, <1>6 DEF IInv

\* A decoder that is done with an intact payload has all its fields.
LEMMA DoneIInv == IInv /\ Done => IInv'
<1> SUFFICES ASSUME IInv, Done PROVE IInv'
  OBVIOUS
<1>1. /\ outcome = "decoding" /\ ~More /\ outcome' = "decoded"
      /\ message' = message /\ mode' = mode /\ data' = data /\ pos' = pos
      /\ values' = values /\ intact' = intact
  BY Zenon DEF Done
<1>2. Shape /\ Encodes(message)
  BY <1>1 DEF IInv, Progress
<1>3. Shape'
  BY <1>1, <1>2 DEF Shape
<1>4. Encodes(message')
  BY <1>1, <1>2, Zenon
<1>5. ASSUME intact PROVE \E out : Reads(out)'
  <2>1. PICK out : Reads(out)
    BY <1>1, <1>5, Zenon DEF IInv, Progress
  <2>2. Stands(out)
    BY <1>2, <2>1, ReadsStands, Zenon
  <2>3. ~(Len(values) < Len(message.fmt)) /\ Len(values) <= Len(message.fmt)
    BY <1>1, <2>1, <2>2, Zenon DEF Stands, Reads
  <2>4. Len(values) \in Nat /\ Len(message.fmt) \in Nat
    BY <1>2 DEF Shape, Encodes, AllIn
  <2>5. Len(values) = Len(message.fmt)
    BY <2>3, <2>4
  <2>6. Reads(out)'
    BY <1>1, <2>1, <2>5 DEF Reads
  <2> QED BY <2>6
<1>6. Progress'
  BY <1>1, <1>4, <1>5 DEF Progress
<1> QED BY <1>3, <1>6 DEF IInv

\* Every step keeps the invariant.
LEMMA NextIInv == IInv /\ [Next]_vars => IInv'
<1> SUFFICES ASSUME IInv, [Next]_vars PROVE IInv'
  OBVIOUS
<1>1. CASE Next
  BY <1>1, AlterIInv, CutIInv, WriteLengthIInv, TakeFieldIInv, FieldFailsIInv, PanicIInv, DoneIInv
     DEF Next
<1>2. CASE UNCHANGED vars
  BY <1>2 DEF vars, IInv, Shape, Progress, Reads
<1> QED BY <1>1, <1>2

\* So it holds always.
LEMMA Inductiveness == Spec => []IInv
BY InitIInv, NextIInv, PTL DEF Spec

-----------------------------------------------------------------------------
(* The properties of every behaviour.                                       *)

\* The state keeps its types: what is decoded from is always bytes.
THEOREM TypeOKAlways == Spec => []TypeOK
<1>1. IInv => TypeOK
  <2> SUFFICES ASSUME IInv PROVE TypeOK
    OBVIOUS
  <2>1. Shape /\ data \in Seq(Byte)
    BY DEF IInv, Shape
  <2>2. \A i \in DOMAIN data : data[i] \in Byte
    BY <2>1
  <2>3. Len(values) <= Len(message.fmt) \/ ~intact
    <3>1. CASE outcome = "unsent" /\ intact
      <4>1. values = <<>> /\ Refused(message)
        BY <3>1 DEF IInv, Progress
      <4>2. PICK n \in Paths : message = connect_to_datachannel(Text(n))
        BY <4>1 DEF Refused
      <4>3. message.fmt = <<S(24)>>
        BY <4>2 DEF connect_to_datachannel, Message
      <4>4. Len(values) = 0 /\ Len(message.fmt) = 1
        BY <4>1, <4>3
      <4> QED BY <4>4
    <3>2. CASE outcome # "unsent" /\ intact
      <4>1. PICK out : Reads(out)
        BY <3>2, Zenon DEF IInv, Progress
      <4> QED BY <4>1, Zenon DEF Reads
    <3> QED BY <2>1, <3>1, <3>2
  <2> QED BY <2>1, <2>2, <2>3 DEF TypeOK, Shape
<1> QED BY <1>1, Inductiveness, PTL

\* No decoder stands still at a field or leaves the payload, whatever came in:
\* take and the loops of decode_values and unpack.
THEOREM ForwardAlways == Spec => Forward
<1>1. IInv /\ [Next]_vars => (values' # values => pos < pos' /\ pos' <= Len(data))
  <2> SUFFICES ASSUME IInv, [Next]_vars, values' # values PROVE pos < pos' /\ pos' <= Len(data)
    OBVIOUS
  <2>1. TakeField
    BY DEF vars, Next, Alter, Cut, WriteLength, FieldFails, Panic, Done
  <2>2. Field.ok /\ pos' = Field.next
    BY <2>1, Zenon DEF TakeField
  <2>3. GetsOn
    BY <2>2, FieldGetsOn DEF IInv, Shape
  <2> QED BY <2>2, <2>3 DEF GetsOn
<1> QED BY <1>1, Inductiveness, PTL DEF Spec, Forward

\* The fields behind a string are where its count of bytes says, although the
\* sums take_string compares may leave a usize: a payload is too short for those
\* that do.
THEOREM TakesItsCountAlways == Spec => TakesItsCount
<1> DEFINE header == HeaderAt(data, pos)
<1>1. IInv /\ [Next]_vars =>
        (values' # values /\ Expected = "s" /\ header.count # 0
           => pos' = header.next + header.count)
  <2> SUFFICES ASSUME IInv, [Next]_vars, values' # values, Expected = "s", header.count # 0
               PROVE  pos' = header.next + header.count
    OBVIOUS
  <2>1. TakeField
    BY DEF vars, Next, Alter, Cut, WriteLength, FieldFails, Panic, Done
  <2>2. Field.ok /\ pos' = Field.next
    BY <2>1, Zenon DEF TakeField
  <2>3. Field = StringAt(data, pos)
    BY DEF Field
  <2>4. data \in Seq(Byte) /\ pos \in Nat /\ Len(data) < UsizeMod
    BY DEF IInv, Shape
  <2> DEFINE valid == header.bytes % UsizeMod
  <2>5. /\ valid \in Nat /\ pos' = header.next + valid + header.padding
        /\ pos' <= Len(data)
        /\ header.count \in {0, (valid + header.padding) % UsizeMod}
    BY <2>2, <2>3, <2>4, StringAtType
  <2>6. header.next \in Nat /\ header.padding \in Nat /\ header.count \in Nat
    BY <2>4, HeaderType
  <2>7. UsizeMod \in Nat /\ Len(data) \in Nat
    BY <2>4, UsizeRoom
  <2> HIDE DEF header, valid
  <2>8. valid + header.padding \in 0..(UsizeMod - 1)
    <3>1. /\ valid \in Nat /\ pos' = header.next + valid + header.padding
          /\ pos' <= Len(data)
      BY <2>5, Zenon
    <3>2. Len(data) < UsizeMod
      BY <2>4, Zenon
    <3> QED BY <2>6, <2>7, <3>1, <3>2
  <2>9. (valid + header.padding) % UsizeMod = valid + header.padding
    BY <2>7, <2>8
  <2> QED BY <2>5, <2>6, <2>9
<1> QED BY <1>1, Inductiveness, PTL DEF Spec, TakesItsCount

\* The round trip from the invariant.
LEMMA RoundTripHolds == IInv => RoundTrip
<1> SUFFICES ASSUME IInv PROVE RoundTrip
  OBVIOUS
<1> DEFINE fmt == message.fmt
           args == message.args
           n == Len(fmt)
<1>1. /\ outcome \in {"decoding", "decoded", "error", "panic", "unsent"}
      /\ outcome = "unsent" => Refused(message)
      /\ outcome # "unsent" => Encodes(message)
      /\ outcome # "unsent" /\ intact => \E out : Reads(out)
      /\ values \in Seq(Values)
  BY DEF IInv, Shape, Progress
<1>2. ASSUME outcome # "unsent"
      PROVE  /\ fmt \in Seq(Specs) /\ args \in Seq(Values) /\ Len(args) = n /\ n \in Nat
             /\ DOMAIN fmt = 1..n
  <2>1. AllIn(Fitting, fmt, args)
    BY <1>1, <1>2, Zenon DEF Encodes
  <2> HIDE DEF fmt, args
  <2> QED BY <2>1 DEF AllIn
<1>3. ASSUME message \in Requests, outcome # "unsent" PROVE Readable
  <2>1. AllIn(Sound, fmt, args)
    BY <1>1, <1>3, Zenon DEF Encodes
  <2>2. \A i \in 1..n : FieldReadable(fmt[i], args[i])
    <3> HIDE DEF fmt, args
    <3> QED BY <2>1 DEF AllIn, Sound
  <2> QED BY <1>2, <1>3, <2>2, Zenon DEF Readable
<1>4. ASSUME intact, outcome # "decoding", outcome # "unsent"
      PROVE  \/ Readable /\ outcome = "decoded" /\ values = message.args
             \/ ~Readable /\ outcome = "error"
  <2>1. PICK out : Reads(out)
    BY <1>1, <1>4, Zenon
  <2>2. /\ \A i \in 1..Len(values) : values[i] = args[i] /\ FieldReadable(fmt[i], args[i])
        /\ outcome \in {"decoding", "decoded", "error"}
        /\ outcome = "decoded" => Len(values) = n
        /\ outcome = "error" => /\ Len(values) < n
                                /\ ~FieldReadable(fmt[Len(values) + 1], args[Len(values) + 1])
    BY <2>1, Zenon DEF Reads
  <2>3. Len(values) \in Nat
    BY <1>1
  <2> HIDE DEF fmt, args, n
  <2>4. CASE outcome = "decoded"
    <3>1. Readable
      BY <1>2, <1>4, <2>2, <2>4, Zenon DEF Readable, fmt, args
    <3>2. values = args
      BY <1>1, <1>2, <1>4, <2>2, <2>4
    <3> QED BY <2>4, <3>1, <3>2 DEF args
  <2>5. CASE outcome = "error"
    <3>1. Len(values) + 1 \in 1..n
      BY <1>2, <1>4, <2>2, <2>3, <2>5
    <3>2. ~Readable
      BY <1>2, <1>4, <2>2, <2>5, <3>1, Zenon DEF Readable, fmt, args
    <3> QED BY <2>5, <3>2
  <2> QED BY <1>4, <2>2, <2>4, <2>5
<1>5. ASSUME outcome = "unsent"
      PROVE  \E m \in Paths : m >= 24 /\ message = connect_to_datachannel(Text(m))
  BY <1>1, <1>5, Zenon DEF Refused
<1> QED BY <1>3, <1>4, <1>5, Zenon DEF RoundTrip

\* A payload that nothing happened to is decoded to what was encoded, but for the
\* strings whose length is read in another order than it was written, which are
\* an error; no request that is sent has one.
THEOREM RoundTripAlways == Spec => []RoundTrip
BY RoundTripHolds, Inductiveness, PTL

-----------------------------------------------------------------------------
(* What the program makes of the answers.                                   *)

\* Four bytes of twelve.
LEMMA FourOf ==
    ASSUME NEW b \in Seq(Byte), Len(b) = 12, NEW j \in 1..3, NEW s \in Seq(Byte), Len(s) = 4,
           \A i \in 1..4 : b[4 * (j - 1) + i] = s[i]
    PROVE  SubSeq(b, 4 * (j - 1) + 1, 4 * (j - 1) + 4) = s
<1> DEFINE m == 4 * (j - 1) + 1
           n == 4 * (j - 1) + 4
           part == SubSeq(b, m, n)
<1>1. m \in 1..(Len(b) + 1) /\ n \in (m - 1)..Len(b) /\ n - m + 1 = 4
  OBVIOUS
<1>2. \A i \in 1..4 : m + i - 1 = 4 * (j - 1) + i
  OBVIOUS
<1> HIDE DEF m, n
<1>3. part \in Seq(Byte) /\ Len(part) = 4 /\ \A i \in 1..4 : part[i] = b[m + i - 1]
  <2>1. /\ part \in Seq(Byte) /\ Len(part) = n - m + 1
        /\ \A i \in 1..(n - m + 1) : part[i] = b[m + i - 1]
    BY <1>1, PartType, Zenon
  <2> HIDE DEF part
  <2> QED BY <1>1, <2>1, Zenon
<1>4. \A i \in 1..4 : part[i] = s[i]
  BY <1>2, <1>3
<1> HIDE DEF part
<1>5. part = s
  BY <1>3, <1>4
<1> QED BY <1>5 DEF part, m, n

\* The three slots of an answer.
SlotsOf(b) == <<SubSeq(b, 1, 4), SubSeq(b, 5, 8), SubSeq(b, 9, 12)>>

\* The bytes of a slot.
LEMMA SlotIs ==
    ASSUME NEW b \in Seq(Byte), Len(b) = 12, NEW j \in 1..3, NEW s \in Seq(Byte), Len(s) = 4,
           \A i \in 1..4 : b[4 * (j - 1) + i] = s[i]
    PROVE  SlotsOf(b)[j] = s
<1>1. SubSeq(b, 4 * (j - 1) + 1, 4 * (j - 1) + 4) = s
  BY FourOf
<1>2. SlotsOf(b)[j] = SubSeq(b, 4 * (j - 1) + 1, 4 * (j - 1) + 4)
  <2>1. CASE j = 1
    <3>1. 4 * (j - 1) + 1 = 1 /\ 4 * (j - 1) + 4 = 4
      BY <2>1
    <3> QED BY <2>1, <3>1 DEF SlotsOf
  <2>2. CASE j = 2
    <3>1. 4 * (j - 1) + 1 = 5 /\ 4 * (j - 1) + 4 = 8
      BY <2>2
    <3> QED BY <2>2, <3>1 DEF SlotsOf
  <2>3. CASE j = 3
    <3>1. 4 * (j - 1) + 1 = 9 /\ 4 * (j - 1) + 4 = 12
      BY <2>3
    <3> QED BY <2>3, <3>1 DEF SlotsOf
  <2> QED BY <2>1, <2>2, <2>3
<1> QED BY <1>1, <1>2

\* The last address given in the bytes of an answer.
LastGiven(b) ==
    IF Given(SlotsOf(b)) = {} THEN Unspecified
    ELSE SlotsOf(b)[CHOOSE i \in Given(SlotsOf(b)) : \A j \in Given(SlotsOf(b)) : j <= i]

\* No address is four zeros.
LEMMA UnspecifiedType == Unspecified \in Seq(Byte) /\ Len(Unspecified) = 4 /\ \A i \in 1..4 : Unspecified[i] = 0
<1>1. Zeros(4) \in Seq(Byte) /\ Len(Zeros(4)) = 4
  BY ByteStrings
<1>2. \A i \in 1..4 : Zeros(4)[i] = 0
  BY DEF Zeros
<1> QED BY <1>1, <1>2 DEF Unspecified

\* No address in any slot.
LEMMA NoAddress == LastGiven(Zeros(12)) = Unspecified
<1> DEFINE b == Zeros(12)
<1>1. b \in Seq(Byte) /\ Len(b) = 12
  BY ByteStrings
<1>2. \A i \in 1..12 : b[i] = 0
  BY DEF Zeros
<1> HIDE DEF b
<1>3. ASSUME NEW j \in 1..3 PROVE SlotsOf(b)[j] = Unspecified
  <2>1. \A i \in 1..4 : b[4 * (j - 1) + i] = Unspecified[i]
    <3>1. \A i \in 1..4 : 4 * (j - 1) + i \in 1..12
      OBVIOUS
    <3> QED BY <1>2, <3>1, UnspecifiedType
  <2> QED BY <1>1, <2>1, UnspecifiedType, SlotIs
<1>4. Given(SlotsOf(b)) = {}
  BY <1>3 DEF Given
<1> QED BY <1>4 DEF LastGiven, b

\* One address, in slot n.
LEMMA OneAddress ==
    ASSUME NEW n \in 1..3
    PROVE  LastGiven(Many(4 * (n - 1), 254) \o IPv4(n) \o Zeros(12 - 4 * n)) = IPv4(n)
<1> DEFINE x == Many(4 * (n - 1), 254)
           y == IPv4(n)
           z == Zeros(12 - 4 * n)
           b == x \o y \o z
<1>1. /\ 4 * (n - 1) \in Nat /\ 12 - 4 * n \in Nat /\ 254 \in Byte /\ n \in 0..255
  BY DEF Byte
<1>2. x \in Seq(Byte) /\ Len(x) = 4 * (n - 1)
  BY <1>1, ByteStrings
<1>3. y \in Seq(Byte) /\ Len(y) = 4 /\ y[1] = 10
  <2>1. y \in Seq(Byte) /\ Len(y) = 4
    BY <1>1, IPv4Type
  <2>2. y[1] = 10
    BY DEF IPv4
  <2> QED BY <2>1, <2>2
<1>4. z \in Seq(Byte) /\ Len(z) = 12 - 4 * n
  BY <1>1, ByteStrings
<1>5. \A i \in 1..(12 - 4 * n) : z[i] = 0
  BY DEF Zeros
<1> HIDE DEF x, y, z
<1>6. Joined(x \o y, x, y, Byte)
  BY <1>2, <1>3, ConcatSeq, Zenon
<1> DEFINE xy == x \o y
<1>7. /\ xy \in Seq(Byte) /\ Len(xy) = Len(x) + Len(y)
      /\ \A i \in 1..Len(y) : xy[Len(x) + i] = y[i]
  BY <1>6, Zenon DEF Joined
<1> HIDE DEF xy
<1>8. /\ b \in Seq(Byte) /\ Len(b) = Len(xy) + Len(z)
      /\ \A i \in 1..Len(xy) : b[i] = xy[i]
      /\ \A i \in 1..Len(z) : b[Len(xy) + i] = z[i]
  <2>1. Joined(xy \o z, xy, z, Byte)
    BY <1>4, <1>7, ConcatSeq, Zenon
  <2>2. b = xy \o z
    BY DEF xy
  <2> QED BY <2>1, <2>2, Zenon DEF Joined
<1> HIDE DEF b
<1>9. Len(b) = 12 /\ Len(xy) = 4 * n
  BY <1>2, <1>3, <1>4, <1>7, <1>8
<1>10. SlotsOf(b)[n] = y
  <2>1. \A i \in 1..4 : b[4 * (n - 1) + i] = y[i]
    <3> TAKE i \in 1..4
    <3>1. 4 * (n - 1) + i \in 1..Len(xy) /\ i \in 1..Len(y)
      BY <1>3, <1>9
    <3> QED BY <1>2, <1>7, <1>8, <3>1
  <2> QED BY <1>3, <1>8, <1>9, <2>1, SlotIs
<1>11. ASSUME NEW j \in 1..3, j > n PROVE SlotsOf(b)[j] = Unspecified
  <2>1. \A i \in 1..4 : b[4 * (j - 1) + i] = Unspecified[i]
    <3> TAKE i \in 1..4
    <3> DEFINE r == 4 * (j - 1) + i - 4 * n
    <3>1. r \in 1..(12 - 4 * n) /\ 4 * (j - 1) + i = 4 * n + r
      BY <1>11
    <3> HIDE DEF r
    <3>2. b[4 * n + r] = z[r] /\ z[r] = 0
      BY <1>4, <1>5, <1>8, <1>9, <3>1
    <3> QED BY <3>1, <3>2, UnspecifiedType
  <2> QED BY <1>8, <1>9, <2>1, UnspecifiedType, SlotIs
<1>12. y # Unspecified
  BY <1>3, UnspecifiedType
<1>13. n \in Given(SlotsOf(b)) /\ \A j \in Given(SlotsOf(b)) : j <= n /\ j \in 1..3
  BY <1>10, <1>11, <1>12 DEF Given
<1> DEFINE G == Given(SlotsOf(b))
           c == CHOOSE i \in G : \A j \in G : j <= i
<1>14. c = n
  <2> HIDE DEF G
  <2>1. n \in G /\ \A j \in G : j <= n /\ j \in 1..3
    BY <1>13 DEF G
  <2>2. c \in G /\ \A j \in G : j <= c
    BY <2>1
  <2>3. c \in 1..3 /\ c <= n /\ n <= c
    BY <2>1, <2>2, Zenon
  <2> HIDE DEF c
  <2> QED BY <2>3
<1>15. LastGiven(b) = SlotsOf(b)[c]
  BY <1>13 DEF LastGiven
<1>16. LastGiven(b) = y
  BY <1>10, <1>14, <1>15
<1> QED BY <1>16 DEF b, y, x, z

\* Whichever slot it is in, the address is found, and none if there is none.
LEMMA SlotsAddress ==
    ASSUME NEW slots \in Slots
    PROVE  {LastGiven(slots.bytes)} = IF slots.v4 = {} THEN {Unspecified} ELSE slots.v4
<1>1. CASE slots = [v4 |-> {}, bytes |-> Zeros(12)]
  <2>1. slots.bytes = Zeros(12) /\ slots.v4 = {}
    BY <1>1
  <2> QED BY <2>1, NoAddress, Zenon
<1>2. CASE \E n \in 1..3 :
             slots = [v4 |-> {IPv4(n)},
                      bytes |-> Many(4 * (n - 1), 254) \o IPv4(n) \o Zeros(12 - 4 * n)]
  <2>1. PICK n \in 1..3 :
             slots = [v4 |-> {IPv4(n)},
                      bytes |-> Many(4 * (n - 1), 254) \o IPv4(n) \o Zeros(12 - 4 * n)]
    BY <1>2
  <2> DEFINE b == Many(4 * (n - 1), 254) \o IPv4(n) \o Zeros(12 - 4 * n)
             y == IPv4(n)
  <2>2. LastGiven(b) = y
    BY OneAddress, Zenon
  <2> HIDE DEF b, y
  <2>3. slots = [v4 |-> {y}, bytes |-> b]
    BY <2>1, Zenon DEF b, y
  <2>4. slots.bytes = b /\ slots.v4 = {y}
    BY <2>3
  <2>5. {y} # {}
    OBVIOUS
  <2> QED BY <2>2, <2>4, <2>5, Zenon
<1> QED BY <1>1, <1>2 DEF Slots

\* The address that is taken is the one that was assigned, wherever it stands:
\* the slots query_ip looks at last win.
THEOREM AddressIsIPv4Always == Spec => []AddressIsIPv4
<1>1. IInv => AddressIsIPv4
  <2> SUFFICES ASSUME IInv, intact, outcome = "decoded", message.of = "neg_ip"
               PROVE  \E slots \in Slots :
                        /\ message = neg_ip(slots)
                        /\ query_ip = IF slots.v4 = {} THEN {Unspecified} ELSE slots.v4
    BY Zenon DEF AddressIsIPv4
  <2>1. values = message.args
    <3>1. outcome # "decoding" /\ outcome # "unsent" /\ outcome # "error"
      OBVIOUS
    <3> QED BY <3>1, RoundTripHolds, Zenon DEF RoundTrip
  <2>2. message \in Messages
    BY DEF IInv, Shape
  <2>3. PICK slots \in Slots : message = neg_ip(slots)
    BY <2>2, ByName, Zenon DEF IsNegIp
  <2> DEFINE b == slots.bytes
             a1 == IntValue(0)
             a2 == BytesValue(b)
             head == <<a1, a2>>
             tail == Ints(Zeros(4))
  <2>4. values = head \o tail
    <3>1. message.args = head \o tail
      BY <2>3 DEF neg_ip, Message
    <3> QED BY <2>1, <3>1, Zenon
  <2>5. b \in Seq(Byte) /\ Len(b) = 12
    BY SlotsType
  <2>6. head \in Seq(Values) /\ Len(head) = 2 /\ head[2] = a2
    <3>1. a1 \in Values /\ a2 \in Values
      BY <2>5 DEF IntValue, BytesValue, Values
    <3> HIDE DEF a1, a2
    <3> QED BY <3>1
  <2>7. tail \in Seq(Values)
    BY FourZeros, Zenon DEF AllIn
  <2> HIDE DEF head, tail
  <2>8. values[2] = a2
    <3>1. Joined(values, head, tail, Values)
      BY <2>4, <2>6, <2>7, ConcatSeq, Zenon
    <3>2. 2 \in 1..Len(head)
      BY <2>6
    <3> QED BY <2>6, <3>1, <3>2, Zenon DEF Joined
  <2>9. values[2].as_bytes = {b}
    BY <2>8 DEF BytesValue
  <2> HIDE DEF a2, b
  <2>10. parse_neg_ip = {SlotsOf(b)}
    <3>1. {x \in values[2].as_bytes : Len(x) >= 12} = {b}
      <4> DEFINE m == Len(b)
      <4>1. Len(b) >= 12
        <5>1. m = 12
          BY <2>5, Zenon
        <5> HIDE DEF m
        <5>2. m >= 12
          BY <5>1
        <5> QED BY <5>2, Zenon DEF m
      <4>2. {x \in {b} : Len(x) >= 12} = {b}
        BY <4>1, Zenon
      <4> QED BY <2>9, <4>2, Zenon
    <3> DEFINE X == {x \in values[2].as_bytes : Len(x) >= 12}
    <3>2. parse_neg_ip = {SlotsOf(x) : x \in X}
      BY Zenon DEF parse_neg_ip, SlotsOf
    <3>3. X = {b}
      BY <3>1, Zenon
    <3> HIDE DEF X
    <3> QED BY <3>2, <3>3
  <2>11. query_ip = {LastGiven(b)}
    <3>1. query_ip = {IF Given(slots_1) = {} THEN Unspecified
                      ELSE slots_1[CHOOSE i \in Given(slots_1) : \A j \in Given(slots_1) : j <= i]
                      : slots_1 \in parse_neg_ip}
      BY Zenon DEF query_ip
    <3> DEFINE Last(x) == IF Given(x) = {} THEN Unspecified
                          ELSE x[CHOOSE i \in Given(x) : \A j \in Given(x) : j <= i]
    <3>2. query_ip = {Last(x) : x \in parse_neg_ip}
      BY <3>1, Zenon
    <3>3. LastGiven(b) = Last(SlotsOf(b))
      BY Zenon DEF LastGiven
    <3> HIDE DEF Last
    <3>4. {Last(x) : x \in {SlotsOf(b)}} = {Last(SlotsOf(b))}
      OBVIOUS
    <3> QED BY <2>10, <3>2, <3>3, <3>4, Zenon
  <2>12. query_ip = IF slots.v4 = {} THEN {Unspecified} ELSE slots.v4
    BY <2>11, SlotsAddress, Zenon DEF b
  <2> QED BY <2>3, <2>12
<1> QED BY <1>1, Inductiveness, PTL

\* The servers of a sequence of entries, one behind the other.
Gathers(out, n, F) ==
    /\ out[0] = <<>>
    /\ \A i \in 1..n : out[i] = out[i - 1] \o F[i]

\* Gathering sequences, entry by entry.
LEMMA Gathering ==
    ASSUME NEW A, NEW n \in Nat, NEW F \in [1..n -> Seq(A)]
    PROVE  \E out : Gathers(out, n, F)
<1> DEFINE D == Seq(A)
           G == [i \in 1..n |-> [x \in D |-> x \o F[i]]]
<1>1. G \in [1..n -> [D -> D]] /\ <<>> \in D
  <2>1. \A i \in 1..n : \A x \in D : x \o F[i] \in D
    <3> TAKE i \in 1..n
    <3> TAKE x \in D
    <3>1. F[i] \in Seq(A)
      OBVIOUS
    <3> QED BY <3>1, ConcatProperties, Zenon
  <2> HIDE DEF D
  <2>2. G \in [1..n -> [D -> D]]
    BY <2>1
  <2> QED BY <2>2 DEF D
<1>2. PICK f : Follows(f, n, D, <<>>, G)
  <2> HIDE DEF G, D
  <2> QED BY <1>1, Recursion, Zenon
<1>3. \A i \in 1..n : f[i] = f[i - 1] \o F[i]
  <2> TAKE i \in 1..n
  <2>1. f[i - 1] \in D
    <3>1. i - 1 \in 0..n
      OBVIOUS
    <3> HIDE DEF D, G
    <3> QED BY <1>2, <3>1 DEF Follows
  <2>2. f[i] = G[i][f[i - 1]]
    BY <1>2, Zenon DEF Follows
  <2> HIDE DEF D
  <2> QED BY <2>1, <2>2
<1>4. f[0] = <<>>
  BY <1>2, Zenon DEF Follows
<1> QED BY <1>3, <1>4, Zenon DEF Gathers

\* What the servers in three entries add up to when the others have none.
LEMMA ThreeGathered ==
    ASSUME NEW A, NEW F \in [1..16 -> Seq(A)], NEW out, Gathers(out, 16, F),
           \A i \in 3..15 : F[i] = <<>>
    PROVE  out[16] = F[1] \o F[2] \o F[16]
<1> DEFINE s == F[1] \o F[2]
           T == {i \in 0..15 : i >= 2 => out[i] = s}
<1>1. F[1] \in Seq(A) /\ F[2] \in Seq(A) /\ F[16] \in Seq(A)
  OBVIOUS
<1>2. out[0] = <<>> /\ \A i \in 1..16 : out[i] = out[i - 1] \o F[i]
  BY Zenon DEF Gathers
<1>3. out[1] = F[1]
  <2>1. 1 \in 1..16 /\ 1 - 1 = 0
    OBVIOUS
  <2>2. out[1] = <<>> \o F[1]
    BY <1>2, <2>1
  <2> QED BY <1>1, <2>2
<1>4. out[2] = s
  <2>1. 2 \in 1..16 /\ 2 - 1 = 1
    OBVIOUS
  <2> QED BY <1>2, <1>3, <2>1
<1>5. s \in Seq(A)
  BY <1>1, ConcatProperties, Zenon
<1> HIDE DEF s
<1>6. Inductive(T, 15)
  <2>1. 0 \in T
    OBVIOUS
  <2>2. ASSUME NEW i \in 1..15, i - 1 \in T PROVE i \in T
    <3>1. CASE i < 3
      <4>1. i >= 2 => i = 2
        BY <3>1
      <4> QED BY <1>4, <4>1
    <3>2. CASE i >= 3
      <4>1. i \in 3..15 /\ i \in 1..16 /\ i - 1 >= 2
        BY <3>2
      <4>2. out[i - 1] = s
        BY <2>2, <4>1
      <4>3. out[i] = s \o <<>>
        BY <1>2, <4>1, <4>2, Zenon
      <4>4. s \o <<>> = s
        BY <1>5
      <4> QED BY <4>3, <4>4
    <3> QED BY <3>1, <3>2
  <2> HIDE DEF T
  <2> QED BY <2>1, <2>2 DEF Inductive
<1>7. out[15] = s
  <2>1. 15 \in T
    <3> HIDE DEF T
    <3>1. 15 \in Nat /\ 15 \in 0..15
      OBVIOUS
    <3> QED BY <1>6, <3>1, Induction
  <2> QED BY <2>1
<1>8. 16 \in 1..16 /\ 16 - 1 = 15
  OBVIOUS
<1>9. out[16] = s \o F[16]
  BY <1>2, <1>7, <1>8
<1> QED BY <1>9 DEF s

\* Where the two values of an entry stand among the values of an answer.
LEMMA EntryValues ==
    ASSUME NEW entries, NEW i \in 1..16, entries \in [1..16 -> Servers],
           values = neg_dns(entries).args
    PROVE  /\ values[2 * i] = BytesValue(entries[i].bytes)
           /\ values[2 * i + 1] = IntValue(entries[i].kind)
<1> DEFINE Arg1(j) == IF j % 2 = 1 THEN BytesValue(entries[(j + 1) \div 2].bytes)
                      ELSE IntValue(entries[j \div 2].kind)
           args == [j \in 1..32 |-> Arg1(j)]
           a1 == IntValue(0)
           head == <<a1>>
           a2 == BytesValue(<<>>)
           middle == <<a1, a2>>
           tail == Ints(Zeros(4))
<1>1. \A j \in 1..16 : entries[j].bytes \in Seq(Byte) /\ entries[j].kind \in Nat
  <2> TAKE j \in 1..16
  <2> DEFINE e == entries[j]
  <2>1. e \in Servers
    OBVIOUS
  <2> HIDE DEF e
  <2>2. e.bytes \in Seq(Byte) /\ e.kind \in {0, 1, 2}
    BY <2>1, ServersType, Zenon
  <2>3. e.kind \in Nat
    BY <2>2
  <2> QED BY <2>2, <2>3, Zenon DEF e
<1>2. \A j \in 1..32 : Arg1(j) \in Values
  <2> TAKE j \in 1..32
  <2>1. CASE j % 2 = 1
    <3>1. (j + 1) \div 2 \in 1..16
      OBVIOUS
    <3>2. entries[(j + 1) \div 2].bytes \in Seq(Byte)
      BY <1>1, <3>1
    <3> QED BY <2>1, <3>2 DEF BytesValue, Values
  <2>2. CASE j % 2 # 1
    <3>1. j \div 2 \in 1..16
      BY <2>2
    <3>2. entries[j \div 2].kind \in Nat
      BY <1>1, <3>1
    <3> QED BY <2>2, <3>2 DEF IntValue, Values
  <2> QED BY <2>1, <2>2
<1>3. Ints(<<0>>) = head
  BY DEF Ints
<1>4. values = ((head \o args) \o middle) \o tail
  <2> DEFINE f == <<L>> \o [j \in 1..32 |-> IF j % 2 = 1 THEN S(16) ELSE L] \o <<L, S(1), L, L, L, L>>
             a == Ints(<<0>>) \o args \o middle \o tail
  <2>1. neg_dns(entries) = Message("neg_dns", f, a)
    BY Zenon DEF neg_dns
  <2> HIDE DEF f, a
  <2>2. neg_dns(entries).args = a
    BY <2>1 DEF Message
  <2> QED BY <1>3, <2>2, Zenon DEF a
<1>5. /\ head \in Seq(Values) /\ Len(head) = 1
      /\ middle \in Seq(Values) /\ tail \in Seq(Values)
  <2>1. a1 \in Values /\ a2 \in Values
    BY DEF IntValue, BytesValue, Values
  <2>2. tail \in Seq(Values)
    BY FourZeros, Zenon DEF AllIn
  <2> HIDE DEF a1, a2, tail
  <2> QED BY <2>1, <2>2
<1>6. OfLength(args, Values, 32)
  <2>1. args \in [1..32 -> Values] /\ 32 \in Nat
    BY <1>2
  <2> HIDE DEF args
  <2> QED BY <2>1, FunctionIsSeq, Zenon
<1>7. \A j \in 1..32 : args[j] = Arg1(j)
  OBVIOUS
<1> HIDE DEF head, middle, tail, args, Arg1
<1> DEFINE u == head \o args
           v == u \o middle
<1>8. Joined(u, head, args, Values)
  BY <1>5, <1>6, ConcatSeq, Zenon DEF OfLength
<1>9. Joined(v, u, middle, Values)
  <2> HIDE DEF u
  <2>1. u \in Seq(Values)
    BY <1>8, Zenon DEF Joined
  <2> QED BY <1>5, <2>1, ConcatSeq, Zenon
<1>10. Joined(values, v, tail, Values)
  <2>1. values = v \o tail
    BY <1>4, Zenon
  <2> HIDE DEF v
  <2>2. v \in Seq(Values)
    BY <1>9, Zenon DEF Joined
  <2>3. Joined(v \o tail, v, tail, Values)
    BY <1>5, <2>2, ConcatSeq, Zenon
  <2> QED BY <2>1, <2>3, Zenon
<1> HIDE DEF u, v
<1>11. ASSUME NEW j \in 1..32 PROVE values[j + 1] = Arg1(j)
  <2>1. Len(head) = 1 /\ Len(args) = 32 /\ Len(u) = Len(head) + Len(args) /\ Len(v) = Len(u) + Len(middle)
    BY <1>5, <1>6, <1>8, <1>9, Zenon DEF OfLength, Joined
  <2>2. Len(middle) \in Nat
    BY <1>5
  <2>3. j \in 1..Len(args) /\ j + 1 \in 1..Len(u) /\ j + 1 \in 1..Len(v) /\ Len(head) + j = j + 1
    BY <2>1, <2>2
  <2>4. u[Len(head) + j] = args[j]
    BY <1>8, <2>3, Zenon DEF Joined
  <2>5. v[j + 1] = u[j + 1] /\ values[j + 1] = v[j + 1]
    BY <1>9, <1>10, <2>3, Zenon DEF Joined
  <2> QED BY <1>7, <2>3, <2>4, <2>5, Zenon
<1>12. values[2 * i] = BytesValue(entries[i].bytes)
  <2> DEFINE j == 2 * i - 1
  <2>1. j \in 1..32 /\ j + 1 = 2 * i /\ j % 2 = 1 /\ (j + 1) \div 2 = i
    OBVIOUS
  <2> HIDE DEF j
  <2>2. values[j + 1] = Arg1(j)
    BY <1>11, <2>1
  <2> QED BY <2>1, <2>2, Zenon DEF Arg1
<1>13. values[2 * i + 1] = IntValue(entries[i].kind)
  <2> DEFINE j == 2 * i
  <2>1. j \in 1..32 /\ j + 1 = 2 * i + 1 /\ j % 2 # 1 /\ j \div 2 = i
    OBVIOUS
  <2> HIDE DEF j
  <2>2. values[j + 1] = Arg1(j)
    BY <1>11, <2>1
  <2> QED BY <2>1, <2>2, Zenon DEF Arg1
<1> QED BY <1>12, <1>13

\* What an entry adds to the servers of a family.
Gained(e, family, size) ==
    IF e.kind = family /\ Len(e.bytes) >= size THEN <<SubSeq(e.bytes, 1, size)>> ELSE <<>>

\* What parse_dns takes from an entry is what the entry holds.
LEMMA ServerAtIs ==
    ASSUME NEW entries, NEW i \in 1..16, entries \in [1..16 -> Servers],
           values = neg_dns(entries).args, NEW family, NEW size
    PROVE  ServerAt(i, family, size) = Gained(entries[i], family, size)
<1>1. /\ values[2 * i] = BytesValue(entries[i].bytes)
      /\ values[2 * i + 1] = IntValue(entries[i].kind)
  BY EntryValues, Zenon
<1> DEFINE e == entries[i]
           a == values[2 * i]
           k == values[2 * i + 1]
<1>2. The(a.as_bytes) = e.bytes /\ k.as_int = {e.kind}
  BY <1>1 DEF The, BytesValue, IntValue
<1>3. ServerAt(i, family, size) =
        IF k.as_int = {family} /\ Len(The(a.as_bytes)) >= size
        THEN <<SubSeq(The(a.as_bytes), 1, size)>> ELSE <<>>
  BY Zenon DEF ServerAt
<1> HIDE DEF e, a, k
<1>4. k.as_int = {family} <=> e.kind = family
  BY <1>2
<1> QED BY <1>2, <1>3, <1>4, Zenon DEF Gained, e

\* An entry adds a sequence of byte strings.
LEMMA GainedType ==
    ASSUME NEW e \in Servers, NEW family, NEW size \in Nat
    PROVE  Gained(e, family, size) \in Seq(Seq(Byte))
<1>1. e.bytes \in Seq(Byte)
  BY ServersType
<1>2. CASE Len(e.bytes) >= size
  <2> DEFINE b == e.bytes
             x == SubSeq(b, 1, size)
  <2>1. b \in Seq(Byte) /\ Len(b) >= size
    BY <1>1, <1>2
  <2> HIDE DEF b
  <2>2. 1 \in 1..(Len(b) + 1) /\ size \in (1 - 1)..Len(b)
    BY <2>1
  <2>3. x \in Seq(Byte)
    BY <2>1, <2>2, PartType
  <2> HIDE DEF x
  <2>4. <<x>> \in Seq(Seq(Byte)) /\ <<>> \in Seq(Seq(Byte))
    BY <2>3
  <2> QED BY <2>4, Zenon DEF Gained, x, b
<1>3. CASE ~(Len(e.bytes) >= size)
  BY <1>3 DEF Gained
<1> QED BY <1>2, <1>3

\* The servers of a family that an answer has are those that its three entries add.
GatheredAre(first, second, last, family, size) ==
    parse_dns(family, size) =
        Gained(first, family, size) \o Gained(second, family, size) \o Gained(last, family, size)

\* parse_dns gathers just those, of the sixteen entries it goes through.
LEMMA ServersGathered ==
    ASSUME NEW first \in Servers, NEW second \in Servers, NEW last \in Servers,
           values = neg_dns(Entries(first, second, last)).args,
           NEW family \in {1, 2}, NEW size \in Nat
    PROVE  GatheredAre(first, second, last, family, size)
<1> DEFINE none == [kind |-> 0, bytes |-> <<>>]
           entries == Entries(first, second, last)
           At1(i) == ServerAt(i, family, size)
           F == [i \in 1..16 |-> Gained(entries[i], family, size)]
           A == Seq(Byte)
           Value(x) == x = [i \in 0..16 |-> IF i = 0 THEN <<>> ELSE x[i - 1] \o At1(i)]
           value == CHOOSE x : Value(x)
<1>1. none \in Servers
  BY DEF Servers
<1>2. /\ entries \in [1..16 -> Servers]
      /\ entries[1] = first /\ entries[2] = second /\ entries[16] = last
      /\ \A i \in 3..15 : entries[i] = none
  <2> HIDE DEF none
  <2> DEFINE E(i) == CASE i = 1 -> first [] i = 2 -> second [] i = 16 -> last [] OTHER -> none
  <2>1. entries = [i \in 1..16 |-> E(i)]
    BY Zenon DEF Entries, none
  <2>2. E(1) = first /\ E(2) = second /\ E(16) = last /\ \A i \in 3..15 : E(i) = none
    OBVIOUS
  <2>3. \A i \in 1..16 : E(i) \in Servers
    BY <1>1
  <2> HIDE DEF E
  <2>4. entries \in [1..16 -> Servers] /\ \A i \in 1..16 : entries[i] = E(i)
    BY <2>1, <2>3
  <2>5. 1 \in 1..16 /\ 2 \in 1..16 /\ 16 \in 1..16 /\ \A i \in 3..15 : i \in 1..16
    OBVIOUS
  <2> HIDE DEF entries
  <2> QED BY <2>2, <2>4, <2>5, Zenon
<1>3. Gained(none, family, size) = <<>>
  BY DEF Gained
<1> HIDE DEF none, entries
<1>4. F \in [1..16 -> Seq(A)]
  <2>1. \A i \in 1..16 : Gained(entries[i], family, size) \in Seq(A)
    <3> TAKE i \in 1..16
    <3>1. entries[i] \in Servers
      BY <1>2
    <3> QED BY <3>1, GainedType, Zenon
  <2> HIDE DEF A
  <2> QED BY <2>1
<1>5. \A i \in 1..16 : F[i] = At1(i)
  <2> TAKE i \in 1..16
  <2>1. values = neg_dns(entries).args
    BY DEF entries
  <2>2. At1(i) = Gained(entries[i], family, size)
    BY <1>2, <2>1, ServerAtIs
  <2> HIDE DEF At1
  <2> QED BY <2>2
<1>6. F[1] = Gained(first, family, size) /\ F[2] = Gained(second, family, size)
      /\ F[16] = Gained(last, family, size) /\ \A i \in 3..15 : F[i] = <<>>
  <2>1. \A i \in 1..16 : F[i] = Gained(entries[i], family, size)
    OBVIOUS
  <2>2. 1 \in 1..16 /\ 2 \in 1..16 /\ 16 \in 1..16 /\ \A i \in 3..15 : i \in 1..16
    OBVIOUS
  <2> HIDE DEF F
  <2> QED BY <1>2, <1>3, <2>1, <2>2, Zenon
<1> HIDE DEF F, At1, A
<1>7. PICK f : Gathers(f, 16, F)
  <2>1. 16 \in Nat
    OBVIOUS
  <2> QED BY <1>4, <2>1, Gathering, Zenon
<1>8. f[0] = <<>> /\ \A i \in 1..16 : f[i] = f[i - 1] \o At1(i)
  BY <1>5, <1>7, Zenon DEF Gathers
<1>9. \A i \in 0..16 : /\ i # 0 => i \in 1..16 /\ i - 1 \in 0..16
                       /\ i = 0 \/ i # 0
  OBVIOUS
<1> DEFINE g == [i \in 0..16 |-> f[i]]
<1>10. Value(g)
  <2>1. \A i \in 0..16 : g[i] = f[i]
    OBVIOUS
  <2>2. g = [i \in 0..16 |-> g[i]]
    OBVIOUS
  <2> HIDE DEF g
  <2>3. \A i \in 0..16 : g[i] = IF i = 0 THEN <<>> ELSE g[i - 1] \o At1(i)
    BY <1>8, <1>9, <2>1, Zenon
  <2>4. [i \in 0..16 |-> g[i]] = [i \in 0..16 |-> IF i = 0 THEN <<>> ELSE g[i - 1] \o At1(i)]
    BY <2>3
  <2> QED BY <2>2, <2>4
<1>11. Value(value)
  <2> HIDE DEF Value
  <2> QED BY <1>10
<1>12. parse_dns(family, size) = value[16]
  BY Zenon DEF parse_dns, At1
<1> HIDE DEF value
<1>13. Gathers(value, 16, F)
  <2>1. 0 \in 0..16 /\ \A i \in 1..16 : i \in 0..16 /\ i # 0
    OBVIOUS
  <2>2. value[0] = <<>> /\ \A i \in 1..16 : value[i] = value[i - 1] \o At1(i)
    BY <1>11, <2>1
  <2> QED BY <1>5, <2>2, Zenon DEF Gathers
<1> DEFINE G3 == F[1] \o F[2] \o F[16]
<1>14. value[16] = G3
  BY <1>4, <1>6, <1>13, ThreeGathered
<1> QED BY <1>6, <1>12, <1>14, Zenon DEF GatheredAre

\* The same of both families at once, as the property says it.
NoneLost(first, second, last) ==
    \A family \in {<<1, 4>>, <<2, 16>>} :
        LET Of(e) == IF e.kind = family[1] /\ Len(e.bytes) >= family[2]
                     THEN <<SubSeq(e.bytes, 1, family[2])>> ELSE <<>>
        IN parse_dns(family[1], family[2]) = Of(first) \o Of(second) \o Of(last)

\* Both families at once.
LEMMA BothFamilies ==
    ASSUME NEW first \in Servers, NEW second \in Servers, NEW last \in Servers,
           values = neg_dns(Entries(first, second, last)).args
    PROVE  NoneLost(first, second, last)
<1>1. GatheredAre(first, second, last, 1, 4)
  <2>1. 1 \in {1, 2} /\ 4 \in Nat
    OBVIOUS
  <2> QED BY <2>1, ServersGathered, Zenon
<1>2. GatheredAre(first, second, last, 2, 16)
  <2>1. 2 \in {1, 2} /\ 16 \in Nat
    OBVIOUS
  <2> QED BY <2>1, ServersGathered, Zenon
<1>3. ASSUME NEW family \in {<<1, 4>>, <<2, 16>>}
      PROVE  GatheredAre(first, second, last, family[1], family[2])
  <2>1. (family[1] = 1 /\ family[2] = 4) \/ (family[1] = 2 /\ family[2] = 16)
    OBVIOUS
  <2> QED BY <1>1, <1>2, <2>1, Zenon
<1> QED BY <1>3, Zenon DEF NoneLost, GatheredAre, Gained

\* No server of an answer is lost, and none is taken for one of the other family.
THEOREM ServersCompleteAlways == Spec => []ServersComplete
<1>1. IInv => ServersComplete
  <2> SUFFICES ASSUME IInv, intact, outcome = "decoded", message.of = "neg_dns"
               PROVE  \E first, second, last \in Servers :
                          /\ message = neg_dns(Entries(first, second, last))
                          /\ NoneLost(first, second, last)
    BY Zenon DEF ServersComplete, NoneLost
  <2>1. values = message.args
    <3>1. outcome # "decoding" /\ outcome # "unsent" /\ outcome # "error"
      OBVIOUS
    <3> QED BY <3>1, RoundTripHolds, Zenon DEF RoundTrip
  <2>2. message \in Messages
    BY DEF IInv, Shape
  <2>3. PICK first \in Servers, second \in Servers, last \in Servers :
          message = neg_dns(Entries(first, second, last))
    BY <2>2, ByName, Zenon DEF IsNegDns
  <2>4. values = neg_dns(Entries(first, second, last)).args
    BY <2>1, <2>3, Zenon
  <2> QED BY <2>3, <2>4, BothFamilies, Zenon
<1> QED BY <1>1, Inductiveness, PTL
=============================================================================
