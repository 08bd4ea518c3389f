------------------------------ MODULE Payloads ------------------------------
(***************************************************************************)
(* What the program puts into payloads and takes out of them: the requests *)
(* of src/src/requests.rs, src/src/apn.rs and src/src/modem.rs, the        *)
(* answers they bring, and the two decoders of src/src/codec.rs,           *)
(* decode_values and unpack, field by field, on payloads that may have     *)
(* been cut or altered on the way.                                         *)
(***************************************************************************)
EXTENDS Codec

CONSTANTS
    Paths, Apns,    \* lengths of data-channel paths and of APNs
    Lengths,        \* lengths of other strings, in elements
    Altered,        \* bytes that may get into a payload by mistake
    MaxAltered      \* bound: alterations hit that many bytes at the front
                    \* of a payload, and only payloads up to ten times as long

VARIABLES
    message,    \* what was encoded: its name, its fields and their values
    mode,       \* which decoder is at work
    data, pos, values,  \* Reader, and the values decoded so far
    intact,     \* the payload is what was encoded
    outcome     \* "decoding", or how it ended; "unsent" if it was not encoded

vars == <<message, mode, data, pos, values, intact, outcome>>

Ints(numbers) == [i \in DOMAIN numbers |-> IntValue(numbers[i])]
Zeros(n) == [i \in 1..n |-> 0]
Text(n) == [i \in 1..n |-> 1 + (i % 100)]    \* any bytes, tags among them
Many(n, x) == [i \in 1..n |-> x]

-----------------------------------------------------------------------------
(* Requests. *)

Message(of, fmt, args) == [of |-> of, fmt |-> fmt, args |-> args]

\* The body of many requests is one integer, for the answer to the FCC challenge any.
pack_u32(value) == Message("pack_u32", <<L>>, <<IntValue(value)>>)
U32s == {0, 258, Power[IntWidth] - 1}
set_mode(id) == Message("set_mode", <<L, L, L>>, Ints(<<0, 15, id>>))
net_attach == Message("net_attach", <<B, L, L, L, L, H, H, L, L>>,
                      Ints(<<0, 0, 0, 0, 0, 65535, 65535, 0, 0>>))
get_neg_ip == Message("get_neg_ip", <<B, L, L>>, Ints(<<0, 0, 0>>))
ps_connect == Message("ps_connect", <<B, L, L, L>>, Ints(<<0, 6, 0, 0>>))
sys_get_info(index) == Message("sys_get_info", <<L, S(0), L>>,
                               <<IntValue(0), BytesValue(<<>>), IntValue(index)>>)
connect_to_datachannel(path) ==
    Message("connect_to_datachannel", <<S(24)>>, <<BytesValue(Append(path, 0))>>)

\* The four profiles of the attach configuration, the first two empty, the last
\* with a shorter field for the APN and two more integers.
Profile(flags, type, apn, apnCapacity) ==
    [fmt |-> <<S(260), L, S(66), S(65), S(250), B, S(252), H>> \o Many(21, L)
             \o <<S(20), L, S(apnCapacity)>>,
     args |-> <<BytesValue(Zeros(257)), IntValue(0), BytesValue(Zeros(65)), BytesValue(Zeros(65)),
                BytesValue(Zeros(250)), IntValue(0), BytesValue(Zeros(250)), IntValue(0)>>
              \o Ints(flags) \o <<BytesValue(Zeros(20)), IntValue(type),
                                  BytesValue(apn)>>]
Flags == [i \in 1..21 |-> CASE i \in {5, 13, 17, 19} -> 1 [] i = 16 -> 1028 [] OTHER -> 0]
\* Longer APNs are refused.
attach_config(apn) ==
    LET apn_string == apn \o Zeros(101 - Len(apn))
        empty == Profile(Zeros(21), 0, Zeros(101), 104)
        first == Profile(Flags, 3, apn_string, 104)
        second == Profile(Flags, 3, apn_string, 103)
    IN Message("attach_config",
               <<B>> \o empty.fmt \o empty.fmt \o first.fmt \o second.fmt \o <<B, L>>,
               Ints(<<0>>) \o empty.args \o empty.args \o first.args \o second.args \o Ints(<<3, 0>>))

Requests == {net_attach, get_neg_ip, ps_connect, sys_get_info(0), set_mode(1)}
            \cup {pack_u32(value) : value \in U32s}
            \cup {connect_to_datachannel(Text(n)) : n \in Paths}
            \cup {attach_config(Text(n)) : n \in Apns \cap 0..101}

-----------------------------------------------------------------------------
(* Answers.  What the firmware puts in is external, its formats are those    *)
(* the code unpacks.                                                         *)

Unspecified == Zeros(4)
IPv4(n) == <<10, 0, 0, n>>

\* The IPv4 address is in one of three slots, with the bytes of an IPv6 address
\* before it, or there is none.
Slots == {[v4 |-> {}, bytes |-> Zeros(12)]}
         \cup {[v4 |-> {IPv4(n)}, bytes |-> Many(4 * (n - 1), 254) \o IPv4(n) \o Zeros(12 - 4 * n)]
               : n \in 1..3}
neg_ip(slots) ==
    Message("neg_ip", <<L, S(12), L, L, L, L>>,
            <<IntValue(0), BytesValue(slots.bytes)>> \o Ints(Zeros(4)))

\* A server, of family 1 or 2, or none; the field of an IPv4 server may be as
\* long as one of IPv6.
Servers == {[kind |-> 0, bytes |-> <<>>], [kind |-> 1, bytes |-> IPv4(1)],
            [kind |-> 1, bytes |-> IPv4(2) \o Zeros(12)], [kind |-> 2, bytes |-> Text(16)],
            [kind |-> 2, bytes |-> IPv4(3)]}
Entries(first, second, last) ==
    [i \in 1..16 |-> CASE i = 1 -> first [] i = 2 -> second [] i = 16 -> last
                     [] OTHER -> [kind |-> 0, bytes |-> <<>>]]
neg_dns(entries) ==
    Message("neg_dns",
            <<L>> \o [i \in 1..32 |-> IF i % 2 = 1 THEN S(16) ELSE L] \o <<L, S(1), L, L, L, L>>,
            Ints(<<0>>)
            \o [i \in 1..32 |-> IF i % 2 = 1 THEN BytesValue(entries[(i + 1) \div 2].bytes)
                                ELSE IntValue(entries[i \div 2].kind)]
            \o <<IntValue(0), BytesValue(<<>>)>> \o Ints(Zeros(4)))

sys_info(n) == Message("sys_info", <<L, L, S(n + 3)>>, Ints(<<0, 1>>) \o <<BytesValue(Text(n))>>)
wide(size, n) == Message("wide", <<FieldSpec("s", size, n + 1), B>>,
                         <<BytesValue(Text(n * size)), IntValue(1)>>)

Answers == {neg_ip(slots) : slots \in Slots}
           \cup {neg_dns(Entries(first, second, last)) : first, second, last \in Servers}
           \cup {sys_info(n) : n \in Lengths} \cup {wide(size, n) : size \in {2, 4}, n \in Lengths}

\* The request that opens the data channel is made of two answers: the first
\* without its last integer, the second, and an integer.
datachannel == Message("datachannel", <<S(4), L>>, <<BytesValue(Text(3)), IntValue(5)>>)
setup == Message("setup", SubSeq(ps_connect.fmt, 1, 3) \o datachannel.fmt \o <<L>>,
                 SubSeq(ps_connect.args, 1, 3) \o datachannel.args \o Ints(<<0>>))
ConnectSetup ==
    LET body == Pack(ps_connect.fmt, ps_connect.args)
    IN SubSeq(body, 1, Len(body) - (IntWidth + 2)) \o Pack(datachannel.fmt, datachannel.args)
       \o AsnInt(0)

\* The code writes the bytes of pack_u32, too, without pack.
Encoded(m) ==
    IF m = setup THEN ConnectSetup
    ELSE IF m \in {pack_u32(value) : value \in U32s} THEN AsnInt(The(m.args[1].as_int))
    ELSE Pack(m.fmt, m.args)
Messages == Requests \cup Answers \cup {setup}

\* Lengths of strings fit a u32, and payloads, being vectors in memory, a usize.
ASSUME PayloadsAssumption ==
    /\ Paths \subseteq Nat /\ Apns \subseteq Nat
    /\ \A n \in Lengths : n \in Nat /\ 4 * (n + 3) < Power[IntWidth]
    /\ Altered \subseteq Byte /\ MaxAltered \in Nat
    /\ \A m \in Messages : Packable(m.fmt, m.args) => Len(Encoded(m)) < UsizeMod

-----------------------------------------------------------------------------
Init ==
    /\ message \in Messages
    /\ mode \in {"decode_values", "unpack"}
    /\ intact = TRUE /\ pos = 0 /\ values = <<>>
    /\ IF Packable(message.fmt, message.args)
       THEN data = Encoded(message) /\ outcome = "decoding"
       ELSE data = <<>> /\ outcome = "unsent"

\* On the way.
Alter ==
    /\ outcome = "decoding" /\ intact /\ pos = 0
    /\ Len(data) <= 10 * MaxAltered
    /\ \E i \in 1..MaxAltered, byte \in Altered :
        i <= Len(data) /\ data[i] # byte /\ data' = [data EXCEPT ![i] = byte]
    /\ intact' = FALSE
    /\ UNCHANGED <<message, mode, pos, values, outcome>>

Cut ==
    /\ outcome = "decoding" /\ intact /\ pos = 0
    /\ \E i \in 0..MaxAltered : i < Len(data) /\ data' = SubSeq(data, 1, i)
    /\ intact' = FALSE
    /\ UNCHANGED <<message, mode, pos, values, outcome>>

\* A firmware that writes the length of a string in as many bytes as it likes.
WriteLength ==
    /\ outcome = "decoding" /\ intact /\ pos = 0
    /\ message.of = "wide" /\ Len(data) <= 10 * MaxAltered
    /\ \E width \in 1..15, byte \in Altered : \E i \in 1..width :
        data' = <<data[1], 128 + width>> \o [j \in 1..width |-> IF j = i THEN byte ELSE 0]
                \o SubSeq(data, HeaderAt(data, 0).width + 3, Len(data))
    /\ Len(data') < UsizeMod
    /\ intact' = FALSE
    /\ UNCHANGED <<message, mode, pos, values, outcome>>

\* The next field: decode_values looks at its tag, unpack at the format.
More == IF mode = "decode_values" THEN pos < Len(data) ELSE Len(values) < Len(message.fmt)
Expected ==
    IF mode = "unpack" THEN message.fmt[Len(values) + 1].kind
    ELSE IF data[pos + 1] = TAG_INT THEN "n"
    ELSE IF data[pos + 1] \in DOMAIN ElemSize THEN "s" ELSE "bad tag"
Field == CASE Expected = "n" -> IntAt(data, pos)
           [] Expected = "s" -> StringAt(data, pos)
           [] OTHER -> Error

TakeField ==
    /\ outcome = "decoding" /\ More /\ Field.ok
    /\ pos' = Field.next /\ values' = Append(values, Field.value)
    /\ UNCHANGED <<message, mode, data, intact, outcome>>

FieldFails ==
    /\ outcome = "decoding" /\ More /\ ~Field.ok
    /\ outcome' = "error"
    /\ UNCHANGED <<message, mode, data, pos, values, intact>>

\* A build with overflow checks panics instead.
Panic ==
    /\ outcome = "decoding" /\ More /\ Expected = "s" /\ OverflowsAt(data, pos)
    /\ outcome' = "panic"
    /\ UNCHANGED <<message, mode, data, pos, values, intact>>

\* unpack does not look at what is left over.
Done ==
    /\ outcome = "decoding" /\ ~More
    /\ outcome' = "decoded"
    /\ UNCHANGED <<message, mode, data, pos, values, intact>>

Next == Alter \/ Cut \/ WriteLength \/ TakeField \/ FieldFails \/ Panic \/ Done
Spec == Init /\ [][Next]_vars

-----------------------------------------------------------------------------
(* What the program makes of the values. *)

\* parse_neg_ip; query_ip takes the last address that is not unspecified.
parse_neg_ip ==
    {<<SubSeq(b, 1, 4), SubSeq(b, 5, 8), SubSeq(b, 9, 12)>>
     : b \in {b \in values[2].as_bytes : Len(b) >= 12}}
Given(slots) == {i \in 1..3 : slots[i] # Unspecified}

\* Mutant: the first one.
query_ip_first ==
    {IF Given(slots) = {} THEN Unspecified
     ELSE slots[CHOOSE i \in Given(slots) : \A j \in Given(slots) : i <= j]
     : slots \in parse_neg_ip}

query_ip ==
    {IF Given(slots) = {} THEN Unspecified
     ELSE slots[CHOOSE i \in Given(slots) : \A j \in Given(slots) : j <= i]
     : slots \in parse_neg_ip}

\* What an entry adds to the servers of a family whose addresses have `size` bytes.
ServerAt(i, family, size) ==
    LET bytes == The(values[2 * i].as_bytes)
    IN IF values[2 * i + 1].as_int = {family} /\ Len(bytes) >= size
       THEN <<SubSeq(bytes, 1, size)>> ELSE <<>>

\* Mutant: the last entry is not looked at.
parse_dns_but_last(family, size) ==
    LET servers[i \in 0..15] ==
            IF i = 0 THEN <<>> ELSE servers[i - 1] \o ServerAt(i, family, size)
    IN servers[15]

parse_dns(family, size) ==
    LET servers[i \in 0..16] ==
            IF i = 0 THEN <<>> ELSE servers[i - 1] \o ServerAt(i, family, size)
    IN servers[16]

-----------------------------------------------------------------------------
TypeOK ==
    /\ message \in Messages
    /\ mode \in {"decode_values", "unpack"}
    /\ \A i \in DOMAIN data : data[i] \in Byte
    /\ Len(values) <= Len(message.fmt) \/ ~intact
    /\ intact \in BOOLEAN
    /\ outcome \in {"decoding", "decoded", "error", "panic", "unsent"}

\* A number of elements whose length bytes read the same in both orders.
SameBothWays(n) ==
    n < 128 \/ LET w == WidthOf(n)
               IN \A i \in 1..w : BigEndian(n, w)[i] = BigEndian(n, w)[w + 1 - i]
FieldReadable(spec, arg) == \A b \in arg.as_bytes : SameBothWays(Len(b) \div spec.size)
Readable == \A i \in DOMAIN message.fmt : FieldReadable(message.fmt[i], message.args[i])

\* A payload that nothing happened to is decoded to what was encoded, by either
\* decoder, but for strings of 256 elements and more, whose length is written
\* (codec.rs:228-236) and read (317-322) in opposite orders.  There it is an
\* error, never another string, and all requests that are sent are readable.
\* Only a path too long for its field is refused.
RoundTrip ==
    /\ intact /\ outcome # "decoding" =>
        \/ outcome = "unsent" /\ \E n \in Paths : n >= 24 /\ message = connect_to_datachannel(Text(n))
        \/ Readable /\ outcome = "decoded" /\ values = message.args
        \/ ~Readable /\ outcome = "error"
    /\ message \in Requests /\ outcome # "unsent" => Readable

\* Whatever came in, the decoders get on with each field and never past the end
\* of the payload, so they stop (take, codec.rs:278-286, and the loops).
Forward == [][values' # values => pos < pos' /\ pos' <= Len(data)]_vars

\* A string that says how many bytes it has takes up that many, also where the
\* arithmetic on its length leaves a usize (codec.rs:326-338): the fields that
\* follow are never read out of step.
TakesItsCount ==
    [][LET header == HeaderAt(data, pos)
       IN values' # values /\ Expected = "s" /\ header.count # 0
            => pos' = header.next + header.count]_vars

\* The address the program takes is the IPv4 address that was assigned, in
\* whichever slot (modem.rs:202-208), and none if none was.
AddressIsIPv4 ==
    intact /\ outcome = "decoded" /\ message.of = "neg_ip" =>
        \E slots \in Slots :
            /\ message = neg_ip(slots)
            /\ query_ip = IF slots.v4 = {} THEN {Unspecified} ELSE slots.v4

\* No server of either family is lost or confused with the other, up to the
\* sixteenth entry (requests.rs:96-113); entries too short for their family do
\* not count.
ServersComplete ==
    intact /\ outcome = "decoded" /\ message.of = "neg_dns" =>
        \E first, second, last \in Servers :
            /\ message = neg_dns(Entries(first, second, last))
            /\ \A family \in {<<1, 4>>, <<2, 16>>} :
                LET Of(e) == IF e.kind = family[1] /\ Len(e.bytes) >= family[2]
                             THEN <<SubSeq(e.bytes, 1, family[2])>> ELSE <<>>
                IN parse_dns(family[1], family[2]) = Of(first) \o Of(second) \o Of(last)
=============================================================================
