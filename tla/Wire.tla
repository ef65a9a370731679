-------------------------------- MODULE Wire --------------------------------
(***************************************************************************)
(* The protobuf wire format as the generated code of the repository reads  *)
(* and writes it: base-128 varints, length-delimited fields, the loop over *)
(* the fields of a message and the skipping of fields a message does not   *)
(* know.  The generated functions are copies of each other; the lines of   *)
(* fabric.pb.go stand for all of them.                                     *)
(*                                                                         *)
(* Bytes are 0..255 and keep their 7-bit groups.  A 64-bit word is scaled  *)
(* down to WordBits and a 32-bit one to HalfBits.  64 = 9 * 7 + 1, so a    *)
(* WordBits of 15 = 2 * 7 + 1 keeps the case of the last varint byte, of   *)
(* which a single bit is left.                                             *)
(***************************************************************************)
EXTENDS Integers, Sequences, SequencesExt

CONSTANTS WordBits, HalfBits

ASSUME WidthAssumption ==
    /\ WordBits \in Nat /\ HalfBits \in Nat
    /\ 0 < HalfBits /\ HalfBits < WordBits

Unsigned(x, bits) == x % 2^bits
Signed(x, bits) ==
    LET u == Unsigned(x, bits) IN IF u >= 2^(bits - 1) THEN u - 2^bits ELSE u

\* An outcome of a decoding step: the value and the next index, or an error.
\* "panic" is a Go slice or index expression out of range.
Ok(val, next) == [err |-> "none", val |-> val, next |-> next]
Err(e) == [err |-> e]

---------------------------------------------------------------------------
(* Writing.                                                                *)

\* bits.Len64
BitLen(x) == CHOOSE n \in 0..WordBits : x < 2^n /\ (n = 0 \/ x >= 2^(n - 1))

\* Mutant: one bit short at the boundaries of the groups.
sovRoundedDown(x) == (BitLen(x + 1 - (x % 2)) + 5) \div 7

\* (math_bits.Len64(x|1) + 6) / 7, the length of a varint.
sov(x) == (BitLen(x + 1 - (x % 2)) + 6) \div 7

RECURSIVE Groups(_)
Groups(v) == IF v >= 128 THEN <<(v % 128) + 128>> \o Groups(v \div 128) ELSE <<v>>

\* The varint is written into the sov(v) bytes in front of the offset.
encodeVarint(v) ==
    LET g == Groups(v) IN [k \in 1..sov(v) |-> IF k <= Len(g) THEN g[k] ELSE 0]

\* The fields of MarshalToSizedBuffer, each with the tag byte of the code.
\* Scalars and strings that are zero or empty are left out, and so are byte
\* slices that are nil or empty: a byte slice is <<>> (nil) or <<bytes>>.
PutVarint(tag, v) ==
    IF v = 0 THEN <<>> ELSE <<tag>> \o encodeVarint(Unsigned(v, WordBits))
PutBool(tag, b) == IF b THEN <<tag, 1>> ELSE <<>>
PutDelimited(tag, bs) == <<tag>> \o encodeVarint(Len(bs)) \o bs
PutString(tag, s) == IF s = <<>> THEN <<>> ELSE PutDelimited(tag, s)
PutBytes(tag, b) == IF b = <<>> THEN <<>> ELSE PutString(tag, b[1])
PutEach(tag, ss) == FlattenSeq([k \in DOMAIN ss |-> PutDelimited(tag, ss[k])])

\* A slice of messages is a sequence, a pointer one of at most one element.
Each(ms, Op(_)) == [k \in DOMAIN ms |-> Op(ms[k])]

\* The same fields in Size.
SizeVarint(v) == IF v = 0 THEN 0 ELSE 1 + sov(Unsigned(v, WordBits))
SizeBool(b) == IF b THEN 2 ELSE 0
SizeDelimited(l) == 1 + l + sov(l)
SizeString(s) == IF s = <<>> THEN 0 ELSE SizeDelimited(Len(s))
SizeBytes(b) == IF b = <<>> THEN 0 ELSE SizeString(b[1])
SizeEach(lens) == FoldSeq(LAMBDA l, n : n + SizeDelimited(l), 0, lens)

\* Marshal: MarshalToSizedBuffer fills a buffer of size bytes from its end,
\* and the first n bytes of the buffer are returned.
Sized(size, body) ==
    IF Len(body) > size THEN Err("panic")
    ELSE Ok(SubSeq([k \in 1..(size - Len(body)) |-> 0] \o body, 1, Len(body)),
            Len(body))

---------------------------------------------------------------------------
(* Reading.  Indices are those of the code, from 0.                        *)

RECURSIVE ReadGroups(_, _, _, _)
ReadGroups(buf, i, shift, acc) ==
    IF shift >= WordBits THEN Err("overflow")
    ELSE IF i >= Len(buf) THEN Err("eof")
    ELSE LET b == buf[i + 1]
             w == Unsigned(acc + (b % 128) * 2^shift, WordBits)
         IN  IF b < 128 THEN Ok(w, i + 1) ELSE ReadGroups(buf, i + 1, shift + 7, w)

readVarint(buf, i) == ReadGroups(buf, i, 0, 0)

\* buf[i:j], which panics unless 0 <= i <= j <= len(buf).
Slice(buf, i, j) ==
    IF 0 <= i /\ i <= j /\ j <= Len(buf) THEN Ok(SubSeq(buf, i + 1, j), j)
    ELSE Err("panic")

\* Mutant: a length and that many bytes, the length taken as it comes.
readDelimitedUnchecked(buf, i) ==
    LET len == readVarint(buf, i) IN
    IF len.err # "none" THEN len
    ELSE LET post == Signed(len.next + Signed(len.val, WordBits), WordBits)
         IN  IF post > Len(buf) THEN Err("eof") ELSE Slice(buf, len.next, post)

\* The code: lengths and indices are signed words, and a negative one is an
\* error.
readDelimited(buf, i) ==
    LET len == readVarint(buf, i) IN
    IF len.err # "none" THEN len
    ELSE LET n    == Signed(len.val, WordBits)
             post == Signed(len.next + n, WordBits)
         IN  IF n < 0 \/ post < 0 THEN Err("length")
             ELSE IF post > Len(buf) THEN Err("eof")
             ELSE Slice(buf, len.next, post)

\* skipFabric: the length of the field that starts at buf[i]; groups nest.
RECURSIVE SkipFrom(_, _, _)
SkipFrom(buf, i, depth) ==
    IF i >= Len(buf) THEN Err("eof")
    ELSE LET wire == readVarint(buf, i) IN
    IF wire.err # "none" THEN wire
    ELSE LET wireType == wire.val % 8
             len == readVarint(buf, wire.next)
             past(j, d) == IF j < 0 THEN Err("length")
                           ELSE IF d = 0 THEN Ok(j, j) ELSE SkipFrom(buf, j, d)
         IN  CASE wireType = 0 ->
                    IF len.err # "none" THEN len ELSE past(len.next, depth)
               [] wireType = 1 -> past(wire.next + 8, depth)
               [] wireType = 2 ->
                    IF len.err # "none" THEN len
                    ELSE IF Signed(len.val, WordBits) < 0 THEN Err("length")
                    ELSE past(Signed(len.next + len.val, WordBits), depth)
               [] wireType = 3 -> past(wire.next, depth + 1)
               [] wireType = 4 ->
                    IF depth = 0 THEN Err("group") ELSE past(wire.next, depth - 1)
               [] wireType = 5 -> past(wire.next + 4, depth)
               [] OTHER -> Err("wiretype")

skip(buf) == SkipFrom(buf, 0, 0)

\* The code: iNdEx goes back to preIndex, and the tag is skipped again.
skipField(buf, preIndex) ==
    LET s == skip(SubSeq(buf, preIndex + 1, Len(buf))) IN
    IF s.err # "none" THEN s
    ELSE LET j == Signed(preIndex + s.val, WordBits) IN
         IF j < 0 THEN Err("length")
         ELSE IF j > Len(buf) THEN Err("eof") ELSE Ok(s.val, j)

---------------------------------------------------------------------------
(* The cases of an Unmarshal: the number, the Go field, how it is stored,  *)
(* and the cases of the message it holds.                                  *)

Case(num, name, kind) == [num |-> num, name |-> name, kind |-> kind, of |-> <<>>]
Nested(num, name, kind, of) == [num |-> num, name |-> name, kind |-> kind, of |-> of]

VarintKinds == {"word", "signed word", "half", "signed half", "bool"}

RECURSIVE ZeroMessage(_)
ZeroMessage(cases) ==
    [name \in {cases[k].name : k \in DOMAIN cases} |->
        LET c == cases[CHOOSE k \in DOMAIN cases : cases[k].name = name]
        IN  CASE c.kind = "bool" -> FALSE
              [] c.kind = "message" -> ZeroMessage(c.of)
              [] c.kind \in VarintKinds \ {"bool"} -> 0
              [] OTHER -> <<>>]

\* m.Field |= T(b&0x7F) << shift, for the T of the field.
Narrow(kind, w) == CASE kind = "word" -> w
                     [] kind = "signed word" -> Signed(w, WordBits)
                     [] kind = "half" -> Unsigned(w, HalfBits)
                     [] kind = "signed half" -> Signed(w, HalfBits)
                     [] kind = "bool" -> w # 0

\* A message, a pointer to one and the elements of a slice are decoded into
\* what the field already holds; strings and byte slices are replaced.
RECURSIVE UnmarshalFrom(_, _, _, _)
UnmarshalFrom(cases, m, buf, i) ==
    IF i >= Len(buf) THEN (IF i > Len(buf) THEN Err("eof") ELSE Ok(m, i))
    ELSE LET wire == readVarint(buf, i) IN
    IF wire.err # "none" THEN wire
    ELSE LET fieldNum == Signed(wire.val \div 8, HalfBits)
             wireType == wire.val % 8
             known == {k \in DOMAIN cases : cases[k].num = fieldNum}
         IN
    IF wireType = 4 THEN Err("group")
    ELSE IF fieldNum <= 0 THEN Err("tag")
    ELSE IF known = {} THEN
        LET s == skipField(buf, i) IN
        IF s.err # "none" THEN s ELSE UnmarshalFrom(cases, m, buf, s.next)
    ELSE LET c == cases[CHOOSE k \in known : TRUE]
             then(v, j) == UnmarshalFrom(cases, [m EXCEPT ![c.name] = v], buf, j)
         IN
    IF wireType # (IF c.kind \in VarintKinds THEN 0 ELSE 2) THEN Err("wiretype")
    ELSE IF c.kind \in VarintKinds THEN
        LET w == readVarint(buf, wire.next) IN
        IF w.err # "none" THEN w ELSE then(Narrow(c.kind, w.val), w.next)
    ELSE LET d == readDelimited(buf, wire.next)
             inner(into) == UnmarshalFrom(c.of, into, d.val, 0)
             stored(into, v(_)) ==
                 LET r == inner(into)
                 IN  IF r.err # "none" THEN r ELSE then(v(r.val), d.next)
         IN
    IF d.err # "none" THEN d
    ELSE CASE c.kind = "string" -> then(d.val, d.next)
           [] c.kind = "bytes" -> then(<<d.val>>, d.next)
           [] c.kind = "each" -> then(Append(m[c.name], d.val), d.next)
           [] c.kind = "message" -> stored(m[c.name], LAMBDA r : r)
           [] c.kind = "pointer" ->
                stored(IF m[c.name] = <<>> THEN ZeroMessage(c.of) ELSE m[c.name][1],
                       LAMBDA r : <<r>>)
           [] c.kind = "messages" ->
                stored(ZeroMessage(c.of), LAMBDA r : Append(m[c.name], r))

Unmarshal(cases, buf) == UnmarshalFrom(cases, ZeroMessage(cases), buf, 0)
=============================================================================
