------------------------------ MODULE MCCodec ------------------------------
(* Sample values for every message type: the boundaries of the varint       *)
(* groups and of the words, and strings whose bytes look like tags; and the  *)
(* bytes of buffers that no process marshalled.                              *)
EXTENDS Codec, TLC

Strings == {<<>>, <<1>>, <<34, 1>>}
ByteSlices == {<<>>, << <<>> >>, << <<26>> >>, << <<26, 0>> >>}
Words == {0, 1, 127, 128, 2^14 - 1, 2^14, 2^15 - 1}

FieldNames(cases) == {cases[k].name : k \in DOMAIN cases}
CaseOf(cases, name) == cases[CHOOSE k \in DOMAIN cases : cases[k].name = name]

\* A message with every field set, its byte slices to <<b>>.
RECURSIVE Full(_, _)
Full(cases, b) ==
    [name \in FieldNames(cases) |->
        LET c == CaseOf(cases, name)
        IN  CASE c.kind = "bool" -> TRUE
              [] c.kind \in {"word", "half"} -> 128
              [] c.kind \in {"signed word", "signed half"} -> -1
              [] c.kind = "string" -> <<8, 1>>
              [] c.kind = "bytes" -> <<b>>
              [] c.kind = "each" -> << <<18>>, <<>> >>
              [] c.kind = "message" -> Full(c.of, b)
              [] c.kind \in {"pointer", "messages"} -> <<Full(c.of, b)>>]

Samples(cases) ==
    LET inner(c) == {ZeroMessage(c.of), Full(c.of, <<26, 0>>), Full(c.of, <<>>)}
        of(c) ==
          CASE c.kind = "bool" -> BOOLEAN
            [] c.kind = "word" -> Words
            [] c.kind = "signed word" -> {Signed(w, WordBits) : w \in Words}
            [] c.kind = "half" -> {0, 1, 128, 255}
            [] c.kind = "signed half" -> {-1, 0, 1, 2, 3, 127, -128}
            [] c.kind = "string" -> Strings
            [] c.kind = "bytes" -> ByteSlices
            [] c.kind = "each" -> {<<>>, << <<>> >>, << <<10>>, <<>> >>}
            [] c.kind = "message" -> inner(c)
            [] c.kind = "pointer" -> {<<>>} \cup {<<m>> : m \in inner(c)}
            [] c.kind = "messages" ->
                 {<<>>} \cup [1..1 -> inner(c)] \cup [1..2 -> inner(c)]
        RECURSIVE upto(_)
        upto(n) == IF n = 0 THEN {<<>>}
                   ELSE {p \o <<v>> : p \in upto(n - 1), v \in of(cases[n])}
    IN  {[name \in FieldNames(cases) |->
            t[CHOOSE k \in DOMAIN cases : cases[k].name = name]] :
         t \in upto(Len(cases))}

MCValues(t) == Samples(Cases(t))

\* Field 15 as a varint, as 8 and as 4 fixed bytes, as bytes that look like
\* field 1, and as a group that holds a group and a varint.
MCUnknownFields ==
    {<<120, 128, 1>>, <<121, 8, 8, 8, 8, 8, 8, 8, 8>>, <<125, 10, 10, 10, 10>>,
     <<122, 2, 8, 1>>, <<123, 11, 8, 1, 12, 124>>}

MCRawTypes == {"Sequence", "MSPHeader", "ChaincodeHeader", "MSPInfos"}

\* Tags of the fields 1, 2, 3 and 5, of a group and its end, a continuation byte
\* with a full group, and small lengths and values.
MCAlphabet == {0, 1, 2, 8, 10, 18, 26, 42, 11, 12, 127, 255}
=============================================================================
