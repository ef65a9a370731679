------------------------------- MODULE Codec -------------------------------
(***************************************************************************)
(* A message on its way: a process of the system builds and marshals it,   *)
(* and another one, possibly built from newer or older .proto files,       *)
(* unmarshals it.  This is how headers, proofs, client and consensus       *)
(* states, sequences and commitment entries travel between the chaincode,  *)
(* the relayer and the chain that runs the light client, and how they are  *)
(* stored.                                                                 *)
(*                                                                         *)
(* Unmarshal also meets bytes that nobody marshalled: an argument of a     *)
(* transaction, or a value that was cut short or written by other          *)
(* software.  Such a buffer grows a byte at a time, so that every prefix   *)
(* of it is decoded as well.                                               *)
(***************************************************************************)
EXTENDS Messages

CONSTANTS
    Values(_),      \* the values of each message type that are sent
    UnknownFields,  \* encoded fields that only a newer sender knows
    RawTypes,       \* the message types that other bytes are decoded as
    Alphabet,       \* the bytes that occur in them
    MaxLen          \* bound on their number

VARIABLES
    type,      \* the message type
    msg,       \* the value sent
    phase,     \* "made", "sent", "received" or "failed"; "raw" for other bytes
    wire,      \* the bytes
    extended,  \* whether the sender added a field the receiver does not know
    got        \* what Unmarshal returned

vars == <<type, msg, phase, wire, extended, got>>

Init ==
    /\ \/ type \in MessageTypes /\ msg \in Values(type) /\ phase = "made"
       \/ type \in RawTypes /\ msg = ZeroMessage(Cases(type)) /\ phase = "raw"
    /\ wire = <<>> /\ extended = FALSE /\ got = Err("none yet")

Send ==
    /\ phase = "made"
    /\ LET r == Marshal(type, msg)
       IN  /\ phase' = IF r.err = "none" THEN "sent" ELSE "failed"
           /\ wire' = IF r.err = "none" THEN r.val ELSE <<>>
    /\ UNCHANGED <<type, msg, extended, got>>

\* The sender's .proto has one more field, before or behind the known ones.
Extend(u) ==
    /\ phase = "sent" /\ ~extended
    /\ wire' \in {u \o wire, wire \o u}
    /\ extended' = TRUE
    /\ UNCHANGED <<type, msg, phase, got>>

Receive ==
    /\ phase = "sent"
    /\ got' = Unmarshal(Cases(type), wire)
    /\ phase' = "received"
    /\ UNCHANGED <<type, msg, wire, extended>>

Feed(b) ==
    /\ phase = "raw" /\ Len(wire) < MaxLen
    /\ wire' = Append(wire, b)
    /\ UNCHANGED <<type, msg, phase, extended, got>>

Next ==
    \/ Send
    \/ \E u \in UnknownFields : Extend(u)
    \/ Receive
    \/ \E b \in Alphabet : Feed(b)

Spec == Init /\ [][Next]_vars

---------------------------------------------------------------------------
(* The methods of the headers that look at encoded bytes or nil slices.    *)

\* Mutant: leaves the type out of what is signed.
GetSignBytesUntyped(mh) == MSPHeader_Bytes([mh EXCEPT !.Proof = <<>>, !.Type = 0])

GetSignBytes(mh) == MSPHeader_Bytes([mh EXCEPT !.Proof = <<>>])

ChaincodeInfo_GetSignBytes(ci) == ChaincodeInfo_Bytes([ci EXCEPT !.Proof = <<>>])

MSPHeaderTypeCreate == 0
MSPHeaderTypeUpdatePolicy == 1
MSPHeaderTypeUpdateConfig == 2
MSPHeaderTypeFreeze == 3

ValidateBasic(mh) ==
    /\ mh.MSPID # <<>>
    /\ \/ mh.Type = MSPHeaderTypeCreate /\ mh.Config # <<>> /\ mh.Policy # <<>>
       \/ mh.Type = MSPHeaderTypeUpdatePolicy /\ mh.Config = <<>> /\ mh.Policy # <<>>
       \/ mh.Type = MSPHeaderTypeUpdateConfig /\ mh.Config # <<>> /\ mh.Policy = <<>>
       \/ mh.Type = MSPHeaderTypeFreeze /\ mh.Config = <<>> /\ mh.Policy = <<>>
    /\ mh.Proof # <<>>

---------------------------------------------------------------------------
(* Properties.                                                             *)

Received == phase = "received"

\* What one process marshals another unmarshals to the same message, except
\* that an empty byte slice arrives as nil.  In particular Size counts exactly
\* what MarshalToSizedBuffer writes into the buffer of that size, and the tags,
\* kinds and integer conversions of the two sides agree.  A field that the
\* receiver does not know, a group or a fixed-size one included, is skipped to
\* its end and changes nothing else of the message.
RoundTrip ==
    /\ phase # "failed"
    /\ Received => got = Ok(Canonical(Cases(type), msg), Len(wire))

\* What is signed determines what is signed for: two valid MSP headers, or two
\* chaincode infos, with the same GetSignBytes differ in nothing but the proof
\* (and, for the policies of a chaincode info, in nil against empty).
SignBytesBind ==
    phase = "made" =>
    /\ type = "MSPHeader" /\ ValidateBasic(msg) =>
        \A mh \in Values("MSPHeader") :
            ValidateBasic(mh) /\ GetSignBytes(mh) = GetSignBytes(msg)
                => [mh EXCEPT !.Proof = msg.Proof] = msg
    /\ type = "ChaincodeInfo" =>
        \A ci \in {v \in Values("ChaincodeInfo") : v.Proof = msg.Proof} :
            ChaincodeInfo_GetSignBytes(ci) = ChaincodeInfo_GetSignBytes(msg)
                => Canonical(ChaincodeInfo_Cases, ci) = Canonical(ChaincodeInfo_Cases, msg)

Decoded == Unmarshal(Cases(type), wire)

\* No buffer makes Unmarshal leave the bounds of a slice: every length, also one
\* that is negative or wraps an index, is refused before it is used.
NeverPanics == phase = "raw" => Decoded.err # "panic"

\* What Unmarshal accepts, however it was written (fields out of order or
\* repeated, varints longer than needed or wider than their field, parts of a
\* message spread over several fields), it reads as a message that marshals and
\* unmarshals to itself, so that storing it and reading it back changes nothing.
AcceptedIsStable ==
    phase = "raw" /\ Decoded.err = "none" =>
        LET m == Decoded.val
            again == Marshal(type, m)
        IN  /\ again.err = "none"
            /\ Unmarshal(Cases(type), again.val)
                    = Ok(Canonical(Cases(type), m), Len(again.val))

=============================================================================
