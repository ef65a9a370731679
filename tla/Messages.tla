------------------------------ MODULE Messages ------------------------------
(***************************************************************************)
(* The messages of the repository: for each the cases of its Unmarshal, the *)
(* bytes its MarshalToSizedBuffer writes and the bytes its Size counts.     *)
(* The three are separate code and have to agree on tags, kinds and order.  *)
(***************************************************************************)
EXTENDS Wire

---------------------------------------------------------------------------
(* chaincode/commitment                                                    *)

Sequence_Cases ==
    <<Case(1, "Value", "word"), Case(2, "Timestamp", "signed word")>>
Sequence_Bytes(m) == PutVarint(8, m.Value) \o PutVarint(16, m.Timestamp)
Sequence_Size(m) == SizeVarint(m.Value) + SizeVarint(m.Timestamp)

CommitmentEntry_Cases == <<Case(1, "Key", "string"), Case(2, "Value", "string")>>
CommitmentEntry_Bytes(m) == PutString(10, m.Key) \o PutString(18, m.Value)
CommitmentEntry_Size(m) == SizeString(m.Key) + SizeString(m.Value)

---------------------------------------------------------------------------
(* light-clients/fabric/types                                              *)

MessageProof_Cases ==
    <<Case(1, "Identities", "each"), Case(2, "Signatures", "each")>>
MessageProof_Bytes(m) == PutEach(10, m.Identities) \o PutEach(18, m.Signatures)
MessageProof_Size(m) ==
    SizeEach(Each(m.Identities, Len)) + SizeEach(Each(m.Signatures, Len))

CommitmentProof_Cases ==
    <<Case(1, "Proposal", "bytes"), Case(2, "NsIndex", "half"),
      Case(3, "WriteSetIndex", "half"), Case(4, "Identities", "each"),
      Case(5, "Signatures", "each")>>
CommitmentProof_Bytes(m) ==
    PutBytes(10, m.Proposal) \o PutVarint(16, m.NsIndex) \o
    PutVarint(24, m.WriteSetIndex) \o PutEach(34, m.Identities) \o
    PutEach(42, m.Signatures)
CommitmentProof_Size(m) ==
    SizeBytes(m.Proposal) + SizeVarint(m.NsIndex) + SizeVarint(m.WriteSetIndex) +
    SizeEach(Each(m.Identities, Len)) + SizeEach(Each(m.Signatures, Len))

ConsensusState_Cases == <<Case(1, "Timestamp", "signed word")>>
ConsensusState_Bytes(m) == PutVarint(8, m.Timestamp)
ConsensusState_Size(m) == SizeVarint(m.Timestamp)

Prefix_Cases == <<Case(1, "Value", "bytes")>>
Prefix_Bytes(m) == PutBytes(10, m.Value)
Prefix_Size(m) == SizeBytes(m.Value)

ChaincodeID_Cases ==
    <<Case(1, "Path", "string"), Case(2, "Name", "string"),
      Case(3, "Version", "string")>>
ChaincodeID_Bytes(m) ==
    PutString(10, m.Path) \o PutString(18, m.Name) \o PutString(26, m.Version)
ChaincodeID_Size(m) ==
    SizeString(m.Path) + SizeString(m.Name) + SizeString(m.Version)

ChaincodeInfo_Cases ==
    <<Case(1, "ChannelId", "string"),
      Nested(2, "ChaincodeId", "message", ChaincodeID_Cases),
      Case(3, "EndorsementPolicy", "bytes"), Case(4, "IbcPolicy", "bytes"),
      Nested(5, "Proof", "pointer", MessageProof_Cases)>>
ChaincodeInfo_Bytes(m) ==
    PutString(10, m.ChannelId) \o
    PutDelimited(18, ChaincodeID_Bytes(m.ChaincodeId)) \o
    PutBytes(26, m.EndorsementPolicy) \o PutBytes(34, m.IbcPolicy) \o
    PutEach(42, Each(m.Proof, MessageProof_Bytes))
ChaincodeInfo_Size(m) ==
    SizeString(m.ChannelId) + SizeDelimited(ChaincodeID_Size(m.ChaincodeId)) +
    SizeBytes(m.EndorsementPolicy) + SizeBytes(m.IbcPolicy) +
    SizeEach(Each(m.Proof, MessageProof_Size))

ChaincodeHeader_Cases ==
    <<Nested(1, "Sequence", "message", Sequence_Cases),
      Nested(2, "Proof", "message", CommitmentProof_Cases)>>
ChaincodeHeader_Bytes(m) ==
    PutDelimited(10, Sequence_Bytes(m.Sequence)) \o
    PutDelimited(18, CommitmentProof_Bytes(m.Proof))
ChaincodeHeader_Size(m) ==
    SizeDelimited(Sequence_Size(m.Sequence)) +
    SizeDelimited(CommitmentProof_Size(m.Proof))

\* Mutant: the cases with the numbers of Config and Policy exchanged.
MSPHeader_CasesSwapped ==
    <<Case(1, "Type", "signed half"), Case(2, "MSPID", "string"),
      Case(4, "Config", "bytes"), Case(3, "Policy", "bytes"),
      Nested(5, "Proof", "pointer", MessageProof_Cases)>>
MSPHeader_Cases ==
    <<Case(1, "Type", "signed half"), Case(2, "MSPID", "string"),
      Case(3, "Config", "bytes"), Case(4, "Policy", "bytes"),
      Nested(5, "Proof", "pointer", MessageProof_Cases)>>
MSPHeader_Bytes(m) ==
    PutVarint(8, m.Type) \o PutString(18, m.MSPID) \o PutBytes(26, m.Config) \o
    PutBytes(34, m.Policy) \o PutEach(42, Each(m.Proof, MessageProof_Bytes))
MSPHeader_Size(m) ==
    SizeVarint(m.Type) + SizeString(m.MSPID) + SizeBytes(m.Config) +
    SizeBytes(m.Policy) + SizeEach(Each(m.Proof, MessageProof_Size))

MSPHeaders_Cases == <<Nested(1, "Headers", "messages", MSPHeader_Cases)>>
MSPHeaders_Bytes(m) == PutEach(10, Each(m.Headers, MSPHeader_Bytes))
MSPHeaders_Size(m) == SizeEach(Each(m.Headers, MSPHeader_Size))

MSPInfo_Cases ==
    <<Case(1, "MSPID", "string"), Case(2, "Config", "bytes"),
      Case(3, "Policy", "bytes"), Case(4, "Freezed", "bool")>>
MSPInfo_Bytes(m) ==
    PutString(10, m.MSPID) \o PutBytes(18, m.Config) \o PutBytes(26, m.Policy) \o
    PutBool(32, m.Freezed)
MSPInfo_Size(m) ==
    SizeString(m.MSPID) + SizeBytes(m.Config) + SizeBytes(m.Policy) +
    SizeBool(m.Freezed)

MSPInfos_Cases == <<Nested(1, "Infos", "messages", MSPInfo_Cases)>>
MSPInfos_Bytes(m) == PutEach(10, Each(m.Infos, MSPInfo_Bytes))
MSPInfos_Size(m) == SizeEach(Each(m.Infos, MSPInfo_Size))

Header_Cases ==
    <<Nested(1, "ChaincodeHeader", "pointer", ChaincodeHeader_Cases),
      Nested(2, "ChaincodeInfo", "pointer", ChaincodeInfo_Cases),
      Nested(3, "MSPHeaders", "pointer", MSPHeaders_Cases)>>
Header_Bytes(m) ==
    PutEach(10, Each(m.ChaincodeHeader, ChaincodeHeader_Bytes)) \o
    PutEach(18, Each(m.ChaincodeInfo, ChaincodeInfo_Bytes)) \o
    PutEach(26, Each(m.MSPHeaders, MSPHeaders_Bytes))
Header_Size(m) ==
    SizeEach(Each(m.ChaincodeHeader, ChaincodeHeader_Size)) +
    SizeEach(Each(m.ChaincodeInfo, ChaincodeInfo_Size)) +
    SizeEach(Each(m.MSPHeaders, MSPHeaders_Size))

ClientState_Cases ==
    <<Case(1, "Id", "string"),
      Nested(2, "LastChaincodeHeader", "message", ChaincodeHeader_Cases),
      Nested(3, "LastChaincodeInfo", "message", ChaincodeInfo_Cases),
      Nested(4, "LastMspInfos", "message", MSPInfos_Cases)>>
ClientState_Bytes(m) ==
    PutString(10, m.Id) \o
    PutDelimited(18, ChaincodeHeader_Bytes(m.LastChaincodeHeader)) \o
    PutDelimited(26, ChaincodeInfo_Bytes(m.LastChaincodeInfo)) \o
    PutDelimited(34, MSPInfos_Bytes(m.LastMspInfos))
ClientState_Size(m) ==
    SizeString(m.Id) +
    SizeDelimited(ChaincodeHeader_Size(m.LastChaincodeHeader)) +
    SizeDelimited(ChaincodeInfo_Size(m.LastChaincodeInfo)) +
    SizeDelimited(MSPInfos_Size(m.LastMspInfos))

---------------------------------------------------------------------------
(* chaincode/app                                                           *)

RequestQuery_Cases == <<Case(1, "Data", "string"), Case(2, "Path", "string")>>
RequestQuery_Bytes(m) == PutString(10, m.Data) \o PutString(18, m.Path)
RequestQuery_Size(m) == SizeString(m.Data) + SizeString(m.Path)

ResponseQuery_Cases == <<Case(1, "Key", "string"), Case(2, "Value", "string")>>
ResponseQuery_Bytes(m) == PutString(10, m.Key) \o PutString(18, m.Value)
ResponseQuery_Size(m) == SizeString(m.Key) + SizeString(m.Value)

ResponseTx_Cases ==
    <<Case(1, "Data", "string"), Case(2, "Log", "string"),
      Case(3, "Events", "string")>>
ResponseTx_Bytes(m) ==
    PutString(10, m.Data) \o PutString(18, m.Log) \o PutString(26, m.Events)
ResponseTx_Size(m) ==
    SizeString(m.Data) + SizeString(m.Log) + SizeString(m.Events)

---------------------------------------------------------------------------
(* relay                                                                   *)

ChainConfig_Cases ==
    <<Case(1, "ChainId", "string"), Case(2, "WalletLabel", "string"),
      Case(3, "ConnectionProfilePath", "string"), Case(4, "Channel", "string"),
      Case(5, "ChaincodeId", "string")>>
ChainConfig_Bytes(m) ==
    PutString(10, m.ChainId) \o PutString(18, m.WalletLabel) \o
    PutString(26, m.ConnectionProfilePath) \o PutString(34, m.Channel) \o
    PutString(42, m.ChaincodeId)
ChainConfig_Size(m) ==
    SizeString(m.ChainId) + SizeString(m.WalletLabel) +
    SizeString(m.ConnectionProfilePath) + SizeString(m.Channel) +
    SizeString(m.ChaincodeId)

ProverConfig_Cases ==
    <<Case(1, "IbcPolicies", "each"), Case(2, "EndorsementPolicies", "each"),
      Case(3, "MspConfigPaths", "each")>>
ProverConfig_Bytes(m) ==
    PutEach(10, m.IbcPolicies) \o PutEach(18, m.EndorsementPolicies) \o
    PutEach(26, m.MspConfigPaths)
ProverConfig_Size(m) ==
    SizeEach(Each(m.IbcPolicies, Len)) +
    SizeEach(Each(m.EndorsementPolicies, Len)) +
    SizeEach(Each(m.MspConfigPaths, Len))

---------------------------------------------------------------------------
(* A message of any type.                                                  *)

MessageTypes ==
    {"Sequence", "CommitmentEntry", "MessageProof", "CommitmentProof",
     "ConsensusState", "Prefix", "ChaincodeID", "ChaincodeInfo",
     "ChaincodeHeader", "MSPHeader", "MSPHeaders", "MSPInfo", "MSPInfos",
     "Header", "ClientState", "RequestQuery", "ResponseQuery", "ResponseTx",
     "ChainConfig", "ProverConfig"}

Cases(t) ==
    CASE t = "Sequence" -> Sequence_Cases
      [] t = "CommitmentEntry" -> CommitmentEntry_Cases
      [] t = "MessageProof" -> MessageProof_Cases
      [] t = "CommitmentProof" -> CommitmentProof_Cases
      [] t = "ConsensusState" -> ConsensusState_Cases
      [] t = "Prefix" -> Prefix_Cases
      [] t = "ChaincodeID" -> ChaincodeID_Cases
      [] t = "ChaincodeInfo" -> ChaincodeInfo_Cases
      [] t = "ChaincodeHeader" -> ChaincodeHeader_Cases
      [] t = "MSPHeader" -> MSPHeader_Cases
      [] t = "MSPHeaders" -> MSPHeaders_Cases
      [] t = "MSPInfo" -> MSPInfo_Cases
      [] t = "MSPInfos" -> MSPInfos_Cases
      [] t = "Header" -> Header_Cases
      [] t = "ClientState" -> ClientState_Cases
      [] t = "RequestQuery" -> RequestQuery_Cases
      [] t = "ResponseQuery" -> ResponseQuery_Cases
      [] t = "ResponseTx" -> ResponseTx_Cases
      [] t = "ChainConfig" -> ChainConfig_Cases
      [] t = "ProverConfig" -> ProverConfig_Cases

\* Marshal: Size and MarshalToSizedBuffer.
Marshal(t, m) ==
    CASE t = "Sequence" -> Sized(Sequence_Size(m), Sequence_Bytes(m))
      [] t = "CommitmentEntry" -> Sized(CommitmentEntry_Size(m), CommitmentEntry_Bytes(m))
      [] t = "MessageProof" -> Sized(MessageProof_Size(m), MessageProof_Bytes(m))
      [] t = "CommitmentProof" -> Sized(CommitmentProof_Size(m), CommitmentProof_Bytes(m))
      [] t = "ConsensusState" -> Sized(ConsensusState_Size(m), ConsensusState_Bytes(m))
      [] t = "Prefix" -> Sized(Prefix_Size(m), Prefix_Bytes(m))
      [] t = "ChaincodeID" -> Sized(ChaincodeID_Size(m), ChaincodeID_Bytes(m))
      [] t = "ChaincodeInfo" -> Sized(ChaincodeInfo_Size(m), ChaincodeInfo_Bytes(m))
      [] t = "ChaincodeHeader" -> Sized(ChaincodeHeader_Size(m), ChaincodeHeader_Bytes(m))
      [] t = "MSPHeader" -> Sized(MSPHeader_Size(m), MSPHeader_Bytes(m))
      [] t = "MSPHeaders" -> Sized(MSPHeaders_Size(m), MSPHeaders_Bytes(m))
      [] t = "MSPInfo" -> Sized(MSPInfo_Size(m), MSPInfo_Bytes(m))
      [] t = "MSPInfos" -> Sized(MSPInfos_Size(m), MSPInfos_Bytes(m))
      [] t = "Header" -> Sized(Header_Size(m), Header_Bytes(m))
      [] t = "ClientState" -> Sized(ClientState_Size(m), ClientState_Bytes(m))
      [] t = "RequestQuery" -> Sized(RequestQuery_Size(m), RequestQuery_Bytes(m))
      [] t = "ResponseQuery" -> Sized(ResponseQuery_Size(m), ResponseQuery_Bytes(m))
      [] t = "ResponseTx" -> Sized(ResponseTx_Size(m), ResponseTx_Bytes(m))
      [] t = "ChainConfig" -> Sized(ChainConfig_Size(m), ChainConfig_Bytes(m))
      [] t = "ProverConfig" -> Sized(ProverConfig_Size(m), ProverConfig_Bytes(m))

\* What decoding gives back for m: an empty byte slice that was not nil has
\* become nil, everything else is as it was.
RECURSIVE Canonical(_, _)
Canonical(cases, m) ==
    [name \in DOMAIN m |->
        LET c == cases[CHOOSE k \in DOMAIN cases : cases[k].name = name]
            v == m[name]
        IN  CASE c.kind = "bytes" -> IF v = << <<>> >> THEN <<>> ELSE v
              [] c.kind = "message" -> Canonical(c.of, v)
              [] c.kind \in {"pointer", "messages"} ->
                    Each(v, LAMBDA e : Canonical(c.of, e))
              [] OTHER -> v]
=============================================================================
