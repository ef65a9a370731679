SPECIFICATION Spec
CONSTANTS
  Clients <- MCClients
  Txs <- MCTxs
  MaxPackets = 2
  Data = {d1, d2, d3}
  Absent = Absent
  Unwritten = Unwritten
  None = None
  c1 = c1
  c2 = c2
  d1 = d1
  d2 = d2
  d3 = d3
INVARIANT RecordsQueryable
PROPERTY Serializable
