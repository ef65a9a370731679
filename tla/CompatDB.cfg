SPECIFICATION Spec
CONSTANTS
  Base = 2
  StoresByte = 1
  Slash = 0
  StoreNames <- MCStoreNames
  SubKeys <- MCSubKeys
  RawKeys <- MCRawKeys
  DBValues = {v}
  Nil = Nil
  Unwritten = Unwritten
  MaxCommands = 2
INVARIANT RangesExact
PROPERTY BatchAppliedInOrder
