SPECIFICATION Spec
CONSTANTS
  a = a
  b = b
  c = c
  old = old
  new = new
  Hosts = {a, b, c}
  Vals = {old, new}
  NoVal = NoVal
  ChunkSize = 2
  ReplySize = 2
  MaxChunks = 4
  MaxFaults = 1
  MaxChanges = 3
INVARIANT
  TypeOK
  NamesStored
PROPERTY
  WantedListed
