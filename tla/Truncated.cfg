SPECIFICATION Spec
CONSTANTS
  a = a
  b = b
  c = c
  old = old
  new = new
  Hosts = {a, b, c}
  Vals = {old, new}
  NoVal = NoVal
  ChunkSize = 2
  ReplySize = 1
  MaxChunks = 4
  MaxFaults = 0
  MaxChanges = 0
INVARIANT
  NamesStored
