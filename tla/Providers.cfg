SPECIFICATION Spec
CONSTANTS
  Kinds <- AllKinds
  Interference <- Shared
  Target = "host"
  Other = "bystander"
  Types = {"A", "CNAME", "SRV", "TXT"}
  v1 = v1
  v2 = v2
  Vals = {v1, v2}
  MaxRows = 3
  MaxOutside = 2
  Retries = 1
  PageSize = 3
  Prefixes <- NoPrefix
  PerWrite = TRUE
  Companion = TRUE
  Apex = FALSE
  SharedLines = FALSE
  OddReplies = FALSE
  NoCall = NoCall
SYMMETRY ValSymmetry
INVARIANT
  TypeOK
PROPERTY
  Implements
  OperatorRowsKept
  AppliedWhenOk
