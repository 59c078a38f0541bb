SPECIFICATION FairSpec
CONSTANTS
  MaxLen = 2
  MaxOut = 2
  MaxBatch = 2
  MaxWrites <- MCMaxWrites
INVARIANTS
  TypeOK
  StreamIsIntact
  EOFIsTheEnd
PROPERTIES
  FirstErrorStays
  NoStall
