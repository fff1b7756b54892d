\* A failed assertion or a wait that is never answered ends a behaviour.
CHECK_DEADLOCK FALSE
INIT MCInit
NEXT MCNext
CONSTANTS
  Spans <- MCSpans
  Aligns = {0, 2}
  MaxRequest = 4
  MapObjects = {o1}
  NoObject = NoObject
  KwPages = {1, 2, 3, 4, 5, 6}
  KaSizes = {1, 8, 9, 24, 2040, 2041, 4096}
  KaSlots = {1, 2}
  PageSize = 4096
  KmCpus = {0, 1}
  PerSlab = 2
  MaxSlabs = 2
  MagSize = 1
  NoBuf = NoBuf
  MemoryMap <- MCMemoryMap
  BootUsed <- MCBootUsed
  BuddyOrders = 3
  Vpfns = {10, 11, 12}
  vpfn_hash <- MCvpfn_hash
  Capacity = 3
  HashSize = 3
  FirstLimit = 1
  Expansion = 1
  Attempts = 2
  Fanout <- MCFanout
  Walkers = {w1, w2}
  MaxCount = 4
  Windows = {1, 2}
  UbcThreads = {u1, u2}
  UbcVnodes = {v1, v2}
  UbcOffsets = 2
  NoVnode = NoVnode
INVARIANTS
  AddressesExact
  BuffersExact
  BlocksTile
  
  TablesCounted
  WindowsStable
