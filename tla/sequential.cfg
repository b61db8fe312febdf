CONSTANTS
  Heads <- SampleHeads
  Size = 26
  Int32s = 512
  Varints = 1048576
  Strings <- SampleStrings
  Numbers <- SampleNumbers
  Arrivals <- SampleArrivals
  IntBits = 4
  LargestBits = 7
  Mantissa = 5
  MaxExponent = 2
  stackLimit = 3
  Starts <- SampleDocuments
  Puts <- SamplePuts
  Names <- SampleNames
  MaxSize = 4
  NULL = NULL
  SecondsPerMinute = 2
  SecondsPerDay = 6
  Summer = {2, 3, 4}
  Shift = 2
  MaxIndex = 1
  MaxTime = 6
  MaxLag = 1
  MaxRecords = 4
  MaxFaults = 2
  Limits = {1, 4096}
  Reserves = {0, 1, 4}
  ForceReserve = 1
SPECIFICATION Spec
INVARIANTS HeadKept MessageKept DocumentConverts ValuesOrdered JsonKept JsonRead ReadersAgree OneDay SizeBound OpenFileKept NamesAscend
PROPERTIES ActsAsContainer
CHECK_DEADLOCK FALSE
