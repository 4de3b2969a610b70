CONSTANTS
  d1 = d1
  d2 = d2
  i1 = i1
  i2 = i2
  None = None
  Lines = {d1, d2, i1, i2}
  NBanks = 1
  LineUnits = 4
  WordUnits = 2
  Values = {0, 1, 2, 3, 4, 5, 6, 7, 8, 9}
  Zero = 0
  ReadLatency = 2
  WriteLatency = 2
  Image <- SmallImage
  DataRequests <- AlignedData
  FetchRequests <- LineFetches
SPECIFICATION Spec
INVARIANTS LoadExact FetchExact InStep
PROPERTIES RefinesMemory RequestsServed
