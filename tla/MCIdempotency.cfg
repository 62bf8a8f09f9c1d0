SPECIFICATION FairSpec
CONSTANTS
  c1 = c1  c2 = c2  c3 = c3
  k1 = k1
  h1 = h1  h2 = h2
  b1 = b1
  NoBody = NoBody
  NoRow = NoRow
  Connections <- ThreeConnections
  Keys <- OneKey
  Hashes <- TwoHashes
  Bodies <- OneBody
INVARIANT DecidedOnce
PROPERTIES WaitsEnd ImplementsPromise
