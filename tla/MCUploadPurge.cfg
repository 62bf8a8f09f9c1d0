SPECIFICATION FairUploadSpec
CONSTANTS
  c1 = c1  c2 = c2
  h1 = h1  h2 = h2
  b1 = b1  b2 = b2
  NoBody = NoBody
  NoRow = NoRow
  NoObject = NoObject
  Connections <- OneConnection
  Keys <- TwoKeys
  Hashes <- OneHash
  Bodies <- OneBody
  MaximumCount = 2
  MaxDeletes = 1
PROPERTIES OrphansArePurged
