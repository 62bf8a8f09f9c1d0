SPECIFICATION UploadSpec
CONSTANTS
  c1 = c1  c2 = c2
  h1 = h1  h2 = h2
  b1 = b1  b2 = b2
  NoBody = NoBody
  NoRow = NoRow
  NoObject = NoObject
  Connections <- TwoConnections
  Keys <- TwoKeys
  Hashes <- TwoHashes
  Bodies <- TwoBodies
  MaximumCount = 1
  MaxDeletes = 1
CONSTRAINT OneKeyOrOneContent
SYMMETRY Symmetry
INVARIANTS UploadTypeOK FilesMatchAnswers UnchangedCandidatesAreOrphans AttachmentLimit
