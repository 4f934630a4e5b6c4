CONSTANTS
  r1 = r1
  r2 = r2
  r3 = r3
  Requests = {r1, r2, r3}
  Contents <- UploadContents
  Files = {1, 2, 3, 4, 5, 6, 7, 8, 9}
  Parts = 2
  Holed <- HoledChunks
  None = None
  Workloads <- UploadWorkloads
SPECIFICATION Spec
INVARIANTS
  TypeOK
  ObjectsBecomeWhole
  UploadsAreFaithful
  ProtocolSuffices
CHECK_DEADLOCK FALSE
