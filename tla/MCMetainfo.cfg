\* One uplink overwriting the object repeatedly, with no refused commits and no crashes.
CONSTANTS
  s1 = s1
  s2 = s2
  Sessions <- MCOneSession
  MaxSegments = 3
  MaxUploads = 4
  MaxCrashes = 0
  ClientFailures = FALSE
  BandwidthExceeded = TRUE
  NoPointer = NoPointer
  p1 = p1
  Partners <- MCPartners
  NoPartner = NoPartner
  NoBucket = NoBucket
  MaxBucketCalls = 4
  MaxPieces = 3
  ListLimit = 2
  MaxListCalls = 2
  MaxDownloads = 2
SPECIFICATION Spec
INVARIANT TypeOK
INVARIANT PointersNotLost
PROPERTY CommitObjectCommitsItsUpload
PROPERTY OldWriteCommitsItsUpload
INVARIANT FilterValidPiecesMeetsReference
