\* An upload abandoned after a refused segment commit, then a new upload of the object.
CONSTANTS
  s1 = s1
  s2 = s2
  Sessions <- MCOneSession
  MaxSegments = 3
  MaxUploads = 3
  MaxCrashes = 0
  ClientFailures = TRUE
  BandwidthExceeded = FALSE
  NoPointer = NoPointer
  p1 = p1
  Partners <- MCPartners
  NoPartner = NoPartner
  NoBucket = NoBucket
  MaxBucketCalls = 1
  MaxPieces = 3
  ListLimit = 2
  MaxListCalls = 0
  MaxDownloads = 0
SPECIFICATION Spec
PROPERTY CommitObjectCommitsItsUpload
