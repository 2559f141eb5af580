\* One uplink writing, listing and downloading the object, with refused
\* calls, failing order updates and a satellite crash.
CONSTANTS
  s1 = s1
  s2 = s2
  Sessions <- MCOneSession
  MaxSegments = 3
  MaxUploads = 3
  MaxCrashes = 1
  ClientFailures = TRUE
  BandwidthExceeded = TRUE
  NoPointer = NoPointer
  p1 = p1
  Partners <- MCPartners
  NoPartner = NoPartner
  NoBucket = NoBucket
  MaxBucketCalls = 2
  MaxPieces = 2
  ListLimit = 2
  MaxListCalls = 1
  MaxDownloads = 2
SPECIFICATION Spec
INVARIANT ListSegmentsPagesObject
INVARIANT DownloadReadsItsObject
