\* Two workers race on the queue; the checker deduplicates by path.
CONSTANTS
  w1 = w1
  w2 = w2
  segA = segA
  segB = segB
  Workers <- MCWorkers
  Segments <- MCSegments
  MaxEnqueues = 4
  NoSegment = NoSegment
SPECIFICATION FairSpec
INVARIANT NoSegmentLost
PROPERTY EveryInjuredRepaired
