------------------------------ MODULE Metainfo ------------------------------
(***************************************************************************)
(* The satellite's metainfo endpoint (src/satellite/metainfo/metainfo.go) *)
(* serving the segment-level upload and delete protocol of one object     *)
(* path.  The pointer store maps the object's segment keys to pointers:    *)
(* CreatePath gives segment i the key "s<i>" (here the integer i) and the *)
(* last segment the key "l" (here LastKey = -1).  The paths carry no      *)
(* stream ID, so uploads of the same object path share the keys.          *)
(*                                                                         *)
(* Each uplink session overwrites the object the way the uplink library   *)
(* does: it deletes the existing object (BeginDeleteObject, then          *)
(* BeginDeleteSegment for each position ListSegments pages out), then     *)
(* uploads: BeginObject, per segment either BeginSegment *)
(* and CommitSegment or MakeInlineSegment, and CommitObject.  The         *)
(* uplink's side is not under src/; the handlers are.                      *)
(*                                                                         *)
(* Uplinks of earlier releases call the old segment API instead: they    *)
(* address a segment by path and send the pointer themselves, the last   *)
(* one at l with the stream metadata.                                     *)
(*                                                                         *)
(* Faults: with ClientFailures, a segment call may be refused (the        *)
(* validation, filterValidPieces or the usage limit) and the uplink then  *)
(* abandons the upload; up to MaxCrashes times the satellite crashes,     *)
(* failing every call in progress while the pointer store survives.       *)
(***************************************************************************)
EXTENDS Integers, FiniteSets, Sequences

CONSTANTS Sessions,        \* concurrent uplink sessions
          MaxSegments,     \* most segments an upload has
          MaxUploads,      \* bound on uploads (stream IDs) begun
          MaxCrashes,      \* bound on satellite crashes
          ClientFailures,  \* whether segment commits may be refused
          BandwidthExceeded, \* whether the project's bandwidth limit may be exceeded
          MaxPieces,       \* most pieces a request to filterValidPieces holds
          Partners,        \* partner IDs a request may carry
          MaxBucketCalls,  \* bound on bucket calls (create, delete, attribution)
          ListLimit,       \* listLimit, the most items a list call returns
          MaxListCalls,    \* bound on ListSegments calls
          MaxDownloads,    \* bound on object downloads
          NoPointer,
          NoPartner,       \* the zero partner ID: none given, or none stored
          NoBucket         \* no bucket row

ASSUME MaxSegments \in Nat \ {0} /\ MaxUploads \in Nat /\ MaxCrashes \in Nat
ASSUME ClientFailures \in BOOLEAN /\ MaxPieces \in Nat /\ MaxBucketCalls \in Nat
ASSUME ListLimit \in Nat \ {0} /\ MaxListCalls \in Nat /\ MaxDownloads \in Nat
ASSUME BandwidthExceeded \in BOOLEAN

LastKey == -1
SegKeys == 0..(MaxSegments - 1)
Keys == {LastKey} \cup SegKeys
Streams == 1..MaxUploads

\* A pointer: the upload (stream) and segment index its pieces belong to,
\* and the stream metadata stored with the last segment, 0 before: the
\* object's segment count, and whether it is in the clear
\* (NumberOfSegments, which the new API's uplinks set) or only in the
\* encrypted stream info, which only the uplink can read.
Pointer == [stream: Streams, idx: SegKeys, meta: 0..MaxSegments, plain: BOOLEAN]

\* The identity of a segment's pieces on the storage nodes.
Ident(p) == <<p.stream, p.idx>>

VARIABLES db,       \* key -> Pointer or NoPointer: the pointer store
          up,       \* session -> the uplink call in progress and its locals
          writes,   \* object writes started; write i uploads stream i
          crashes,  \* satellite crashes so far
          stored,   \* ghost: identities of segments committed and not deleted
          requests  \* createRequests: the segments CreateSegmentOld handed limits for

VARIABLES listCalls,  \* ListSegments calls made so far, outside downloads
          downloads   \* object downloads begun

readVars == <<listCalls, downloads>>

VARIABLES bucket,       \* the object's bucket row, by its PartnerID, or NoBucket
          attribution,  \* partnerinfo: the partner attributed the bucket name, or NoPartner
          bucketCalls   \* bucket calls made so far

bucketVars == <<bucket, attribution, bucketCalls>>
vars == <<db, up, writes, crashes, stored, requests, bucketVars, readVars>>

PartnerIDs == Partners \cup {NoPartner}

Idle == [pc |-> "idle", stream |-> 0, n |-> 0, next |-> 0, last |-> NoPointer, key |-> LastKey,
         partner |-> NoPartner, cursor |-> 0, limit |-> 0, items |-> <<>>, more |-> FALSE,
         dl |-> FALSE, del |-> FALSE, got |-> <<>>]

\* getPointer: Get of the path CreatePath builds; NoPointer is NotFound.
getPointer(k) == db[k]

Goto(u, pc) == up' = [up EXCEPT ![u].pc = pc]

\* The call in progress fails; the uplink gives up on this object write.
Fail(u) == up' = [up EXCEPT ![u] = Idle]

\* The call in progress returns, with success or an error.
Return(u) == up' = [up EXCEPT ![u] = Idle]

-----------------------------------------------------------------------------
(* ListSegments, which an uplink calls to page through the object's       *)
(* segment positions: a list of indices, lastSegment (LastKey) standing   *)
(* for l, and whether more follow.  The request's cursor is the first     *)
(* position wanted; the uplink's side is not under src/.                   *)

Cursors == 0..(MaxSegments - 1)
\* Request limits: 0 and anything above listLimit mean listLimit.
ListLimits == 0..(ListLimit + 1)

ListResult(items, more) == [items |-> items, more |-> more]

\* A variant whose check against the limit is off by one.
listSegmentsFromNumberOfSegmentGeq(numberOfSegments, cursorIndex, limit) ==
  LET n == numberOfSegments - cursorIndex
      more == n >= limit
      k == IF more THEN limit ELSE n - 1
  IN IF n <= 0 THEN ListResult(<<>>, FALSE)
     ELSE ListResult([i \in 1..k |-> i - 1 + cursorIndex] \o (IF more THEN <<>> ELSE <<LastKey>>), more)

\* listSegmentsFromNumberOfSegment: positions cursor.. of the count in the
\* clear; past the limit, more is set and l is left out; otherwise the
\* numbered ones and then l.
listSegmentsFromNumberOfSegment(numberOfSegments, cursorIndex, limit) ==
  LET n == numberOfSegments - cursorIndex
      more == n > limit
      k == IF more THEN limit ELSE n - 1
  IN IF n <= 0 THEN ListResult(<<>>, FALSE)
     ELSE ListResult([i \in 1..k |-> i - 1 + cursorIndex] \o (IF more THEN <<>> ELSE <<LastKey>>), more)

\* A variant of ListSegments that clamps only a zero limit.
ListSegmentsCallNoClamp(u, c, lim) ==
  LET limit == IF lim = 0 THEN ListLimit ELSE lim
      call == [up[u] EXCEPT !.cursor = c, !.limit = limit, !.items = <<>>, !.more = FALSE]
  IN CASE getPointer(LastKey) = NoPointer ->
            Fail(u)
       [] db[LastKey].plain ->
            LET r == listSegmentsFromNumberOfSegment(db[LastKey].meta, c, limit) IN
            up' = [up EXCEPT ![u] = [call EXCEPT !.pc = "lsDone", !.items = r.items,
                                                 !.more = r.more]]
       [] OTHER ->
            up' = [up EXCEPT ![u] = [call EXCEPT !.pc = "lsProbe", !.next = c]]

\* ListSegments with cursor c and limit lim: the limit is clamped, then
\* Get of l (NotFound is returned) and its stream metadata.  With the
\* count in the clear the page is computed; otherwise listSegmentsManually
\* probes the store.
ListSegmentsCall(u, c, lim) ==
  LET limit == IF lim = 0 \/ lim > ListLimit THEN ListLimit ELSE lim
      call == [up[u] EXCEPT !.cursor = c, !.limit = limit, !.items = <<>>, !.more = FALSE]
  IN CASE getPointer(LastKey) = NoPointer ->
            Fail(u)
       [] db[LastKey].plain ->
            LET r == listSegmentsFromNumberOfSegment(db[LastKey].meta, c, limit) IN
            up' = [up EXCEPT ![u] = [call EXCEPT !.pc = "lsDone", !.items = r.items,
                                                 !.more = r.more]]
       [] OTHER ->
            up' = [up EXCEPT ![u] = [call EXCEPT !.pc = "lsProbe", !.next = c]]

-----------------------------------------------------------------------------
(* Delete of the existing object, as the uplink drives it.                *)

\* A session starts overwriting the object.
StartWrite(u) ==
  /\ up[u].pc = "idle"
  /\ writes < MaxUploads
  /\ up' = [up EXCEPT ![u] = [Idle EXCEPT !.pc = "delObj", !.stream = writes + 1]]
  /\ writes' = writes + 1
  /\ UNCHANGED <<db, crashes, bucketVars, requests, stored, readVars>>

\* BeginDeleteObject: getPointer of l.  NotFound means there is nothing to
\* delete and the uplink goes on to upload; otherwise only the stream ID
\* is returned, and the uplink lists the segments from position 0.
BeginDeleteObject(u) ==
  /\ up[u].pc = "delObj"
  /\ IF getPointer(LastKey) = NoPointer
       THEN Goto(u, "begin")
       ELSE up' = [up EXCEPT ![u].pc = "delList", ![u].cursor = 0, ![u].del = TRUE]
  /\ UNCHANGED <<db, writes, crashes, bucketVars, requests, stored, readVars>>

\* The deleting uplink asks ListSegments for the next page of positions,
\* with a limit of its choosing.
DeleteList(u) ==
  /\ up[u].pc = "delList"
  /\ \E lim \in ListLimits : ListSegmentsCall(u, up[u].cursor, lim)
  /\ UNCHANGED <<db, writes, crashes, bucketVars, requests, stored, readVars>>

\* The key of segment position next of n: s<next>, or l for the last one.
\* The old API's delete and upload loops address segments by it.
DeleteKey(u) == IF up[u].next < up[u].n - 1 THEN up[u].next ELSE LastKey

\* A variant of BeginDeleteSegment that builds the path of l whatever the
\* requested position.
BeginDeleteSegmentGetLastOnly(u) ==
  /\ up[u].pc = "delSeg"
  /\ IF db[LastKey] = NoPointer
       THEN Fail(u)
       ELSE up' = [up EXCEPT ![u].pc = "delDel", ![u].last = db[LastKey], ![u].key = LastKey]
  /\ UNCHANGED <<db, writes, crashes, bucketVars, requests, stored, readVars>>

\* BeginDeleteSegment, first half, for the page's item next: getPointer of
\* its position; NotFound fails.
BeginDeleteSegmentGet(u) ==
  LET k == up[u].items[up[u].next] IN
  /\ up[u].pc = "delSeg"
  /\ IF getPointer(k) = NoPointer
       THEN Fail(u)
       ELSE up' = [up EXCEPT ![u].pc = "delDel", ![u].last = db[k], ![u].key = k]
  /\ UNCHANGED <<db, writes, crashes, bucketVars, requests, stored, readVars>>

\* Second half: UnsynchronizedDelete of the path, whatever it holds now;
\* the delete order limits returned are those of the pointer read, whose
\* pieces the uplink then deletes.  FinishDeleteSegment does nothing.
\* After the page's last item the uplink lists again from the position
\* after it, or, with no more positions, goes on to upload.
BeginDeleteSegmentDelete(u) ==
  LET k == up[u].key
      pageDone == up[u].next = Len(up[u].items)
  IN
  /\ up[u].pc = "delDel"
  /\ db' = [db EXCEPT ![k] = NoPointer]
  /\ stored' = stored \ {Ident(up[u].last)}
  /\ up' = [up EXCEPT ![u].pc = IF ~pageDone THEN "delSeg"
                                ELSE IF up[u].more THEN "delList" ELSE "begin",
                      ![u].next = @ + 1, ![u].last = NoPointer,
                      ![u].cursor = IF pageDone THEN k + 1 ELSE @]
  /\ UNCHANGED <<writes, crashes, bucketVars, requests, readVars>>

-----------------------------------------------------------------------------
(* Upload.                                                                 *)

\* BeginObject: a new stream ID (its CreationDate is unique); the uplink
\* knows how many segments it will upload.  GetBucket must find the
\* bucket (its default redundancy fills the request's gaps); otherwise
\* InvalidArgument.
BeginObject(u) ==
  /\ up[u].pc = "begin"
  /\ IF bucket = NoBucket
       THEN Fail(u)
       ELSE \E n \in 1..MaxSegments :
              up' = [up EXCEPT ![u] = [Idle EXCEPT !.pc = "seg", !.stream = up[u].stream, !.n = n]]
  /\ UNCHANGED <<db, writes, crashes, bucketVars, requests, stored, readVars>>

\* The pointer of the session's next segment.
SegmentPointer(u) == [stream |-> up[u].stream, idx |-> up[u].next, meta |-> 0, plain |-> FALSE]

\* Put of the next segment at "s<next>".
StoreSegment(u) ==
  /\ db' = [db EXCEPT ![up[u].next] = SegmentPointer(u)]
  /\ stored' = stored \cup {Ident(SegmentPointer(u))}

\* The Put, and the uplink moving on to its next segment or CommitObject.
PutSegment(u) ==
  /\ StoreSegment(u)
  /\ up' = [up EXCEPT ![u].next = IF up[u].next + 1 = up[u].n THEN 0 ELSE @ + 1,
                      ![u].pc = IF up[u].next + 1 = up[u].n THEN "probe" ELSE "seg"]

\* BeginSegment: the segment index check, the usage limit, node selection
\* and the put order limits; nothing is stored.  The usage limit or too
\* few nodes may refuse it.
BeginSegment(u) ==
  /\ up[u].pc = "seg"
  /\ \/ Goto(u, "segBegun")
     \/ /\ ClientFailures
        /\ Fail(u)
  /\ UNCHANGED <<db, writes, crashes, bucketVars, requests, stored, readVars>>

\* CommitSegment of the remote segment begun.  The result count,
\* validatePointer, filterValidPieces, the usage limit and the size check
\* may refuse it; otherwise Put.
CommitSegment(u) ==
  /\ up[u].pc = "segBegun"
  /\ \/ PutSegment(u)
     \/ /\ ClientFailures
        /\ Fail(u)
        /\ UNCHANGED <<db, stored, readVars>>
  /\ UNCHANGED <<writes, crashes, bucketVars, requests, readVars>>

\* MakeInlineSegment, which the uplink calls instead of BeginSegment for a
\* small segment: the usage limit may refuse it; otherwise Put, after
\* which UpdatePutInlineOrder may fail the call with the pointer stored.
MakeInlineSegment(u) ==
  /\ up[u].pc = "seg"
  /\ \/ PutSegment(u)
     \/ /\ ClientFailures
        /\ Fail(u)
        /\ UNCHANGED <<db, stored, readVars>>
     \/ /\ ClientFailures
        /\ StoreSegment(u)
        /\ Fail(u)
  /\ UNCHANGED <<writes, crashes, bucketVars, requests, readVars>>

\* A variant of CommitObject's loop that stops at the first segment found.
CommitObjectProbeFirstOnly(u) ==
  LET k == up[u].next IN
  /\ up[u].pc = "probe"
  /\ IF k \in SegKeys /\ db[k] # NoPointer
       THEN up' = [up EXCEPT ![u].last = db[k], ![u].key = k, ![u].pc = "delete"]
       ELSE IF up[u].last = NoPointer
              THEN Fail(u)
              ELSE Goto(u, "delete")
  /\ UNCHANGED <<db, writes, crashes, bucketVars, requests, stored, readVars>>

\* CommitObject's loop: GetWithBytes of s<next> for next = 0, 1, ... until
\* the first miss; the last pointer found is the object's last segment.
\* No pointer found at all is NotFound.
CommitObjectProbe(u) ==
  LET k == up[u].next IN
  /\ up[u].pc = "probe"
  /\ IF k \in SegKeys /\ db[k] # NoPointer
       THEN up' = [up EXCEPT ![u].last = db[k], ![u].key = k, ![u].next = k + 1]
       ELSE IF up[u].last = NoPointer
              THEN Fail(u)
              ELSE Goto(u, "delete")
  /\ UNCHANGED <<db, writes, crashes, bucketVars, requests, stored, readVars>>

\* metainfo.Delete of the last numbered segment, given the bytes read: it
\* fails if the pointer changed since.
CommitObjectDelete(u) ==
  LET k == up[u].key IN
  /\ up[u].pc = "delete"
  /\ IF db[k] = up[u].last
       THEN /\ db' = [db EXCEPT ![k] = NoPointer]
            /\ Goto(u, "put")
       ELSE /\ Fail(u)
            /\ UNCHANGED db
  /\ UNCHANGED <<writes, crashes, bucketVars, requests, stored, readVars>>

\* Put of that pointer at l, with the request's stream metadata.
CommitObjectPut(u) ==
  /\ up[u].pc = "put"
  /\ db' = [db EXCEPT ![LastKey] = [up[u].last EXCEPT !.meta = up[u].n, !.plain = TRUE]]
  /\ Fail(u)
  /\ UNCHANGED <<writes, crashes, bucketVars, requests, stored, readVars>>

-----------------------------------------------------------------------------
(* The old segment API.  An old uplink overwrites the object the same way: *)
(* SegmentInfoOld of l, DeleteSegmentOld of s0..s(n-2) and l, then per     *)
(* segment CreateSegmentOld (remote segments only) and CommitSegmentOld at *)
(* the key DeleteKey names.                                                *)

\* An old uplink starts overwriting the object.
StartWriteOld(u) ==
  /\ up[u].pc = "idle"
  /\ writes < MaxUploads
  /\ up' = [up EXCEPT ![u] = [Idle EXCEPT !.pc = "oInfo", !.stream = writes + 1]]
  /\ writes' = writes + 1
  /\ UNCHANGED <<db, crashes, bucketVars, stored, requests, readVars>>

\* The old uplink's upload of n segments, once the delete is done.
StartUploadOld(u) ==
  \E n \in 1..MaxSegments :
    up' = [up EXCEPT ![u] = [Idle EXCEPT !.pc = "oSeg", !.stream = up[u].stream, !.n = n]]

\* SegmentInfoOld of l: getPointer.  NotFound leaves nothing to delete.
SegmentInfoOld(u) ==
  /\ up[u].pc = "oInfo"
  /\ IF getPointer(LastKey) = NoPointer
       THEN StartUploadOld(u)
       ELSE up' = [up EXCEPT ![u].pc = "oDelSeg", ![u].n = db[LastKey].meta, ![u].next = 0]
  /\ UNCHANGED <<db, writes, crashes, bucketVars, stored, requests, readVars>>

\* DeleteSegmentOld, first half: Get of the path; NotFound fails.
DeleteSegmentOldGet(u) ==
  LET k == DeleteKey(u) IN
  /\ up[u].pc = "oDelSeg"
  /\ IF db[k] = NoPointer
       THEN Fail(u)
       ELSE up' = [up EXCEPT ![u].pc = "oDelDel", ![u].last = db[k], ![u].key = k]
  /\ UNCHANGED <<db, writes, crashes, bucketVars, stored, requests, readVars>>

\* Second half: UnsynchronizedDelete of the path; the delete order limits
\* are those of the pointer read.
DeleteSegmentOldDelete(u) ==
  LET k == up[u].key IN
  /\ up[u].pc = "oDelDel"
  /\ db' = [db EXCEPT ![k] = NoPointer]
  /\ stored' = stored \ {Ident(up[u].last)}
  /\ IF k = LastKey
       THEN StartUploadOld(u)
       ELSE up' = [up EXCEPT ![u].pc = "oDelSeg", ![u].next = @ + 1, ![u].last = NoPointer]
  /\ UNCHANGED <<writes, crashes, bucketVars, requests, readVars>>

\* The pointer an old uplink sends for its next segment: the last one
\* carries the stream metadata, whose segment count is only in the
\* encrypted stream info.
OldSegmentPointer(u) ==
  [stream |-> up[u].stream, idx |-> up[u].next,
   meta |-> IF up[u].next = up[u].n - 1 THEN up[u].n ELSE 0, plain |-> FALSE]

\* CreateSegmentOld: validation, the usage limit, FindStorageNodes and the
\* put order limits, any of which may refuse it; the request is cached
\* under the first limit's serial number.
CreateSegmentOld(u) ==
  /\ up[u].pc = "oSeg"
  /\ \/ /\ requests' = requests \cup {Ident(OldSegmentPointer(u))}
        /\ Goto(u, "oCreated")
     \/ /\ ClientFailures
        /\ Fail(u)
        /\ UNCHANGED requests
  /\ UNCHANGED <<db, writes, crashes, bucketVars, stored, readVars>>

\* A variant of CommitSegmentOld that drops the stream metadata.
CommitSegmentOldPutNoMeta(u) ==
  /\ up[u].pc \in {"oSeg", "oCreated"}
  /\ \/ /\ db' = [db EXCEPT ![DeleteKey(u)] = [OldSegmentPointer(u) EXCEPT !.meta = 0]]
        /\ stored' = stored \cup {Ident(OldSegmentPointer(u))}
        /\ Goto(u, "oGet")
     \/ /\ ClientFailures
        /\ Fail(u)
        /\ UNCHANGED <<db, stored, readVars>>
     \/ /\ ClientFailures /\ up[u].pc = "oSeg"
        /\ db' = [db EXCEPT ![DeleteKey(u)] = [OldSegmentPointer(u) EXCEPT !.meta = 0]]
        /\ stored' = stored \cup {Ident(OldSegmentPointer(u))}
        /\ Fail(u)
  /\ UNCHANGED <<writes, crashes, bucketVars, requests, readVars>>

\* CommitSegmentOld, first half, after CreateSegmentOld or, for an inline
\* segment, directly: validateCommitSegment, filterValidPieces, the usage
\* limit and the size check may refuse it; otherwise Put of the pointer at
\* the path.  For an inline segment UpdatePutInlineOrder follows, and its
\* error fails the call with the pointer stored and the request cached.
CommitSegmentOldPut(u) ==
  /\ up[u].pc \in {"oSeg", "oCreated"}
  /\ \/ /\ db' = [db EXCEPT ![DeleteKey(u)] = OldSegmentPointer(u)]
        /\ stored' = stored \cup {Ident(OldSegmentPointer(u))}
        /\ Goto(u, "oGet")
     \/ /\ ClientFailures
        /\ Fail(u)
        /\ UNCHANGED <<db, stored, readVars>>
     \/ /\ ClientFailures /\ up[u].pc = "oSeg"
        /\ db' = [db EXCEPT ![DeleteKey(u)] = OldSegmentPointer(u)]
        /\ stored' = stored \cup {Ident(OldSegmentPointer(u))}
        /\ Fail(u)
  /\ UNCHANGED <<writes, crashes, bucketVars, requests, readVars>>

\* Second half: Get of the path, whose pointer is returned; NotFound is an
\* Internal error.  The cached request is removed only on success.
CommitSegmentOldGet(u) ==
  /\ up[u].pc = "oGet"
  /\ IF db[DeleteKey(u)] = NoPointer
       THEN /\ Fail(u)
            /\ UNCHANGED requests
       ELSE /\ requests' = requests \ {Ident(OldSegmentPointer(u))}
            /\ IF up[u].next = up[u].n - 1
                 THEN Fail(u)
                 ELSE up' = [up EXCEPT ![u].pc = "oSeg", ![u].next = @ + 1]
  /\ UNCHANGED <<db, writes, crashes, bucketVars, stored, readVars>>

-----------------------------------------------------------------------------
(* Buckets.  The object's bucket row carries a PartnerID; the partnerinfo  *)
(* table attributes the bucket name to a partner separately.  A client     *)
(* makes a bucket call from idle, and makes at most MaxBucketCalls of them *)
(* in all.  The buckets and partnerinfo databases are not under src/: a    *)
(* Get, Update, Create, Delete or Insert is one atomic step, an Update of  *)
(* a missing row changes nothing, and an Insert or Create of a row that    *)
(* exists fails on the unique key.                                         *)

BucketCall(u) ==
  /\ up[u].pc = "idle"
  /\ bucketCalls < MaxBucketCalls
  /\ bucketCalls' = bucketCalls + 1

\* CreateBucket, first half: GetBucket.  An existing bucket with no
\* partner ID in the request is AlreadyExists; with one, the bucket is
\* updated; a missing bucket is created.
CreateBucketGet(u) ==
  /\ BucketCall(u)
  /\ \E p \in PartnerIDs :
       \/ /\ bucket # NoBucket /\ p = NoPartner
          /\ UNCHANGED up
       \/ /\ bucket # NoBucket /\ p # NoPartner
          /\ up' = [up EXCEPT ![u].pc = "cbUpdate", ![u].partner = p]
       \/ /\ bucket = NoBucket
          /\ up' = [up EXCEPT ![u].pc = "cbCreate", ![u].partner = p]
  /\ UNCHANGED <<db, writes, crashes, stored, requests, bucket, attribution, readVars>>

\* UpdateBucket with the request's PartnerID.  Its error is overwritten by
\* convertBucketToProto's, so the call returns success even when the
\* bucket was deleted since the Get.
CreateBucketUpdate(u) ==
  /\ up[u].pc = "cbUpdate"
  /\ bucket' = IF bucket = NoBucket THEN NoBucket ELSE up[u].partner
  /\ Return(u)
  /\ UNCHANGED <<db, writes, crashes, stored, requests, attribution, bucketCalls, readVars>>

\* CreateBucket of the row convertProtoToBucket builds, whose PartnerID is
\* the request's; a bucket created since the Get makes it fail.
CreateBucketCreate(u) ==
  /\ up[u].pc = "cbCreate"
  /\ bucket' = IF bucket = NoBucket THEN up[u].partner ELSE bucket
  /\ Return(u)
  /\ UNCHANGED <<db, writes, crashes, stored, requests, attribution, bucketCalls, readVars>>

\* DeleteBucket: metainfo.DeleteBucket of the row, whatever the bucket
\* holds.
DeleteBucket(u) ==
  /\ BucketCall(u)
  /\ bucket' = NoBucket
  /\ UNCHANGED <<db, up, writes, crashes, stored, requests, attribution, readVars>>

\* setBucketAttribution (SetBucketAttribution, SetAttributionOld), first
\* step: partnerinfo.Get.  A bucket already attributed returns nil.  The
\* bucket itself is not looked up.
SetBucketAttributionGet(u) ==
  /\ BucketCall(u)
  /\ \E p \in Partners :
       IF attribution # NoPartner
         THEN UNCHANGED up
         ELSE up' = [up EXCEPT ![u].pc = "abList", ![u].partner = p]
  /\ UNCHANGED <<db, writes, crashes, stored, requests, bucket, attribution, readVars>>

\* Second step: List of the bucket's last segments (prefix l/<bucket>),
\* limit 1.  An object in the bucket is AlreadyExists.
SetBucketAttributionList(u) ==
  /\ up[u].pc = "abList"
  /\ IF db[LastKey] # NoPointer THEN Return(u) ELSE Goto(u, "abInsert")
  /\ UNCHANGED <<db, writes, crashes, stored, requests, bucketVars, readVars>>

\* Third step: partnerinfo.Insert; a concurrent Insert makes it fail.
SetBucketAttributionInsert(u) ==
  /\ up[u].pc = "abInsert"
  /\ attribution' = IF attribution = NoPartner THEN up[u].partner ELSE attribution
  /\ Return(u)
  /\ UNCHANGED <<db, writes, crashes, stored, requests, bucket, bucketCalls, readVars>>

-----------------------------------------------------------------------------
(* ListSegments, continued.                                               *)

\* An uplink lists the object's segments on its own.
ListSegmentsGet(u) ==
  /\ up[u].pc = "idle"
  /\ listCalls < MaxListCalls
  /\ listCalls' = listCalls + 1
  /\ \E c \in Cursors, lim \in ListLimits : ListSegmentsCall(u, c, lim)
  /\ UNCHANGED <<db, writes, crashes, stored, requests, bucketVars, downloads>>

\* A variant of listSegmentsManually that never reports more positions.
ListSegmentsProbeNoMore(u) ==
  LET k == up[u].next
      items == up[u].items
      room == up[u].limit > Len(items)
  IN
  /\ up[u].pc = "lsProbe"
  /\ IF k \in SegKeys /\ db[k] # NoPointer /\ room
       THEN up' = [up EXCEPT ![u].items = Append(items, k), ![u].next = k + 1]
       ELSE up' = [up EXCEPT ![u].pc = "lsDone",
                             ![u].items = IF room THEN Append(items, LastKey) ELSE items,
                             ![u].more = FALSE]
  /\ UNCHANGED <<db, writes, crashes, stored, requests, bucketVars, readVars>>

\* listSegmentsManually's loop: Get of s<next>.  A miss ends the loop; a
\* hit when the page is full ends it too (its more flag is then implied by
\* the check after the loop); otherwise the index is added.  After the
\* loop, l is added when there is room, and more is set when there is not.
ListSegmentsProbe(u) ==
  LET k == up[u].next
      items == up[u].items
      room == up[u].limit > Len(items)
  IN
  /\ up[u].pc = "lsProbe"
  /\ IF k \in SegKeys /\ db[k] # NoPointer /\ room
       THEN up' = [up EXCEPT ![u].items = Append(items, k), ![u].next = k + 1]
       ELSE up' = [up EXCEPT ![u].pc = "lsDone",
                             ![u].items = IF room THEN Append(items, LastKey) ELSE items,
                             ![u].more = ~room]
  /\ UNCHANGED <<db, writes, crashes, stored, requests, bucketVars, readVars>>

\* The response reaches the uplink.  A downloading uplink goes on to
\* DownloadSegment for each item, or ends with an empty page; a deleting
\* one to BeginDeleteSegment for each item, or to the upload.
ListSegmentsReturn(u) ==
  /\ up[u].pc = "lsDone"
  /\ CASE up[u].dl ->
            up' = [up EXCEPT ![u].pc = IF up[u].items = <<>> THEN "dlDone" ELSE "dlSeg",
                             ![u].next = 1]
       [] up[u].del ->
            up' = [up EXCEPT ![u].pc = IF up[u].items = <<>> THEN "begin" ELSE "delSeg",
                             ![u].next = 1]
       [] OTHER -> Return(u)
  /\ UNCHANGED <<db, writes, crashes, stored, requests, bucketVars, readVars>>

\* The reference: the page of the object's positions s0..s(n-2), l that
\* starts at the cursor and holds at most limit of them.
SegmentPositions(n) == [i \in 1..n |-> IF i = n THEN LastKey ELSE i - 1]

ListPage(n, cursor, limit) ==
  LET last == IF cursor + limit < n THEN cursor + limit ELSE n IN
  ListResult(SubSeq(SegmentPositions(n), cursor + 1, last), cursor + limit < n)

-----------------------------------------------------------------------------
(* Downloads.  With the new API the uplink calls GetObject, pages through *)
(* ListSegments from cursor 0 and calls DownloadSegment for each item,    *)
(* the next page starting after the last numbered item; with the old API  *)
(* it calls DownloadSegmentOld for l, reads the count from the stream     *)
(* info it decrypts, then for s0..s(n-2).  got is what the uplink         *)
(* assembles: the identities of the segments it was handed, l last.  The  *)
(* uplink's side is not under src/.  A call is refused (with             *)
(* BandwidthExceeded) when ExceedsBandwidthUsage reports the project over *)
(* its limit, which is read from accounting outside src/.                 *)

\* A session starts downloading the object, with either API.
StartDownload(u) ==
  /\ up[u].pc = "idle"
  /\ downloads < MaxDownloads
  /\ downloads' = downloads + 1
  /\ \E old \in BOOLEAN :
       up' = [up EXCEPT ![u] = [Idle EXCEPT !.pc = IF old THEN "dlOld" ELSE "dlObject", !.dl = TRUE]]
  /\ UNCHANGED <<db, writes, crashes, stored, requests, bucketVars, listCalls>>

\* GetObject: getPointer of l (NotFound is returned) and its stream
\* metadata.  The loop for the redundancy scheme of an old object only
\* reads s0, s1, ... and fills the response, so it is left out.
GetObject(u) ==
  /\ up[u].pc = "dlObject"
  /\ IF getPointer(LastKey) = NoPointer
       THEN Fail(u)
       ELSE up' = [up EXCEPT ![u].pc = "dlList", ![u].last = db[LastKey], ![u].cursor = 0]
  /\ UNCHANGED <<db, writes, crashes, stored, requests, bucketVars, readVars>>

\* The uplink asks for the next page, with a limit of its choosing.
DownloadList(u) ==
  /\ up[u].pc = "dlList"
  /\ \E lim \in ListLimits : ListSegmentsCall(u, up[u].cursor, lim)
  /\ UNCHANGED <<db, writes, crashes, stored, requests, bucketVars, readVars>>

\* DownloadSegment of the page's item next: the bandwidth check, then
\* getPointer of its position (NotFound is returned; the position may have
\* been deleted since the page was listed), then the inline data or the
\* order limits for the pointer's pieces.  After the page's last
\* item the uplink lists again from the position after it, or is done.
DownloadSegment(u) ==
  LET items == up[u].items
      k == items[up[u].next]
      pageDone == up[u].next = Len(items)
  IN
  /\ up[u].pc = "dlSeg"
  /\ \/ /\ BandwidthExceeded \/ getPointer(k) = NoPointer
        /\ Fail(u)
     \/ /\ getPointer(k) # NoPointer
        /\ up' = [up EXCEPT ![u].got = Append(@, Ident(db[k])),
                            ![u].next = @ + 1,
                            ![u].pc = IF ~pageDone THEN "dlSeg"
                                      ELSE IF up[u].more THEN "dlList" ELSE "dlDone",
                            ![u].cursor = IF pageDone THEN k + 1 ELSE @]
  /\ UNCHANGED <<db, writes, crashes, stored, requests, bucketVars, readVars>>

\* DownloadSegmentOld: the bandwidth check, then getPointer of l first and
\* of s0..s(n-2) after it (NotFound is returned), then the pointer with
\* its inline data or order limits.
DownloadSegmentOld(u) ==
  LET first == up[u].last = NoPointer
      k == IF first THEN LastKey ELSE up[u].next
      p == db[k]
  IN
  /\ up[u].pc = "dlOld"
  /\ \/ BandwidthExceeded /\ Fail(u)
     \/ getPointer(k) = NoPointer /\ Fail(u)
     \/ /\ getPointer(k) # NoPointer /\ first
        /\ up' = [up EXCEPT ![u].last = p, ![u].n = p.meta, ![u].next = 0,
                            ![u].pc = IF p.meta <= 1 THEN "dlDone" ELSE "dlOld",
                            ![u].got = IF p.meta <= 1 THEN <<Ident(p)>> ELSE <<>>]
     \/ /\ getPointer(k) # NoPointer /\ ~first
        /\ LET lastOne == k = up[u].n - 2 IN
           up' = [up EXCEPT ![u].next = @ + 1,
                            ![u].pc = IF lastOne THEN "dlDone" ELSE "dlOld",
                            ![u].got = IF lastOne THEN Append(Append(@, Ident(p)), Ident(up[u].last))
                                       ELSE Append(@, Ident(p))]
  /\ UNCHANGED <<db, writes, crashes, stored, requests, bucketVars, readVars>>

\* The uplink has the whole object.
DownloadReturn(u) ==
  /\ up[u].pc = "dlDone"
  /\ Return(u)
  /\ UNCHANGED <<db, writes, crashes, stored, requests, bucketVars, readVars>>

-----------------------------------------------------------------------------
(***************************************************************************)
(* filterValidPieces, which CommitSegment runs on the pointer built from  *)
(* the request.  A piece is abstracted to the outcome of its checks: its  *)
(* node's identity missing from mapNodesFor's map, a piece hash that      *)
(* validatePieceHash rejects, or valid, and the PieceSize of its hash.     *)
(* The request carries the pointer type, whether BatchGet succeeded,      *)
(* whether the redundancy scheme is valid, the size CalcPieceSize expects *)
(* and the repair and success thresholds.  The result is the status the   *)
(* call returns (the message is left out) and the pieces left in the      *)
(* pointer.                                                                *)
(***************************************************************************)
PieceSizes == 0..2   \* 0 is invalid; two positive sizes tell equal from unequal
Piece == [sig: {"unknownNode", "badHash", "valid"}, size: PieceSizes]

PieceSeqs == UNION {[1..k -> Piece] : k \in 0..MaxPieces}

FilterRequest == [remote: BOOLEAN, batchOK: BOOLEAN, redundancyOK: BOOLEAN,
                  pieces: PieceSeqs, expected: PieceSizes \ {0},
                  repair: 0..MaxPieces, success: 1..MaxPieces]

FilterResult(status, pieces) == [status |-> status, pieces |-> pieces]

\* The loop over remote.RemotePieces: pieces failing the identity or hash
\* check are skipped; a valid piece whose size is not positive or differs
\* from the last valid one ends the loop with allSizesValid false.
RECURSIVE FilterLoop(_, _, _)
FilterLoop(ps, kept, last) ==
  IF ps = <<>> THEN [kept |-> kept, last |-> last, allSizesValid |-> TRUE]
  ELSE LET p == Head(ps) IN
       IF p.sig # "valid" THEN FilterLoop(Tail(ps), kept, last)
       ELSE IF p.size <= 0 \/ (last > 0 /\ last # p.size)
            THEN [kept |-> kept, last |-> last, allSizesValid |-> FALSE]
            ELSE FilterLoop(Tail(ps), Append(kept, p), p.size)

\* A variant whose success-threshold check is off by one.
filterValidPiecesOffByOne(req) ==
  LET r == FilterLoop(req.pieces, <<>>, 0) IN
  IF ~req.remote THEN FilterResult("OK", req.pieces)
  ELSE IF ~req.batchOK THEN FilterResult("Internal", req.pieces)
  ELSE IF ~r.allSizesValid \/ ~req.redundancyOK \/ req.expected # r.last
       THEN FilterResult("InvalidArgument", req.pieces)
  ELSE IF Len(r.kept) <= req.repair /\ Len(r.kept) < req.success
       THEN FilterResult("InvalidArgument", req.pieces)
  ELSE IF Len(r.kept) < req.success - 1
       THEN FilterResult("InvalidArgument", req.pieces)
  ELSE FilterResult("OK", r.kept)

\* The checks after the loop, in the code's order; only a success leaves
\* the filtered pieces in the pointer.
filterValidPieces(req) ==
  LET r == FilterLoop(req.pieces, <<>>, 0) IN
  IF ~req.remote THEN FilterResult("OK", req.pieces)
  ELSE IF ~req.batchOK THEN FilterResult("Internal", req.pieces)
  ELSE IF ~r.allSizesValid \/ ~req.redundancyOK \/ req.expected # r.last
       THEN FilterResult("InvalidArgument", req.pieces)
  ELSE IF Len(r.kept) <= req.repair /\ Len(r.kept) < req.success
       THEN FilterResult("InvalidArgument", req.pieces)
  ELSE IF Len(r.kept) < req.success
       THEN FilterResult("InvalidArgument", req.pieces)
  ELSE FilterResult("OK", r.kept)

\* What the commit path promises (spec 4.3, 4.8): a remote segment is
\* accepted when the pieces with a verified hash all have the size the
\* redundancy scheme gives and there are at least success-threshold of
\* them, and the pointer then keeps exactly those pieces.
FilterReference(req) ==
  LET valid == SelectSeq(req.pieces, LAMBDA p : p.sig = "valid")
      ok == /\ req.redundancyOK
            /\ \A i \in DOMAIN valid : valid[i].size = req.expected
            /\ Len(valid) >= req.success
  IN CASE ~req.remote  -> FilterResult("OK", req.pieces)
       [] ~req.batchOK -> FilterResult("Internal", req.pieces)
       [] ok           -> FilterResult("OK", valid)
       [] OTHER        -> FilterResult("InvalidArgument", req.pieces)

\* Sessions inside a call that takes more than one step of the store.
InCall == {u \in Sessions : up[u].pc \in {"delDel", "probe", "delete", "put", "oDelDel", "oGet",
                                            "cbUpdate", "cbCreate", "abList", "abInsert",
                                            "lsProbe", "lsDone"}}

\* The satellite process crashes and restarts: every call in progress
\* fails; the pointer store is durable, the createRequests cache is not.
Crash ==
  /\ crashes < MaxCrashes
  /\ InCall # {}
  /\ up' = [u \in Sessions |-> IF u \in InCall THEN Idle ELSE up[u]]
  /\ crashes' = crashes + 1
  /\ requests' = {}
  /\ UNCHANGED <<db, writes, stored, bucketVars, readVars>>

\* Every upload begun and every session idle.
Quiescent ==
  /\ writes = MaxUploads
  /\ \A u \in Sessions : up[u].pc = "idle"
  /\ UNCHANGED vars

Init ==
  /\ db = [k \in Keys |-> NoPointer]
  /\ up = [u \in Sessions |-> Idle]
  /\ writes = 0
  /\ crashes = 0
  /\ stored = {}
  /\ requests = {}
  /\ bucket = NoBucket
  /\ attribution = NoPartner
  /\ bucketCalls = 0
  /\ listCalls = 0
  /\ downloads = 0

Next ==
  \/ \E u \in Sessions :
       \/ StartWrite(u)
       \/ BeginDeleteObject(u)
       \/ DeleteList(u)
       \/ BeginDeleteSegmentGet(u)
       \/ BeginDeleteSegmentDelete(u)
       \/ BeginObject(u)
       \/ BeginSegment(u)
       \/ CommitSegment(u)
       \/ MakeInlineSegment(u)
       \/ CommitObjectProbe(u)
       \/ CommitObjectDelete(u)
       \/ CommitObjectPut(u)
       \/ StartWriteOld(u)
       \/ SegmentInfoOld(u)
       \/ DeleteSegmentOldGet(u)
       \/ DeleteSegmentOldDelete(u)
       \/ CreateSegmentOld(u)
       \/ CommitSegmentOldPut(u)
       \/ CommitSegmentOldGet(u)
       \/ CreateBucketGet(u)
       \/ CreateBucketUpdate(u)
       \/ CreateBucketCreate(u)
       \/ DeleteBucket(u)
       \/ SetBucketAttributionGet(u)
       \/ SetBucketAttributionList(u)
       \/ SetBucketAttributionInsert(u)
       \/ ListSegmentsGet(u)
       \/ ListSegmentsProbe(u)
       \/ ListSegmentsReturn(u)
       \/ StartDownload(u)
       \/ GetObject(u)
       \/ DownloadList(u)
       \/ DownloadSegment(u)
       \/ DownloadSegmentOld(u)
       \/ DownloadReturn(u)
  \/ Crash
  \/ Quiescent

Spec == Init /\ [][Next]_vars

-----------------------------------------------------------------------------
TypeOK ==
  /\ db \in [Keys -> Pointer \cup {NoPointer}]
  /\ \A u \in Sessions :
       /\ up[u].pc \in {"idle", "delObj", "delSeg", "delDel", "begin", "seg",
                        "segBegun", "probe", "delete", "put", "oInfo", "oDelSeg",
                        "oDelDel", "oSeg", "oCreated", "oGet", "cbUpdate", "delList",
                        "cbCreate", "abList", "abInsert", "lsProbe", "lsDone",
                        "dlObject", "dlList", "dlSeg", "dlOld", "dlDone"}
       /\ up[u].cursor \in 0..MaxSegments
       /\ up[u].limit \in 0..ListLimit
       /\ up[u].items \in Seq(Keys) /\ Len(up[u].items) <= up[u].limit
       /\ up[u].more \in BOOLEAN
       /\ up[u].dl \in BOOLEAN /\ up[u].del \in BOOLEAN
       /\ up[u].got \in Seq(Streams \X SegKeys) /\ Len(up[u].got) <= MaxSegments + 1
       /\ up[u].partner \in PartnerIDs
       /\ up[u].stream \in 0..MaxUploads
       /\ up[u].n \in 0..MaxSegments
       /\ up[u].last \in Pointer \cup {NoPointer}
  /\ writes \in 0..MaxUploads
  /\ crashes \in 0..MaxCrashes
  /\ stored \subseteq Streams \X SegKeys
  /\ requests \subseteq Streams \X SegKeys
  /\ bucket \in PartnerIDs \cup {NoBucket}
  /\ attribution \in PartnerIDs
  /\ bucketCalls \in 0..MaxBucketCalls
  /\ listCalls \in 0..MaxListCalls
  /\ downloads \in 0..MaxDownloads

\* The object as stored is exactly upload s of n segments: s0..s(n-2) hold
\* its first segments, l its last one, and no other numbered key is used.
ObjectIs(store, s, n) ==
  /\ store[LastKey] # NoPointer
  /\ Ident(store[LastKey]) = <<s, n - 1>>
  /\ \A i \in SegKeys :
       IF i < n - 1 THEN store[i] # NoPointer /\ Ident(store[i]) = <<s, i>>
                    ELSE store[i] = NoPointer

\* When CommitObject returns success to an uplink, the object it committed
\* consists of that upload's segments and nothing else: the probe loop
\* found exactly the segments the upload committed.
CommitObjectCommitsItsUpload ==
  [][\A u \in Sessions :
       (up[u].pc = "put" /\ up'[u].pc = "idle") => ObjectIs(db', up[u].stream, up[u].n)]_vars

\* When an old uplink's last CommitSegmentOld returns success, the object
\* is exactly that upload, whichever API wrote the object before: the old
\* delete loop, driven by the segment count the last write stored at l
\* (CommitObject's or CommitSegmentOld's stream metadata), removed every
\* segment of the previous object.
OldWriteCommitsItsUpload ==
  [][\A u \in Sessions :
       (/\ up[u].pc = "oGet" /\ up[u].next = up[u].n - 1
        /\ db[LastKey] # NoPointer /\ up'[u].pc = "idle")
         => ObjectIs(db', up[u].stream, up[u].n)]_vars

\* No committed segment's pointer is lost: every segment committed and not
\* removed by a delete call is in the store, or is the pointer a
\* CommitObject is moving from its numbered key to l.  A lost pointer
\* leaves its pieces on the storage nodes with nothing referring to them.
PointersNotLost ==
  \A id \in stored :
    \/ \E k \in Keys : db[k] # NoPointer /\ Ident(db[k]) = id
    \/ \E u \in Sessions : up[u].pc = "put" /\ Ident(up[u].last) = id

\* filterValidPieces agrees with the reference on every request of up to
\* MaxPieces pieces (a constant, computed once).
FilterAgrees ==
  \A req \in FilterRequest : filterValidPieces(req) = FilterReference(req)

\* Whenever a CommitSegment is about to run, the filterValidPieces it calls
\* accepts a remote segment exactly when the reference says it should and
\* leaves exactly its valid pieces, whatever the request: the size check
\* that breaks the loop, the skipped pieces and the two threshold checks
\* together implement the promise.
FilterValidPiecesMeetsReference ==
  \A u \in Sessions : up[u].pc = "segBegun" => FilterAgrees

\* A ListSegments response pages through the object: whenever the stored
\* object is one upload's n segments, the page returned for a cursor
\* before its end is exactly positions cursor.. of s0..s(n-2), l, at most
\* limit of them, with more set exactly when positions remain.  This holds
\* for both paths: the arithmetic on the count in the clear
\* (listSegmentsFromNumberOfSegment) and the probe loop over the store
\* (listSegmentsManually) for objects the old API wrote.
ListSegmentsPagesObject ==
  \A u \in Sessions :
    LET l == db[LastKey] IN
    (/\ up[u].pc = "lsDone" /\ l # NoPointer
     /\ ObjectIs(db, l.stream, l.idx + 1) /\ up[u].cursor <= l.idx)
      => ListResult(up[u].items, up[u].more) = ListPage(l.idx + 1, up[u].cursor, up[u].limit)


\* A download returns the object it started from: whenever the pointer the
\* uplink found at l (GetObject, or DownloadSegmentOld of l) is still at l
\* when the download ends, with the object stored whole and l's count
\* matching it, the uplink was handed exactly its segments s0..s(n-2), l,
\* in order.  This composes the ListSegments pages of both paths, the
\* cursor the uplink moves past each page, the old API's reads by count
\* and the DownloadSegment calls.
DownloadReadsItsObject ==
  \A u \in Sessions :
    LET l == up[u].last IN
    (/\ up[u].pc = "dlDone" /\ l # NoPointer /\ db[LastKey] = l
     /\ l.meta = l.idx + 1 /\ ObjectIs(db, l.stream, l.idx + 1))
      => up[u].got = [i \in 1..(l.idx + 1) |-> <<l.stream, i - 1>>]

================================================================================
