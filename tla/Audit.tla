-------------------------------- MODULE Audit --------------------------------
(***************************************************************************)
(* The satellite's audit subsystem (satellite/audit, src/unnamed/part_012): *)
(* Verifier.Verify, Verifier.Reverify with its per-node goroutines, the    *)
(* containment map of pending audits, the reporter that applies a Report   *)
(* to and the pointer store they read and shrink.  Uplinks     *)
(* concurrently commit and delete segments (metainfo.CommitSegment and     *)
(* BeginDeleteSegment).                                                    *)
(*                                                                         *)
(* Data abstraction.  A pointer is its liveness, a version standing for    *)
(* the pair (CreationDate, RootPieceId) that every commit renews, and the  *)
(* set of nodes holding a piece.  A share download is reduced to the class *)
(* of its outcome.  Hashes are reduced to "the share returned equals the   *)
(* expected one".  Database calls other than not-found do not fail.        *)
(***************************************************************************)
EXTENDS Naturals, FiniteSets, Sequences

CONSTANTS
    Nodes,        \* storage nodes (model values)
    Paths,        \* segment paths (model values)
    Workers,      \* audit workers running Verify/Reverify concurrently
    Required,     \* Redundancy.MinReq of every segment
    MaxVersion,   \* bound on commits per path
    MaxJobs,      \* bound on Verify/Reverify calls in a behaviour
    MaxFaulty,    \* bound on nodes of one download not returning an intact share
    NoPending,    \* containment has no entry for the node
    NoPath        \* path field of an idle worker

ASSUME Required \in 1..Cardinality(Nodes)
ASSUME MaxVersion \in Nat \ {0} /\ MaxJobs \in Nat

VARIABLES
    pointers,     \* metainfo: path -> pointer
    containment,  \* containment db: node -> PendingAudit or NoPending
    worker,       \* the call each audit worker is executing
    tasks,        \* Reverify goroutines: worker -> node -> goroutine state
    jobs,         \* number of Verify/Reverify calls started so far
    credited,     \* ghost: pending audit id -> outcomes credited for it
    unearned      \* ghost: nodes credited a success without a correct share

vars == <<pointers, containment, worker, tasks, jobs, credited, unearned>>

Versions == 1..MaxVersion
JobIds == 1..MaxJobs

Pointer == [live : BOOLEAN, ver : Versions, pieces : SUBSET Nodes]

\* PendingAudit: NodeID, Path, and the version its PieceID and expected hash
\* were taken from.  Its id is the creating Verify call and the node.
PendingAudit == [id : JobIds \X Nodes, node : Nodes, path : Paths, ver : Versions]

\* Reverify's result status enum; Verify's report lists use the same names.
Status == {"skipped", "success", "offline", "failed", "contained", "erred"}

\* A result sent on Reverify's channel or listed in a Report.  "pending" is
\* the audit a success or failure resolves (ghost) or the one to contain
\* the node with; "backed" records whether a correct share was returned.
Result == [node : Nodes, status : Status,
           pending : PendingAudit \cup {NoPending}, backed : BOOLEAN]

Res(n, s, pa, b) == [node |-> n, status |-> s, pending |-> pa, backed |-> b]

\* What Verify learns of each node of the pointer:
\*   "skip"      in the caller's skip map: no order limit, no report entry;
\*   "noLimit"   no order limit created (getOfflineNodes): offline;
\*   "offline"   dial timeout, or dial failure (rpcstatus.Unknown);
\*   "contained" unknown transport error, download DeadlineExceeded, other;
\*   "notFound"  rpcstatus.NotFound;
\*   "ok"/"bad"  share bytes returned, equal / not equal to the true share.
ShareOutcome == {"ok", "bad", "offline", "notFound", "contained", "noLimit", "skip"}

\* Outcome classes of GetShare in a Reverify goroutine; "match" and
\* "mismatch" compare SHA256(share) with ExpectedShareHash.
ReverifyOutcome == {"match", "mismatch", "offline", "notFound", "contained"}

\* A Reverify goroutine, one per contained node of a Reverify call.
Task == [pc : {"none", "lookup", "download", "altered"},
         pending : PendingAudit \cup {NoPending}]
NoTask == [pc |-> "none", pending |-> NoPending]

Idle == [kind |-> "idle", pc |-> "idle", job |-> 0, path |-> NoPath, ver |-> 0,
         pieces |-> {}, shares |-> <<>>, fails |-> {}, report |-> {},
         todo |-> {}, ch |-> <<>>]

-----------------------------------------------------------------------------
(* Helpers of Verifier.                                                    *)

\* checkIfSegmentAltered: the pointer is gone, or its CreationDate differs.
SegmentAltered(p, v) == ~pointers[p].live \/ pointers[p].ver # v

\* metainfo.UpdatePieces(path, ref, nil, toRemove): refused when the pointer
\* was deleted or recommitted since ref was read; otherwise removes the
\* pieces from the current pointer.
UpdatePieces(p, v, toRemove) ==
    IF pointers[p].live /\ pointers[p].ver = v
    THEN [pointers EXCEPT ![p].pieces = @ \ toRemove]
    ELSE pointers

\* removeFailedPieces: nothing to do for no failed nodes, else UpdatePieces
\* with the pieces of the old pointer held by failed nodes.
removeFailedPiecesAgainstCurrent(p, v, oldPieces, failedNodes) ==
    IF failedNodes = {} THEN pointers
    ELSE UpdatePieces(p, pointers[p].ver, oldPieces \cap failedNodes)
removeFailedPieces(p, v, oldPieces, failedNodes) ==
    IF failedNodes = {} THEN pointers
    ELSE UpdatePieces(p, v, oldPieces \cap failedNodes)

\* Nodes of a download with outcome class c.
WithOutcome(shares, c) == {n \in DOMAIN shares : shares[n] = c}

\* auditShares: infectious Correct over the downloaded shares.  With just
\* Required shares there is no redundancy to check against: the syndrome
\* matrix has no rows, Correct returns at once and no share is singled out.
\* With more, Correct succeeds when the altered ones are at most
\* (numShares - Required) / 2 and returns an error otherwise.
Correctable(numShares, numBad) == 2 * numBad <= numShares - Required

auditShares(toAudit, bad) ==
    IF Cardinality(toAudit) = Required THEN {} ELSE bad

\* The nodes DownloadShares was given an order limit for.
Downloaded(shares) ==
    DOMAIN shares \ (WithOutcome(shares, "noLimit") \cup WithOutcome(shares, "skip"))

\* getSuccessNodes: every node a share was downloaded from (errored shares
\* included) that is not failed, offline or contained.
getSuccessNodes(downloaded, failedNodes, offlineNodes, containedNodes) ==
    downloaded \ (failedNodes \cup offlineNodes \cup containedNodes)

\* createPendingAudits: one PendingAudit per contained node, for the
\* audited path and the pointer version the stripe was read from.
createPendingAuditsPreviousVersion(job, p, v, containedNodes) ==
    {[id |-> <<job, n>>, node |-> n, path |-> p, ver |-> v - 1] : n \in containedNodes}
createPendingAudits(job, p, v, containedNodes) ==
    {[id |-> <<job, n>>, node |-> n, path |-> p, ver |-> v] : n \in containedNodes}

-----------------------------------------------------------------------------
(* Reporter.RecordAudits (not under src/): applies a Report.  A success   *)
(* or a failure clears the node's pending audit; a contained result        *)
(* inserts its PendingAudit, replacing any entry of the node.  The audit   *)
(* and uptime counters it moves are the overlay's (module Reputation); here *)
(* the ghosts credited and unearned record which outcomes were credited.   *)

ResultsOf(rep, n, s) == {r \in rep : r.node = n /\ r.status = s}

RecordAudits(rep) ==
    /\ containment' = [n \in Nodes |->
          IF ResultsOf(rep, n, "contained") # {}
          THEN (CHOOSE r \in ResultsOf(rep, n, "contained") : TRUE).pending
          ELSE IF ResultsOf(rep, n, "success") \cup ResultsOf(rep, n, "failed") # {}
               THEN NoPending
               ELSE containment[n]]
    /\ credited' = [id \in DOMAIN credited |-> credited[id] + Cardinality(
          {r \in rep : r.status \in {"success", "failed"}
                       /\ r.pending # NoPending /\ r.pending.id = id})]
    /\ unearned' = unearned \cup
          {r.node : r \in {r \in rep : r.status = "success" /\ ~r.backed}}

-----------------------------------------------------------------------------
(* Verifier.Verify                                                         *)

\* A worker starts a call once its previous one has returned; goroutines
\* that call left running go on concurrently with the next.
CanStart(w) == worker[w].kind = "idle" /\ jobs < MaxJobs

\* Verify up to DownloadShares: metainfo.Get, CreateAuditOrderLimits
\* (none for the nodes in skip, which the caller passes), getOfflineNodes
\* and the parallel share downloads, which all return before the next step.
VerifyDownload(w, p) ==
    /\ CanStart(w)
    /\ pointers[p].live
    /\ \E shares \in [pointers[p].pieces -> ShareOutcome] :
          /\ Cardinality({n \in DOMAIN shares : shares[n] # "ok"}) <= MaxFaulty
          /\ worker' = [worker EXCEPT ![w] =
                [Idle EXCEPT !.kind = "verify", !.pc = "downloaded",
                             !.job = jobs + 1, !.path = p,
                             !.ver = pointers[p].ver,
                             !.pieces = pointers[p].pieces, !.shares = shares]]
    /\ jobs' = jobs + 1
    /\ UNCHANGED <<pointers, containment, tasks, credited, unearned>>

\* checkIfSegmentAltered, the classification of the shares, the
\* not-enough-shares check and auditShares.  The early returns hand their
\* partial Report to the caller: after checkIfSegmentAltered it holds only
\* getOfflineNodes' nodes; after the other two also the nodes classified
\* offline and the missing shares' nodes.
VerifyClassify(w) ==
    LET j       == worker[w]
        noLimit == WithOutcome(j.shares, "noLimit")
        offline == noLimit \cup WithOutcome(j.shares, "offline")
        missing == WithOutcome(j.shares, "notFound")
        bad     == WithOutcome(j.shares, "bad")
        toAudit == WithOutcome(j.shares, "ok") \cup bad
        offlines(O) == {Res(n, "offline", NoPending, FALSE) : n \in O}
        fails(F)    == {Res(n, "failed", NoPending, FALSE) : n \in F}
        corrected   == \/ Cardinality(toAudit) = Required
                       \/ /\ Cardinality(toAudit) > Required
                          /\ Correctable(Cardinality(toAudit), Cardinality(bad))
    IN
    /\ j.kind = "verify" /\ j.pc = "downloaded"
    /\ \/ /\ SegmentAltered(j.path, j.ver)
          /\ worker' = [worker EXCEPT ![w].pc = "report",
                                      ![w].report = offlines(noLimit)]
       \/ /\ ~SegmentAltered(j.path, j.ver)
          /\ Cardinality(toAudit) < Required \/ ~corrected
          /\ worker' = [worker EXCEPT ![w].pc = "report",
                                      ![w].report = offlines(offline) \cup fails(missing)]
       \/ /\ ~SegmentAltered(j.path, j.ver)
          /\ Cardinality(toAudit) >= Required /\ corrected
          /\ worker' = [worker EXCEPT ![w].pc = "remove",
                                      ![w].fails = missing \cup auditShares(toAudit, bad)]
    /\ UNCHANGED <<pointers, containment, tasks, jobs,
                   credited, unearned>>

\* removeFailedPieces, getSuccessNodes and createPendingAudits; the full
\* Report is returned.
VerifyRemove(w) ==
    LET j         == worker[w]
        offline   == WithOutcome(j.shares, "noLimit") \cup WithOutcome(j.shares, "offline")
        contained == WithOutcome(j.shares, "contained")
        successes == getSuccessNodes(Downloaded(j.shares), j.fails, offline, contained)
    IN
    /\ j.kind = "verify" /\ j.pc = "remove"
    /\ pointers' = removeFailedPieces(j.path, j.ver, j.pieces, j.fails)
    /\ worker' = [worker EXCEPT ![w].pc = "report", ![w].report =
          {Res(n, "success", NoPending, j.shares[n] = "ok") : n \in successes}
          \cup {Res(n, "failed", NoPending, FALSE) : n \in j.fails}
          \cup {Res(n, "offline", NoPending, FALSE) : n \in offline}
          \cup {Res(pa.node, "contained", pa, FALSE) :
                   pa \in createPendingAudits(j.job, j.path, j.ver, contained)}]
    /\ UNCHANGED <<containment, tasks, jobs,
                   credited, unearned>>

\* The audit worker hands the returned Report to the reporter.
VerifyReport(w) ==
    /\ worker[w].kind = "verify" /\ worker[w].pc = "report"
    /\ RecordAudits(worker[w].report)
    /\ worker' = [worker EXCEPT ![w] = Idle]
    /\ UNCHANGED <<pointers, tasks, jobs>>

-----------------------------------------------------------------------------
(* Verifier.Reverify.  The loop over the pieces reads each node's pending  *)
(* audit in turn, sending "skipped" for a node with none and starting a    *)
(* goroutine for a contained one; the goroutines started run while the    *)
(* loop goes on.  The collector then reads exactly len(pieces) results     *)
(* from the channel, in the order sent.  The goroutines of call j are      *)
(* tasks[j]; they send on call j's channel, which is read only while its   *)
(* collector runs.  Sends do not block for good: the channel holds          *)
(* len(pieces) results and the collector reads that many.                  *)

\* A goroutine of call j sends results; once the collector has returned
\* they are never read.
Send(j, rs) ==
    worker' = [w \in Workers |->
                 IF worker[w].kind = "reverify" /\ worker[w].job = j
                 THEN [worker[w] EXCEPT !.ch = @ \o rs]
                 ELSE worker[w]]

Finish(j, n) == tasks' = [tasks EXCEPT ![j][n] = NoTask]

\* metainfo.Get of the path and the channel, before the loop.
ReverifyStart(w, p) ==
    /\ CanStart(w)
    /\ pointers[p].live
    /\ worker' = [worker EXCEPT ![w] =
          [Idle EXCEPT !.kind = "reverify",
                       !.pc = IF pointers[p].pieces = {} THEN "collecting" ELSE "loop",
                       !.job = jobs + 1, !.path = p,
                       !.pieces = pointers[p].pieces,
                       !.todo = pointers[p].pieces]]
    /\ jobs' = jobs + 1
    /\ UNCHANGED <<pointers, containment, tasks, credited, unearned>>

\* One pass of the loop: containment.Get of node n; ErrContainedNotFound
\* sends "skipped", a pending audit starts its goroutine.
ReverifyLoop(w, n) ==
    LET j == worker[w] IN
    /\ j.kind = "reverify" /\ j.pc = "loop" /\ n \in j.todo
    /\ IF containment[n] = NoPending
         THEN /\ worker' = [worker EXCEPT ![w].ch = Append(@, Res(n, "skipped", NoPending, FALSE)),
                                          ![w].todo = @ \ {n},
                                          ![w].pc = IF j.todo = {n} THEN "collecting" ELSE "loop"]
              /\ UNCHANGED tasks
         ELSE /\ worker' = [worker EXCEPT ![w].todo = @ \ {n},
                                          ![w].pc = IF j.todo = {n} THEN "collecting" ELSE "loop"]
              /\ tasks' = [tasks EXCEPT ![j.job][n] = [pc |-> "lookup", pending |-> containment[n]]]
    /\ UNCHANGED <<pointers, containment, jobs, credited, unearned>>

ReverifyLookup(j, n) ==
    LET pa == tasks[j][n].pending
        pp == pointers[pa.path]
    IN
    /\ tasks[j][n].pc = "lookup"
    /\ \/ /\ ~pp.live \/ pp.ver # pa.ver
          /\ containment' = [containment EXCEPT ![n] = NoPending]
          /\ Send(j, <<Res(n, "skipped", NoPending, FALSE)>>)
          /\ Finish(j, n)
       \/ /\ pp.live /\ pp.ver = pa.ver /\ n \notin pp.pieces
          /\ containment' = [containment EXCEPT ![n] = NoPending]
          /\ Send(j, <<Res(n, "erred", NoPending, FALSE),
                       Res(n, "skipped", NoPending, FALSE)>>)
          /\ Finish(j, n)
       \/ /\ pp.live /\ pp.ver = pa.ver /\ n \in pp.pieces
          /\ UNCHANGED containment
          /\ \/ /\ Send(j, <<Res(n, "offline", NoPending, FALSE)>>)
                /\ Finish(j, n)
             \/ /\ UNCHANGED worker
                /\ tasks' = [tasks EXCEPT ![j][n].pc = "download"]
    /\ UNCHANGED <<pointers, jobs, credited, unearned>>

\* Goroutine: GetShare, the containment re-check ("pending audit deleted
\* while downloading"), the classification of the GetShare error and the
\* hash comparison.
ReverifyDownload(j, n) ==
    LET pa == tasks[j][n].pending IN
    /\ tasks[j][n].pc = "download"
    /\ \E out \in ReverifyOutcome :
          /\ \/ /\ containment[n] = NoPending
                /\ Send(j, <<Res(n, "skipped", NoPending, FALSE)>>)
                /\ Finish(j, n)
             \/ /\ containment[n] # NoPending
                /\ out \in {"offline", "contained", "match"}
                /\ Send(j, <<CASE out = "offline"   -> Res(n, "offline", NoPending, FALSE)
                               [] out = "contained" -> Res(n, "contained", pa, FALSE)
                               [] out = "match"     -> Res(n, "success", pa, TRUE)>>)
                /\ Finish(j, n)
             \/ /\ containment[n] # NoPending
                /\ out \in {"mismatch", "notFound"}
                /\ UNCHANGED worker
                /\ tasks' = [tasks EXCEPT ![j][n].pc = "altered"]
    /\ UNCHANGED <<pointers, containment, jobs, credited, unearned>>

\* Goroutine after NotFound or a hash mismatch: checkIfSegmentAltered; on
\* error the node is reported as a success, otherwise removeFailedPieces
\* with the freshly read pointer and a failure.
ReverifyAltered(j, n) ==
    LET pa == tasks[j][n].pending IN
    /\ tasks[j][n].pc = "altered"
    /\ \/ /\ SegmentAltered(pa.path, pa.ver)
          /\ Send(j, <<Res(n, "success", pa, FALSE)>>)
          /\ UNCHANGED pointers
       \/ /\ ~SegmentAltered(pa.path, pa.ver)
          /\ pointers' = removeFailedPieces(pa.path, pa.ver,
                                            pointers[pa.path].pieces, {n})
          /\ Send(j, <<Res(n, "failed", pa, FALSE)>>)
    /\ Finish(j, n)
    /\ UNCHANGED <<containment, jobs, credited, unearned>>

\* The collector receives len(pieces) results, in the order sent.
ResultsToRead(j) == Cardinality(j.pieces)

\* The collector, after the loop; its Report goes to the reporter.
ReverifyCollect(w) ==
    LET j    == worker[w]
        need == ResultsToRead(j)
    IN
    /\ j.kind = "reverify" /\ j.pc = "collecting"
    /\ Len(j.ch) >= need
    /\ RecordAudits({j.ch[i] : i \in 1..need})
    /\ worker' = [worker EXCEPT ![w] = Idle]
    /\ UNCHANGED <<pointers, tasks, jobs>>

-----------------------------------------------------------------------------
(* Uplink requests that change the pointer of a path.                      *)

\* CommitSegment (BeginSegment's RootPieceId and CreationDate) ends in
\* metainfo.Put, replacing any pointer at the path.
CommitSegment(p) ==
    /\ pointers[p].ver < MaxVersion
    /\ pointers' = [pointers EXCEPT ![p] =
          [live |-> TRUE, ver |-> pointers[p].ver + 1, pieces |-> Nodes]]
    /\ UNCHANGED <<containment, worker, tasks, jobs,
                   credited, unearned>>

\* BeginDeleteSegment: getPointer, then metainfo.UnsynchronizedDelete.
BeginDeleteSegment(p) ==
    /\ pointers[p].live
    /\ pointers' = [pointers EXCEPT ![p].live = FALSE]
    /\ UNCHANGED <<containment, worker, tasks, jobs,
                   credited, unearned>>

-----------------------------------------------------------------------------

Init ==
    /\ pointers = [p \in Paths |-> [live |-> TRUE, ver |-> 1, pieces |-> Nodes]]
    /\ containment = [n \in Nodes |-> NoPending]
    /\ worker = [w \in Workers |-> Idle]
    /\ tasks = [j \in JobIds |-> [n \in Nodes |-> NoTask]]
    /\ jobs = 0
    /\ credited = [id \in JobIds \X Nodes |-> 0]
    /\ unearned = {}

\* The audit workers wait for the next segment to audit.
Idling ==
    /\ \A w \in Workers : worker[w].kind = "idle"
    /\ \A j \in JobIds, n \in Nodes : tasks[j][n].pc = "none"
    /\ UNCHANGED vars

Next ==
    \/ \E w \in Workers, p \in Paths : VerifyDownload(w, p) \/ ReverifyStart(w, p)
    \/ \E w \in Workers :
          VerifyClassify(w) \/ VerifyRemove(w) \/ VerifyReport(w) \/ ReverifyCollect(w)
    \/ \E w \in Workers, n \in Nodes : ReverifyLoop(w, n)
    \/ \E j \in JobIds, n \in Nodes :
          ReverifyLookup(j, n) \/ ReverifyDownload(j, n) \/ ReverifyAltered(j, n)
    \/ \E p \in Paths : CommitSegment(p) \/ BeginDeleteSegment(p)
    \/ Idling

\* Every step of a started call eventually happens: the Go scheduler runs
\* runnable goroutines, and every download ends by its timeout.
Fairness ==
    /\ \A w \in Workers :
          /\ WF_vars(VerifyClassify(w) \/ VerifyRemove(w) \/ VerifyReport(w))
          /\ WF_vars(ReverifyCollect(w) \/ \E n \in Nodes : ReverifyLoop(w, n))
    /\ \A j \in JobIds, n \in Nodes :
          WF_vars(ReverifyLookup(j, n) \/ ReverifyDownload(j, n) \/ ReverifyAltered(j, n))

Spec == Init /\ [][Next]_vars /\ Fairness

-----------------------------------------------------------------------------
(* Properties                                                              *)

TypeOK ==
    /\ pointers \in [Paths -> Pointer]
    /\ containment \in [Nodes -> PendingAudit \cup {NoPending}]
    /\ \A w \in Workers :
          /\ worker[w].kind \in {"idle", "verify", "reverify"}
          /\ worker[w].pc \in {"idle", "downloaded", "remove", "report", "loop", "collecting"}
          /\ worker[w].path \in Paths \cup {NoPath}
          /\ worker[w].shares \in UNION {[S -> ShareOutcome] : S \in SUBSET Nodes}
          /\ worker[w].report \subseteq Result /\ worker[w].todo \subseteq Nodes
          /\ worker[w].ch \in Seq(Result)
    /\ tasks \in [JobIds -> [Nodes -> Task]]
    /\ jobs \in 0..MaxJobs
    /\ credited \in [JobIds \X Nodes -> Nat]
    /\ unearned \subseteq Nodes

\* The audit that is removing node n from version v of the pointer at p
\* has seen n fail for that version: a Verify call classified n as failed,
\* or a Reverify goroutine got NotFound or a hash mismatch from n for a
\* pending audit of that version.
FailedAt(p, v, n) ==
    \/ \E w \in Workers :
          /\ worker[w].kind = "verify" /\ worker[w].path = p
          /\ worker[w].ver = v /\ n \in worker[w].fails
    \/ \E j \in JobIds :
          /\ tasks[j][n].pc = "altered"
          /\ tasks[j][n].pending.path = p /\ tasks[j][n].pending.ver = v

PieceRemoved(p, n) ==
    /\ pointers[p].live /\ pointers'[p].live
    /\ pointers'[p].ver = pointers[p].ver
    /\ n \in pointers[p].pieces /\ n \notin pointers'[p].pieces

\* An audit only ever removes a node's piece from a pointer when that node
\* failed the audit of that very pointer version: the UpdatePieces of
\* removeFailedPieces must not hit a pointer that was deleted and
\* recommitted after the audit read it.
RemovalHasEvidence ==
    [][\A p \in Paths, n \in Nodes :
          PieceRemoved(p, n) => FailedAt(p, pointers[p].ver, n)]_vars

PendingAuditCreditedOnce ==
    \A id \in DOMAIN credited : credited[id] <= 1

\* A node is credited an audit success only after returning the correct
\* share (Verify: a share equal to the corrected one; Reverify: a share
\* whose hash matches ExpectedShareHash).
NoUnearnedSuccess == unearned = {}


=============================================================================
