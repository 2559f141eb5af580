----------------------------- MODULE SegmentStore -----------------------------
(***************************************************************************)
(* The segment store (segmentStore in src/pkg/statdb/statdb_test.go, lines *)
(* 366-866) on one segment path.  It keeps the segment's pointer in the    *)
(* pointer db (pdb) and its pieces on storage nodes, and every operation   *)
(* is a sequence of separate calls to the two:                             *)
(*   Put:    oc.Choose, ec.Put of the pieces, pdb.Put, Meta;               *)
(*   Delete: pdb.Get, ec.Delete of the pieces read, pdb.Delete;            *)
(*   Repair: pdb.Get, oc.Choose of replacement nodes, ec.Get from the      *)
(*           healthy pieces, ec.Put to the replacements, pdb.Put.          *)
(* Clients are the callers running these concurrently: the uplink's       *)
(* Put/Delete and the repairer's Repair (spec 4.8).                       *)
(*                                                                         *)
(* A pointer is abstracted to its piece ID, whether it is remote, and the *)
(* node holding each piece number (Nil: none), which is what             *)
(* lookupAndAlignNodes gives.  A piece on a storage node is the pair      *)
(* <<piece ID, node>>.  Each Put draws a fresh piece ID (NewPieceID is    *)
(* random), which also names the segment version it writes; Repair        *)
(* re-uses the ID of the pointer it read.  A call that fails before it    *)
(* changed anything (a missing pointer, an inline segment given to        *)
(* Repair, a failed Choose, BulkLookup or PayerBandwidthAllocation)       *)
(* returns with nothing changed, a stuttering step, and is left out.       *)
(*                                                                         *)
(* Faults: with Faults, ec.Put may fail after placing some of the pieces, *)
(* ec.Delete may fail, and pdb.Put may fail; up to MaxLosses times a      *)
(* storage node loses a piece (the repairs' reason to exist).             *)
(***************************************************************************)
EXTENDS Naturals, FiniteSets, Functions

CONSTANTS Clients,    \* concurrent callers of the segment store
          Nodes,      \* storage nodes
          Total,      \* rs.TotalCount(): pieces per segment
          MinReq,     \* rs.RequiredCount(): pieces needed to download
          MaxPuts,    \* bound on Put calls, and so on piece IDs
          MaxLosses,  \* bound on pieces lost by storage nodes
          Faults,     \* whether ec and pdb calls may fail
          Nil, NoPointer

ASSUME Total \in Nat \ {0} /\ MinReq \in 1..Total
ASSUME MaxPuts \in Nat /\ MaxLosses \in Nat /\ Faults \in BOOLEAN

PieceNums == 0..(Total - 1)
Pids == 1..MaxPuts
NodeList == [PieceNums -> Nodes \cup {Nil}]
NoNodes == [i \in PieceNums |-> Nil]

\* pb.Pointer: the piece ID, REMOTE or INLINE, and the realigned nodes.
Pointer == [pid: Pids, remote: BOOLEAN, nodes: NodeList]

VARIABLES pdb,         \* the pointer stored at the path, or NoPointer
          pieces,      \* pieces held by storage nodes: <<pid, node>>
          cl,          \* client -> the call in progress and its locals
          nextPid,     \* piece IDs drawn so far
          losses,      \* pieces lost by storage nodes so far
          lost,        \* ghost: the pieces lost by storage nodes
          superseded,  \* ghost: piece IDs whose pointer a Put replaced or a Delete removed
          placed       \* ghost: every piece an ec.Put has placed on its node

vars == <<pdb, pieces, cl, nextPid, losses, lost, superseded, placed>>

Idle == [pc |-> "idle", ptr |-> NoPointer, healthy |-> NoNodes, excluded |-> {},
         missing |-> 0, repairNodes |-> NoNodes]

\* The pieces a node list names for piece ID pid.
PiecesOf(pid, nodes) == {<<pid, nodes[i]>> : i \in {j \in PieceNums : nodes[j] # Nil}}

\* Some of the pieces an ec.Put was sending, the ones placed before it failed.
PartialPut(pid, nodes) == SUBSET PiecesOf(pid, nodes)

\* The successfulNodes an ec.Put that returns no error may report: the
\* nodes it was given, with Nil for the pieces it failed to place.  The
\* ec client is not under src/, and its success threshold with it, so
\* any non-empty set of the pieces sent may be the ones placed.  Without
\* Faults every piece is placed.
SuccessfulNodes(nodes) ==
  LET sent == {j \in PieceNums : nodes[j] # Nil} IN
  IF Faults
    THEN {[i \in PieceNums |-> IF i \in ok THEN nodes[i] ELSE Nil] :
            ok \in (SUBSET sent) \ {{}}}
    ELSE {nodes}

\* Pieces arrive on their nodes.
PlacePieces(ps) == pieces' = pieces \cup ps /\ placed' = placed \cup ps

\* The pointer db after pdb.Put(path, p), with the superseded version noted.
StorePointer(p) ==
  /\ pdb' = p
  /\ superseded' = IF pdb # NoPointer /\ pdb.pid # p.pid
                     THEN superseded \cup {pdb.pid} ELSE superseded

Done(c) == cl' = [cl EXCEPT ![c] = Idle]

-----------------------------------------------------------------------------
(* Put                                                                     *)

\* Put up to ec.Put: a segment at most thresholdSize is INLINE and goes
\* straight to pdb.Put; a remote one gets Total distinct nodes from
\* oc.Choose and a new piece ID.
PutBegin(c) ==
  /\ cl[c].pc = "idle"
  /\ nextPid < MaxPuts
  /\ \/ cl' = [cl EXCEPT ![c] = [Idle EXCEPT !.pc = "putPointer",
                 !.ptr = [pid |-> nextPid + 1, remote |-> FALSE, nodes |-> NoNodes]]]
     \/ \E nodes \in Injection(PieceNums, Nodes) :
          cl' = [cl EXCEPT ![c] = [Idle EXCEPT !.pc = "putPieces",
                   !.ptr = [pid |-> nextPid + 1, remote |-> TRUE, nodes |-> nodes]]]
  /\ nextPid' = nextPid + 1
  /\ UNCHANGED <<placed, pdb, pieces, losses, lost, superseded>>

\* A variant of Put that builds the pointer from the nodes chosen instead
\* of the ones ec.Put reports successful.
PutPiecesFromChosen(c) ==
  LET p == cl[c].ptr IN
  /\ cl[c].pc = "putPieces"
  /\ \/ \E succ \in SuccessfulNodes(p.nodes) :
          /\ pieces' = pieces \cup PiecesOf(p.pid, succ)
          /\ placed' = placed \cup PiecesOf(p.pid, succ)
          /\ cl' = [cl EXCEPT ![c].pc = "putPointer"]
     \/ /\ Faults
        /\ \E part \in PartialPut(p.pid, p.nodes) : PlacePieces(part)
        /\ Done(c)
  /\ UNCHANGED <<pdb, nextPid, losses, lost, superseded>>

\* ec.Put to the chosen nodes, then makeRemotePointer of the nodes it
\* reports successful, whose Nil entries it skips.  A failed ec.Put
\* returns the error; the pieces it placed stay on the nodes.
PutPieces(c) ==
  LET p == cl[c].ptr IN
  /\ cl[c].pc = "putPieces"
  /\ \/ \E succ \in SuccessfulNodes(p.nodes) :
          /\ PlacePieces(PiecesOf(p.pid, succ))
          /\ cl' = [cl EXCEPT ![c].pc = "putPointer", ![c].ptr.nodes = succ]
     \/ /\ Faults
        /\ \E part \in PartialPut(p.pid, p.nodes) : PlacePieces(part)
        /\ Done(c)
  /\ UNCHANGED <<pdb, nextPid, losses, lost, superseded>>

\* pdb.Put of the pointer, then Meta, which reads it back (what it returns
\* is not kept).  A failed pdb.Put returns the error.
PutPointer(c) ==
  /\ cl[c].pc = "putPointer"
  /\ \/ StorePointer(cl[c].ptr)
     \/ /\ Faults
        /\ UNCHANGED <<pdb, superseded>>
  /\ Done(c)
  /\ UNCHANGED <<placed, pieces, nextPid, losses, lost>>

-----------------------------------------------------------------------------
(* Delete                                                                  *)

\* pdb.Get: a remote segment's pieces are deleted first.
DeleteGet(c) ==
  /\ cl[c].pc = "idle"
  /\ pdb # NoPointer
  /\ cl' = [cl EXCEPT ![c] = [Idle EXCEPT !.pc = IF pdb.remote THEN "deletePieces" ELSE "deletePointer",
                                           !.ptr = pdb]]
  /\ UNCHANGED <<placed, pdb, pieces, nextPid, losses, lost, superseded>>

\* ec.Delete of the pieces of the pointer read; on failure Delete returns
\* the error and leaves the pointer.
DeletePieces(c) ==
  LET p == cl[c].ptr IN
  /\ cl[c].pc = "deletePieces"
  /\ \/ /\ pieces' = pieces \ PiecesOf(p.pid, p.nodes)
        /\ cl' = [cl EXCEPT ![c].pc = "deletePointer"]
     \/ /\ Faults
        /\ UNCHANGED pieces
        /\ Done(c)
  /\ UNCHANGED <<placed, pdb, nextPid, losses, lost, superseded>>

\* pdb.Delete of the path, whatever it holds now; NotFound if it is gone.
\* With Faults the call may fail, after ec.Delete has removed the pieces.
DeletePointer(c) ==
  /\ cl[c].pc = "deletePointer"
  /\ \/ /\ pdb = NoPointer
        /\ UNCHANGED <<pdb, superseded>>
     \/ /\ pdb # NoPointer
        /\ pdb' = NoPointer
        /\ superseded' = superseded \cup {pdb.pid}
     \/ /\ Faults
        /\ UNCHANGED <<pdb, superseded>>
  /\ Done(c)
  /\ UNCHANGED <<pieces, placed, nextPid, losses, lost>>

-----------------------------------------------------------------------------
(* Repair                                                                  *)

\* pdb.Get and lookupAndAlignNodes of a remote segment, then the loop over
\* the original nodes: every node is excluded from the new ones; a piece
\* number without a node, or one in lostPieces, is to be repaired.
\* lostPieces is the caller's, from an earlier look at the segment, and
\* may be any piece numbers.
RepairGet(c) ==
  /\ cl[c].pc = "idle"
  /\ pdb # NoPointer
  /\ pdb.remote
  /\ \E lostPieces \in SUBSET PieceNums :
       LET healthy == [i \in PieceNums |-> IF i \in lostPieces THEN Nil ELSE pdb.nodes[i]]
       IN cl' = [cl EXCEPT ![c] = [Idle EXCEPT
                   !.pc = "repairChoose", !.ptr = pdb, !.healthy = healthy,
                   !.excluded = Range(pdb.nodes) \ {Nil},
                   !.missing = Cardinality({i \in PieceNums : healthy[i] = Nil})]]
  /\ UNCHANGED <<placed, pdb, pieces, nextPid, losses, lost, superseded>>

\* The loop that hands the new nodes out to the piece numbers without a
\* healthy node, last new node first; ok is FALSE when the count of new
\* nodes left goes negative or does not end at zero.
RECURSIVE AssignLoop(_, _, _, _, _)
AssignLoop(healthy, newNodes, i, count, repairNodes) ==
  IF i > Total - 1 THEN [ok |-> count = 0, nodes |-> repairNodes]
  ELSE IF count < 0 THEN [ok |-> FALSE, nodes |-> repairNodes]
  ELSE IF healthy[i] = Nil
       THEN AssignLoop(healthy, newNodes, i + 1, count - 1,
                       [repairNodes EXCEPT ![i] = newNodes[count]])
       ELSE AssignLoop(healthy, newNodes, i + 1, count, repairNodes)

\* The nodes the overlay may return for Options{Amount: missing, Excluded}:
\* distinct and none excluded (spec 4.4).
ChooseResults(amount, excluded) == Injection(1..amount, Nodes \ excluded)
\* Variants of Repair's Choose: one that excludes no node, as Put's does,
\* and one that excludes only the healthy nodes.
RepairChooseNoExclude(c) ==
  LET r == cl[c] IN
  /\ r.pc = "repairChoose"
  /\ \/ \E newNodes \in ChooseResults(r.missing, {}) :
          LET a == AssignLoop(r.healthy, newNodes, 0, r.missing, NoNodes) IN
          IF a.ok THEN cl' = [cl EXCEPT ![c].pc = "repairDownload", ![c].repairNodes = a.nodes]
                  ELSE Done(c)
     \/ /\ Faults \/ ChooseResults(r.missing, {}) = {}
        /\ Done(c)
  /\ UNCHANGED <<placed, pdb, pieces, nextPid, losses, lost, superseded>>

RepairChooseExcludingHealthy(c) ==
  LET r == cl[c]
      ex == Range(r.healthy) \ {Nil}
  IN
  /\ r.pc = "repairChoose"
  /\ \/ \E newNodes \in ChooseResults(r.missing, ex) :
          LET a == AssignLoop(r.healthy, newNodes, 0, r.missing, NoNodes) IN
          IF a.ok THEN cl' = [cl EXCEPT ![c].pc = "repairDownload", ![c].repairNodes = a.nodes]
                  ELSE Done(c)
     \/ /\ Faults \/ ChooseResults(r.missing, ex) = {}
        /\ Done(c)
  /\ UNCHANGED <<placed, pdb, pieces, nextPid, losses, lost, superseded>>


\* oc.Choose for the missing pieces and the assignment loop.  Too few
\* eligible nodes (or, with Faults, a failed call) is an error.
RepairChoose(c) ==
  LET r == cl[c] IN
  /\ r.pc = "repairChoose"
  /\ \/ \E newNodes \in ChooseResults(r.missing, r.excluded) :
          LET a == AssignLoop(r.healthy, newNodes, 0, r.missing, NoNodes) IN
          IF a.ok THEN cl' = [cl EXCEPT ![c].pc = "repairDownload", ![c].repairNodes = a.nodes]
                  ELSE Done(c)
     \/ /\ Faults \/ ChooseResults(r.missing, r.excluded) = {}
        /\ Done(c)
  /\ UNCHANGED <<placed, pdb, pieces, nextPid, losses, lost, superseded>>

\* ec.Get from the healthy nodes and rr.Range: the segment decodes when
\* MinReq of those pieces are still on their nodes (spec 4.5).
RepairDownload(c) ==
  LET r == cl[c] IN
  /\ r.pc = "repairDownload"
  /\ IF Cardinality(PiecesOf(r.ptr.pid, r.healthy) \cap pieces) >= MinReq
       THEN cl' = [cl EXCEPT ![c].pc = "repairPieces"]
       ELSE Done(c)
  /\ UNCHANGED <<placed, pdb, pieces, nextPid, losses, lost, superseded>>

\* The pointer Repair writes: the healthy nodes with the successful ones
\* of the repair's ec.Put merged in, through makeRemotePointer, under the
\* same piece ID.  A piece number whose upload failed stays Nil.
Repaired(r, succ) ==
  [r.ptr EXCEPT !.nodes = [i \in PieceNums |->
                             IF r.healthy[i] = Nil THEN succ[i] ELSE r.healthy[i]]]

\* A variant of Repair that goes on to pdb.Put when ec.Put failed.
RepairPiecesIgnoringError(c) ==
  LET r == cl[c] IN
  /\ r.pc = "repairPieces"
  /\ \/ \E succ \in SuccessfulNodes(r.repairNodes) :
          /\ PlacePieces(PiecesOf(r.ptr.pid, succ))
          /\ cl' = [cl EXCEPT ![c].pc = "repairPointer", ![c].ptr = Repaired(r, succ)]
     \/ /\ Faults
        /\ \E part \in PartialPut(r.ptr.pid, r.repairNodes) : PlacePieces(part)
        /\ cl' = [cl EXCEPT ![c].pc = "repairPointer", ![c].ptr = Repaired(r, r.repairNodes)]
  /\ UNCHANGED <<pdb, nextPid, losses, lost, superseded>>

\* ec.Put of the re-encoded pieces to the repair nodes, under the same
\* piece ID; a failure returns the error, the pieces placed staying.
RepairPieces(c) ==
  LET r == cl[c] IN
  /\ r.pc = "repairPieces"
  /\ \/ \E succ \in SuccessfulNodes(r.repairNodes) :
          /\ PlacePieces(PiecesOf(r.ptr.pid, succ))
          /\ cl' = [cl EXCEPT ![c].pc = "repairPointer", ![c].ptr = Repaired(r, succ)]
     \/ /\ Faults
        /\ \E part \in PartialPut(r.ptr.pid, r.repairNodes) : PlacePieces(part)
        /\ Done(c)
  /\ UNCHANGED <<pdb, nextPid, losses, lost, superseded>>

\* pdb.Put of the repaired pointer, unconditionally.
RepairPointer(c) ==
  /\ cl[c].pc = "repairPointer"
  /\ \/ StorePointer(cl[c].ptr)
     \/ /\ Faults
        /\ UNCHANGED <<pdb, superseded>>
  /\ Done(c)
  /\ UNCHANGED <<placed, pieces, nextPid, losses, lost>>

-----------------------------------------------------------------------------
\* A storage node loses one of its pieces (a disk failure, the node gone).
LosePiece ==
  /\ losses < MaxLosses
  /\ \E x \in pieces :
       /\ pieces' = pieces \ {x}
       /\ lost' = lost \cup {x}
  /\ losses' = losses + 1
  /\ UNCHANGED <<placed, pdb, cl, nextPid, superseded>>

\* Every Put made and every client idle.
Quiescent ==
  /\ nextPid = MaxPuts
  /\ \A c \in Clients : cl[c].pc = "idle"
  /\ UNCHANGED vars

Init ==
  /\ pdb = NoPointer
  /\ pieces = {}
  /\ cl = [c \in Clients |-> Idle]
  /\ nextPid = 0
  /\ losses = 0
  /\ lost = {}
  /\ superseded = {}
  /\ placed = {}

Next ==
  \/ \E c \in Clients :
       \/ PutBegin(c) \/ PutPieces(c) \/ PutPointer(c)
       \/ DeleteGet(c) \/ DeletePieces(c) \/ DeletePointer(c)
       \/ RepairGet(c) \/ RepairChoose(c) \/ RepairDownload(c)
       \/ RepairPieces(c) \/ RepairPointer(c)
  \/ LosePiece
  \/ Quiescent

Spec == Init /\ [][Next]_vars

-----------------------------------------------------------------------------
\* Spec 8.1: the stored pointer's pieces are on distinct nodes.  Put takes
\* them from one oc.Choose; Repair adds nodes from a second Choose, which
\* must exclude every node already in the pointer, healthy or not.
PieceNodesDistinct ==
  pdb # NoPointer =>
    \A i, j \in PieceNums : (i # j /\ pdb.nodes[i] # Nil) => pdb.nodes[i] # pdb.nodes[j]

\* A Repair never puts a repaired piece back on a node of the pointer it
\* read: each piece number it fills is on a node outside the excluded
\* list built from the original nodes (the lost ones included), or stays
\* Nil when its upload failed.  The healthy pieces are kept as they were.
RepairAvoidsReadNodes ==
  [][\A c \in Clients :
       (cl[c].pc = "repairPointer" /\ pdb' = cl[c].ptr) =>
         \A i \in PieceNums :
           IF cl[c].healthy[i] = Nil THEN pdb'.nodes[i] \notin cl[c].excluded
                                    ELSE pdb'.nodes[i] = cl[c].healthy[i]]_vars

\* The stored pointer names only pieces that an ec.Put of a Put or a
\* Repair reported placed: a pointer is never built from nodes whose
\* upload failed, by Put after a partial ec.Put or by Repair after its
\* ec.Put returned an error.
PointerPiecesPlaced ==
  pdb # NoPointer => PiecesOf(pdb.pid, pdb.nodes) \subseteq placed

\* Spec 4.3: repair's update of a pointer is a compare-and-swap on the
\* pointer it read, "so a concurrent delete cannot resurrect a pointer".
\* The pointer stored is never one that a Delete removed or a later Put
\* replaced.
NoResurrection == pdb # NoPointer => pdb.pid \notin superseded

================================================================================
