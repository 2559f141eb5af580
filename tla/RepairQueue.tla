----------------------------- MODULE RepairQueue -----------------------------
(***************************************************************************)
(* The satellite's repair queue (src/satellite/satellitedb/repairqueue.go) *)
(* over the injuredsegments table (id bigserial, info bytea).  Enqueue     *)
(* inserts one row holding the marshalled InjuredSegment.  Dequeue opens a *)
(* transaction, reads the first row, deletes every row whose info equals   *)
(* the one read, and commits; the segment returned is then repaired by the *)
(* worker that dequeued it.                                                *)
(*                                                                         *)
(* The callers are not under src/: the checker enqueues injured segments  *)
(* and repair workers dequeue and repair them (spec 4.8).  An InjuredSegment *)
(* is abstracted to a member of Segments: two rows with the same member   *)
(* have the same info bytes.  The database runs read committed: a row a   *)
(* transaction deletes stays visible to others until it commits, and a    *)
(* DELETE that waits on a row lock skips the rows deleted meanwhile.  The *)
(* Delete, the Unmarshal and the Commit of Dequeue are one step, since     *)
(* the row locks the Delete takes are held to the Commit.                  *)
(***************************************************************************)
EXTENDS Naturals, FiniteSets

CONSTANTS Workers,      \* repair workers calling Dequeue
          Segments,     \* injured segments (their marshalled info)
          MaxEnqueues,  \* bound on Enqueue calls, and so on row ids
          NoSegment

ASSUME MaxEnqueues \in Nat

VARIABLES rows,     \* the committed injuredsegments rows: [id, info]
          nextId,   \* the bigserial: ids handed out so far
          worker,   \* worker -> [pc, read, info, ids]
          pending   \* ghost: ids of rows enqueued and not yet repaired

vars == <<rows, nextId, worker, pending>>

Ids == 1..MaxEnqueues
Row == [id: Ids, info: Segments]

Idle == [pc |-> "idle", read |-> NoSegment, info |-> NoSegment, ids |-> {}]

Infos(rs) == {r.info : r \in rs}

-----------------------------------------------------------------------------
\* Enqueue: proto.Marshal and Create_Injuredsegment, a single insert with
\* no check of what the table holds or of what a worker is repairing.
Enqueue(s) ==
  /\ nextId < MaxEnqueues
  /\ rows' = rows \cup {[id |-> nextId + 1, info |-> s]}
  /\ nextId' = nextId + 1
  /\ pending' = pending \cup {nextId + 1}
  /\ UNCHANGED worker

\* The checker's call of Enqueue (spec 4.8, not under src/): it
\* deduplicates by path against the queue.  A segment being repaired is
\* no longer in the queue.
CheckerEnqueue(s) ==
  /\ s \notin Infos(rows)
  /\ Enqueue(s)

\* The first row: the one with the lowest id, as TestSequential expects.
First(rs) == CHOOSE r \in rs : \A q \in rs : r.id <= q.id

\* Dequeue: db.Open and First_Injuredsegment.  An empty table rolls back
\* and returns ErrEmptyQueue.
DequeueFirst(x) ==
  /\ worker[x].pc = "idle"
  /\ rows # {}
  /\ worker' = [worker EXCEPT ![x].pc = "delete", ![x].read = First(rows).info]
  /\ UNCHANGED <<rows, nextId, pending>>

DequeueEmpty(x) ==
  /\ worker[x].pc = "idle"
  /\ rows = {}
  /\ UNCHANGED vars

\* A variant whose Delete has lost its WHERE clause.
DequeueDeleteAll(x) ==
  LET gone == {r \in rows : r.info = worker[x].read} IN
  /\ worker[x].pc = "delete"
  /\ IF gone = {}
       THEN /\ worker' = [worker EXCEPT ![x] = Idle]
            /\ UNCHANGED rows
       ELSE /\ rows' = {}
            /\ worker' = [worker EXCEPT ![x] = [pc |-> "repair", read |-> NoSegment,
                                                info |-> worker[x].read, ids |-> {r.id : r \in gone}]]
  /\ UNCHANGED <<nextId, pending>>

\* Delete_Injuredsegment_By_Info, proto.Unmarshal and Commit.  The delete
\* removes every row with the info read, including rows committed since
\* the read; when another Dequeue has deleted them all, it reports "not
\* deleted", rolls back and returns the error.
DequeueDelete(x) ==
  LET gone == {r \in rows : r.info = worker[x].read} IN
  /\ worker[x].pc = "delete"
  /\ IF gone = {}
       THEN /\ worker' = [worker EXCEPT ![x] = Idle]
            /\ UNCHANGED rows
       ELSE /\ rows' = rows \ gone
            /\ worker' = [worker EXCEPT ![x] = [pc |-> "repair", read |-> NoSegment,
                                                info |-> worker[x].read, ids |-> {r.id : r \in gone}]]
  /\ UNCHANGED <<nextId, pending>>

\* The worker repairs the segment it dequeued.
RepairDone(x) ==
  /\ worker[x].pc = "repair"
  /\ pending' = pending \ worker[x].ids
  /\ worker' = [worker EXCEPT ![x] = Idle]
  /\ UNCHANGED <<rows, nextId>>

Init ==
  /\ rows = {}
  /\ nextId = 0
  /\ worker = [x \in Workers |-> Idle]
  /\ pending = {}

Next ==
  \/ \E s \in Segments : CheckerEnqueue(s)
  \/ \E x \in Workers :
       \/ DequeueFirst(x)
       \/ DequeueEmpty(x)
       \/ DequeueDelete(x)
       \/ RepairDone(x)

Spec == Init /\ [][Next]_vars

\* Repair workers poll the queue and finish each step they start.
FairSpec == Spec /\ \A x \in Workers :
                      WF_vars(DequeueFirst(x) \/ DequeueDelete(x) \/ RepairDone(x))

-----------------------------------------------------------------------------
\* No injured segment is lost: every row enqueued and not yet repaired is
\* still in the table or is held by the worker repairing it.
NoSegmentLost ==
  \A id \in pending :
    \/ \E r \in rows : r.id = id
    \/ \E x \in Workers : worker[x].pc = "repair" /\ id \in worker[x].ids

\* Every injured segment enqueued is eventually repaired.
EveryInjuredRepaired == \A id \in Ids : id \in pending ~> id \notin pending

================================================================================
