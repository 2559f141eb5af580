--------------------------- MODULE ReputationAtomic ---------------------------
(***************************************************************************)
(* What the overlay's reputation store promises its callers (spec 4.7 and *)
(* 5): every update of a node's counters is applied atomically, in one     *)
(* single-row transaction.  A call that returns success has been applied   *)
(* exactly once to the row as it stood when it was applied; a call that    *)
(* returns an error has changed nothing.  CreateEntryIfNotExists leaves    *)
(* the row in place, creating it with zero counters when it was missing.   *)
(***************************************************************************)
EXTENDS Naturals

CONSTANTS Nodes,     \* storage node IDs
          Callers,   \* concurrent clients of the overlay cache
          NoRow,     \* a node without a row in the nodes table
          NoCall     \* a caller with no call in progress

\* The counters of one nodes-table row.
Counts == [auditSuccess: Nat, auditTotal: Nat, uptimeSuccess: Nat, uptimeTotal: Nat]

ZeroCounts == [auditSuccess |-> 0, auditTotal |-> 0, uptimeSuccess |-> 0, uptimeTotal |-> 0]

\* A call: which operation, on which node, with which audit and uptime
\* outcomes ("stats" carries both, "audit" and "uptime" one, "create" none).
UpdateOps == {"stats", "audit", "uptime"}
Request == [op: UpdateOps \cup {"create"}, node: Nodes, audit: BOOLEAN, up: BOOLEAN]

\* The counters after a request is applied, as the spec's table says.
Bump(success, total, ok) == <<IF ok THEN success + 1 ELSE success, total + 1>>

Applied(row, r) ==
  LET a == Bump(row.auditSuccess, row.auditTotal, r.audit)
      u == Bump(row.uptimeSuccess, row.uptimeTotal, r.up)
  IN CASE r.op = "stats"  -> [auditSuccess |-> a[1], auditTotal |-> a[2],
                              uptimeSuccess |-> u[1], uptimeTotal |-> u[2]]
       [] r.op = "audit"  -> [row EXCEPT !.auditSuccess = a[1], !.auditTotal = a[2]]
       [] r.op = "uptime" -> [row EXCEPT !.uptimeSuccess = u[1], !.uptimeTotal = u[2]]

VARIABLES rows,    \* node -> Counts or NoRow
          call,    \* caller -> the Request in progress, or NoCall
          result   \* caller -> outcome of its last call: "none", "ok" or "err"

vars == <<rows, call, result>>

Init ==
  /\ rows \in [Nodes -> {NoRow, ZeroCounts}]
  /\ call = [c \in Callers |-> NoCall]
  /\ result = [c \in Callers |-> "none"]

Invoke(c, r) ==
  /\ call[c] = NoCall
  /\ call' = [call EXCEPT ![c] = r]
  /\ UNCHANGED <<rows, result>>

Return(c, res) ==
  /\ call' = [call EXCEPT ![c] = NoCall]
  /\ result' = [result EXCEPT ![c] = res]

\* An update applied atomically to an existing row.
Apply(c) ==
  LET r == call[c] IN
  /\ r # NoCall
  /\ r.op \in UpdateOps
  /\ rows[r.node] # NoRow
  /\ rows' = [rows EXCEPT ![r.node] = Applied(@, r)]
  /\ Return(c, "ok")

\* CreateEntryIfNotExists returning the row, creating it if it was missing.
Ensure(c) ==
  LET r == call[c] IN
  /\ r # NoCall
  /\ r.op = "create"
  /\ rows' = [rows EXCEPT ![r.node] = IF @ = NoRow THEN ZeroCounts ELSE @]
  /\ Return(c, "ok")

\* Any call may fail (a missing row, a database error); it then changes nothing.
Reject(c) ==
  /\ call[c] # NoCall
  /\ Return(c, "err")
  /\ UNCHANGED rows

Next ==
  \E c \in Callers :
    \/ \E r \in Request : Invoke(c, r)
    \/ Apply(c)
    \/ Ensure(c)
    \/ Reject(c)

Spec == Init /\ [][Next]_vars
================================================================================
