------------------------------ MODULE Reputation ------------------------------
(***************************************************************************)
(* The reputation counters of the overlay cache (src/unnamed/part_016,     *)
(* overlaycache): UpdateStats, UpdateUptime and UpdateAuditSuccess each   *)
(* open a transaction, read the node's row, compute the new counters with *)
(* updateRatioVars from what they read, and write them back with          *)
(* Update_Node_By_Id.  CreateEntryIfNotExists reads the row outside any   *)
(* transaction and inserts it when it was missing.  Several callers (the   *)
(* audit reporter, the contact chore) run these concurrently.              *)
(*                                                                         *)
(* The database's isolation level decides what a concurrent write does to *)
(* a transaction that read the row before it: under "serializable"        *)
(* (Postgres REPEATABLE READ/SERIALIZABLE) its Update fails with a         *)
(* serialization error; under "readCommitted" (Postgres's default) the     *)
(* Update waits for the row lock and then overwrites the row.  Update and *)
(* Commit are one step: the row lock taken by Update is held to Commit, so *)
(* no other transaction sees or overwrites the row in between.             *)
(***************************************************************************)
EXTENDS Naturals

CONSTANTS Nodes, Callers, NoRow, NoCall,
          Isolation,  \* "serializable" or "readCommitted"
          MaxCalls    \* bound on the calls made in a behaviour

ASSUME Isolation \in {"serializable", "readCommitted"}

VARIABLES rows,    \* node -> committed counters, or NoRow
          tx,      \* caller -> [pc, req, read]: the call in progress
          result,  \* caller -> "none", "ok" or "err": what its last call returned
          calls    \* calls started so far

vars == <<rows, tx, result, calls>>

Abstract == INSTANCE ReputationAtomic WITH
              call <- [c \in Callers |-> IF tx[c].pc = "idle" THEN NoCall ELSE tx[c].req]

Counts == Abstract!Counts
ZeroCounts == Abstract!ZeroCounts
UpdateOps == Abstract!UpdateOps
Request == Abstract!Request

Idle == [pc |-> "idle", req |-> NoCall, read |-> NoRow]

\* A variant of updateRatioVars that forgets to count the event.
updateRatioVarsNoTotal(newStatus, successCount, totalCount) ==
  <<IF newStatus THEN successCount + 1 ELSE successCount, totalCount>>

\* updateRatioVars: one more event, one more success if it succeeded.  The
\* float ratio it also returns is successCount/totalCount of the same
\* pair, written in the same Update, and is left out.
updateRatioVars(newStatus, successCount, totalCount) ==
  <<IF newStatus THEN successCount + 1 ELSE successCount, totalCount + 1>>

\* A variant of UpdateStats's fields that passes IsUp and AuditSuccess to
\* the wrong updateRatioVars call.
updateFieldsStatsSwapped(cur, read, r) ==
  LET a == updateRatioVars(r.up, read.auditSuccess, read.auditTotal)
      u == updateRatioVars(r.audit, read.uptimeSuccess, read.uptimeTotal)
  IN [auditSuccess |-> a[1], auditTotal |-> a[2], uptimeSuccess |-> u[1], uptimeTotal |-> u[2]]

\* The columns each operation sets in Update_Node_By_Id, computed from the
\* row it read; the columns it does not set keep the row's current value.
updateFieldsStats(cur, read, r) ==
  LET a == updateRatioVars(r.audit, read.auditSuccess, read.auditTotal)
      u == updateRatioVars(r.up, read.uptimeSuccess, read.uptimeTotal)
  IN [auditSuccess |-> a[1], auditTotal |-> a[2], uptimeSuccess |-> u[1], uptimeTotal |-> u[2]]

updateFieldsUptime(cur, read, r) ==
  LET u == updateRatioVars(r.up, read.uptimeSuccess, read.uptimeTotal)
  IN [cur EXCEPT !.uptimeSuccess = u[1], !.uptimeTotal = u[2]]

updateFieldsAudit(cur, read, r) ==
  LET a == updateRatioVars(r.audit, read.auditSuccess, read.auditTotal)
  IN [cur EXCEPT !.auditSuccess = a[1], !.auditTotal = a[2]]

UpdateFields(cur, read, r) ==
  CASE r.op = "stats"  -> updateFieldsStats(cur, read, r)
    [] r.op = "uptime" -> updateFieldsUptime(cur, read, r)
    [] r.op = "audit"  -> updateFieldsAudit(cur, read, r)

Return(c, res) ==
  /\ tx' = [tx EXCEPT ![c] = Idle]
  /\ result' = [result EXCEPT ![c] = res]

-----------------------------------------------------------------------------
\* A caller starts a call.  UpdateStats carries both outcomes, UpdateUptime
\* only isUp, UpdateAuditSuccess only auditSuccess.
Begin(c, r) ==
  /\ tx[c].pc = "idle"
  /\ calls < MaxCalls
  /\ r.op = "uptime" => ~r.audit
  /\ r.op = "audit" => ~r.up
  /\ r.op = "create" => ~r.audit /\ ~r.up
  /\ tx' = [tx EXCEPT ![c] = [pc |-> IF r.op = "create" THEN "getstats" ELSE "get",
                              req |-> r, read |-> NoRow]]
  /\ calls' = calls + 1
  /\ UNCHANGED <<rows, result>>

\* db.Open and Get_Node_By_Id: a missing row rolls back and returns an error.
TxGet(c) ==
  LET n == tx[c].req.node IN
  /\ tx[c].pc = "get"
  /\ IF rows[n] = NoRow
       THEN Return(c, "err")
       ELSE /\ tx' = [tx EXCEPT ![c].pc = "update", ![c].read = rows[n]]
            /\ UNCHANGED result
  /\ UNCHANGED <<rows, calls>>

\* Update_Node_By_Id with the fields computed from the row read, then Commit.
\* A serializable transaction whose row was changed since it read it fails
\* and rolls back.
TxUpdate(c) ==
  LET t == tx[c]
      n == t.req.node
  IN /\ t.pc = "update"
     /\ IF Isolation = "serializable" /\ rows[n] # t.read
          THEN /\ Return(c, "err")
               /\ UNCHANGED rows
          ELSE /\ rows' = [rows EXCEPT ![n] = UpdateFields(@, t.read, t.req)]
               /\ Return(c, "ok")
     /\ UNCHANGED calls

\* CreateEntryIfNotExists, first half: GetStats (Find_Node_By_Id, no
\* transaction).  A row found is returned as is.
CreateGetStats(c) ==
  LET n == tx[c].req.node IN
  /\ tx[c].pc = "getstats"
  /\ IF rows[n] # NoRow
       THEN Return(c, "ok")
       ELSE /\ tx' = [tx EXCEPT ![c].pc = "create"]
            /\ UNCHANGED result
  /\ UNCHANGED <<rows, calls>>

\* Second half: Create(ctx, nodeID, nil), an insert with zero counters; a
\* row inserted since GetStats is a duplicate key and the insert fails.
CreateInsert(c) ==
  LET n == tx[c].req.node IN
  /\ tx[c].pc = "create"
  /\ IF rows[n] = NoRow
       THEN /\ rows' = [rows EXCEPT ![n] = ZeroCounts]
            /\ Return(c, "ok")
       ELSE /\ Return(c, "err")
            /\ UNCHANGED rows
  /\ UNCHANGED calls

\* All calls made and returned.
Finished ==
  /\ calls = MaxCalls
  /\ \A c \in Callers : tx[c].pc = "idle"
  /\ UNCHANGED vars

Init ==
  /\ rows \in [Nodes -> {NoRow, ZeroCounts}]
  /\ tx = [c \in Callers |-> Idle]
  /\ result = [c \in Callers |-> "none"]
  /\ calls = 0

Next ==
  \/ \E c \in Callers :
       \/ \E r \in Request : Begin(c, r)
       \/ TxGet(c)
       \/ TxUpdate(c)
       \/ CreateGetStats(c)
       \/ CreateInsert(c)
  \/ Finished

Spec == Init /\ [][Next]_vars

-----------------------------------------------------------------------------
\* Every row holds counters that checkRatioVars accepts (no success count
\* above its total), and every caller is at a step of the code.
TypeOK ==
  /\ rows \in [Nodes -> {NoRow} \cup {x \in Counts :
                 x.auditSuccess <= x.auditTotal /\ x.uptimeSuccess <= x.uptimeTotal}]
  /\ \A c \in Callers :
       \/ tx[c] = Idle
       \/ /\ tx[c].pc \in {"get", "update", "getstats", "create"}
          /\ tx[c].req \in Request
  /\ result \in [Callers -> {"none", "ok", "err"}]
  /\ calls \in 0..MaxCalls

\* The overlay cache implements the atomic reputation store: each update
\* that returns success was applied exactly once to the row as it stood,
\* a failed call changed nothing, and CreateEntryIfNotExists never
\* overwrites a row.  Under read-committed isolation the Update of
\* UpdateStats/UpdateUptime/UpdateAuditSuccess writes counters computed
\* from a stale read, which this refinement rules out.
AtomicUpdates == Abstract!Spec

\* CreateEntryIfNotExists returns an error only when it could not read or
\* create the row; never because the entry it was asked to ensure exists.
CreateEntryIfNotExistsSucceeds ==
  [][\A c \in Callers :
       (tx[c].pc = "create" /\ result'[c] = "err") => rows[tx[c].req.node] = NoRow]_vars
================================================================================
