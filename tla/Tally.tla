-------------------------------- MODULE Tally --------------------------------
(***************************************************************************)
(* The satellite's bandwidth tally (src/pkg/accounting/tally/tally.go)    *)
(* over the bandwidth agreements table (SaveOrder in                       *)
(* src/satellite/satellitedb/bandwidthagreement.go).                       *)
(*                                                                         *)
(* Callers of SaveOrder store the orders storage nodes submit; each row    *)
(* is keyed by serial number and node, and stamped created_at = time.Now() *)
(* before the INSERT runs.  The tally loop runs calculateAtRestData, then  *)
(* Query, then waits for its ticker: Query reads LastGranularTime, the     *)
(* agreements created since (all of them when there is none), sums them   *)
(* per node and hands the sums and a time to SaveGranulars.                *)
(*                                                                         *)
(* The accounting and agreement databases are not under src/, and the    *)
(* spec does not describe them.  GetAgreementsSince(t) is taken to return *)
(* the rows with created_at > t, the bound the other bwagreements queries *)
(* use (bandwidthagreement.go GetUplinkStats, GetTotals); SaveGranulars    *)
(* adds the sums to the granular table and records the time it is given  *)
(* as the new LastGranularTime, in one transaction.  An                   *)
(* order is abstracted to its serial number; times are 0..MaxTime, with 0  *)
(* Go's zero time.Time.                                                    *)
(***************************************************************************)
EXTENDS Naturals, FiniteSets

CONSTANTS Submitters,   \* concurrent callers of SaveOrder
          Serials,      \* order serial numbers (one storage node)
          MaxTime,      \* bound on the clock
          NoOrder,
          NilTime       \* LastGranularTime found no row

ASSUME MaxTime \in Nat \ {0}

ZeroTime == 0
Times == 0..MaxTime

\* A row of bwagreements: its key and created_at.
Agreement == [serial: Serials, created: Times]

\* How many times an agreement has been added to the granular table; two
\* stands for "more than once".
Counts == 0..2

VARIABLES now,         \* the clock time.Now() reads
          agreements,  \* the committed bwagreements rows
          saving,      \* submitter -> the row whose INSERT is under way, or NoOrder
          lastTally,   \* LastGranularTime: NilTime or a time
          tpc,         \* the tally loop's place
          read,        \* the agreements Query read
          since,       \* lastBwTally as Query read it
          counted      \* ghost: serial -> times added to the granular table

vars == <<now, agreements, saving, lastTally, tpc, read, since, counted>>

Serial(rows) == {a.serial : a \in rows}

\* Serials already handed to SaveOrder.
Submitted == Serial(agreements) \cup Serial({saving[x] : x \in {y \in Submitters : saving[y] # NoOrder}})

-----------------------------------------------------------------------------
\* Time passes.
Tick ==
  /\ now < MaxTime
  /\ now' = now + 1
  /\ UNCHANGED <<agreements, saving, lastTally, tpc, read, since, counted>>

\* SaveOrder, the argument list: created_at is time.Now(), taken before
\* the statement reaches the database.
SaveOrderStamp(x) ==
  /\ saving[x] = NoOrder
  /\ \E s \in Serials \ Submitted :
       saving' = [saving EXCEPT ![x] = [serial |-> s, created |-> now]]
  /\ UNCHANGED <<now, agreements, lastTally, tpc, read, since, counted>>

\* The INSERT; a row with the same key makes it fail.
SaveOrderInsert(x) ==
  /\ saving[x] # NoOrder
  /\ IF saving[x].serial \in Serial(agreements)
       THEN UNCHANGED agreements
       ELSE agreements' = agreements \cup {saving[x]}
  /\ saving' = [saving EXCEPT ![x] = NoOrder]
  /\ UNCHANGED <<now, lastTally, tpc, read, since, counted>>

\* calculateAtRestData iterates the pointers and sums the piece sizes per
\* node, but updateRawTable is a TODO that stores nothing; its error is
\* logged and the loop goes on.
CalculateAtRestData ==
  /\ tpc = "atRest"
  /\ tpc' = "query"
  /\ UNCHANGED <<now, agreements, saving, lastTally, read, since, counted>>

\* GetAgreements, or GetAgreementsSince(t): the rows created after t.
GetAgreementsSince(t) ==
  IF t = NilTime THEN agreements ELSE {a \in agreements : a.created > t}

\* Query, up to SaveGranulars: LastGranularTime, then the agreements since.
\* No agreement returns nil.
QueryRead ==
  LET rows == GetAgreementsSince(lastTally) IN
  /\ tpc = "query"
  /\ IF rows = {}
       THEN /\ tpc' = "wait"
            /\ UNCHANGED <<read, since>>
       ELSE /\ tpc' = "save"
            /\ read' = rows
            /\ since' = IF lastTally = NilTime THEN ZeroTime ELSE lastTally
  /\ UNCHANGED <<now, agreements, saving, lastTally, counted>>

\* The sums per node, and SaveGranulars(lastBwTally, bwTotals).
QuerySave ==
  /\ tpc = "save"
  /\ counted' = [s \in Serials |->
                   IF s \in Serial(read) THEN IF counted[s] = 2 THEN 2 ELSE counted[s] + 1
                                         ELSE counted[s]]
  /\ lastTally' = since
  /\ tpc' = "wait"
  /\ read' = {}
  /\ UNCHANGED <<now, agreements, saving, since>>

\* LastGranularTime, GetAgreements(Since) or SaveGranulars returns an
\* error: Query returns it, Run logs it and waits for the ticker.  A failed
\* SaveGranulars transaction changes nothing.
QueryFail ==
  /\ tpc \in {"query", "save"}
  /\ tpc' = "wait"
  /\ read' = {}
  /\ UNCHANGED <<now, agreements, saving, lastTally, since, counted>>

\* The ticker fires and the loop runs again.
TickerFires ==
  /\ tpc = "wait"
  /\ tpc' = "atRest"
  /\ UNCHANGED <<now, agreements, saving, lastTally, read, since, counted>>

Init ==
  /\ now = 1
  /\ agreements = {}
  /\ saving = [x \in Submitters |-> NoOrder]
  /\ lastTally = NilTime
  /\ tpc = "atRest"
  /\ read = {}
  /\ since = ZeroTime
  /\ counted = [s \in Serials |-> 0]

Next ==
  \/ Tick
  \/ \E x \in Submitters : SaveOrderStamp(x) \/ SaveOrderInsert(x)
  \/ CalculateAtRestData
  \/ QueryRead
  \/ QuerySave
  \/ QueryFail
  \/ TickerFires

Spec == Init /\ [][Next]_vars

-----------------------------------------------------------------------------
TypeOK ==
  /\ now \in Times
  /\ agreements \subseteq Agreement
  /\ \A x \in Submitters : saving[x] \in Agreement \cup {NoOrder}
  /\ lastTally \in Times \cup {NilTime}
  /\ tpc \in {"atRest", "query", "save", "wait"}
  /\ read \subseteq Agreement
  /\ since \in Times
  /\ counted \in [Serials -> Counts]

\* Each agreement is added to the granular table at most once (spec 4.10:
\* the rollup is idempotent on the order's serial number), across every
\* run of the tally loop.
CountedOnce == \A s \in Serials : counted[s] <= 1

================================================================================
