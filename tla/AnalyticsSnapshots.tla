------------------------- MODULE AnalyticsSnapshots -------------------------
(***************************************************************************)
(* The materialized dashboard of one organization and period               *)
(* (modules/analytics): requests serve the AnalyticsSnapshot row unless a  *)
(* sale changed after it was computed, judged by the sale's updatedAt and  *)
(* the snapshot's computedAt.  Both times are taken before the write they  *)
(* belong to: updatedAt when the statement is sent, computedAt when the    *)
(* computation starts.  A sale is its version, the payload of a snapshot   *)
(* the versions it was computed from.                                      *)
(***************************************************************************)
EXTENDS Integers, FiniteSets, FiniteSetsExt

CONSTANTS
  Sales,       \* sales of the period
  Writers,     \* statements on sales in flight
  Readers,     \* dashboard requests, refreshes
  MaxVersions, \* bound: changes of a sale
  LastTime     \* bound: ticks of the clock

ASSUME SnapshotAssumption == MaxVersions \in Nat /\ LastTime \in Nat /\ IsFiniteSet(Sales)

VARIABLES
  time,
  sale,     \* Sales -> version and updatedAt of the row; version 0: no row
  writer,   \* Writers -> the statement in flight
  snapshot, \* the AnalyticsSnapshot row
  reader,   \* Readers -> the request in progress
  late      \* history: versions committed after the read of a computation that began
            \* at or after their updatedAt

snapshotVars == <<time, sale, writer, snapshot, reader, late>>

NoWrite == [sale |-> {}, at |-> 0]
NoRead == [step |-> "idle", now |-> 0, todo |-> {}, need |-> [s \in Sales |-> 0],
           computedAt |-> {}, newest |-> {}, holds |-> [s \in Sales |-> 0]]
Versions == [s \in Sales |-> sale[s].version]

SnapshotInit ==
  /\ time = 0
  /\ sale = [s \in Sales |-> [version |-> 0, updatedAt |-> 0]]
  /\ writer = [w \in Writers |-> NoWrite]
  /\ snapshot = [computedAt |-> {}, holds |-> [s \in Sales |-> 0]]
  /\ reader = [r \in Readers |-> NoRead]
  /\ late = {}

TimePasses ==
  /\ time < LastTime
  /\ time' = time + 1
  /\ UNCHANGED <<sale, writer, snapshot, reader, late>>

-----------------------------------------------------------------------------
(* Writers of sales: ingestion, managers.  One statement per sale at a time *)
(* (the row lock), in the order in which they commit.                       *)

SendWrite(w, s) ==
  /\ writer[w].sale = {}
  /\ sale[s].version < MaxVersions
  /\ writer' = [writer EXCEPT ![w] = [sale |-> {s}, at |-> time]]
  /\ UNCHANGED <<time, sale, snapshot, reader, late>>

(* A computation that began at or after t has read the sales already, and   *)
(* its result is the row, about to be the row, or in the hands of a request.*)
ComputedSince(t) ==
  \/ \E c \in snapshot.computedAt : c >= t
  \/ \E r \in Readers :
       \/ reader[r].step = "save" /\ reader[r].now >= t
       \/ \E c \in reader[r].computedAt : c >= t

CommitWrite(w) ==
  /\ \E s \in writer[w].sale :
       LET version == sale[s].version + 1
       IN /\ version <= MaxVersions
          /\ sale' = [sale EXCEPT ![s] = [version |-> version,
                                          updatedAt |-> writer[w].at]]
          /\ late' = IF ComputedSince(writer[w].at) THEN late \cup {<<s, version>>}
                     ELSE late
  /\ writer' = [writer EXCEPT ![w] = NoWrite]
  /\ UNCHANGED <<time, snapshot, reader>>

-----------------------------------------------------------------------------
(* getDashboard: two reads at once, then serve or compute. *)

OpenDashboard(r) ==
  /\ reader[r].step = "idle"
  /\ reader' = [reader EXCEPT ![r] = [NoRead EXCEPT !.step = "look", !.now = time,
                                                   !.todo = {"snapshot", "sales"},
                                                   !.need = Versions]]
  /\ UNCHANGED <<time, sale, writer, snapshot, late>>

FindSnapshot(r) ==
  /\ reader[r].step = "look" /\ "snapshot" \in reader[r].todo
  /\ reader' = [reader EXCEPT ![r].todo = @ \ {"snapshot"},
                              ![r].computedAt = snapshot.computedAt,
                              ![r].holds = snapshot.holds]
  /\ UNCHANGED <<time, sale, writer, snapshot, late>>

MaxSaleUpdatedAt(r) ==
  /\ reader[r].step = "look" /\ "sales" \in reader[r].todo
  /\ LET times == {sale[s].updatedAt : s \in {t \in Sales : sale[t].version > 0}}
     IN reader' = [reader EXCEPT ![r].todo = @ \ {"sales"},
                                 ![r].newest = IF times = {} THEN {} ELSE {Max(times)}]
  /\ UNCHANGED <<time, sale, writer, snapshot, late>>

(* compute, of a request that began at now. *)
Computing(now) == [NoRead EXCEPT !.step = "compute", !.now = now]

Stale(r) == \E m \in reader[r].newest, c \in reader[r].computedAt : m > c

Decide(r) ==
  /\ reader[r].step = "look" /\ reader[r].todo = {}
  /\ reader' = [reader EXCEPT
       ![r] = IF reader[r].computedAt # {} /\ ~Stale(r) THEN [@ EXCEPT !.step = "serve"]
              ELSE Computing(reader[r].now)]
  /\ UNCHANGED <<time, sale, writer, snapshot, late>>

Serve(r) ==
  /\ reader[r].step = "serve"
  /\ reader' = [reader EXCEPT ![r] = NoRead]
  /\ UNCHANGED <<time, sale, writer, snapshot, late>>

(* refresh, and refreshForSale for a snapshot that exists. *)
Refresh(r) ==
  /\ reader[r].step = "idle"
  /\ reader' = [reader EXCEPT ![r] = Computing(time)]
  /\ UNCHANGED <<time, sale, writer, snapshot, late>>

RefreshForSale(r) == snapshot.computedAt # {} /\ Refresh(r)

Compute(r) ==
  /\ reader[r].step = "compute"
  /\ reader' = [reader EXCEPT ![r].step = "save", ![r].holds = Versions]
  /\ UNCHANGED <<time, sale, writer, snapshot, late>>

(* Mutant: the snapshot is dated with the end of its period. *)
ComputedAt_PeriodEnd(r) == LastTime

(* Mutant: the snapshot is dated when it is written. *)
ComputedAt_Write(r) == time
ComputedAt(r) == reader[r].now

UpsertSnapshot(r) ==
  /\ reader[r].step = "save"
  /\ snapshot' = [computedAt |-> {ComputedAt(r)}, holds |-> reader[r].holds]
  /\ reader' = [reader EXCEPT ![r] = NoRead]
  /\ UNCHANGED <<time, sale, writer, late>>

(* The request dies, or the database refuses a statement. *)
ReaderDies(r) ==
  /\ reader[r].step # "idle"
  /\ reader' = [reader EXCEPT ![r] = NoRead]
  /\ UNCHANGED <<time, sale, writer, snapshot, late>>

SnapshotNext ==
  \/ TimePasses
  \/ \E w \in Writers : CommitWrite(w) \/ \E s \in Sales : SendWrite(w, s)
  \/ \E r \in Readers :
       \/ OpenDashboard(r) \/ FindSnapshot(r) \/ MaxSaleUpdatedAt(r) \/ Decide(r)
       \/ Serve(r) \/ Refresh(r) \/ RefreshForSale(r) \/ Compute(r)
       \/ UpsertSnapshot(r) \/ ReaderDies(r)

SnapshotSpec == SnapshotInit /\ [][SnapshotNext]_snapshotVars

-----------------------------------------------------------------------------
(* Properties. *)

(* Rows and requests keep their shape; no snapshot holds a version that was *)
(* never committed or a time that has not come.                             *)
SnapshotTypeOK ==
  /\ time \in 0..LastTime
  /\ sale \in [Sales -> [version : 0..MaxVersions, updatedAt : 0..time]]
  /\ writer \in [Writers -> [sale : SUBSET Sales, at : 0..time]]
  /\ snapshot.computedAt \subseteq 0..time
  /\ \A s \in Sales : snapshot.holds[s] \in 0..sale[s].version
  /\ \A r \in Readers :
       /\ reader[r].step \in {"idle", "look", "serve", "compute", "save"}
       /\ reader[r].now \in 0..time
       /\ \A s \in Sales : reader[r].holds[s] \in 0..sale[s].version
  /\ late \subseteq Sales \X (1..MaxVersions)

(* A dashboard that is served from the snapshot shows every sale committed  *)
(* before the request, however computations overlap and whichever of two    *)
(* writes the row last; unless the row's last change was committed after a  *)
(* computation that began at or after its updatedAt.                        *)
ServedIsFresh ==
  /\ SnapshotTypeOK
  /\ \A r \in Readers : reader[r].step = "serve" =>
       \A s \in Sales :
         reader[r].holds[s] < reader[r].need[s]
           => \E v \in reader[r].need[s]..sale[s].version : <<s, v>> \in late
=============================================================================
