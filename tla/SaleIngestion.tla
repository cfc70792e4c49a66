---------------------------- MODULE SaleIngestion ----------------------------
(***************************************************************************)
(* The path of a marketplace sale: the provider's webhook                  *)
(* (modules/marketplace/webhooks/handlers.ts), the durable ConnectorEvent  *)
(* inbox, the BullMQ queue "sale-ingestion", its worker and the            *)
(* pending-event scanner (modules/marketplace/ingestion), and the Sale     *)
(* upsert (modules/sales/sales.service.ts) that races with a manager.      *)
(*                                                                         *)
(* past[o] holds every value an order has shown at its provider, oldest    *)
(* first; each change notifies version n of order o.  A draft is a version *)
(* number: the value the worker will store.  Every database statement and  *)
(* provider call is a step of its own.  A sweep of the scanner is one step *)
(* (a job enqueued for an event processed meanwhile ends in FindEvent), as *)
(* is the pair of counter increments, which commute.  Currency, quantity,  *)
(* dates and the analytics refresh, which never throws, are left out.      *)
(***************************************************************************)
EXTENDS Integers, Sequences, SequencesExt

CONSTANTS
  Orders,       \* external orders; each belongs to its own connected account
  Orderless,    \* of them, the resources that resolve to no order (items)
  Amounts,      \* the amounts an order may have
  FromPayload,  \* TRUE: Nuvemshop (draft from the payload, one key per topic)
  Handlers,     \* concurrent webhook requests
  Workers,      \* the worker's concurrency
  Admins,       \* managers updating a sale's status (PATCH /api/orders)
  NoOrder,      \* the order of an idle handler, run or manager
  JobAttempts,  \* BullMQ attempts of one job
  ScanLimit,    \* SCANNER_BATCH_LIMIT
  MaxVersions,  \* bound: values an order shows
  MaxRetryJobs, \* bound: scanner jobs of one event in the queue at once
  MaxFaults,    \* bound: transient errors
  MaxCrashes    \* bound: worker crashes

Versions == 1 .. MaxVersions
Events == Orders \X Versions
Slots == 0 .. MaxRetryJobs   \* 0: the webhook's job; others: the scanner's
Jobs == Events \X Slots

SaleStatuses == {"PENDING", "PAID", "REFUNDED", "CANCELLED"}
Values == [status : SaleStatuses, amount : Amounts]
NoSale == [status |-> "NONE", amount |-> 0]

ASSUME ConstantsAssumption ==
  /\ Orderless \subseteq Orders
  /\ Amounts \subseteq Nat
  /\ FromPayload \in BOOLEAN
  /\ NoOrder \notin Orders
  /\ IsFiniteSet(Workers)
  /\ JobAttempts \in Nat \ {0}
  /\ ScanLimit \in Nat \ {0}
  /\ MaxVersions \in Nat
  /\ MaxRetryJobs \in Nat
  /\ MaxFaults \in Nat
  /\ MaxCrashes \in Nat

VARIABLES
  past,       \* Orders -> the values the order has shown at the provider
  connected,  \* the orders whose account has a usable credential
  answered,   \* Orders -> the latest version taken over with a 200
  inbox,      \* Events -> the ConnectorEvent row
  backlog,    \* the pending rows of the last seven days, by createdAt
  jobs,       \* Jobs -> the BullMQ job
  hook,       \* Handlers -> the webhook request in progress
  run,        \* Workers -> the job in progress
  sale,       \* Orders -> the Sale row, or NoSale
  admin,      \* Admins -> the status update in progress
  counters,   \* the counters of both stores
  imports,    \* history: PAID drafts stored
  reconciled, \* history: Orders -> the latest version an upsert has seen
  faults,     \* history: transient errors so far
  crashes     \* history: worker crashes so far

remote  == <<past, connected, answered>>
events  == <<inbox, backlog>>
sales   == <<sale, imports, reconciled>>
history == <<faults, crashes>>
vars == <<remote, events, jobs, hook, run, sales, admin, counters, history>>

NoEvent == [state |-> "absent", payload |-> 0]
NoHook  == [step |-> "idle", order |-> NoOrder, version |-> 0]
NoRun   == [step |-> "idle", order |-> NoOrder, version |-> 0, slot |-> 0,
            draft |-> 0, outcome |-> "none"]
NoAdmin == [order |-> NoOrder, next |-> "NONE"]
NoJob   == [state |-> "none", tries |-> 0]
Zero    == [imported |-> 0, duplicated |-> 0]

Init ==
  /\ past = [o \in Orders |-> <<>>]
  /\ connected = Orders
  /\ answered = [o \in Orders |-> 0]
  /\ inbox = [e \in Events |-> NoEvent]
  /\ backlog = <<>>
  /\ jobs = [j \in Jobs |-> NoJob]
  /\ hook = [h \in Handlers |-> NoHook]
  /\ run = [w \in Workers |-> NoRun]
  /\ sale = [o \in Orders |-> NoSale]
  /\ admin = [a \in Admins |-> NoAdmin]
  /\ counters = [unified |-> Zero, framework |-> Zero]
  /\ imports = 0
  /\ reconciled = [o \in Orders |-> 0]
  /\ faults = 0
  /\ crashes = 0

-----------------------------------------------------------------------------
(* The provider and the operator (external). *)

RemoteStatus(o) == IF past[o] = <<>> THEN "NEW" ELSE Last(past[o]).status

MayFollow(s) ==
  CASE s = "NEW"     -> {"PENDING", "PAID"}
    [] s = "PENDING" -> {"PAID", "CANCELLED", "REFUNDED"}
    [] s = "PAID"    -> {"PAID", "PENDING", "REFUNDED", "CANCELLED"}
    [] OTHER         -> {}

(* An order appears or changes: an amount is corrected, a payment goes into *)
(* mediation, the sale is refunded or cancelled (both final).               *)
RemoteChange(o) ==
  /\ Len(past[o]) < MaxVersions
  /\ \E s \in MayFollow(RemoteStatus(o)), a \in Amounts :
       past' = [past EXCEPT ![o] = Append(@, [status |-> s, amount |-> a])]
  /\ UNCHANGED <<connected, answered, events, jobs, hook, run, sales,
                 admin, counters, history>>

(* The stored credential expires or no longer opens, or clearCredentials    *)
(* erases the token and shopId.                                             *)
Disconnect(o) ==
  /\ o \in connected
  /\ connected' = connected \ {o}
  /\ UNCHANGED <<past, answered, events, jobs, hook, run, sales, admin, counters,
                 history>>

Reconnect(o) ==
  /\ o \notin connected
  /\ connected' = connected \cup {o}
  /\ UNCHANGED <<past, answered, events, jobs, hook, run, sales, admin, counters,
                 history>>

-----------------------------------------------------------------------------
(* The webhook: handleProviderWebhook. *)

(* The delivery key: Mercado Livre and Mercado Pago number each             *)
(* notification, Nuvemshop's key is the topic and the order.                *)
Key(o, n) == IF FromPayload THEN <<o, 1>> ELSE <<o, n>>

Answer(o, n) ==
  /\ answered' = [answered EXCEPT ![o] = IF @ < n THEN n ELSE @]
  /\ UNCHANGED <<past, connected>>

Release(h) == hook' = [hook EXCEPT ![h] = NoHook]

(* The provider delivers a notification, perhaps again: findByShopId, then  *)
(* hasEvent.  A known event is answered at once; an unknown shop (its       *)
(* account is disconnected) also, and the notification has no effect.       *)
Receive(h, o, n) ==
  /\ hook[h].step = "idle"
  /\ n <= Len(past[o])
  /\ IF inbox[Key(o, n)].state # "absent"
     THEN Answer(o, n) /\ UNCHANGED hook
     ELSE /\ hook' = [hook EXCEPT ![h] =
                        [step |-> "record", order |-> o, version |-> n]]
          /\ UNCHANGED remote
  /\ UNCHANGED <<events, jobs, run, sales, admin, counters, history>>

(* recordEvent: an upsert; a key recorded meanwhile only gets the payload.  *)
RecordEvent(h) ==
  /\ hook[h].step = "record"
  /\ LET e == Key(hook[h].order, hook[h].version) IN
       IF inbox[e].state = "absent"
       THEN /\ inbox' = [inbox EXCEPT ![e] = [state |-> "pending",
                                              payload |-> hook[h].version]]
            /\ backlog' = Append(backlog, e)
       ELSE /\ inbox' = [inbox EXCEPT ![e].payload = hook[h].version]
            /\ UNCHANGED backlog
  /\ hook' = [hook EXCEPT ![h].step = "enqueue"]
  /\ UNCHANGED <<remote, jobs, run, sales, admin, counters, history>>

Queued == [state |-> "waiting", tries |-> 0]

(* enqueueSaleIngestion: the key is the job id, so a second add coalesces. *)
Enqueue(h) ==
  /\ hook[h].step = "enqueue"
  /\ LET j == <<Key(hook[h].order, hook[h].version), 0>> IN
       jobs' = IF jobs[j].state = "none" THEN [jobs EXCEPT ![j] = Queued]
               ELSE jobs
  /\ Answer(hook[h].order, hook[h].version)
  /\ Release(h)
  /\ UNCHANGED <<events, run, sales, admin, counters, history>>

(* Redis is unavailable: logged, and the provider still gets its 200. *)
EnqueueFails(h) ==
  /\ hook[h].step = "enqueue"
  /\ Answer(hook[h].order, hook[h].version)
  /\ Release(h)
  /\ UNCHANGED <<events, jobs, run, sales, admin, counters, history>>

(* The request dies or a statement throws: no 200. *)
HandlerCrash(h) ==
  /\ hook[h].step # "idle"
  /\ Release(h)
  /\ UNCHANGED <<remote, events, jobs, run, sales, admin, counters,
                 history>>

-----------------------------------------------------------------------------
(* The scanner: requeuePendingSaleEvents. *)

(* Seven days pass: the scanner no longer lists the oldest row. *)
WindowElapses ==
  /\ backlog # <<>>
  /\ backlog' = Tail(backlog)
  /\ UNCHANGED <<remote, inbox, jobs, hook, run, sales, admin, counters, history>>

(* listPendingSaleEvents: the oldest rows of every organization. *)
PendingSaleEvents ==
  SubSeq(backlog, 1, IF Len(backlog) < ScanLimit THEN Len(backlog) ELSE ScanLimit)

(* Mutant: the scanner reuses the webhook's job id. *)
RetrySlots_SameId == {0}

(* A retry job gets a timestamped id of its own. *)
RetrySlots == 1 .. MaxRetryJobs

FreeSlots(e) == {s \in RetrySlots : jobs[<<e, s>>].state = "none"}

(* One sweep enqueues a prefix of the list: the rows younger than           *)
(* SCANNER_GRACE_MS are last and not listed, and Redis may go away midway.  *)
(* An event whose slots are all taken stands for one with more copies.      *)
SweepPrefix(n) ==
  /\ LET added == {<<e, CHOOSE s \in FreeSlots(e) : TRUE>> :
                     e \in {PendingSaleEvents[i] : i \in
                             {k \in 1 .. n : FreeSlots(PendingSaleEvents[k]) # {}}}}
     IN  /\ added # {}
         /\ jobs' = [j \in Jobs |-> IF j \in added THEN Queued ELSE jobs[j]]
  /\ UNCHANGED <<remote, events, hook, run, sales, admin, counters, history>>

Sweep == \E n \in 1 .. Len(PendingSaleEvents) : SweepPrefix(n)

(* A sweep over everything, with Redis up and all grace periods over. *)
FullSweep == SweepPrefix(Len(PendingSaleEvents))

-----------------------------------------------------------------------------
(* The worker: processSaleIngestionEvent and upsertIngestedSale. *)

Event(r) == <<r.order, r.version>>
JobOf(r) == <<Event(r), r.slot>>

(* A finished job: the webhook's id stays taken, a retry's is never reused. *)
Finished(s) == IF s = 0 THEN [NoJob EXCEPT !.state = "done"] ELSE NoJob

(* The run ends normally. *)
Complete(w) ==
  /\ run' = [run EXCEPT ![w] = NoRun]
  /\ jobs' = [jobs EXCEPT ![JobOf(run[w])] = Finished(run[w].slot)]

Goto(w, s) == run' = [run EXCEPT ![w].step = s]

(* BullMQ retries a failed job with backoff until its attempts are used. *)
Reattempt(j, s) ==
  IF j.tries + 1 < JobAttempts
  THEN [state |-> "waiting", tries |-> j.tries + 1]
  ELSE Finished(s)

(* An exception leaves processSaleIngestionEvent. *)
Fail(w) ==
  /\ run' = [run EXCEPT ![w] = NoRun]
  /\ jobs' = [jobs EXCEPT ![JobOf(run[w])] = Reattempt(@, run[w].slot)]

Begun(e, s) == [step |-> "find", order |-> e[1], version |-> e[2], slot |-> s,
                draft |-> 0, outcome |-> "none"]

TakeJob(w, e, s) ==
  /\ run[w].step = "idle"
  /\ jobs[<<e, s>>].state = "waiting"
  /\ jobs' = [jobs EXCEPT ![<<e, s>>].state = "active"]
  /\ run' = [run EXCEPT ![w] = Begun(e, s)]
  /\ UNCHANGED <<remote, events, hook, sales, admin, counters, history>>

(* The draft of run r is version n. *)
Resolved(r, n) == [r EXCEPT !.step = "read", !.draft = n]

(* findEvent: a processed row is a duplicate.  Nuvemshop's draft is then    *)
(* the stored payload.                                                      *)
FindEvent(w) ==
  /\ run[w].step = "find"
  /\ LET row == inbox[Event(run[w])] IN
       \/ /\ row.state # "pending"
          /\ Complete(w)
       \/ /\ row.state = "pending"
          /\ UNCHANGED jobs
          /\ IF ~FromPayload THEN Goto(w, "fetch")
             ELSE IF run[w].order \in Orderless THEN Goto(w, "mark")
             ELSE run' = [run EXCEPT ![w] = Resolved(@, row.payload)]
  /\ UNCHANGED <<remote, events, hook, sales, admin, counters, history>>

(* markEventProcessed: the scanner's listing loses the row. *)
Acknowledge(e) ==
  /\ inbox' = [inbox EXCEPT ![e].state = "processed"]
  /\ \/ \E i \in 1 .. Len(backlog) :
          backlog[i] = e /\ backlog' = RemoveAt(backlog, i)
     \/ ~Contains(backlog, e) /\ UNCHANGED backlog

(* Mutant: a deferred delivery is stamped processed. *)
Defer_Marks(w) == Complete(w) /\ Acknowledge(Event(run[w]))

(* requiresReauthentication: the run ends, the row stays pending. *)
Defer(w) == Complete(w) /\ UNCHANGED events

(* getValidAccessToken and the provider's official API: the draft is what   *)
(* the order is now.  A resource without an order has nothing to store.     *)
FetchOrder(w) ==
  /\ run[w].step = "fetch"
  /\ LET o == run[w].order IN
       \/ o \notin connected /\ Defer(w)
       \/ /\ o \in connected
          /\ IF o \in Orderless THEN Goto(w, "mark")
             ELSE run' = [run EXCEPT ![w] = Resolved(@, Len(past[o]))]
          /\ UNCHANGED <<jobs, events>>
  /\ UNCHANGED <<remote, hook, sales, admin, counters, history>>

Draft(r) == past[r.order][r.draft]

CanTransitionSaleStatus(current, next) ==
  \/ current = next
  \/ current = "PENDING" /\ next \in {"PAID", "CANCELLED"}
  \/ current = "PAID" /\ next \in {"REFUNDED", "CANCELLED"}

(* Mutant: a replay is recognised by its status alone. *)
Outcome_StatusOnly(seen, d) ==
  IF seen = NoSale THEN IF d.status = "PAID" THEN "created" ELSE "ignored"
  ELSE IF seen.status = d.status \/ ~CanTransitionSaleStatus(seen.status, d.status)
       THEN "unchanged" ELSE "updated"

(* What the upsert decides from the row it read. *)
Outcome(seen, d) ==
  IF seen = NoSale THEN IF d.status = "PAID" THEN "created" ELSE "ignored"
  ELSE IF seen = d \/ ~CanTransitionSaleStatus(seen.status, d.status)
       THEN "unchanged" ELSE "updated"

(* The upsert has returned; only a PAID draft goes on to the counters.      *)
Upserted(r, outcome) ==
  IF Draft(r).status = "PAID"
  THEN [r EXCEPT !.step = "count", !.draft = 0, !.outcome = outcome]
  ELSE [r EXCEPT !.step = "mark", !.draft = 0, !.outcome = "none"]

UpsertReturns(w, outcome) ==
  LET r == run[w] IN
  /\ run' = [run EXCEPT ![w] = Upserted(r, outcome)]
  /\ reconciled' = [reconciled EXCEPT ![r.order] = IF @ < r.draft THEN r.draft
                                                  ELSE @]

(* findUnique; an ignored or unchanged draft writes nothing. *)
ReadSale(w) ==
  /\ run[w].step = "read"
  /\ LET outcome == Outcome(sale[run[w].order], Draft(run[w])) IN
       IF outcome \in {"created", "updated"}
       THEN /\ run' = [run EXCEPT ![w].step = "write", ![w].outcome = outcome]
            /\ UNCHANGED reconciled
       ELSE UpsertReturns(w, outcome)
  /\ UNCHANGED <<remote, events, jobs, hook, sale, imports, admin, counters,
                 history>>

(* Mutant: the amount of an existing sale is kept. *)
Stored_OldAmount(seen, d) == IF seen = NoSale THEN d
                             ELSE [seen EXCEPT !.status = d.status]

(* The row after create, or after the update by id of the row it read. *)
Stored(seen, d) == d

(* create or update.  create fails on the unique key when another run has   *)
(* inserted the row; update is not guarded by the status that was read.     *)
WriteSale(w) ==
  /\ run[w].step = "write"
  /\ LET r == run[w] IN
       IF r.outcome = "created" /\ sale[r.order] # NoSale
       THEN Fail(w) /\ UNCHANGED sales
       ELSE /\ sale' = [sale EXCEPT ![r.order] = Stored(@, Draft(r))]
            /\ imports' = IF Draft(r).status = "PAID" THEN imports + 1
                          ELSE imports
            /\ UpsertReturns(w, r.outcome)
            /\ UNCHANGED jobs
  /\ UNCHANGED <<remote, events, hook, admin, counters, history>>

(* Mutant: a replay is counted as imported. *)
Imported_Replay(outcome) == 1

(* counters: a created or updated sale is imported, another is a duplicate. *)
Imported(outcome) == IF outcome \in {"created", "updated"} THEN 1 ELSE 0

(* incrementIngestionCounters reads counters.duplicated, but the worker     *)
(* names the field duplicates: it adds nothing.                             *)
CountUnified(c, outcome) == [c EXCEPT !.imported = @ + Imported(outcome)]

CountFramework(c, outcome) ==
  [c EXCEPT !.imported = @ + Imported(outcome),
            !.duplicated = @ + (1 - Imported(outcome))]

Count(w) ==
  /\ run[w].step = "count"
  /\ counters' = [unified |-> CountUnified(counters.unified, run[w].outcome),
                  framework |-> CountFramework(counters.framework,
                                               run[w].outcome)]
  /\ run' = [run EXCEPT ![w].step = "mark", ![w].outcome = "none"]
  /\ UNCHANGED <<remote, events, jobs, hook, sales, admin, history>>

(* One of the two increments fails: Promise.all rejects, the attempt fails. *)
CountPartly(w) ==
  /\ run[w].step = "count"
  /\ faults < MaxFaults
  /\ faults' = faults + 1
  /\ counters' \in
       {[counters EXCEPT !.unified = CountUnified(@, run[w].outcome)],
        [counters EXCEPT !.framework = CountFramework(@, run[w].outcome)]}
  /\ Fail(w)
  /\ UNCHANGED <<remote, events, hook, sales, admin, crashes>>

MarkEventProcessed(w) ==
  /\ run[w].step = "mark"
  /\ Acknowledge(Event(run[w]))
  /\ Complete(w)
  /\ UNCHANGED <<remote, hook, sales, admin, counters, history>>

(* A transient error of the step: a network failure, a provider 5xx, a      *)
(* database outage.                                                         *)
StepThrows(w) ==
  /\ run[w].step # "idle"
  /\ faults < MaxFaults
  /\ faults' = faults + 1
  /\ Fail(w)
  /\ UNCHANGED <<remote, events, hook, sales, admin, counters, crashes>>

(* The process dies: BullMQ finds the job stalled and moves it back. *)
WorkerCrash(w) ==
  /\ run[w].step # "idle"
  /\ crashes < MaxCrashes
  /\ crashes' = crashes + 1
  /\ run' = [run EXCEPT ![w] = NoRun]
  /\ jobs' = [jobs EXCEPT ![JobOf(run[w])].state = "waiting"]
  /\ UNCHANGED <<remote, events, hook, sales, admin, counters, faults>>

-----------------------------------------------------------------------------
(* The manager: updateStatus. *)

(* It reads the status and asserts the transition. *)
ReadStatus(a, o) ==
  /\ admin[a] = NoAdmin
  /\ sale[o] # NoSale
  /\ \E s \in SaleStatuses \ {sale[o].status} :
       /\ CanTransitionSaleStatus(sale[o].status, s)
       /\ admin' = [admin EXCEPT ![a] = [order |-> o, next |-> s]]
  /\ UNCHANGED <<remote, events, jobs, hook, run, sales, counters,
                 history>>

(* It updates by id, whatever the status has become. *)
WriteStatus(a) ==
  /\ admin[a] # NoAdmin
  /\ sale' = [sale EXCEPT ![admin[a].order].status = admin[a].next]
  /\ admin' = [admin EXCEPT ![a] = NoAdmin]
  /\ UNCHANGED <<remote, events, jobs, hook, run, imports, reconciled,
                 counters, history>>

-----------------------------------------------------------------------------
External(o) ==
  \/ RemoteChange(o)
  \/ Disconnect(o)
  \/ Reconnect(o)

Handler(h) ==
  \/ \E o \in Orders, n \in Versions : Receive(h, o, n)
  \/ RecordEvent(h)
  \/ Enqueue(h)
  \/ EnqueueFails(h)
  \/ HandlerCrash(h)

Scanner == WindowElapses \/ Sweep

(* The steps of a job that go on to its end. *)
Proceed(w) ==
  \/ FindEvent(w)
  \/ FetchOrder(w)
  \/ ReadSale(w)
  \/ WriteSale(w)
  \/ Count(w)
  \/ MarkEventProcessed(w)

Worker(w) ==
  \/ \E e \in Events, s \in Slots : TakeJob(w, e, s)
  \/ Proceed(w)
  \/ CountPartly(w)
  \/ StepThrows(w)
  \/ WorkerCrash(w)

Admin(a) == (\E o \in Orders : ReadStatus(a, o)) \/ WriteStatus(a)

Next ==
  \/ \E o \in Orders : External(o)
  \/ \E h \in Handlers : Handler(h)
  \/ Scanner
  \/ \E w \in Workers : Worker(w)
  \/ \E a \in Admins : Admin(a)

Spec == Init /\ [][Next]_vars

(* Fairness: the interval timer keeps sweeping, a running job proceeds, and *)
(* BullMQ serves its waiting list in order, so every waiting job is taken.  *)
FairSpec ==
  /\ Spec
  /\ WF_vars(FullSweep)
  /\ \A w \in Workers : WF_vars(Proceed(w))
  /\ \A e \in Events, s \in Slots : SF_vars(\E w \in Workers : TakeJob(w, e, s))

-----------------------------------------------------------------------------
(* Properties. *)

RunSteps == {"idle", "find", "fetch", "read", "write", "count", "mark"}
Outcomes == {"none", "created", "updated", "unchanged", "ignored"}
Sales == Values \cup {NoSale}
Counts == [imported : Nat, duplicated : Nat]

Runs == [step : RunSteps, order : Orders \cup {NoOrder},
         version : 0 .. MaxVersions, slot : Slots, draft : 0 .. MaxVersions,
         outcome : Outcomes]
Hooks == [step : {"idle", "record", "enqueue"}, order : Orders \cup {NoOrder},
          version : 0 .. MaxVersions]
Rows == [state : {"absent", "pending", "processed"}, payload : 0 .. MaxVersions]

(* Rows, jobs, requests, runs, sales and counters have their types; no job  *)
(* is tried more often than BullMQ is told to.                              *)
TypeOK ==
  /\ past \in [Orders -> Seq(Values)]
  /\ \A o \in Orders : Len(past[o]) <= MaxVersions
  /\ connected \subseteq Orders
  /\ answered \in [Orders -> 0 .. MaxVersions]
  /\ inbox \in [Events -> Rows]
  /\ backlog \in Seq(Events)
  /\ jobs \in [Jobs -> [state : {"none", "waiting", "active", "done"},
                        tries : 0 .. JobAttempts - 1]]
  /\ hook \in [Handlers -> Hooks]
  /\ run \in [Workers -> Runs]
  /\ sale \in [Orders -> Sales]
  /\ admin \in [Admins -> [order : Orders, next : SaleStatuses] \cup {NoAdmin}]
  /\ counters \in [unified : Counts, framework : Counts]
  /\ imports \in Nat
  /\ reconciled \in [Orders -> 0 .. MaxVersions]
  /\ faults \in 0 .. MaxFaults
  /\ crashes \in 0 .. MaxCrashes

Latest(o) == Last(past[o])

(* "processedAt is only written by the ingestion worker once the Sale       *)
(* upsert reaches a terminal outcome" (handlers.ts): when version n of an   *)
(* order is acknowledged, an upsert has seen that version or a later one,   *)
(* whatever crashed, was retried, duplicated or lost its credential.        *)
AcknowledgedAfterUpsert ==
  \A e \in Events :
    inbox[e].state = "processed" /\ e[1] \notin Orderless
      => reconciled[e[1]] >= e[2]

(* The inductive invariant. *)

(* What is stored or about to be stored has been notified by the provider.  *)
NotificationsExist ==
  /\ \A e \in Events :
       inbox[e].state # "absent" =>
         /\ e[2] <= inbox[e].payload
         /\ inbox[e].payload <= Len(past[e[1]])
  /\ \A h \in Handlers :
       hook[h].step # "idle" =>
         /\ hook[h].order \in Orders
         /\ hook[h].version \in 1 .. Len(past[hook[h].order])

(* A run's draft is at least as new as the notification it handles, and the *)
(* upsert is behind it when the run gets to the counters and the stamp.     *)
RunKnows(r) ==
  r.step # "idle" =>
    /\ Event(r) \in Events
    /\ r.step # "find" => inbox[Event(r)].state # "absent"
    /\ r.step \in {"read", "write"} =>
         /\ r.order \notin Orderless
         /\ r.version <= r.draft
         /\ r.draft <= Len(past[r.order])
    /\ r.step \in {"count", "mark"} =>
         r.order \in Orderless \/ reconciled[r.order] >= r.version

RunsKnow == \A w \in Workers : RunKnows(run[w])

RunInv ==
  /\ TypeOK
  /\ NotificationsExist
  /\ RunsKnow
  /\ AcknowledgedAfterUpsert

(* A manager updates a row that exists: sales are never deleted. *)
AdminsKnow ==
  \A a \in Admins : admin[a] # NoAdmin => sale[admin[a].order] \in Values

IInv == RunInv /\ AdminsKnow

(* A Sale is never a mixture of two notifications: status and amount are    *)
(* together a value the order has had at the provider.                      *)
SaleFollowsProvider ==
  \A o \in Orders :
    sale[o] # NoSale => \E n \in 1 .. Len(past[o]) : sale[o] = past[o][n]

(* The latest change of an order was acknowledged, and nothing that could   *)
(* still write its sale is in progress.                                     *)
Settled(o) ==
  /\ past[o] # <<>>
  /\ o \notin Orderless
  /\ answered[o] = Len(past[o])
  /\ inbox[Key(o, Len(past[o]))].state = "processed"
  /\ \A w \in Workers : run[w].order # o
  /\ \A a \in Admins : admin[a].order # o

(* "Amounts, currency and status always come from the provider's official   *)
(* API response" (sale-ingestion.service.ts): once the last change of an    *)
(* order is acknowledged the sale shows it; an order cancelled or refunded  *)
(* before it was ever stored has no sale.                                   *)
SettledSalesMatch ==
  \A o \in Orders :
    Settled(o) =>
      /\ Latest(o).status = "PAID" => sale[o] = Latest(o)
      /\ Latest(o).status \in {"REFUNDED", "CANCELLED"} =>
           sale[o] \in {Latest(o), NoSale}

(* "A refund for an unknown order has nothing to update.  Terminal"         *)
(* (sale-ingestion.service.ts): acknowledging a refund or a cancellation    *)
(* leaves no PAID sale behind.                                              *)
NoLostRefund ==
  \A o \in Orders :
    Settled(o) /\ Latest(o).status \in {"REFUNDED", "CANCELLED"}
      => sale[o].status # "PAID"

(* A retried, replayed or partly counted delivery never inflates the        *)
(* imported counter of either store beyond the PAID drafts stored.          *)
ImportsCounted ==
  /\ counters.unified.imported <= imports
  /\ counters.framework.imported <= imports

(* "The worker's pending-event scanner re-enqueues it once the              *)
(* infrastructure is back" (handlers.ts): a stored event is processed, or   *)
(* leaves the seven-day window, unless its account loses its credential.    *)
EventSettles ==
  \A e \in Events :
    Contains(backlog, e) ~> ~Contains(backlog, e) \/ e[1] \notin connected
=============================================================================
