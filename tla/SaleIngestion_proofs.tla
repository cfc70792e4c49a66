------------------------ MODULE SaleIngestion_proofs ------------------------
(***************************************************************************)
(* TLAPS proofs about SaleIngestion, for every set of orders, requests,    *)
(* runs and managers, both kinds of provider, and every bound.             *)
(***************************************************************************)
EXTENDS SaleIngestion, FiniteSetTheorems, TLAPS

-----------------------------------------------------------------------------
(* Types of what the actions write. *)

LEMMA Constants ==
  /\ NoSale \notin Values
  /\ NoRun \in Runs /\ NoRun.step = "idle"
  /\ NoHook \in Hooks /\ NoHook.step = "idle"
  /\ NoEvent \in Rows /\ NoEvent.state = "absent"
  /\ 0 \in Slots
BY ConstantsAssumption
   DEF NoSale, Values, SaleStatuses, NoRun, Runs, RunSteps, Outcomes, Slots,
       NoHook, Hooks, NoEvent, Rows, ConstantsAssumption

JobStates == [state : {"none", "waiting", "active", "done"},
              tries : 0 .. JobAttempts - 1]

LEMMA JobUpdates ==
  /\ NoJob \in JobStates
  /\ Queued \in JobStates
  /\ \A s \in Slots : Finished(s) \in JobStates
  /\ \A j \in JobStates :
       /\ \A s \in Slots : Reattempt(j, s) \in JobStates
       /\ [j EXCEPT !.state = "active"] \in JobStates
       /\ [j EXCEPT !.state = "waiting"] \in JobStates
<1>1. NoJob \in JobStates /\ Queued \in JobStates
  BY ConstantsAssumption DEF NoJob, Queued, JobStates, ConstantsAssumption
<1>2. \A s \in Slots : Finished(s) \in JobStates
  BY <1>1 DEF Finished, NoJob, JobStates
<1>3. ASSUME NEW j \in JobStates
      PROVE  /\ \A s \in Slots : Reattempt(j, s) \in JobStates
             /\ [j EXCEPT !.state = "active"] \in JobStates
             /\ [j EXCEPT !.state = "waiting"] \in JobStates
  <2>1. \A s \in Slots : Reattempt(j, s) \in JobStates
    BY <1>2, ConstantsAssumption DEF Reattempt, JobStates, ConstantsAssumption
  <2> QED
    BY <2>1 DEF JobStates
<1> QED
  BY <1>1, <1>2, <1>3

(* The delivery key of a notification names its order and is not newer. *)
LEMMA KeyIsEvent ==
  ASSUME NEW o \in Orders, NEW n \in Versions
  PROVE  /\ Key(o, n) \in Events
         /\ Key(o, n)[1] = o
         /\ Key(o, n)[2] <= n
BY ConstantsAssumption DEF Key, Events, Versions, ConstantsAssumption

LEMMA RunJob ==
  ASSUME NEW r \in Runs, Event(r) \in Events
  PROVE  /\ JobOf(r) \in Jobs
         /\ r.order \in Orders /\ r.version \in Versions /\ r.slot \in Slots
         /\ Event(r)[1] = r.order /\ Event(r)[2] = r.version
BY DEF Event, Events, JobOf, Jobs, Runs

-----------------------------------------------------------------------------
(* The inductive invariant. *)

LEMMA InitInv == Init => RunInv
<1> SUFFICES ASSUME Init
             PROVE  RunInv
  OBVIOUS
<1>1. TypeOK
  <2>1. past \in [Orders -> Seq(Values)] /\ \A o \in Orders : Len(past[o]) = 0
    BY DEF Init
  <2>2. jobs \in [Jobs -> JobStates]
    BY JobUpdates DEF Init
  <2>3. sale \in [Orders -> Sales] /\ admin \in [Admins -> {NoAdmin}]
    BY DEF Init, Sales
  <2>4. backlog \in Seq(Events)
    BY DEF Init
  <2> QED
    BY <2>1, <2>2, <2>3, <2>4, Constants, ConstantsAssumption
       DEF Init, TypeOK, JobStates, Zero, Counts, ConstantsAssumption
<1>2. NotificationsExist /\ RunsKnow /\ AcknowledgedAfterUpsert
  BY Constants DEF Init, NotificationsExist, RunsKnow, RunKnows, AcknowledgedAfterUpsert,
                   NoEvent, NoHook, NoRun
<1> QED
  BY <1>1, <1>2 DEF RunInv

(* A request that is not idle carries a notification of an existing order. *)
LEMMA HookNotified ==
  ASSUME RunInv, NEW h \in Handlers, hook[h].step # "idle"
  PROVE  /\ hook[h].order \in Orders
         /\ hook[h].version \in Versions
         /\ hook[h].version <= Len(past[hook[h].order])
BY ConstantsAssumption
   DEF RunInv, TypeOK, Hooks, NotificationsExist, Versions, ConstantsAssumption

(* A row holds a notified version. *)
LEMMA RowNotified ==
  ASSUME RunInv, NEW e \in Events, inbox[e].state # "absent"
  PROVE  /\ e[1] \in Orders /\ e[2] \in Nat /\ inbox[e].payload \in Nat
         /\ e[2] <= inbox[e].payload
         /\ inbox[e].payload <= Len(past[e[1]])
<1>1. e[1] \in Orders /\ e[2] \in Nat
  BY ConstantsAssumption DEF Events, Versions, ConstantsAssumption
<1>2. inbox[e] \in Rows
  BY DEF RunInv, TypeOK
<1>3. inbox[e].payload \in Nat
  BY <1>2, ConstantsAssumption DEF Rows, ConstantsAssumption
<1> QED
  BY <1>1, <1>3 DEF RunInv, NotificationsExist

LEMMA InvRemoteChange ==
  ASSUME RunInv, NEW o \in Orders, RemoteChange(o)
  PROVE  RunInv'
<1>1. PICK s \in MayFollow(RemoteStatus(o)), a \in Amounts :
        past' = [past EXCEPT ![o] = Append(@, [status |-> s, amount |-> a])]
  BY DEF RemoteChange
<1>2. [status |-> s, amount |-> a] \in Values
  BY <1>1 DEF MayFollow, Values, SaleStatuses
<1>3. /\ past' \in [Orders -> Seq(Values)]
      /\ \A p \in Orders : Len(past[p]) <= Len(past'[p]) /\ Len(past'[p]) <= MaxVersions
  <2>1. past[o] \in Seq(Values) /\ Len(past[o]) + 1 <= MaxVersions
    BY ConstantsAssumption DEF RunInv, TypeOK, RemoteChange, ConstantsAssumption
  <2>2. /\ Append(past[o], [status |-> s, amount |-> a]) \in Seq(Values)
        /\ Len(Append(past[o], [status |-> s, amount |-> a])) = Len(past[o]) + 1
    BY <1>2, <2>1
  <2> QED
    BY <1>1, <2>1, <2>2 DEF RunInv, TypeOK
<1>4. TypeOK'
  BY <1>3 DEF RunInv, TypeOK, RemoteChange, events, sales, history
<1>5. NotificationsExist'
  <2>1. ASSUME NEW e \in Events, inbox'[e].state # "absent"
        PROVE  e[2] <= inbox'[e].payload /\ inbox'[e].payload <= Len(past'[e[1]])
    <3>1. inbox'[e] = inbox[e]
      BY DEF RemoteChange, events
    <3>2. /\ e[1] \in Orders /\ inbox[e].payload \in Nat
          /\ e[2] <= inbox[e].payload /\ inbox[e].payload <= Len(past[e[1]])
      BY <2>1, <3>1, RowNotified
    <3>3. Len(past[e[1]]) <= Len(past'[e[1]])
      BY <1>3, <3>2
    <3>4. Len(past[e[1]]) \in Nat /\ Len(past'[e[1]]) \in Nat
      <4>1. past \in [Orders -> Seq(Values)]
        BY DEF RunInv, TypeOK
      <4>2. past[e[1]] \in Seq(Values) /\ past'[e[1]] \in Seq(Values)
        BY <1>3, <3>2, <4>1
      <4> QED
        BY <4>2
    <3> QED
      BY <3>1, <3>2, <3>3, <3>4
  <2>2. ASSUME NEW h \in Handlers, hook'[h].step # "idle"
        PROVE  /\ hook'[h].order \in Orders
               /\ hook'[h].version \in 1 .. Len(past'[hook'[h].order])
    <3>1. hook' = hook
      BY DEF RemoteChange
    <3>2. /\ hook[h].order \in Orders /\ hook[h].version \in Nat \ {0}
          /\ hook[h].version <= Len(past[hook[h].order])
      BY <2>2, <3>1, HookNotified, ConstantsAssumption
         DEF Versions, ConstantsAssumption
    <3>3. /\ Len(past[hook[h].order]) <= Len(past'[hook[h].order])
          /\ Len(past[hook[h].order]) \in Nat /\ Len(past'[hook[h].order]) \in Nat
      BY <1>3, <3>2 DEF RunInv, TypeOK
    <3> QED
      BY <3>1, <3>2, <3>3
  <2> QED
    BY <2>1, <2>2 DEF NotificationsExist
<1>6. RunsKnow'
  <2> SUFFICES ASSUME NEW w \in Workers, run[w].step \in {"read", "write"},
                      run[w].draft <= Len(past[run[w].order]), Event(run[w]) \in Events
               PROVE  run[w].draft <= Len(past'[run[w].order])
    BY DEF RunInv, RunsKnow, RunKnows, RemoteChange, events, sales, Event
  <2>1. run[w].draft \in Nat /\ run[w].order \in Orders
    BY ConstantsAssumption
       DEF RunInv, TypeOK, Runs, Event, Events, ConstantsAssumption
  <2> QED
    BY <1>3, <2>1 DEF RunInv, TypeOK
<1>7. AcknowledgedAfterUpsert'
  BY DEF RunInv, AcknowledgedAfterUpsert, RemoteChange, events, sales
<1> QED
  BY <1>4, <1>5, <1>6, <1>7 DEF RunInv

(* A step that leaves the inbox, the requests, the runs and the upserts     *)
(* alone disturbs at most the types.                                        *)
LEMMA InvFrame ==
  ASSUME RunInv, TypeOK', UNCHANGED <<past, inbox, hook, run, reconciled>>
  PROVE  RunInv'
<1>1. NotificationsExist'
  BY DEF RunInv, NotificationsExist
<1>2. RunsKnow'
  BY DEF RunInv, RunsKnow, RunKnows, Event
<1>3. AcknowledgedAfterUpsert'
  BY DEF RunInv, AcknowledgedAfterUpsert
<1> QED
  BY <1>1, <1>2, <1>3 DEF RunInv

LEMMA InvAccount ==
  ASSUME RunInv, NEW o \in Orders, Disconnect(o) \/ Reconnect(o)
  PROVE  RunInv'
<1>1. TypeOK'
  BY DEF RunInv, TypeOK, Disconnect, Reconnect, events, sales, history
<1> QED
  BY <1>1, InvFrame DEF Disconnect, Reconnect, events, sales

(* Answering raises a version that has been notified. *)
LEMMA AnswerType ==
  ASSUME TypeOK, NEW o \in Orders, NEW n \in Versions, Answer(o, n)
  PROVE  answered' \in [Orders -> 0 .. MaxVersions]
BY ConstantsAssumption DEF TypeOK, Answer, Versions, ConstantsAssumption

LEMMA InvReceive ==
  ASSUME RunInv, NEW h \in Handlers, NEW o \in Orders, NEW n \in Versions,
         Receive(h, o, n)
  PROVE  RunInv'
<1>1. CASE inbox[Key(o, n)].state # "absent"
  <2>1. Answer(o, n) /\ UNCHANGED <<past, connected, hook>>
    BY <1>1 DEF Receive, Answer
  <2>2. TypeOK'
    BY <2>1, AnswerType DEF RunInv, TypeOK, Receive, events, sales, history
  <2> QED
    BY <2>1, <2>2, InvFrame DEF Receive, events, sales
<1>2. CASE inbox[Key(o, n)].state = "absent"
  <2> DEFINE new == [step |-> "record", order |-> o, version |-> n]
  <2>1. new \in Hooks
    BY ConstantsAssumption DEF Hooks, Versions, ConstantsAssumption
  <2>2. hook' = [hook EXCEPT ![h] = new] /\ UNCHANGED remote
    BY <1>2 DEF Receive
  <2>3. TypeOK'
    BY <2>1, <2>2 DEF RunInv, TypeOK, Receive, remote, events, sales, history
  <2>4. NotificationsExist'
    <3>1. \A g \in Handlers : hook'[g] = IF g = h THEN new ELSE hook[g]
      BY <2>2 DEF RunInv, TypeOK
    <3>2. n \in 1 .. Len(past[o])
      BY ConstantsAssumption DEF RunInv, TypeOK, Receive, Versions, ConstantsAssumption
    <3> QED
      BY <2>2, <3>1, <3>2 DEF RunInv, NotificationsExist, Receive, remote, events
  <2>5. RunsKnow' /\ AcknowledgedAfterUpsert'
    BY <2>2 DEF RunInv, RunsKnow, RunKnows, AcknowledgedAfterUpsert, Receive, remote, events,
                sales, Event
  <2> QED
    BY <2>3, <2>4, <2>5 DEF RunInv
<1> QED
  BY <1>1, <1>2

LEMMA InvRecordEvent ==
  ASSUME RunInv, NEW h \in Handlers, RecordEvent(h)
  PROVE  RunInv'
<1> DEFINE o == hook[h].order
           n == hook[h].version
           e == Key(o, n)
<1>1. o \in Orders /\ n \in Versions /\ n <= Len(past[o]) /\ hook[h] \in Hooks
  BY HookNotified DEF RecordEvent, RunInv, TypeOK
<1>2. e \in Events /\ e[1] = o /\ e[2] <= n
  BY <1>1, KeyIsEvent
<1>3. /\ inbox' \in [Events -> Rows]
      /\ \A x \in Events : x # e => inbox'[x] = inbox[x]
      /\ inbox'[e].payload = n
      /\ inbox'[e].state # "absent"
      /\ inbox'[e].state = "processed" => inbox[e].state = "processed"
  <2>1. n \in 0 .. MaxVersions
    BY <1>1, ConstantsAssumption DEF Versions, ConstantsAssumption
  <2>2. inbox \in [Events -> Rows]
    BY DEF RunInv, TypeOK
  <2>3. CASE inbox[e].state = "absent"
    <3>1. inbox' = [inbox EXCEPT ![e] = [state |-> "pending", payload |-> n]]
      BY <2>3 DEF RecordEvent
    <3> QED
      BY <1>2, <2>1, <2>2, <3>1 DEF Rows
  <2>4. CASE inbox[e].state # "absent"
    <3>1. inbox' = [inbox EXCEPT ![e].payload = n]
      BY <2>4 DEF RecordEvent
    <3> QED
      BY <1>2, <2>1, <2>2, <2>4, <3>1 DEF Rows
  <2> QED
    BY <2>3, <2>4
<1>4. backlog' \in Seq(Events)
  <2>1. backlog \in Seq(Events)
    BY DEF RunInv, TypeOK
  <2>2. backlog' = Append(backlog, e) \/ backlog' = backlog
    BY DEF RecordEvent
  <2> QED
    BY <1>2, <2>1, <2>2
<1>5. /\ hook' \in [Handlers -> Hooks]
      /\ \A g \in Handlers : /\ hook'[g].order = hook[g].order
                             /\ hook'[g].version = hook[g].version
                             /\ hook'[g].step # "idle" => hook[g].step # "idle"
  BY <1>1 DEF RecordEvent, RunInv, TypeOK, Hooks
<1>6. TypeOK'
  BY <1>3, <1>4, <1>5 DEF RecordEvent, RunInv, TypeOK, remote, sales, history
<1>7. NotificationsExist'
  BY <1>1, <1>2, <1>3, <1>5 DEF RecordEvent, RunInv, NotificationsExist, remote
<1>8. RunsKnow'
  BY <1>3 DEF RecordEvent, RunInv, RunsKnow, RunKnows, remote, sales, Event
<1>9. AcknowledgedAfterUpsert'
  BY <1>3 DEF RecordEvent, RunInv, AcknowledgedAfterUpsert, sales
<1> QED
  BY <1>6, <1>7, <1>8, <1>9 DEF RunInv

(* The request ends; the queue may have gained the webhook's job. *)
LEMMA InvRelease ==
  ASSUME RunInv, NEW h \in Handlers, Enqueue(h) \/ EnqueueFails(h) \/ HandlerCrash(h)
  PROVE  RunInv'
<1> DEFINE o == hook[h].order
           n == hook[h].version
<1>1. o \in Orders /\ n \in Versions
  BY HookNotified DEF Enqueue, EnqueueFails, HandlerCrash
<1>2. jobs' \in [Jobs -> JobStates]
  <2> DEFINE j == <<Key(o, n), 0>>
  <2>1. j \in Jobs
    BY <1>1, KeyIsEvent, Constants DEF Jobs
  <2>2. jobs \in [Jobs -> JobStates]
    BY DEF RunInv, TypeOK, JobStates
  <2>3. jobs' = [jobs EXCEPT ![j] = Queued] \/ jobs' = jobs
    BY DEF Enqueue, EnqueueFails, HandlerCrash
  <2> HIDE DEF j
  <2> QED
    BY <2>1, <2>2, <2>3, JobUpdates
<1>3. answered' \in [Orders -> 0 .. MaxVersions] /\ UNCHANGED <<past, connected>>
  BY <1>1, AnswerType
     DEF RunInv, TypeOK, Enqueue, EnqueueFails, HandlerCrash, remote, Answer
<1>4. /\ hook' \in [Handlers -> Hooks]
      /\ \A g \in Handlers : hook'[g].step # "idle" => hook'[g] = hook[g]
  BY Constants DEF RunInv, TypeOK, Release, Enqueue, EnqueueFails, HandlerCrash
<1>5. TypeOK'
  BY <1>2, <1>3, <1>4
     DEF RunInv, TypeOK, JobStates, Enqueue, EnqueueFails, HandlerCrash, events,
         sales, history
<1>6. NotificationsExist'
  BY <1>3, <1>4
     DEF RunInv, NotificationsExist, Enqueue, EnqueueFails, HandlerCrash, events
<1>7. RunsKnow' /\ AcknowledgedAfterUpsert'
  BY <1>3
     DEF RunInv, RunsKnow, RunKnows, AcknowledgedAfterUpsert, Enqueue, EnqueueFails,
         HandlerCrash, events, sales, Event
<1> QED
  BY <1>5, <1>6, <1>7 DEF RunInv

LEMMA InvScanner ==
  ASSUME RunInv, Scanner
  PROVE  RunInv'
<1>1. CASE WindowElapses
  <2>1. Tail(backlog) \in Seq(Events)
    BY <1>1 DEF WindowElapses, RunInv, TypeOK
  <2>2. TypeOK'
    BY <1>1, <2>1 DEF WindowElapses, RunInv, TypeOK, remote, sales, history
  <2> QED
    BY <1>1, <2>2, InvFrame DEF WindowElapses, remote, sales
<1>2. ASSUME NEW n \in 1 .. Len(PendingSaleEvents), SweepPrefix(n)
      PROVE  RunInv'
  <2>1. jobs' \in [Jobs -> JobStates]
    BY <1>2, JobUpdates DEF SweepPrefix, RunInv, TypeOK, JobStates
  <2>2. TypeOK'
    BY <1>2, <2>1
       DEF SweepPrefix, RunInv, TypeOK, JobStates, remote, events, sales, history
  <2> QED
    BY <1>2, <2>2, InvFrame DEF SweepPrefix, remote, events, sales
<1> QED
  BY <1>1, <1>2 DEF Scanner, Sweep

-----------------------------------------------------------------------------
(* The worker. *)

(* A run that has gone on to another step, to the upsert, or just begun. *)
LEMMA RunAtStep ==
  ASSUME NEW q \in Runs, NEW s \in RunSteps, NEW r, r = [q EXCEPT !.step = s]
  PROVE  /\ r \in Runs /\ r.step = s /\ Event(r) = Event(q)
         /\ r.order = q.order /\ r.version = q.version /\ r.draft = q.draft
BY DEF Runs, Event

LEMMA RunResolved ==
  ASSUME NEW q \in Runs, NEW n \in 0 .. MaxVersions
  PROVE  /\ Resolved(q, n) \in Runs /\ Resolved(q, n).step = "read"
         /\ Event(Resolved(q, n)) = Event(q) /\ Resolved(q, n).order = q.order
         /\ Resolved(q, n).version = q.version /\ Resolved(q, n).draft = n
BY DEF Resolved, Runs, RunSteps, Event

LEMMA RunBegun ==
  ASSUME NEW e \in Events, NEW s \in Slots
  PROVE  /\ Begun(e, s) \in Runs /\ Begun(e, s).step = "find"
         /\ Event(Begun(e, s)) = e
<1>1. e[1] \in Orders /\ e[2] \in 0 .. MaxVersions /\ e = <<e[1], e[2]>>
  <2>1. e[1] \in Orders /\ e[2] \in Versions /\ e = <<e[1], e[2]>>
    BY DEF Events
  <2> QED
    BY <2>1, ConstantsAssumption DEF Versions, ConstantsAssumption
<1>2. 0 \in 0 .. MaxVersions /\ "none" \in Outcomes /\ "find" \in RunSteps
  BY ConstantsAssumption DEF Outcomes, RunSteps, ConstantsAssumption
<1> QED
  BY <1>1, <1>2 DEF Begun, Runs, Event

(* What a running job's run is. *)
LEMMA Running ==
  ASSUME RunInv, NEW w \in Workers, run[w].step # "idle"
  PROVE  /\ run[w] \in Runs /\ Event(run[w]) \in Events
         /\ JobOf(run[w]) \in Jobs /\ run[w].slot \in Slots
         /\ run[w].order \in Orders /\ run[w].version \in Nat
         /\ run[w].draft \in Nat
         /\ Event(run[w])[1] = run[w].order /\ Event(run[w])[2] = run[w].version
<1>1. run[w] \in Runs
  BY DEF RunInv, TypeOK
<1>2. Event(run[w]) \in Events
  BY DEF RunInv, RunsKnow, RunKnows
<1>3. run[w].version \in Nat /\ run[w].draft \in Nat
  BY <1>1, ConstantsAssumption DEF Runs, ConstantsAssumption
<1> QED
  BY <1>1, <1>2, <1>3, RunJob

(* The changes a worker step may make next to those of its own run. *)
LEMMA InvWorkerFrame ==
  ASSUME RunInv, NEW w \in Workers, NEW r \in Runs,
         run' = [run EXCEPT ![w] = r], RunKnows(r)',
         jobs' \in [Jobs -> JobStates],
         UNCHANGED <<past, connected, answered, inbox, backlog, hook, admin>>,
         sale' \in [Orders -> Sales], imports' \in Nat,
         reconciled' \in [Orders -> 0 .. MaxVersions],
         \A o \in Orders : reconciled[o] <= reconciled'[o],
         counters' \in [unified : Counts, framework : Counts],
         faults' \in 0 .. MaxFaults, crashes' \in 0 .. MaxCrashes
  PROVE  RunInv'
<1>1. run' \in [Workers -> Runs]
      /\ \A v \in Workers : run'[v] = IF v = w THEN r ELSE run[v]
  BY DEF RunInv, TypeOK
<1>2. TypeOK'
  BY <1>1 DEF RunInv, TypeOK, JobStates
<1>3. NotificationsExist'
  BY DEF RunInv, NotificationsExist
<1>4. \A o \in Orders : reconciled[o] \in Nat /\ reconciled'[o] \in Nat
  BY ConstantsAssumption DEF RunInv, TypeOK, ConstantsAssumption
<1>5. RunsKnow'
  <2> SUFFICES ASSUME NEW v \in Workers, v # w
               PROVE  RunKnows(run[v])'
    BY <1>1 DEF RunsKnow
  <2>1. run'[v] = run[v] /\ RunKnows(run[v])
    BY <1>1 DEF RunInv, RunsKnow
  <2>2. CASE run[v].step = "idle"
    BY <2>1, <2>2 DEF RunKnows
  <2>3. CASE run[v].step # "idle"
    <3>1. run[v].order \in Orders /\ run[v].version \in Nat
      BY <2>3, Running
    <3>2. reconciled[run[v].order] >= run[v].version =>
            reconciled'[run[v].order] >= run[v].version
      BY <1>4, <3>1
    <3> QED
      BY <2>1, <2>3, <3>1, <3>2 DEF RunKnows, Event
  <2> QED
    BY <2>2, <2>3
<1>6. AcknowledgedAfterUpsert'
  <2> SUFFICES ASSUME NEW e \in Events, inbox[e].state = "processed",
                      e[1] \notin Orderless
               PROVE  reconciled'[e[1]] >= e[2]
    BY DEF AcknowledgedAfterUpsert
  <2>1. e[1] \in Orders /\ e[2] \in Nat /\ reconciled[e[1]] >= e[2]
    BY ConstantsAssumption
       DEF RunInv, AcknowledgedAfterUpsert, Events, Versions, ConstantsAssumption
  <2> QED
    BY <1>4, <2>1
<1> QED
  BY <1>2, <1>3, <1>5, <1>6 DEF RunInv

(* The same, for a step that touches neither sales nor counters. *)
LEMMA InvRunFrame ==
  ASSUME RunInv, NEW w \in Workers, NEW r \in Runs,
         run' = [run EXCEPT ![w] = r], RunKnows(r)',
         jobs' \in [Jobs -> JobStates],
         UNCHANGED <<past, connected, answered, inbox, backlog, hook, admin,
                     sale, imports, reconciled, counters>>,
         faults' \in 0 .. MaxFaults, crashes' \in 0 .. MaxCrashes
  PROVE  RunInv'
<1>1. /\ sale' \in [Orders -> Sales] /\ imports' \in Nat
      /\ reconciled' \in [Orders -> 0 .. MaxVersions]
      /\ counters' \in [unified : Counts, framework : Counts]
      /\ \A o \in Orders : reconciled[o] <= reconciled'[o]
  BY ConstantsAssumption DEF RunInv, TypeOK, ConstantsAssumption
<1> QED
  BY <1>1, InvWorkerFrame

(* How a run ends, and what the queue has then. *)
LEMMA RunEnds ==
  ASSUME RunInv, NEW w \in Workers, run[w].step # "idle"
  PROVE  /\ Complete(w) => /\ run' = [run EXCEPT ![w] = NoRun]
                           /\ jobs' \in [Jobs -> JobStates]
         /\ Fail(w) => /\ run' = [run EXCEPT ![w] = NoRun]
                       /\ jobs' \in [Jobs -> JobStates]
         /\ RunKnows(NoRun)'
<1> DEFINE j == JobOf(run[w])
<1>1. j \in Jobs /\ run[w].slot \in Slots /\ jobs \in [Jobs -> JobStates]
  BY Running DEF RunInv, TypeOK, JobStates
<1>2. jobs[j] \in JobStates
  BY <1>1
<1>3. Finished(run[w].slot) \in JobStates /\ Reattempt(jobs[j], run[w].slot) \in JobStates
  BY <1>1, <1>2, JobUpdates
<1>4. Complete(w) => jobs' = [jobs EXCEPT ![j] = Finished(run[w].slot)]
  BY DEF Complete
<1>5. Fail(w) => jobs' = [jobs EXCEPT ![j] = Reattempt(jobs[j], run[w].slot)]
  BY DEF Fail
<1>6. RunKnows(NoRun)'
  BY Constants DEF RunKnows
<1> HIDE DEF j
<1> QED
  BY <1>1, <1>3, <1>4, <1>5, <1>6 DEF Complete, Fail

LEMMA InvTakeJob ==
  ASSUME RunInv, NEW w \in Workers, NEW e \in Events, NEW s \in Slots,
         TakeJob(w, e, s)
  PROVE  RunInv'
<1>1. PICK r : r = Begun(e, s)
  OBVIOUS
<1>2. r \in Runs /\ r.step = "find" /\ Event(r) = e
  BY <1>1, RunBegun
<1>3. RunKnows(r)'
  BY <1>2 DEF RunKnows
<1>4. jobs' \in [Jobs -> JobStates]
  <2> DEFINE j == <<e, s>>
  <2>1. j \in Jobs /\ jobs \in [Jobs -> JobStates]
    BY DEF Jobs, RunInv, TypeOK, JobStates
  <2>2. jobs' = [jobs EXCEPT ![j] = [jobs[j] EXCEPT !.state = "active"]]
    BY DEF TakeJob
  <2> HIDE DEF j
  <2>3. [jobs[j] EXCEPT !.state = "active"] \in JobStates
    BY <2>1, JobUpdates
  <2> QED
    BY <2>1, <2>2, <2>3
<1>5. run' = [run EXCEPT ![w] = r]
  BY <1>1 DEF TakeJob
<1>6. /\ UNCHANGED <<past, connected, answered, inbox, backlog, hook, admin,
                     sale, imports, reconciled, counters>>
      /\ faults' \in 0 .. MaxFaults /\ crashes' \in 0 .. MaxCrashes
  BY DEF TakeJob, remote, events, sales, history, RunInv, TypeOK
<1> QED
  BY <1>3, <1>4, <1>5, <1>6, <1>2, InvRunFrame

LEMMA InvFindEvent ==
  ASSUME RunInv, NEW w \in Workers, FindEvent(w)
  PROVE  RunInv'
<1> DEFINE row == inbox[Event(run[w])]
<1>1. /\ run[w].step = "find"
      /\ UNCHANGED <<past, connected, answered, inbox, backlog, hook, admin,
                     sale, imports, reconciled, counters>>
      /\ faults' \in 0 .. MaxFaults /\ crashes' \in 0 .. MaxCrashes
  BY DEF FindEvent, remote, events, sales, history, RunInv, TypeOK
<1>2. /\ run[w] \in Runs /\ Event(run[w]) \in Events
      /\ run[w].order \in Orders /\ run[w].version \in Nat
      /\ Event(run[w])[1] = run[w].order /\ Event(run[w])[2] = run[w].version
  BY <1>1, Running
<1>3. CASE Complete(w)
  BY <1>1, <1>3, RunEnds, InvRunFrame, Constants
<1>4. ASSUME NEW r \in Runs, run' = [run EXCEPT ![w] = r], RunKnows(r)', UNCHANGED jobs
      PROVE  RunInv'
  <2>1. jobs' \in [Jobs -> JobStates]
    BY <1>4 DEF RunInv, TypeOK, JobStates
  <2> QED
    BY <1>1, <1>4, <2>1, InvRunFrame
<1>5. CASE row.state = "pending" /\ UNCHANGED jobs /\ ~FromPayload /\ Goto(w, "fetch")
  <2>1. PICK r : r = [run[w] EXCEPT !.step = "fetch"]
    OBVIOUS
  <2>2. /\ r \in Runs /\ r.step = "fetch" /\ Event(r) = Event(run[w])
        /\ r.order = run[w].order
    BY <1>2, <2>1, RunAtStep DEF RunSteps
  <2>3. RunKnows(r)'
    BY <1>1, <1>2, <1>5, <2>2 DEF RunKnows
  <2>4. run' = [run EXCEPT ![w] = r]
    BY <1>5, <2>1 DEF Goto
  <2> QED
    BY <1>4, <1>5, <2>2, <2>3, <2>4
<1>6. CASE /\ row.state = "pending" /\ UNCHANGED jobs
           /\ run[w].order \in Orderless /\ Goto(w, "mark")
  <2>1. PICK r : r = [run[w] EXCEPT !.step = "mark"]
    OBVIOUS
  <2>2. /\ r \in Runs /\ r.step = "mark" /\ Event(r) = Event(run[w])
        /\ r.order = run[w].order
    BY <1>2, <2>1, RunAtStep DEF RunSteps
  <2>3. RunKnows(r)'
    BY <1>1, <1>2, <1>6, <2>2 DEF RunKnows
  <2>4. run' = [run EXCEPT ![w] = r]
    BY <1>6, <2>1 DEF Goto
  <2> QED
    BY <1>4, <1>6, <2>2, <2>3, <2>4
<1>7. CASE /\ row.state = "pending" /\ UNCHANGED jobs /\ run[w].order \notin Orderless
           /\ run' = [run EXCEPT ![w] = Resolved(run[w], row.payload)]
  <2>1. row \in Rows
    BY <1>2 DEF RunInv, TypeOK
  <2>2. PICK r : r = Resolved(run[w], row.payload)
    OBVIOUS
  <2>6. /\ r \in Runs /\ r.step = "read" /\ Event(r) = Event(run[w])
        /\ r.order = run[w].order /\ r.version = run[w].version
        /\ r.draft = row.payload
    BY <1>2, <2>1, <2>2, RunResolved DEF Rows
  <2>3. row.state # "absent" /\ run[w].version <= row.payload
        /\ row.payload <= Len(past[run[w].order])
    BY <1>2, <1>7, RowNotified
  <2>4. RunKnows(r)'
    BY <1>1, <1>2, <1>7, <2>6, <2>3 DEF RunKnows
  <2>5. run' = [run EXCEPT ![w] = r]
    BY <1>7, <2>2
  <2> QED
    BY <1>4, <1>7, <2>6, <2>4, <2>5
<1> QED
  BY <1>3, <1>5, <1>6, <1>7 DEF FindEvent

LEMMA InvFetchOrder ==
  ASSUME RunInv, NEW w \in Workers, FetchOrder(w)
  PROVE  RunInv'
<1>1. /\ run[w].step = "fetch"
      /\ UNCHANGED <<past, connected, answered, inbox, backlog, hook, admin,
                     sale, imports, reconciled, counters>>
      /\ faults' \in 0 .. MaxFaults /\ crashes' \in 0 .. MaxCrashes
  BY DEF FetchOrder, Defer, remote, events, sales, history, RunInv, TypeOK
<1>2. /\ run[w] \in Runs /\ Event(run[w]) \in Events
      /\ run[w].order \in Orders /\ run[w].version \in Nat
      /\ Event(run[w])[1] = run[w].order /\ Event(run[w])[2] = run[w].version
      /\ inbox[Event(run[w])].state # "absent"
  BY <1>1, Running DEF RunInv, RunsKnow, RunKnows
<1>3. CASE Complete(w)
  BY <1>1, <1>3, RunEnds, InvRunFrame, Constants
<1>4. ASSUME NEW r \in Runs, run' = [run EXCEPT ![w] = r], RunKnows(r)', UNCHANGED jobs
      PROVE  RunInv'
  <2>1. jobs' \in [Jobs -> JobStates]
    BY <1>4 DEF RunInv, TypeOK, JobStates
  <2> QED
    BY <1>1, <1>4, <2>1, InvRunFrame
<1>5. CASE run[w].order \in Orderless /\ Goto(w, "mark") /\ UNCHANGED jobs
  <2>1. PICK r : r = [run[w] EXCEPT !.step = "mark"]
    OBVIOUS
  <2>2. /\ r \in Runs /\ r.step = "mark" /\ Event(r) = Event(run[w])
        /\ r.order = run[w].order
    BY <1>2, <2>1, RunAtStep DEF RunSteps
  <2>3. RunKnows(r)'
    BY <1>1, <1>2, <1>5, <2>2 DEF RunKnows
  <2>4. run' = [run EXCEPT ![w] = r]
    BY <1>5, <2>1 DEF Goto
  <2> QED
    BY <1>4, <1>5, <2>2, <2>3, <2>4
<1>6. CASE /\ run[w].order \notin Orderless /\ UNCHANGED jobs
           /\ run' = [run EXCEPT ![w] = Resolved(run[w], Len(past[run[w].order]))]
  <2>1. PICK n \in 0 .. MaxVersions : n = Len(past[run[w].order])
    BY <1>2, ConstantsAssumption DEF RunInv, TypeOK, ConstantsAssumption
  <2>2. PICK r : r = Resolved(run[w], n)
    OBVIOUS
  <2>7. /\ r \in Runs /\ r.step = "read" /\ Event(r) = Event(run[w])
        /\ r.order = run[w].order /\ r.version = run[w].version /\ r.draft = n
    BY <1>2, <2>1, <2>2, RunResolved
  <2>3. run[w].version <= n
    <3>1. /\ run[w].version <= inbox[Event(run[w])].payload
          /\ inbox[Event(run[w])].payload <= n /\ inbox[Event(run[w])].payload \in Nat
      BY <1>2, <2>1, RowNotified
    <3> QED
      BY <1>2, <2>1, <3>1
  <2>4. n <= n
    BY <2>1
  <2>5. RunKnows(r)'
    <3>1. Len(past'[r.order]) = n
      BY <1>1, <2>1, <2>7
    <3> QED
      BY <1>1, <1>2, <1>6, <2>7, <2>3, <2>4, <3>1 DEF RunKnows
  <2>6. run' = [run EXCEPT ![w] = r]
    BY <1>6, <2>1, <2>2
  <2> QED
    BY <1>4, <1>6, <2>7, <2>5, <2>6
<1> QED
  BY <1>3, <1>5, <1>6 DEF FetchOrder, Defer

(* A run about to upsert has the draft of an existing order. *)
LEMMA Upserting ==
  ASSUME RunInv, NEW w \in Workers, run[w].step \in {"read", "write"}
  PROVE  /\ run[w] \in Runs /\ run[w].order \in Orders
         /\ Draft(run[w]) \in Values /\ run[w].draft \in 1 .. Len(past[run[w].order])
         /\ run[w].draft <= MaxVersions
<1>1. /\ run[w] \in Runs /\ run[w].order \in Orders /\ run[w].draft \in Nat
      /\ run[w].version \in Versions
  BY Running, RunJob
<1>2. run[w].version <= run[w].draft /\ run[w].draft <= Len(past[run[w].order])
  BY <1>1 DEF RunInv, RunsKnow, RunKnows
<1>3. past[run[w].order] \in Seq(Values) /\ Len(past[run[w].order]) <= MaxVersions
  BY <1>1 DEF RunInv, TypeOK
<1>4. run[w].draft \in 1 .. Len(past[run[w].order])
  BY <1>1, <1>2, <1>3, ConstantsAssumption DEF Versions, ConstantsAssumption
<1>5. past[run[w].order][run[w].draft] \in Values
  BY <1>3, <1>4
<1>6. run[w].draft <= MaxVersions
  BY <1>1, <1>2, <1>3, ConstantsAssumption DEF ConstantsAssumption
<1> QED
  BY <1>1, <1>4, <1>5, <1>6 DEF Draft

LEMMA RunUpserted ==
  ASSUME NEW q \in Runs, NEW outcome \in Outcomes
  PROVE  /\ Upserted(q, outcome) \in Runs
         /\ Upserted(q, outcome).step \in {"count", "mark"}
         /\ Event(Upserted(q, outcome)) = Event(q)
         /\ Upserted(q, outcome).order = q.order
         /\ Upserted(q, outcome).version = q.version
<1>1. 0 \in 0 .. MaxVersions /\ "none" \in Outcomes
  BY ConstantsAssumption DEF Outcomes, ConstantsAssumption
<1>2. CASE Draft(q).status = "PAID"
  <2>1. Upserted(q, outcome) = [q EXCEPT !.step = "count", !.draft = 0,
                                         !.outcome = outcome]
    BY <1>2 DEF Upserted
  <2> QED
    BY <1>1, <2>1 DEF Runs, RunSteps, Event
<1>3. CASE Draft(q).status # "PAID"
  <2>1. Upserted(q, outcome) = [q EXCEPT !.step = "mark", !.draft = 0,
                                         !.outcome = "none"]
    BY <1>3 DEF Upserted
  <2> QED
    BY <1>1, <2>1 DEF Runs, RunSteps, Event
<1> QED
  BY <1>2, <1>3

(* After the upsert returned, the draft is reconciled. *)
LEMMA UpsertKnown ==
  ASSUME RunInv, NEW w \in Workers, run[w].step \in {"read", "write"},
         NEW outcome \in Outcomes, UpsertReturns(w, outcome),
         UNCHANGED <<past, inbox>>
  PROVE  /\ reconciled' \in [Orders -> 0 .. MaxVersions]
         /\ \A o \in Orders : reconciled[o] <= reconciled'[o]
         /\ \E r \in Runs : run' = [run EXCEPT ![w] = r] /\ RunKnows(r)'
<1> DEFINE o == run[w].order
<1>1. /\ run[w] \in Runs /\ o \in Orders /\ run[w].version \in Nat
      /\ run[w].draft \in Nat /\ run[w].draft <= MaxVersions
      /\ Event(run[w]) \in Events
  BY Running, Upserting
<1>2. run[w].version <= run[w].draft /\ inbox[Event(run[w])].state # "absent"
  BY DEF RunInv, RunsKnow, RunKnows
<1>3. /\ reconciled \in [Orders -> 0 .. MaxVersions]
      /\ reconciled' = [reconciled EXCEPT ![o] = IF @ < run[w].draft THEN run[w].draft
                                                ELSE @]
  BY DEF RunInv, TypeOK, UpsertReturns
<1>4. /\ reconciled' \in [Orders -> 0 .. MaxVersions]
      /\ \A p \in Orders : reconciled[p] <= reconciled'[p]
      /\ reconciled'[o] >= run[w].version
  BY <1>1, <1>2, <1>3, ConstantsAssumption DEF ConstantsAssumption
<1>5. PICK r : r = Upserted(run[w], outcome)
  OBVIOUS
<1>6. /\ r \in Runs /\ r.step \in {"count", "mark"} /\ Event(r) = Event(run[w])
      /\ r.order = o /\ r.version = run[w].version
  BY <1>1, <1>5, RunUpserted
<1>7. RunKnows(r)'
  BY <1>1, <1>2, <1>4, <1>6 DEF RunKnows
<1>8. run' = [run EXCEPT ![w] = r]
  BY <1>5 DEF UpsertReturns
<1> QED
  BY <1>4, <1>6, <1>7, <1>8

LEMMA OutcomeType ==
  ASSUME NEW x, NEW d
  PROVE  Outcome(x, d) \in Outcomes
BY DEF Outcome, Outcomes

LEMMA InvReadSale ==
  ASSUME RunInv, NEW w \in Workers, ReadSale(w)
  PROVE  RunInv'
<1> DEFINE d == Outcome(sale[run[w].order], Draft(run[w]))
<1>1. /\ run[w].step = "read" /\ d \in Outcomes
      /\ UNCHANGED <<past, connected, answered, inbox, backlog, hook, admin, jobs>>
      /\ sale' \in [Orders -> Sales] /\ imports' \in Nat
      /\ counters' \in [unified : Counts, framework : Counts]
      /\ faults' \in 0 .. MaxFaults /\ crashes' \in 0 .. MaxCrashes
      /\ jobs' \in [Jobs -> JobStates]
  BY OutcomeType
     DEF ReadSale, remote, events, history, RunInv, TypeOK, JobStates
<1>2. CASE UpsertReturns(w, d)
  BY <1>1, <1>2, UpsertKnown, InvWorkerFrame
<1>3. CASE /\ run' = [run EXCEPT ![w].step = "write", ![w].outcome = d]
           /\ UNCHANGED reconciled
  <2>1. PICK r : r = [run[w] EXCEPT !.step = "write", !.outcome = d]
    OBVIOUS
  <2>2. run[w] \in Runs
    BY DEF RunInv, TypeOK
  <2>3. /\ r \in Runs /\ r.step = "write" /\ Event(r) = Event(run[w])
        /\ r.order = run[w].order /\ r.version = run[w].version
        /\ r.draft = run[w].draft
    <3> HIDE DEF d
    <3> QED
      BY <1>1, <2>1, <2>2 DEF Runs, RunSteps, Event
  <2>4. RunKnows(r)'
    BY <1>1, <2>3 DEF RunInv, RunsKnow, RunKnows
  <2>5. run' = [run EXCEPT ![w] = r]
    BY <1>3, <2>1 DEF RunInv, TypeOK
  <2>6. /\ reconciled' \in [Orders -> 0 .. MaxVersions]
        /\ \A o \in Orders : reconciled[o] <= reconciled'[o]
    BY <1>3, ConstantsAssumption DEF RunInv, TypeOK, ConstantsAssumption
  <2> QED
    BY <1>1, <2>3, <2>4, <2>5, <2>6, InvWorkerFrame
<1> QED
  BY <1>2, <1>3 DEF ReadSale

LEMMA InvWriteSale ==
  ASSUME RunInv, NEW w \in Workers, WriteSale(w)
  PROVE  RunInv'
<1> DEFINE o == run[w].order
<1>1. /\ run[w].step = "write" /\ run[w] \in Runs /\ o \in Orders
      /\ Draft(run[w]) \in Values /\ run[w].outcome \in Outcomes
  BY Upserting DEF WriteSale, Runs
<1>2. /\ UNCHANGED <<past, connected, answered, inbox, backlog, hook, admin>>
      /\ counters' \in [unified : Counts, framework : Counts]
      /\ faults' \in 0 .. MaxFaults /\ crashes' \in 0 .. MaxCrashes
  BY DEF WriteSale, remote, events, history, RunInv, TypeOK
<1>3. CASE Fail(w) /\ UNCHANGED sales
  <2>1. UNCHANGED <<sale, imports, reconciled, counters>>
    BY <1>3 DEF WriteSale, sales
  <2> QED
    BY <1>1, <1>2, <1>3, <2>1, RunEnds, InvRunFrame, Constants
<1>4. CASE /\ sale' = [sale EXCEPT ![o] = Stored(sale[o], Draft(run[w]))]
           /\ imports' = IF Draft(run[w]).status = "PAID" THEN imports + 1 ELSE imports
           /\ UpsertReturns(w, run[w].outcome)
           /\ UNCHANGED jobs
  <2>1. sale' \in [Orders -> Sales] /\ imports' \in Nat
    BY <1>1, <1>4 DEF RunInv, TypeOK, Stored, Sales
  <2>2. jobs' \in [Jobs -> JobStates]
    BY <1>4 DEF RunInv, TypeOK, JobStates
  <2> QED
    BY <1>1, <1>2, <1>4, <2>1, <2>2, UpsertKnown, InvWorkerFrame
<1> QED
  BY <1>3, <1>4 DEF WriteSale

(* What the increments make of the counters. *)
LEMMA CountType ==
  ASSUME NEW c \in Counts, NEW x
  PROVE  CountUnified(c, x) \in Counts /\ CountFramework(c, x) \in Counts
<1>1. Imported(x) \in {0, 1}
  BY DEF Imported
<1>2. c.imported + Imported(x) \in Nat /\ c.duplicated + (1 - Imported(x)) \in Nat
  BY <1>1 DEF Counts
<1> QED
  BY <1>2 DEF CountUnified, CountFramework, Counts

LEMMA InvCount ==
  ASSUME RunInv, NEW w \in Workers, Count(w) \/ CountPartly(w)
  PROVE  RunInv'
<1> DEFINE x == run[w].outcome
<1>1. /\ run[w].step = "count" /\ run[w] \in Runs
      /\ UNCHANGED <<past, connected, answered, inbox, backlog, hook, admin,
                     sale, imports, reconciled>>
      /\ sale' \in [Orders -> Sales] /\ imports' \in Nat
      /\ reconciled' \in [Orders -> 0 .. MaxVersions]
      /\ crashes' \in 0 .. MaxCrashes
  BY DEF Count, CountPartly, remote, events, sales, history, RunInv, TypeOK
<1>2. \A o \in Orders : reconciled[o] <= reconciled'[o]
  BY <1>1, ConstantsAssumption DEF RunInv, TypeOK, ConstantsAssumption
<1>3. faults' \in 0 .. MaxFaults
  <2>1. faults \in 0 .. MaxFaults /\ MaxFaults \in Nat
    BY ConstantsAssumption DEF RunInv, TypeOK, ConstantsAssumption
  <2>2. \/ faults' = faults
        \/ faults < MaxFaults /\ faults' = faults + 1
    BY DEF Count, CountPartly, history
  <2> QED
    BY <2>1, <2>2
<1>4. counters' \in [unified : Counts, framework : Counts]
  <2>1. /\ counters.unified \in Counts /\ counters.framework \in Counts
        /\ counters \in [unified : Counts, framework : Counts]
    BY DEF RunInv, TypeOK
  <2>2. /\ CountUnified(counters.unified, x) \in Counts
        /\ CountFramework(counters.framework, x) \in Counts
    BY <2>1, CountType
  <2>3. \/ counters' = [unified |-> CountUnified(counters.unified, x),
                        framework |-> CountFramework(counters.framework, x)]
        \/ counters' = [counters EXCEPT !.unified = CountUnified(counters.unified, x)]
        \/ counters' = [counters EXCEPT !.framework = CountFramework(counters.framework, x)]
    BY DEF Count, CountPartly
  <2> HIDE DEF x
  <2> QED
    BY <2>1, <2>2, <2>3
<1>5. CASE Count(w)
  <2>1. PICK r : r = [run[w] EXCEPT !.step = "mark", !.outcome = "none"]
    OBVIOUS
  <2>2. /\ r \in Runs /\ r.step = "mark" /\ Event(r) = Event(run[w])
        /\ r.order = run[w].order /\ r.version = run[w].version
    BY <1>1, <2>1 DEF Runs, RunSteps, Outcomes, Event
  <2>3. RunKnows(r)'
    BY <1>1, <2>2 DEF RunInv, RunsKnow, RunKnows
  <2>4. run' = [run EXCEPT ![w] = r]
    BY <1>5, <2>1 DEF Count, RunInv, TypeOK
  <2>5. jobs' \in [Jobs -> JobStates]
    BY <1>5 DEF Count, RunInv, TypeOK, JobStates
  <2> QED
    BY <1>1, <1>2, <1>3, <1>4, <2>2, <2>3, <2>4, <2>5, InvWorkerFrame
<1>6. CASE Fail(w)
  <2>1. /\ run' = [run EXCEPT ![w] = NoRun] /\ RunKnows(NoRun)'
        /\ jobs' \in [Jobs -> JobStates] /\ NoRun \in Runs
    BY <1>1, <1>6, RunEnds, Constants
  <2> QED
    BY <1>1, <1>2, <1>3, <1>4, <2>1, InvWorkerFrame
<1> QED
  BY <1>5, <1>6 DEF CountPartly

LEMMA InvRunStops ==
  ASSUME RunInv, NEW w \in Workers, StepThrows(w) \/ WorkerCrash(w)
  PROVE  RunInv'
<1>1. /\ run[w].step # "idle"
      /\ UNCHANGED <<past, connected, answered, inbox, backlog, hook, admin,
                     sale, imports, reconciled, counters>>
  BY DEF StepThrows, WorkerCrash, remote, events, sales
<1>2. faults' \in 0 .. MaxFaults /\ crashes' \in 0 .. MaxCrashes
  BY ConstantsAssumption
     DEF StepThrows, WorkerCrash, RunInv, TypeOK, ConstantsAssumption
<1>3. run' = [run EXCEPT ![w] = NoRun] /\ RunKnows(NoRun)' /\ NoRun \in Runs
  BY <1>1, RunEnds, Constants DEF StepThrows, WorkerCrash
<1>4. jobs' \in [Jobs -> JobStates]
  <2>1. CASE StepThrows(w)
    BY <1>1, <2>1, RunEnds DEF StepThrows
  <2>2. CASE WorkerCrash(w)
    <3> DEFINE j == JobOf(run[w])
    <3>1. j \in Jobs /\ jobs \in [Jobs -> JobStates]
      BY <1>1, Running DEF RunInv, TypeOK, JobStates
    <3>2. jobs' = [jobs EXCEPT ![j] = [jobs[j] EXCEPT !.state = "waiting"]]
      BY <2>2 DEF WorkerCrash
    <3> HIDE DEF j
    <3>3. [jobs[j] EXCEPT !.state = "waiting"] \in JobStates
      BY <3>1, JobUpdates
    <3> QED
      BY <3>1, <3>2, <3>3
  <2> QED
    BY <2>1, <2>2
<1> QED
  BY <1>1, <1>2, <1>3, <1>4, InvRunFrame

LEMMA InvMark ==
  ASSUME RunInv, NEW w \in Workers, MarkEventProcessed(w)
  PROVE  RunInv'
<1> DEFINE e == Event(run[w])
<1>1. /\ run[w].step = "mark" /\ Acknowledge(e) /\ Complete(w)
      /\ UNCHANGED <<past, connected, answered, hook, sale, imports, reconciled,
                     admin, counters, faults, crashes>>
  BY DEF MarkEventProcessed, remote, sales, history
<1>2. /\ e \in Events /\ e[1] = run[w].order /\ e[2] = run[w].version
      /\ inbox[e].state # "absent"
      /\ run[w].order \in Orderless \/ reconciled[run[w].order] >= run[w].version
  BY <1>1, Running DEF RunInv, RunsKnow, RunKnows
<1>3. /\ inbox' \in [Events -> Rows]
      /\ \A x \in Events : /\ inbox'[x].payload = inbox[x].payload
                           /\ x # e => inbox'[x] = inbox[x]
      /\ inbox'[e].state = "processed"
  <2>1. inbox \in [Events -> Rows] /\ inbox' = [inbox EXCEPT ![e].state = "processed"]
    BY <1>1 DEF RunInv, TypeOK, Acknowledge
  <2> HIDE DEF e
  <2> QED
    BY <1>2, <2>1 DEF Rows
<1>4. backlog' \in Seq(Events)
  <2>1. backlog \in Seq(Events)
    BY DEF RunInv, TypeOK
  <2>2. CASE UNCHANGED backlog
    BY <2>1, <2>2
  <2>3. ASSUME NEW i \in 1 .. Len(backlog), backlog' = RemoveAt(backlog, i)
        PROVE  backlog' \in Seq(Events)
    <3>1. SubSeq(backlog, 1, i - 1) \in Seq(Events)
      BY <2>1
    <3>2. SubSeq(backlog, i + 1, Len(backlog)) \in Seq(Events)
      BY <2>1
    <3> QED
      BY <2>3, <3>1, <3>2 DEF RemoveAt
  <2> QED
    BY <1>1, <2>2, <2>3 DEF Acknowledge
<1>5. /\ run' = [run EXCEPT ![w] = NoRun] /\ jobs' \in [Jobs -> JobStates]
      /\ NoRun \in Runs /\ NoRun.step = "idle"
  BY <1>1, RunEnds, Constants
<1>6. /\ run' \in [Workers -> Runs]
      /\ \A v \in Workers : run'[v].step # "idle" => run'[v] = run[v]
  BY <1>5 DEF RunInv, TypeOK
<1>7. TypeOK'
  BY <1>1, <1>3, <1>4, <1>5, <1>6 DEF RunInv, TypeOK, JobStates
<1>8. \A x \in Events : inbox[x].state # "absent" <=> inbox'[x].state # "absent"
  <2> HIDE DEF e
  <2> QED
    BY <1>2, <1>3
<1>9. NotificationsExist'
  BY <1>1, <1>3, <1>8 DEF RunInv, NotificationsExist
<1>10. RunsKnow'
  BY <1>1, <1>6, <1>8 DEF RunInv, RunsKnow, RunKnows, Event
<1>11. AcknowledgedAfterUpsert'
  <2> HIDE DEF e
  <2> QED
    BY <1>1, <1>2, <1>3 DEF RunInv, AcknowledgedAfterUpsert
<1> QED
  BY <1>7, <1>9, <1>10, <1>11 DEF RunInv

(* The manager. *)

LEMMA InvAdmin ==
  ASSUME IInv, NEW a \in Admins, Admin(a)
  PROVE  RunInv' /\ \A o \in Orders : sale[o] \in Values => sale'[o] \in Values
<1> DEFINE Updates == [order : Orders, next : SaleStatuses]
<1>1. ASSUME NEW o \in Orders, ReadStatus(a, o)
      PROVE  RunInv' /\ UNCHANGED sale
  <2>1. PICK s \in SaleStatuses : admin' = [admin EXCEPT ![a] = [order |-> o, next |-> s]]
    BY <1>1 DEF ReadStatus
  <2>2. [order |-> o, next |-> s] \in Updates
    OBVIOUS
  <2>3. TypeOK'
    BY <1>1, <2>1, <2>2
       DEF ReadStatus, IInv, RunInv, TypeOK, remote, events, sales, history
  <2> QED
    BY <1>1, <2>3, InvFrame DEF IInv, ReadStatus, remote, events, sales
<1>2. ASSUME WriteStatus(a)
      PROVE  RunInv' /\ \A o \in Orders : sale[o] \in Values => sale'[o] \in Values
  <2>1. admin[a] \in Updates /\ admin[a] # NoAdmin
    BY <1>2 DEF WriteStatus, IInv, RunInv, TypeOK
  <2>2. sale[admin[a].order] \in Values /\ sale \in [Orders -> Sales]
    BY <2>1 DEF IInv, RunInv, AdminsKnow, TypeOK
  <2>3. [sale[admin[a].order] EXCEPT !.status = admin[a].next] \in Values
    BY <2>1, <2>2 DEF Values
  <2>4. /\ sale' \in [Orders -> Sales]
        /\ \A o \in Orders : sale[o] \in Values => sale'[o] \in Values
    BY <1>2, <2>1, <2>2, <2>3 DEF WriteStatus, Sales
  <2>5. admin' = [admin EXCEPT ![a] = NoAdmin]
    BY <1>2 DEF WriteStatus
  <2>6. TypeOK'
    BY <1>2, <2>4, <2>5
       DEF WriteStatus, IInv, RunInv, TypeOK, remote, events, history
  <2> QED
    BY <1>2, <2>4, <2>6, InvFrame DEF IInv, WriteStatus, remote, events
<1> QED
  BY <1>1, <1>2 DEF Admin

(* Only the upsert writes a sale, and it stores a value of the provider. *)
LEMMA SaleWritten ==
  ASSUME RunInv, NEW w \in Workers, Worker(w)
  PROVE  /\ UNCHANGED admin
         /\ \/ UNCHANGED sale
            \/ /\ run[w].step = "write" /\ UNCHANGED past
               /\ sale' = [sale EXCEPT ![run[w].order] = Draft(run[w])]
<1>1. CASE WriteSale(w)
  BY <1>1 DEF WriteSale, sales, Stored, remote
<1>2. CASE ReadSale(w) \/ FindEvent(w) \/ FetchOrder(w)
  BY <1>2 DEF ReadSale, FindEvent, FetchOrder, sales
<1>3. CASE Count(w) \/ CountPartly(w) \/ MarkEventProcessed(w)
  BY <1>3 DEF Count, CountPartly, MarkEventProcessed, sales
<1>4. CASE StepThrows(w) \/ WorkerCrash(w) \/ \E e \in Events, s \in Slots : TakeJob(w, e, s)
  BY <1>4 DEF StepThrows, WorkerCrash, TakeJob, sales
<1> QED
  BY <1>1, <1>2, <1>3, <1>4 DEF Worker, Proceed

LEMMA OthersKeepSales ==
  ASSUME \/ \E o \in Orders : External(o)
         \/ \E h \in Handlers : Handler(h)
         \/ Scanner
  PROVE  UNCHANGED <<sale, admin>>
<1>1. CASE \E o \in Orders : External(o)
  BY <1>1 DEF External, RemoteChange, Disconnect, Reconnect, sales
<1>2. CASE \E h \in Handlers : Handler(h)
  BY <1>2 DEF Handler, Receive, RecordEvent, Enqueue, EnqueueFails, HandlerCrash,
              sales
<1>3. CASE Scanner
  BY <1>3 DEF Scanner, WindowElapses, Sweep, SweepPrefix, sales
<1> QED
  BY <1>1, <1>2, <1>3

(* The step of a worker, a request, the scanner or the outside world. *)
LEMMA InvOthers ==
  ASSUME RunInv,
         \/ \E o \in Orders : External(o)
         \/ \E h \in Handlers : Handler(h)
         \/ Scanner
  PROVE  RunInv'
<1>1. ASSUME NEW o \in Orders, External(o)
      PROVE  RunInv'
  BY <1>1, InvRemoteChange, InvAccount DEF External
<1>2. ASSUME NEW h \in Handlers, Handler(h)
      PROVE  RunInv'
  BY <1>2, InvReceive, InvRecordEvent, InvRelease DEF Handler
<1> QED
  BY <1>1, <1>2, InvScanner

LEMMA InvWorker ==
  ASSUME RunInv, NEW w \in Workers, Worker(w)
  PROVE  RunInv'
BY InvTakeJob, InvFindEvent, InvFetchOrder, InvReadSale, InvWriteSale, InvCount,
   InvMark, InvRunStops DEF Worker, Proceed

LEMMA AdminsStay ==
  ASSUME IInv, \A o \in Orders : sale[o] \in Values => sale'[o] \in Values,
         UNCHANGED admin
  PROVE  AdminsKnow'
<1> SUFFICES ASSUME NEW a \in Admins, admin[a] # NoAdmin
             PROVE  sale'[admin[a].order] \in Values
  BY DEF AdminsKnow
<1>1. admin[a].order \in Orders /\ sale[admin[a].order] \in Values
  BY DEF IInv, RunInv, AdminsKnow, TypeOK
<1> QED
  BY <1>1

LEMMA NextInv == IInv /\ [Next]_vars => IInv'
<1> SUFFICES ASSUME IInv, [Next]_vars
             PROVE  IInv'
  OBVIOUS
<1>1. RunInv
  BY DEF IInv
<1>2. CASE UNCHANGED vars
  <2>1. UNCHANGED <<past, inbox, hook, run, reconciled, sale, admin>>
    BY <1>2 DEF vars, remote, events, sales
  <2>2. TypeOK'
    BY <1>1, <1>2 DEF RunInv, TypeOK, vars, remote, events, sales, history
  <2> QED
    BY <1>1, <2>1, <2>2, InvFrame, AdminsStay DEF IInv
<1>3. CASE \/ \E o \in Orders : External(o)
           \/ \E h \in Handlers : Handler(h)
           \/ Scanner
  BY <1>1, <1>3, InvOthers, OthersKeepSales, AdminsStay DEF IInv
<1>4. ASSUME NEW w \in Workers, Worker(w)
      PROVE  IInv'
  <2>1. UNCHANGED admin /\ \A o \in Orders : sale[o] \in Values => sale'[o] \in Values
    <3>1. CASE UNCHANGED sale
      BY <1>1, <1>4, <3>1, SaleWritten
    <3>2. CASE UNCHANGED sale \/ run[w].step # "write"
      BY <1>1, <1>4, <3>2, SaleWritten
    <3>3. CASE /\ run[w].step = "write"
               /\ sale' = [sale EXCEPT ![run[w].order] = Draft(run[w])]
      <4>1. run[w].order \in Orders /\ Draft(run[w]) \in Values
        BY <1>1, <3>3, Upserting
      <4>2. UNCHANGED admin /\ sale \in [Orders -> Sales]
        BY <1>1, <1>4, SaleWritten DEF RunInv, TypeOK
      <4> QED
        BY <3>3, <4>1, <4>2
    <3> QED
      BY <1>1, <1>4, <3>1, <3>2, <3>3, SaleWritten
  <2> QED
    BY <1>1, <1>4, <2>1, InvWorker, AdminsStay DEF IInv
<1>5. ASSUME NEW a \in Admins, Admin(a)
      PROVE  IInv'
  <2>1. /\ RunInv'
        /\ \A o \in Orders : sale[o] \in Values => sale'[o] \in Values
    BY <1>5, InvAdmin
  <2>2. AdminsKnow'
    <3> SUFFICES ASSUME NEW b \in Admins, admin'[b] # NoAdmin
                 PROVE  sale'[admin'[b].order] \in Values
      BY DEF AdminsKnow
    <3>1. CASE admin'[b] = admin[b]
      <4>1. admin[b].order \in Orders /\ sale[admin[b].order] \in Values
        BY <3>1 DEF IInv, RunInv, AdminsKnow, TypeOK
      <4> QED
        BY <2>1, <3>1, <4>1
    <3>2. CASE admin'[b] # admin[b]
      <4>1. PICK o \in Orders : ReadStatus(a, o)
        BY <1>1, <1>5, <3>2 DEF Admin, WriteStatus, RunInv, TypeOK
      <4>2. sale[o] \in Values
        BY <1>1, <4>1 DEF ReadStatus, RunInv, TypeOK, Sales
      <4>3. admin'[b].order = o
        BY <1>1, <3>2, <4>1 DEF ReadStatus, RunInv, TypeOK
      <4> QED
        BY <2>1, <4>2, <4>3
    <3> QED
      BY <3>1, <3>2
  <2> QED
    BY <2>1, <2>2 DEF IInv
<1> QED
  BY <1>2, <1>3, <1>4, <1>5 DEF Next

-----------------------------------------------------------------------------
(* The theorems. *)

(* The inductive invariant: types, the notifications behind every stored or *)
(* running event, what a run has done so far, and the acknowledged events.  *)
THEOREM Inductive == Spec => []IInv
<1>1. Init => IInv
  BY InitInv DEF Init, IInv, AdminsKnow
<1> QED
  BY <1>1, NextInv, PTL DEF Spec

(* Rows, jobs, requests, runs, sales and counters keep their types and no   *)
(* job is tried more often than its attempts allow (queue.ts, attempts).    *)
THEOREM TypeCorrect == Spec => []TypeOK
<1>1. IInv => TypeOK
  BY DEF IInv, RunInv
<1> QED
  BY <1>1, Inductive, PTL

(* handleProviderWebhook's promise about processedAt: an acknowledged event *)
(* has been behind an upsert, for any number of runs, crashes and retries,  *)
(* any provider, and with managers updating the same sales.                 *)
THEOREM AcknowledgedIsUpserted == Spec => []AcknowledgedAfterUpsert
<1>1. IInv => AcknowledgedAfterUpsert
  BY DEF IInv, RunInv
<1> QED
  BY <1>1, Inductive, PTL

(* While no manager edits them, sales only ever show values of the provider *)
(* (upsertIngestedSale writes status and amount of one draft).              *)
THEOREM SalesAreTheProviders ==
  ASSUME Admins = {}
  PROVE  Spec => []SaleFollowsProvider
<1>1. Init => SaleFollowsProvider
  BY DEF Init, SaleFollowsProvider
<1>2. IInv /\ SaleFollowsProvider /\ [Next]_vars => SaleFollowsProvider'
  <2> SUFFICES ASSUME IInv, SaleFollowsProvider, [Next]_vars,
                      NEW o \in Orders, sale'[o] # NoSale
               PROVE  \E n \in 1 .. Len(past'[o]) : sale'[o] = past'[o][n]
    BY DEF SaleFollowsProvider
  <2>1. RunInv /\ past[o] \in Seq(Values)
    BY DEF IInv, RunInv, TypeOK
  <2>2. ASSUME UNCHANGED <<past, sale>>
        PROVE  \E n \in 1 .. Len(past'[o]) : sale'[o] = past'[o][n]
    BY <2>2 DEF SaleFollowsProvider
  <2>3. ASSUME NEW p \in Orders, RemoteChange(p)
        PROVE  \E n \in 1 .. Len(past'[o]) : sale'[o] = past'[o][n]
    <3>1. PICK n \in 1 .. Len(past[o]) : sale[o] = past[o][n]
      BY <2>3 DEF SaleFollowsProvider, RemoteChange, sales
    <3>2. sale'[o] = sale[o]
      BY <2>3 DEF RemoteChange, sales
    <3>3. n \in 1 .. Len(past'[o]) /\ past'[o][n] = past[o][n]
      <4>1. PICK v : past' = [past EXCEPT ![p] = Append(past[p], v)]
        BY <2>3 DEF RemoteChange
      <4>2. CASE o # p
        BY <2>1, <3>1, <4>1, <4>2 DEF RunInv, TypeOK
      <4>3. CASE o = p
        <5>1. past'[o] = Append(past[o], v)
          BY <4>1, <4>3 DEF IInv, RunInv, TypeOK
        <5> QED
          BY <2>1, <3>1, <5>1
      <4> QED
        BY <4>2, <4>3
    <3> QED
      BY <3>1, <3>2, <3>3
  <2>4. ASSUME NEW w \in Workers, Worker(w)
        PROVE  \E n \in 1 .. Len(past'[o]) : sale'[o] = past'[o][n]
    <3>1. UNCHANGED past
      BY <2>4 DEF Worker, Proceed, TakeJob, FindEvent, FetchOrder, ReadSale,
                  WriteSale, Count, CountPartly, MarkEventProcessed, StepThrows,
                  WorkerCrash, remote
    <3>2. CASE UNCHANGED sale
      BY <2>2, <3>1, <3>2
    <3>3. CASE run[w].step = "write" /\ sale' = [sale EXCEPT ![run[w].order] = Draft(run[w])]
      <4>1. /\ run[w].order \in Orders
            /\ run[w].draft \in 1 .. Len(past[run[w].order])
        BY <2>1, <3>3, Upserting
      <4>2. CASE o = run[w].order
        <5>1. sale'[o] = past[o][run[w].draft]
          BY <3>3, <4>1, <4>2 DEF Draft, IInv, RunInv, TypeOK
        <5> QED
          BY <3>1, <4>1, <4>2, <5>1
      <4>3. CASE o # run[w].order
        <5>1. sale'[o] = sale[o]
          BY <3>3, <4>1, <4>3 DEF IInv, RunInv, TypeOK
        <5> QED
          BY <3>1, <5>1 DEF SaleFollowsProvider
      <4> QED
        BY <4>2, <4>3
    <3> QED
      BY <2>1, <2>4, <3>2, <3>3, SaleWritten
  <2>5. CASE UNCHANGED vars
    BY <2>2, <2>5 DEF vars, remote, sales
  <2>6. ASSUME NEW p \in Orders, Disconnect(p) \/ Reconnect(p)
        PROVE  UNCHANGED <<past, sale>>
    BY <2>6 DEF Disconnect, Reconnect, sales
  <2>7. ASSUME NEW h \in Handlers, Handler(h)
        PROVE  UNCHANGED <<past, sale>>
    BY <2>7 DEF Handler, Receive, RecordEvent, Enqueue, EnqueueFails, HandlerCrash,
                Answer, remote, sales
  <2>8. ASSUME Scanner
        PROVE  UNCHANGED <<past, sale>>
    BY <2>8 DEF Scanner, WindowElapses, Sweep, SweepPrefix, remote, sales
  <2> QED
    BY <2>2, <2>3, <2>4, <2>5, <2>6, <2>7, <2>8 DEF Next, External
<1> QED
  BY <1>1, <1>2, Inductive, PTL DEF Spec

-----------------------------------------------------------------------------
(* Every PAID draft is imported at most once, in each store. *)

Importing(r) == r.step = "count" /\ r.outcome \in {"created", "updated"}

(* The runs whose upsert stored a PAID draft they have not counted yet.     *)
Uncounted == {w \in Workers : Importing(run[w])}

(* The inductive invariant: a stored PAID draft is counted, still to be     *)
(* counted by the run that stored it, or lost for the counters.             *)
ImportsBehind ==
  /\ counters.unified.imported + Cardinality(Uncounted) <= imports
  /\ counters.framework.imported + Cardinality(Uncounted) <= imports

LEMMA UncountedFinite == IsFiniteSet(Uncounted) /\ Cardinality(Uncounted) \in Nat
<1>1. IsFiniteSet(Workers) /\ Uncounted \subseteq Workers
  BY ConstantsAssumption DEF ConstantsAssumption, Uncounted
<1> QED
  BY <1>1, FS_Subset, FS_CardinalityType

LEMMA UncountedFinitely ==
  IsFiniteSet(Uncounted') /\ Cardinality(Uncounted') \in Nat
<1>1. IsFiniteSet(Workers) /\ Uncounted' \subseteq Workers
  BY ConstantsAssumption DEF ConstantsAssumption, Uncounted
<1> QED
  BY <1>1, FS_Subset, FS_CardinalityType

LEMMA CountsAreNumbers ==
  ASSUME TypeOK
  PROVE  /\ imports \in Nat
         /\ counters.unified \in Counts /\ counters.framework \in Counts
         /\ counters.unified.imported \in Nat /\ counters.framework.imported \in Nat
BY DEF TypeOK, Counts

(* A step that stores and counts nothing at most forgets a stored draft.    *)
LEMMA BehindFrame ==
  ASSUME TypeOK, ImportsBehind, UNCHANGED <<imports, counters>>,
         Uncounted' \subseteq Uncounted
  PROVE  ImportsBehind'
<1>1. Cardinality(Uncounted') <= Cardinality(Uncounted)
  BY UncountedFinite, FS_Subset
<1> QED
  BY <1>1, UncountedFinite, UncountedFinitely, CountsAreNumbers DEF ImportsBehind

(* A run that moves to r: only its own membership changes.                  *)
LEMMA UncountedMoves ==
  ASSUME TypeOK, NEW w \in Workers, NEW r, run' = [run EXCEPT ![w] = r]
  PROVE  /\ ~Importing(r) => Uncounted' = Uncounted \ {w}
         /\ Uncounted' \subseteq Uncounted \cup {w}
BY DEF TypeOK, Uncounted, Importing

LEMMA NotImporting ==
  /\ ~Importing(NoRun)
  /\ \A e, s : ~Importing(Begun(e, s))
  /\ \A q \in Runs : \A n : ~Importing(Resolved(q, n))
  /\ \A q \in Runs : \A s \in RunSteps :
       s # "count" => ~Importing([q EXCEPT !.step = s])
BY DEF Importing, NoRun, Begun, Resolved, Runs

LEMMA UpsertedImports ==
  ASSUME NEW q \in Runs, NEW outcome
  PROVE  Importing(Upserted(q, outcome)) =>
           Draft(q).status = "PAID" /\ outcome \in {"created", "updated"}
<1>1. CASE Draft(q).status = "PAID"
  BY <1>1 DEF Upserted, Importing, Runs
<1>2. CASE Draft(q).status # "PAID"
  BY <1>2 DEF Upserted, Importing, Runs
<1> QED
  BY <1>1, <1>2

LEMMA BehindRunEnds ==
  ASSUME RunInv, ImportsBehind, NEW w \in Workers, NEW r,
         run' = [run EXCEPT ![w] = r], ~Importing(r), UNCHANGED <<imports, counters>>
  PROVE  ImportsBehind'
<1>1. TypeOK
  BY DEF RunInv
<1>2. Uncounted' \subseteq Uncounted
  BY <1>1, UncountedMoves
<1> QED
  BY <1>1, <1>2, BehindFrame

LEMMA BehindReadSale ==
  ASSUME RunInv, ImportsBehind, NEW w \in Workers, ReadSale(w)
  PROVE  ImportsBehind'
<1> DEFINE d == Outcome(sale[run[w].order], Draft(run[w]))
<1>1. UNCHANGED <<imports, counters>> /\ run[w] \in Runs
  BY DEF ReadSale, RunInv, TypeOK
<1>2. CASE d \in {"created", "updated"}
  <2>1. PICK r : r = [run[w] EXCEPT !.step = "write", !.outcome = d]
    OBVIOUS
  <2>2. run' = [run EXCEPT ![w] = r]
    BY <1>2, <2>1 DEF ReadSale, RunInv, TypeOK
  <2>3. ~Importing(r)
    BY <1>1, <2>1 DEF Importing, Runs
  <2> QED
    BY <1>1, <2>2, <2>3, BehindRunEnds
<1>3. CASE ~(d \in {"created", "updated"})
  <2>1. PICK r : r = Upserted(run[w], d)
    OBVIOUS
  <2>2. run' = [run EXCEPT ![w] = r]
    BY <1>3, <2>1 DEF ReadSale, UpsertReturns
  <2>3. ~Importing(r)
    BY <1>1, <1>3, <2>1, UpsertedImports
  <2> QED
    BY <1>1, <2>2, <2>3, BehindRunEnds
<1> QED
  BY <1>2, <1>3

(* The write that raises imports is the one that adds a run to count.       *)
LEMMA BehindWriteSale ==
  ASSUME RunInv, ImportsBehind, NEW w \in Workers, WriteSale(w)
  PROVE  ImportsBehind'
<1>1. UNCHANGED counters /\ run[w] \in Runs /\ TypeOK
  BY DEF WriteSale, RunInv, TypeOK
<1>2. CASE Fail(w) /\ UNCHANGED sales
  <2>1. run' = [run EXCEPT ![w] = NoRun] /\ UNCHANGED imports
    BY <1>2 DEF Fail, sales
  <2> QED
    BY <1>1, <2>1, NotImporting, BehindRunEnds
<1>3. CASE /\ imports' = IF Draft(run[w]).status = "PAID" THEN imports + 1 ELSE imports
           /\ UpsertReturns(w, run[w].outcome)
  <2>1. PICK r : r = Upserted(run[w], run[w].outcome)
    OBVIOUS
  <2>2. run' = [run EXCEPT ![w] = r]
    BY <1>3, <2>1 DEF UpsertReturns
  <2>3. CASE Draft(run[w]).status = "PAID"
    <3>1. Uncounted' \subseteq Uncounted \cup {w}
      BY <1>1, <2>2, UncountedMoves
    <3>2. /\ IsFiniteSet(Uncounted \cup {w})
          /\ Cardinality(Uncounted \cup {w}) \in Nat
          /\ Cardinality(Uncounted \cup {w}) <= Cardinality(Uncounted) + 1
      <4>1. /\ IsFiniteSet(Uncounted \cup {w})
            /\ Cardinality(Uncounted \cup {w}) =
                 IF w \in Uncounted THEN Cardinality(Uncounted)
                 ELSE Cardinality(Uncounted) + 1
        BY UncountedFinite, FS_AddElement
      <4> QED
        BY <4>1, UncountedFinite
    <3>3. Cardinality(Uncounted') <= Cardinality(Uncounted \cup {w})
      BY <3>1, <3>2, FS_Subset
    <3>4. imports' = imports + 1
      BY <1>3, <2>3
    <3> QED
      BY <1>1, <3>2, <3>3, <3>4, UncountedFinite, UncountedFinitely, CountsAreNumbers
         DEF ImportsBehind
  <2>4. CASE Draft(run[w]).status # "PAID"
    <3>1. ~Importing(r)
      BY <1>1, <2>1, <2>4, UpsertedImports
    <3>2. UNCHANGED imports
      BY <1>3, <2>4
    <3> QED
      BY <1>1, <2>2, <3>1, <3>2, BehindRunEnds
  <2> QED
    BY <2>3, <2>4
<1> QED
  BY <1>2, <1>3 DEF WriteSale

(* A count adds to a store what its run takes off the uncounted ones.       *)
LEMMA BehindCount ==
  ASSUME RunInv, ImportsBehind, NEW w \in Workers, Count(w) \/ CountPartly(w)
  PROVE  ImportsBehind'
<1> DEFINE x == run[w].outcome
           u == counters.unified
           f == counters.framework
<1>1. /\ run[w].step = "count" /\ run[w] \in Runs /\ TypeOK /\ UNCHANGED imports
      /\ counters \in [unified : Counts, framework : Counts]
  BY DEF Count, CountPartly, sales, RunInv, TypeOK
<1>2. Uncounted' = Uncounted \ {w}
  <2>1. PICK r : r = [run[w] EXCEPT !.step = "mark", !.outcome = "none"]
    OBVIOUS
  <2>2. ~Importing(r)
    BY <1>1, <2>1 DEF Importing, Runs
  <2>3. run' = [run EXCEPT ![w] = r] \/ run' = [run EXCEPT ![w] = NoRun]
    BY <1>1, <2>1 DEF Count, CountPartly, Fail, TypeOK
  <2> QED
    BY <1>1, <2>2, <2>3, NotImporting, UncountedMoves
<1>3. Cardinality(Uncounted') + Imported(x) = Cardinality(Uncounted)
  <2>1. CASE w \in Uncounted
    <3>1. Imported(x) = 1
      BY <2>1 DEF Imported, Uncounted, Importing
    <3>2. Cardinality(Uncounted \ {w}) = Cardinality(Uncounted) - 1
      BY <2>1, UncountedFinite, FS_RemoveElement
    <3> QED
      BY <1>2, <3>1, <3>2, UncountedFinite
  <2>2. CASE w \notin Uncounted
    <3>1. Imported(x) = 0
      BY <1>1, <2>2 DEF Imported, Uncounted, Importing
    <3>2. Uncounted' = Uncounted
      BY <1>2, <2>2
    <3> QED
      BY <3>1, <3>2, UncountedFinite
  <2> QED
    BY <2>1, <2>2
<1>4. /\ CountUnified(u, x).imported = u.imported + Imported(x)
      /\ CountFramework(f, x).imported = f.imported + Imported(x)
  BY <1>1 DEF CountUnified, CountFramework, Counts
<1>5. /\ counters'.unified \in {u, CountUnified(u, x)}
      /\ counters'.framework \in {f, CountFramework(f, x)}
  BY <1>1 DEF Count, CountPartly
<1>6. /\ counters'.unified.imported \in {u.imported, u.imported + Imported(x)}
      /\ counters'.framework.imported \in {f.imported, f.imported + Imported(x)}
  BY <1>4, <1>5
<1>7. Imported(x) \in {0, 1}
  BY DEF Imported
<1> HIDE DEF x, u, f
<1>8. u.imported \in Nat /\ f.imported \in Nat /\ imports \in Nat
  BY <1>1, CountsAreNumbers DEF u, f
<1>9. /\ u.imported + Cardinality(Uncounted) <= imports
      /\ f.imported + Cardinality(Uncounted) <= imports
  BY DEF ImportsBehind, u, f
<1> QED
  BY <1>1, <1>3, <1>6, <1>7, <1>8, <1>9, UncountedFinite, UncountedFinitely
     DEF ImportsBehind

LEMMA BehindFindEvent ==
  ASSUME RunInv, ImportsBehind, NEW w \in Workers, FindEvent(w)
  PROVE  ImportsBehind'
<1>1. UNCHANGED <<imports, counters>> /\ run[w] \in Runs
  BY DEF FindEvent, sales, RunInv, TypeOK
<1>2. \E r : run' = [run EXCEPT ![w] = r] /\ ~Importing(r)
  <2>1. CASE run' = [run EXCEPT ![w] = NoRun]
    BY <2>1, NotImporting
  <2>2. ASSUME NEW s \in {"fetch", "mark"}, run' = [run EXCEPT ![w].step = s]
        PROVE  \E r : run' = [run EXCEPT ![w] = r] /\ ~Importing(r)
    BY <1>1, <2>2, NotImporting DEF RunSteps
  <2>3. ASSUME NEW n, run' = [run EXCEPT ![w] = Resolved(@, n)]
        PROVE  \E r : run' = [run EXCEPT ![w] = r] /\ ~Importing(r)
    BY <1>1, <2>3, NotImporting
  <2> QED
    BY <2>1, <2>2, <2>3 DEF FindEvent, Complete, Goto
<1> QED
  BY <1>1, <1>2, BehindRunEnds

LEMMA BehindFetchOrder ==
  ASSUME RunInv, ImportsBehind, NEW w \in Workers, FetchOrder(w)
  PROVE  ImportsBehind'
<1>1. UNCHANGED <<imports, counters>> /\ run[w] \in Runs
  BY DEF FetchOrder, sales, RunInv, TypeOK
<1>2. \E r : run' = [run EXCEPT ![w] = r] /\ ~Importing(r)
  <2>1. CASE run' = [run EXCEPT ![w] = NoRun]
    BY <2>1, NotImporting
  <2>2. CASE run' = [run EXCEPT ![w].step = "mark"]
    BY <1>1, <2>2, NotImporting DEF RunSteps
  <2>3. ASSUME NEW n, run' = [run EXCEPT ![w] = Resolved(@, n)]
        PROVE  \E r : run' = [run EXCEPT ![w] = r] /\ ~Importing(r)
    BY <1>1, <2>3, NotImporting
  <2> QED
    BY <2>1, <2>2, <2>3 DEF FetchOrder, Defer, Complete, Goto
<1> QED
  BY <1>1, <1>2, BehindRunEnds

LEMMA BehindWorker ==
  ASSUME RunInv, ImportsBehind, NEW w \in Workers, Worker(w)
  PROVE  ImportsBehind'
<1>1. CASE StepThrows(w) \/ WorkerCrash(w) \/ MarkEventProcessed(w)
  <2>1. run' = [run EXCEPT ![w] = NoRun] /\ UNCHANGED <<imports, counters>>
    BY <1>1 DEF StepThrows, WorkerCrash, MarkEventProcessed, Fail, Complete, sales
  <2> QED
    BY <2>1, NotImporting, BehindRunEnds
<1>2. ASSUME NEW e \in Events, NEW s \in Slots, TakeJob(w, e, s)
      PROVE  ImportsBehind'
  <2>1. run' = [run EXCEPT ![w] = Begun(e, s)] /\ UNCHANGED <<imports, counters>>
    BY <1>2 DEF TakeJob, sales
  <2> QED
    BY <2>1, NotImporting, BehindRunEnds
<1> QED
  BY <1>1, <1>2, BehindFindEvent, BehindFetchOrder, BehindReadSale, BehindWriteSale,
     BehindCount DEF Worker, Proceed

(* No request, manager or scanner touches a run, a counter or a draft.      *)
LEMMA OthersCountNothing ==
  ASSUME \/ \E o \in Orders : External(o)
         \/ \E h \in Handlers : Handler(h)
         \/ Scanner
         \/ \E a \in Admins : Admin(a)
         \/ UNCHANGED vars
  PROVE  UNCHANGED <<run, imports, counters>>
<1>1. CASE \E o \in Orders : External(o)
  BY <1>1 DEF External, RemoteChange, Disconnect, Reconnect, sales
<1>2. CASE \E h \in Handlers : Handler(h)
  BY <1>2 DEF Handler, Receive, RecordEvent, Enqueue, EnqueueFails, HandlerCrash,
              sales
<1>3. CASE Scanner
  BY <1>3 DEF Scanner, WindowElapses, Sweep, SweepPrefix, sales
<1>4. CASE \E a \in Admins : Admin(a)
  BY <1>4 DEF Admin, ReadStatus, WriteStatus, sales
<1>5. CASE UNCHANGED vars
  BY <1>5 DEF vars, sales
<1> QED
  BY <1>1, <1>2, <1>3, <1>4, <1>5

(* A retried, replayed or partly counted delivery never counts more imports *)
(* in a store than PAID drafts were stored (sale-ingestion.service.ts), for *)
(* any number of runs, faults and crashes.                                  *)
THEOREM ImportsSafe == Spec => []ImportsCounted
<1>1. Init => ImportsBehind
  <2> SUFFICES ASSUME Init PROVE ImportsBehind
    OBVIOUS
  <2>1. Uncounted = {}
    BY DEF Init, Uncounted, Importing, NoRun
  <2>2. Cardinality(Uncounted) = 0
    BY <2>1, FS_EmptySet
  <2> QED
    BY <2>2 DEF Init, ImportsBehind, Zero
<1>2. IInv /\ ImportsBehind /\ [Next]_vars => ImportsBehind'
  <2> SUFFICES ASSUME IInv, ImportsBehind, [Next]_vars PROVE ImportsBehind'
    OBVIOUS
  <2>1. RunInv /\ TypeOK
    BY DEF IInv, RunInv
  <2>2. CASE UNCHANGED <<run, imports, counters>>
    <3>1. Uncounted' = Uncounted
      BY <2>2 DEF Uncounted
    <3> QED
      BY <2>1, <2>2, <3>1, BehindFrame
  <2> QED
    BY <2>1, <2>2, BehindWorker, OthersCountNothing DEF Next
<1>3. IInv /\ ImportsBehind => ImportsCounted
  BY UncountedFinite, CountsAreNumbers DEF IInv, RunInv, ImportsBehind, ImportsCounted
<1> QED
  BY <1>1, <1>2, <1>3, Inductive, PTL DEF Spec

-----------------------------------------------------------------------------
(***************************************************************************)
(* With QUEUE_CONCURRENCY at 1 in one worker process, a store read through *)
(* its provider's API and no manager at work, a settled sale is the        *)
(* provider's.                                                             *)
(***************************************************************************)

Final == {"REFUNDED", "CANCELLED"}

InSync(o) ==
  LET latest == past[o][Len(past[o])]
  IN /\ latest.status = "PAID" => sale[o] = latest
     /\ latest.status \in Final => sale[o] \in {latest, NoSale}

(* The row of the latest change of order o is stamped.                      *)
Stamped(o) == \E e \in Events : /\ e[1] = o /\ e[2] = Len(past[o])
                                /\ inbox[e].state = "processed"

(* A stored sale was created PAID, and the upsert keeps to the transitions. *)
SalesStand ==
  \A o \in Orders : sale[o] # NoSale => sale[o].status \in {"PAID"} \cup Final

FinalIsLast ==
  \A o \in Orders : \A n \in 1 .. Len(past[o]) :
    past[o][n].status \in Final => n = Len(past[o])

(* What a run has decided still holds of the row it read, a draft taken     *)
(* after the stamp is the latest value, and a run about to stamp the latest *)
(* change has stored it.                                                    *)
RunMatches(r) ==
  /\ r.step = "write" =>
       r.outcome \in {"created", "updated"} /\ r.outcome = Outcome(sale[r.order], Draft(r))
  /\ r.step \in {"read", "write"} /\ Stamped(r.order) => r.draft = Len(past[r.order])
  /\ r.step \in {"count", "mark"} /\ r.order \notin Orderless
       /\ r.version = Len(past[r.order]) => InSync(r.order)

StampedMatch == \A o \in Orders \ Orderless : Stamped(o) => InSync(o)

MatchInv ==
  /\ SaleFollowsProvider /\ SalesStand /\ FinalIsLast /\ StampedMatch
  /\ \A w \in Workers : RunMatches(run[w])

(* The workers run one job at a time (QUEUE_CONCURRENCY = 1 in              *)
(* lib/async/config.ts), no manager edits, and the draft is fetched from    *)
(* the provider's API.                                                      *)
Serial == (\A v, w \in Workers : v = w) /\ Admins = {} /\ ~FromPayload

LEMMA PastTyped ==
  ASSUME RunInv, NEW o \in Orders
  PROVE  past[o] \in Seq(Values) /\ Len(past[o]) \in Nat /\ sale[o] \in Sales
BY DEF RunInv, TypeOK

(* The upsert writes what a sale may be, and when it writes nothing the row *)
(* already matches the draft.                                               *)
LEMMA OutcomeSays ==
  ASSUME RunInv, SaleFollowsProvider, SalesStand, FinalIsLast, NEW o \in Orders,
         NEW d \in Values
  PROVE  /\ Outcome(sale[o], d) \in {"created", "updated"} =>
              d.status \in {"PAID"} \cup Final
         /\ d = past[o][Len(past[o])] /\ Outcome(sale[o], d) \notin {"created", "updated"}
              => InSync(o)
<1>1. CASE sale[o] = NoSale
  BY <1>1 DEF Outcome, InSync, Final
<1>2. CASE sale[o] # NoSale
  <2>1. sale[o].status \in {"PAID"} \cup Final
    BY <1>2 DEF SalesStand
  <2>2. Outcome(sale[o], d) =
          IF sale[o] = d \/ ~CanTransitionSaleStatus(sale[o].status, d.status)
          THEN "unchanged" ELSE "updated"
    BY <1>2 DEF Outcome
  <2>3. d.status \in SaleStatuses
    BY DEF Values
  <2>4. Outcome(sale[o], d) \in {"created", "updated"} => d.status \in {"PAID"} \cup Final
    BY <2>1, <2>2, <2>3 DEF CanTransitionSaleStatus, Final, SaleStatuses
  <2>5. ASSUME d = past[o][Len(past[o])], Outcome(sale[o], d) \notin {"created", "updated"}
        PROVE  InSync(o)
    <3>1. CASE sale[o] = d
      BY <2>5, <3>1 DEF InSync
    <3>2. CASE sale[o] # d /\ sale[o].status = "PAID"
      <4>1. ~CanTransitionSaleStatus("PAID", d.status)
        BY <2>2, <2>5, <3>2
      <4>2. d.status = "PENDING"
        BY <2>3, <4>1 DEF CanTransitionSaleStatus, SaleStatuses
      <4> QED
        BY <2>5, <4>2 DEF InSync, Final
    <3>3. CASE sale[o] # d /\ sale[o].status \in Final
      <4>1. PICK n \in 1 .. Len(past[o]) : sale[o] = past[o][n]
        BY <1>2 DEF SaleFollowsProvider
      <4>2. n = Len(past[o])
        BY <3>3, <4>1 DEF FinalIsLast
      <4> QED
        BY <2>5, <3>3, <4>1, <4>2
    <3> QED
      BY <2>1, <3>1, <3>2, <3>3
  <2> QED
    BY <2>4, <2>5
<1> QED
  BY <1>1, <1>2

(* A step that leaves the orders, the sales and the runs, and stamps none.  *)
LEMMA MatchFrame ==
  ASSUME MatchInv, UNCHANGED <<past, sale, run>>,
         \A e \in Events : inbox'[e].state = "processed" => inbox[e].state = "processed"
  PROVE  MatchInv'
<1>1. SaleFollowsProvider' /\ SalesStand' /\ FinalIsLast'
  BY DEF MatchInv, SaleFollowsProvider, SalesStand, FinalIsLast
<1>2. \A o : Stamped(o)' => Stamped(o)
  BY DEF Stamped
<1>3. \A o : InSync(o)' <=> InSync(o)
  BY DEF InSync
<1>4. StampedMatch'
  BY <1>2, <1>3 DEF MatchInv, StampedMatch
<1>5. ASSUME NEW w \in Workers PROVE RunMatches(run[w])'
  <2>1. RunMatches(run[w]) /\ run'[w] = run[w]
    BY DEF MatchInv
  <2> QED
    BY <1>2, <1>3, <2>1 DEF RunMatches, Draft
<1> QED
  BY <1>1, <1>4, <1>5 DEF MatchInv

LEMMA MatchRemoteChange ==
  ASSUME RunInv, MatchInv, NEW p \in Orders, RemoteChange(p)
  PROVE  MatchInv'
<1>1. PICK s \in MayFollow(RemoteStatus(p)), a \in Amounts :
        past' = [past EXCEPT ![p] = Append(past[p], [status |-> s, amount |-> a])]
  BY DEF RemoteChange
<1> DEFINE v == [status |-> s, amount |-> a]
           L == Len(past[p])
<1>2. UNCHANGED <<inbox, run, sale>>
  BY DEF RemoteChange, events, sales
<1>3. /\ past[p] \in Seq(Values) /\ L \in Nat /\ v \in Values
      /\ past'[p] = Append(past[p], v)
      /\ \A o \in Orders \ {p} : past'[o] = past[o]
  <2>1. v \in Values
    BY <1>1 DEF MayFollow, Values, SaleStatuses
  <2> QED
    BY <1>1, <2>1 DEF RunInv, TypeOK
<1>4. /\ Len(past'[p]) = L + 1 /\ past'[p][L + 1] = v
      /\ \A n \in 1 .. L : past'[p][n] = past[p][n]
  BY <1>3
<1>5. \A n \in 1 .. L : past[p][n].status \notin Final
  <2>1. SUFFICES ASSUME NEW n \in 1 .. L, past[p][n].status \in Final PROVE FALSE
    OBVIOUS
  <2>2. n = L
    BY <2>1 DEF MatchInv, FinalIsLast
  <2>3. past[p] # <<>> /\ RemoteStatus(p) = past[p][n].status
    BY <1>3, <2>2 DEF RemoteStatus, Last
  <2>4. MayFollow(RemoteStatus(p)) = {}
    BY <2>1, <2>3 DEF MayFollow, Final
  <2> QED
    BY <2>4
<1>6. FinalIsLast'
  <2>1. ASSUME NEW o \in Orders, NEW n \in 1 .. Len(past'[o]), past'[o][n].status \in Final
        PROVE  n = Len(past'[o])
    <3>1. CASE o = p
      <4>1. n \in 1 .. L \/ n = L + 1
        BY <1>3, <1>4, <2>1, <3>1
      <4> QED
        BY <1>4, <1>5, <2>1, <3>1, <4>1
    <3>2. CASE o # p
      BY <1>3, <2>1, <3>2 DEF MatchInv, FinalIsLast
    <3> QED
      BY <3>1, <3>2
  <2> QED
    BY <2>1 DEF FinalIsLast
<1>7. SalesStand'
  BY <1>2 DEF MatchInv, SalesStand
<1>8. SaleFollowsProvider'
  <2>1. ASSUME NEW o \in Orders, sale'[o] # NoSale
        PROVE  \E n \in 1 .. Len(past'[o]) : sale'[o] = past'[o][n]
    <3>1. PICK n \in 1 .. Len(past[o]) : sale[o] = past[o][n]
      BY <1>2, <2>1 DEF MatchInv, SaleFollowsProvider
    <3>2. CASE o = p
      <4>1. n \in 1 .. Len(past'[p]) /\ past'[p][n] = past[p][n]
        BY <1>3, <1>4, <3>1, <3>2
      <4> QED
        BY <1>2, <3>1, <3>2, <4>1
    <3>3. CASE o # p
      BY <1>2, <1>3, <3>1, <3>3
    <3> QED
      BY <3>2, <3>3
  <2> QED
    BY <2>1 DEF SaleFollowsProvider
<1>9. ~Stamped(p)' /\ \A o \in Orders \ {p} : Stamped(o)' <=> Stamped(o)
  <2>1. ASSUME NEW e \in Events, e[1] = p, e[2] = Len(past'[p])
        PROVE  inbox'[e].state # "processed"
    <3>1. SUFFICES ASSUME inbox[e].state = "processed" PROVE FALSE
      BY <1>2
    <3>2. e[2] \in Nat /\ inbox[e].payload \in Nat /\ e[2] <= L
      BY <1>3, <2>1, <3>1, RowNotified
    <3> QED
      BY <1>3, <1>4, <2>1, <3>2
  <2>2. \A o \in Orders \ {p} : Stamped(o)' <=> Stamped(o)
    BY <1>2, <1>3 DEF Stamped
  <2> QED
    BY <2>1, <2>2 DEF Stamped
<1>10. \A o \in Orders \ {p} : InSync(o)' <=> InSync(o)
  BY <1>2, <1>3 DEF InSync
<1>11. StampedMatch'
  BY <1>9, <1>10 DEF MatchInv, StampedMatch
<1>12. ASSUME NEW w \in Workers PROVE RunMatches(run[w])'
  <2>1. RunMatches(run[w]) /\ run'[w] = run[w]
    BY <1>2 DEF MatchInv
  <2>2. CASE run[w].step \in {"read", "write"}
    <3>1. run[w].order \in Orders /\ run[w].draft \in 1 .. Len(past[run[w].order])
      BY <2>2, Upserting
    <3>2. Draft(run[w])' = Draft(run[w])
      BY <1>2, <1>3, <1>4, <3>1 DEF Draft
    <3>3. CASE run[w].order = p
      BY <1>2, <1>9, <2>1, <2>2, <3>2, <3>3 DEF RunMatches
    <3>4. CASE run[w].order # p
      BY <1>2, <1>3, <1>9, <2>1, <2>2, <3>1, <3>2, <3>4 DEF RunMatches
    <3> QED
      BY <3>3, <3>4
  <2>3. CASE run[w].step \in {"count", "mark"}
    <3>1. run[w].order \in Orders /\ run[w].version \in Nat
      BY <2>3, Running
    <3>2. CASE run[w].order = p
      <4>1. run[w].version <= L
        <5>1. Event(run[w]) \in Events /\ inbox[Event(run[w])].state # "absent"
              /\ Event(run[w])[1] = p /\ Event(run[w])[2] = run[w].version
          BY <2>3, <3>2, Running DEF RunInv, RunsKnow, RunKnows
        <5> QED
          BY <1>3, <5>1, RowNotified
      <4>2. run[w].version # Len(past'[p])
        BY <1>3, <1>4, <3>1, <4>1
      <4> QED
        BY <2>1, <2>3, <3>2, <4>2 DEF RunMatches
    <3>3. CASE run[w].order # p
      BY <1>3, <1>10, <2>1, <2>3, <3>1, <3>3 DEF RunMatches
    <3> QED
      BY <3>2, <3>3
  <2>4. CASE run[w].step \notin {"read", "write", "count", "mark"}
    BY <2>1, <2>4 DEF RunMatches
  <2> QED
    BY <2>2, <2>3, <2>4
<1> QED
  BY <1>6, <1>7, <1>8, <1>11, <1>12 DEF MatchInv
(* A step of the only worker that writes no sale and stamps no row.         *)
LEMMA MatchRun ==
  ASSUME RunInv, MatchInv, NEW w \in Workers, \A v \in Workers : v = w, NEW r,
         run' = [run EXCEPT ![w] = r], RunMatches(r), UNCHANGED <<past, sale, inbox>>
  PROVE  MatchInv'
<1>1. SaleFollowsProvider' /\ SalesStand' /\ FinalIsLast'
  BY DEF MatchInv, SaleFollowsProvider, SalesStand, FinalIsLast
<1>2. \A o : (Stamped(o)' <=> Stamped(o)) /\ (InSync(o)' <=> InSync(o))
  BY DEF Stamped, InSync
<1>3. StampedMatch'
  BY <1>2 DEF MatchInv, StampedMatch
<1>4. ASSUME NEW v \in Workers PROVE RunMatches(run[v])'
  <2>1. run'[v] = r
    BY DEF RunInv, TypeOK
  <2> QED
    BY <1>2, <2>1 DEF RunMatches, Draft
<1> QED
  BY <1>1, <1>3, <1>4 DEF MatchInv

LEMMA RunRests == ASSUME NEW r, r.step \in {"idle", "find", "fetch"} PROVE RunMatches(r)
BY DEF RunMatches

(* The upsert of run w has returned with the row matching a draft that is   *)
(* the latest value.                                                        *)
LEMMA UpsertedMatches ==
  ASSUME RunInv, NEW w \in Workers, run[w].step \in {"read", "write"}, NEW outcome \in Outcomes,
         NEW r, r = Upserted(run[w], outcome)
  PROVE  /\ r.step \in {"count", "mark"} /\ r.order = run[w].order
         /\ r.version = Len(past[r.order]) => run[w].draft = Len(past[r.order])
<1>1. /\ run[w] \in Runs /\ run[w].order \in Orders
      /\ run[w].draft \in 1 .. Len(past[run[w].order])
  BY Upserting
<1>2. /\ r.step \in {"count", "mark"} /\ r.order = run[w].order
      /\ r.version = run[w].version
  BY <1>1, RunUpserted
<1>3. run[w].version <= run[w].draft /\ run[w].version \in Nat
  BY Running DEF RunInv, RunsKnow, RunKnows
<1>4. Len(past[run[w].order]) \in Nat
  BY <1>1, PastTyped
<1> QED
  BY <1>1, <1>2, <1>3, <1>4

LEMMA MatchTakeJob ==
  ASSUME RunInv, MatchInv, NEW w \in Workers, \A v \in Workers : v = w,
         NEW e \in Events, NEW s \in Slots, TakeJob(w, e, s)
  PROVE  MatchInv'
<1>1. RunMatches(Begun(e, s))
  BY RunBegun, RunRests
<1>2. run' = [run EXCEPT ![w] = Begun(e, s)] /\ UNCHANGED <<past, sale, inbox>>
  BY DEF TakeJob, remote, events, sales
<1> QED
  BY <1>1, <1>2, MatchRun

(* A run that ends without stamping.                                        *)
LEMMA MatchRunEnds ==
  ASSUME RunInv, MatchInv, NEW w \in Workers, \A v \in Workers : v = w,
         run' = [run EXCEPT ![w] = NoRun], UNCHANGED <<past, sale, inbox>>
  PROVE  MatchInv'
<1>1. RunMatches(NoRun)
  <2>1. NoRun.step \in {"idle", "find", "fetch"}
    BY Constants
  <2> QED
    BY <2>1, RunRests
<1> QED
  BY <1>1, MatchRun

LEMMA MatchFindEvent ==
  ASSUME RunInv, MatchInv, NEW w \in Workers, \A v \in Workers : v = w, ~FromPayload,
         FindEvent(w)
  PROVE  MatchInv'
<1>1. UNCHANGED <<past, sale, inbox>> /\ run[w] \in Runs
  BY DEF FindEvent, remote, events, sales, RunInv, TypeOK
<1>2. CASE Complete(w)
  BY <1>1, <1>2, MatchRunEnds DEF Complete
<1>3. CASE Goto(w, "fetch")
  <2>1. PICK r : r = [run[w] EXCEPT !.step = "fetch"]
    OBVIOUS
  <2>2. r.step = "fetch" /\ run' = [run EXCEPT ![w] = r]
    BY <1>1, <1>3, <2>1 DEF Goto, RunInv, TypeOK, Runs
  <2>3. RunMatches(r)
    <3>1. r.step \in {"idle", "find", "fetch"}
      BY <2>2
    <3> QED
      BY <3>1, RunRests
  <2> QED
    BY <1>1, <2>2, <2>3, MatchRun
<1> QED
  BY <1>2, <1>3 DEF FindEvent

LEMMA MatchFetchOrder ==
  ASSUME RunInv, MatchInv, NEW w \in Workers, \A v \in Workers : v = w, FetchOrder(w)
  PROVE  MatchInv'
<1> DEFINE o == run[w].order
<1>1. /\ run[w].step = "fetch" /\ run[w] \in Runs /\ o \in Orders
      /\ UNCHANGED <<past, sale, inbox>>
  <2>1. UNCHANGED inbox
    BY DEF FetchOrder, Defer, events
  <2> QED
    BY <2>1, Running DEF FetchOrder, remote, sales
<1>2. CASE Defer(w)
  BY <1>1, <1>2, MatchRunEnds DEF Defer, Complete
<1>3. CASE o \in Orderless /\ Goto(w, "mark")
  <2>1. PICK r : r = [run[w] EXCEPT !.step = "mark"]
    OBVIOUS
  <2>2. r.step = "mark" /\ r.order = o /\ run' = [run EXCEPT ![w] = r]
    BY <1>1, <1>3, <2>1 DEF Goto, Runs
  <2>3. RunMatches(r)
    BY <1>3, <2>2 DEF RunMatches
  <2> QED
    BY <1>1, <2>2, <2>3, MatchRun
<1>4. CASE run' = [run EXCEPT ![w] = Resolved(run[w], Len(past[o]))]
  <2>1. PICK r : r = Resolved(run[w], Len(past[o]))
    OBVIOUS
  <2>2. r.step = "read" /\ r.order = o /\ r.draft = Len(past[o])
    BY <1>1, <2>1 DEF Resolved, Runs
  <2>3. RunMatches(r)
    BY <2>2 DEF RunMatches
  <2> QED
    BY <1>1, <1>4, <2>1, <2>3, MatchRun
<1> QED
  BY <1>2, <1>3, <1>4 DEF FetchOrder

LEMMA MatchReadSale ==
  ASSUME RunInv, MatchInv, NEW w \in Workers, \A v \in Workers : v = w, ReadSale(w)
  PROVE  MatchInv'
<1> DEFINE o == run[w].order
           outcome == Outcome(sale[o], Draft(run[w]))
<1>1. /\ run[w].step = "read" /\ run[w] \in Runs /\ o \in Orders
      /\ Draft(run[w]) \in Values /\ UNCHANGED <<past, sale, inbox>>
  BY Upserting DEF ReadSale, remote, events
<1>2. RunMatches(run[w]) /\ SaleFollowsProvider /\ SalesStand /\ FinalIsLast
  BY DEF MatchInv
<1>3. outcome \in Outcomes
  BY OutcomeType
<1>4. CASE outcome \in {"created", "updated"}
  <2>1. PICK r : r = [run[w] EXCEPT !.step = "write", !.outcome = outcome]
    OBVIOUS
  <2>2. run' = [run EXCEPT ![w] = r]
    BY <1>4, <2>1 DEF ReadSale, RunInv, TypeOK
  <2>3. /\ r.step = "write" /\ r.outcome = outcome /\ r.order = o /\ r.draft = run[w].draft
    <3> HIDE DEF outcome
    <3> QED
      BY <1>1, <2>1 DEF Runs
  <2>4. Draft(r) = Draft(run[w])
    BY <2>3 DEF Draft
  <2>5. RunMatches(r)
    BY <1>1, <1>2, <1>4, <2>3, <2>4 DEF RunMatches
  <2> QED
    BY <1>1, <2>2, <2>5, MatchRun
<1>5. CASE outcome \notin {"created", "updated"}
  <2>1. PICK r : r = Upserted(run[w], outcome)
    OBVIOUS
  <2>2. run' = [run EXCEPT ![w] = r]
    BY <1>5, <2>1 DEF ReadSale, UpsertReturns
  <2>3. /\ r.step \in {"count", "mark"} /\ r.order = o
        /\ r.version = Len(past[o]) => run[w].draft = Len(past[o])
    <3> HIDE DEF outcome
    <3> QED
      BY <1>1, <1>3, <2>1, UpsertedMatches
  <2>4. run[w].draft = Len(past[o]) => InSync(o)
    <3>1. run[w].draft = Len(past[o]) => Draft(run[w]) = past[o][Len(past[o])]
      BY DEF Draft
    <3> QED
      BY <1>1, <1>2, <1>5, <3>1, OutcomeSays
  <2>5. RunMatches(r)
    BY <2>3, <2>4 DEF RunMatches
  <2> QED
    BY <1>1, <2>2, <2>5, MatchRun
<1> QED
  BY <1>4, <1>5

LEMMA MatchWriteSale ==
  ASSUME RunInv, MatchInv, NEW w \in Workers, \A v \in Workers : v = w, WriteSale(w)
  PROVE  MatchInv'
<1>0. PICK o, n, d : o = run[w].order /\ n = run[w].draft /\ d = Draft(run[w])
  OBVIOUS
<1>1. /\ run[w].step = "write" /\ run[w] \in Runs /\ o \in Orders /\ d \in Values
      /\ n \in 1 .. Len(past[o]) /\ d = past[o][n] /\ UNCHANGED <<past, inbox>>
  BY <1>0, Upserting DEF WriteSale, remote, events, Draft
<1>2. /\ run[w].outcome \in {"created", "updated"} /\ run[w].outcome = Outcome(sale[o], d)
      /\ Stamped(o) => n = Len(past[o])
  BY <1>0, <1>1 DEF MatchInv, RunMatches
<1>3. CASE Fail(w) /\ UNCHANGED sales
  BY <1>1, <1>3, MatchRunEnds DEF Fail, sales
<1>4. CASE sale' = [sale EXCEPT ![o] = d] /\ UpsertReturns(w, run[w].outcome)
  <2>1. /\ sale'[o] = d
        /\ \A p \in Orders \ {o} : sale'[p] = sale[p]
    BY <1>1, <1>4 DEF RunInv, TypeOK
  <2>2. d.status \in {"PAID"} \cup Final
    BY <1>1, <1>2, OutcomeSays DEF MatchInv
  <2>3. n = Len(past[o]) => InSync(o)'
    BY <1>1, <2>1 DEF InSync
  <2>4. \A p : Stamped(p)' <=> Stamped(p)
    BY <1>1 DEF Stamped
  <2>5. \A p \in Orders \ {o} : InSync(p)' <=> InSync(p)
    BY <1>1, <2>1 DEF InSync
  <2>6. StampedMatch'
    BY <1>2, <2>3, <2>4, <2>5 DEF MatchInv, StampedMatch
  <2>7. SalesStand'
    BY <2>1, <2>2 DEF MatchInv, SalesStand
  <2>8. SaleFollowsProvider'
    BY <1>1, <2>1 DEF MatchInv, SaleFollowsProvider
  <2>9. FinalIsLast'
    BY <1>1 DEF MatchInv, FinalIsLast
  <2>10. PICK r : r = Upserted(run[w], run[w].outcome)
    OBVIOUS
  <2>11. /\ r.step \in {"count", "mark"} /\ r.order = o
         /\ r.version = Len(past[o]) => n = Len(past[o])
    BY <1>0, <1>1, <2>10, UpsertedMatches DEF Runs
  <2>12. ASSUME NEW v \in Workers PROVE RunMatches(run[v])'
    <3>1. run'[v] = r
      BY <1>4, <2>10 DEF UpsertReturns, RunInv, TypeOK
    <3> QED
      BY <1>1, <2>3, <2>11, <3>1 DEF RunMatches
  <2> QED
    BY <2>6, <2>7, <2>8, <2>9, <2>12 DEF MatchInv
<1> QED
  BY <1>0, <1>3, <1>4 DEF WriteSale, Stored

LEMMA MatchCount ==
  ASSUME RunInv, MatchInv, NEW w \in Workers, \A v \in Workers : v = w, Count(w)
  PROVE  MatchInv'
<1>1. /\ run[w].step = "count" /\ run[w] \in Runs /\ RunMatches(run[w])
      /\ UNCHANGED <<past, sale, inbox>>
  BY DEF Count, remote, events, sales, RunInv, TypeOK, MatchInv
<1>2. PICK r : r = [run[w] EXCEPT !.step = "mark", !.outcome = "none"]
  OBVIOUS
<1>3. r.step = "mark" /\ r.order = run[w].order /\ r.version = run[w].version
  BY <1>1, <1>2 DEF Runs
<1>4. run' = [run EXCEPT ![w] = r]
  BY <1>2 DEF Count, RunInv, TypeOK
<1>5. RunMatches(r)
  BY <1>1, <1>3 DEF RunMatches
<1> QED
  BY <1>1, <1>4, <1>5, MatchRun

LEMMA MatchMark ==
  ASSUME RunInv, MatchInv, NEW w \in Workers, \A v \in Workers : v = w,
         MarkEventProcessed(w)
  PROVE  MatchInv'
<1> DEFINE e == Event(run[w])
           o == run[w].order
<1>1. /\ run[w].step = "mark" /\ RunMatches(run[w]) /\ e \in Events
      /\ e[1] = o /\ e[2] = run[w].version
      /\ UNCHANGED <<past, sale>> /\ run' = [run EXCEPT ![w] = NoRun]
  BY Running DEF MarkEventProcessed, Complete, remote, sales, MatchInv
<1>2. \A x \in Events : x # e => inbox'[x] = inbox[x]
  <2>1. inbox' = [inbox EXCEPT ![e].state = "processed"] /\ inbox \in [Events -> Rows]
    BY DEF MarkEventProcessed, Acknowledge, RunInv, TypeOK
  <2> HIDE DEF e
  <2> QED
    BY <2>1
<1>3. SaleFollowsProvider' /\ SalesStand' /\ FinalIsLast'
  BY <1>1 DEF MatchInv, SaleFollowsProvider, SalesStand, FinalIsLast
<1>4. \A p : InSync(p)' <=> InSync(p)
  BY <1>1 DEF InSync
<1>5. StampedMatch'
  <2>1. ASSUME NEW p \in Orders \ Orderless, Stamped(p)'
        PROVE  InSync(p)
    <3>1. PICK x \in Events : /\ x[1] = p /\ x[2] = Len(past[p])
                              /\ inbox'[x].state = "processed"
      BY <1>1, <2>1 DEF Stamped
    <3>2. CASE x = e
      BY <1>1, <3>1, <3>2 DEF RunMatches
    <3>3. CASE x # e
      <4>1. Stamped(p)
        BY <1>2, <3>1, <3>3 DEF Stamped
      <4> QED
        BY <4>1 DEF MatchInv, StampedMatch
    <3> QED
      BY <3>2, <3>3
  <2> QED
    BY <1>4, <2>1 DEF StampedMatch
<1>6. ASSUME NEW v \in Workers PROVE RunMatches(run[v])'
  <2>1. run'[v] = NoRun
    BY <1>1 DEF RunInv, TypeOK
  <2> QED
    BY <2>1, Constants DEF RunMatches
<1> QED
  BY <1>3, <1>5, <1>6 DEF MatchInv

LEMMA MatchWorker ==
  ASSUME RunInv, MatchInv, NEW w \in Workers, \A v \in Workers : v = w, ~FromPayload,
         Worker(w)
  PROVE  MatchInv'
<1>1. CASE StepThrows(w) \/ WorkerCrash(w) \/ CountPartly(w)
  <2>1. run' = [run EXCEPT ![w] = NoRun] /\ UNCHANGED <<past, sale, inbox>>
    BY <1>1 DEF StepThrows, WorkerCrash, CountPartly, Fail, remote, events, sales
  <2> QED
    BY <2>1, MatchRunEnds
<1> QED
  BY <1>1, MatchTakeJob, MatchFindEvent, MatchFetchOrder, MatchReadSale, MatchWriteSale,
     MatchCount, MatchMark DEF Worker, Proceed

(* No request and no sweep stamps a row or touches an order, a sale or a    *)
(* run.                                                                     *)
LEMMA OthersStampNothing ==
  ASSUME RunInv,
         \/ \E o \in Orders : Disconnect(o) \/ Reconnect(o)
         \/ \E h \in Handlers : Handler(h)
         \/ Scanner
         \/ UNCHANGED vars
  PROVE  /\ UNCHANGED <<past, sale, run>>
         /\ \A e \in Events : inbox'[e].state = "processed" => inbox[e].state = "processed"
<1>1. CASE \E o \in Orders : Disconnect(o) \/ Reconnect(o)
  BY <1>1 DEF Disconnect, Reconnect, events, sales
<1>2. ASSUME NEW h \in Handlers, RecordEvent(h)
      PROVE  /\ UNCHANGED <<past, sale, run>>
             /\ \A e \in Events :
                  inbox'[e].state = "processed" => inbox[e].state = "processed"
  <2> DEFINE k == Key(hook[h].order, hook[h].version)
  <2>1. inbox \in [Events -> Rows] /\ UNCHANGED <<past, sale, run>>
    BY <1>2 DEF RecordEvent, RunInv, TypeOK, remote, sales
  <2>2. \/ inbox' = [inbox EXCEPT ![k] = [state |-> "pending",
                                          payload |-> hook[h].version]]
        \/ inbox' = [inbox EXCEPT ![k].payload = hook[h].version]
    BY <1>2 DEF RecordEvent
  <2> HIDE DEF k
  <2> QED
    BY <2>1, <2>2 DEF Rows
<1>3. ASSUME NEW h \in Handlers, Handler(h), ~RecordEvent(h)
      PROVE  UNCHANGED <<past, sale, run, inbox>>
  BY <1>3 DEF Handler, Receive, Enqueue, EnqueueFails, HandlerCrash, Answer, remote,
              events, sales
<1>4. CASE Scanner
  BY <1>4 DEF Scanner, WindowElapses, Sweep, SweepPrefix, remote, events, sales
<1>5. CASE UNCHANGED vars
  BY <1>5 DEF vars, remote, events, sales
<1> QED
  BY <1>1, <1>2, <1>3, <1>4, <1>5

(* "Amounts, currency and status always come from the provider's official   *)
(* API response" (sale-ingestion.service.ts), for any number of orders,     *)
(* changes, retries, faults and crashes, while one job runs at a time, no   *)
(* manager edits and the draft is fetched, not taken from the stored        *)
(* payload: once the last change of an order is acknowledged its sale shows *)
(* it.                                                                      *)
THEOREM SerialSalesMatch ==
  ASSUME Serial
  PROVE  Spec => []SettledSalesMatch
<1>1. Init => MatchInv
  <2> SUFFICES ASSUME Init PROVE MatchInv
    OBVIOUS
  <2>1. SaleFollowsProvider /\ SalesStand /\ FinalIsLast
    BY DEF Init, SaleFollowsProvider, SalesStand, FinalIsLast
  <2>2. \A o \in Orders : ~Stamped(o)
    BY DEF Init, Stamped, NoEvent
  <2>3. \A w \in Workers : RunMatches(run[w])
    BY Constants DEF Init, RunMatches
  <2> QED
    BY <2>1, <2>2, <2>3 DEF MatchInv, StampedMatch
<1>2. IInv /\ MatchInv /\ [Next]_vars => MatchInv'
  <2> SUFFICES ASSUME IInv, MatchInv, [Next]_vars PROVE MatchInv'
    OBVIOUS
  <2>1. RunInv
    BY DEF IInv
  <2>2. ASSUME NEW w \in Workers, Worker(w) PROVE MatchInv'
    BY <2>1, <2>2, MatchWorker DEF Serial
  <2>3. ASSUME NEW o \in Orders, RemoteChange(o) PROVE MatchInv'
    BY <2>1, <2>3, MatchRemoteChange
  <2>4. CASE \/ \E o \in Orders : Disconnect(o) \/ Reconnect(o)
             \/ \E h \in Handlers : Handler(h)
             \/ Scanner
             \/ UNCHANGED vars
    BY <2>1, <2>4, OthersStampNothing, MatchFrame
  <2> QED
    BY <2>2, <2>3, <2>4 DEF Next, External, Serial
<1>3. IInv /\ MatchInv => SettledSalesMatch
  <2> SUFFICES ASSUME IInv, MatchInv, NEW o \in Orders, Settled(o)
               PROVE  /\ Latest(o).status = "PAID" => sale[o] = Latest(o)
                      /\ Latest(o).status \in {"REFUNDED", "CANCELLED"} =>
                           sale[o] \in {Latest(o), NoSale}
    BY DEF SettledSalesMatch
  <2>1. /\ past[o] \in Seq(Values) /\ past[o] # <<>> /\ Len(past[o]) \in Nat
        /\ Len(past[o]) <= MaxVersions /\ o \notin Orderless
    BY PastTyped DEF IInv, RunInv, TypeOK, Settled
  <2>2. Latest(o) = past[o][Len(past[o])]
    BY DEF Latest, Last
  <2>3. <<o, Len(past[o])>> \in Events
    BY <2>1, ConstantsAssumption DEF Events, Versions, ConstantsAssumption
  <2>4. Stamped(o)
    BY <2>3 DEF Settled, Key, Serial, Stamped
  <2> QED
    BY <2>1, <2>2, <2>4 DEF MatchInv, StampedMatch, InSync, Final
<1> QED
  BY <1>1, <1>2, <1>3, Inductive, PTL DEF Spec
=============================================================================
