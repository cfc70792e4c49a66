------------------------ MODULE DeliveryQueue_proofs ------------------------
(***************************************************************************)
(* TLAPS proofs about DeliveryQueue, for every set of messages, workers,   *)
(* handlers and every bound.                                               *)
(***************************************************************************)
EXTENDS DeliveryQueue, FiniteSetTheorems, TLAPS

-----------------------------------------------------------------------------
(* What the record updates of the specification write. *)

LEMMA NewRow ==
  /\ NoRow \in Rows /\ NoRow.status = "NONE" /\ NoRow.pid = NoId
  /\ Created \in Rows /\ Created.status = "QUEUED" /\ Created.pid = NoId
BY DEF NoRow, Created, Rows, Statuses

LEMMA RowUpdates ==
  ASSUME NEW r \in Rows
  PROVE  /\ Claimed(r) \in Rows /\ Claimed(r).status = "SENDING" /\ Claimed(r).pid = r.pid
         /\ Rescheduled(r) \in Rows /\ Rescheduled(r).status = "QUEUED"
         /\ Rescheduled(r).pid = r.pid
         /\ Failed(r) \in Rows /\ Failed(r).status = "FAILED" /\ Failed(r).pid = r.pid
         /\ Requeued(r) \in Rows /\ Requeued(r).status = "QUEUED" /\ Requeued(r).pid = r.pid
         /\ Cancelled(r) \in Rows /\ Cancelled(r).status = "CANCELLED"
         /\ Cancelled(r).pid = r.pid
         /\ [r EXCEPT !.due = TRUE] \in Rows
         /\ [r EXCEPT !.due = TRUE].status = r.status
         /\ [r EXCEPT !.due = TRUE].pid = r.pid
<1>1. r.attempts + 1 \in Nat
  BY DEF Rows
<1> QED
  BY <1>1 DEF Claimed, Rescheduled, Failed, Requeued, Cancelled, Rows, Statuses

LEMMA RowSent ==
  ASSUME NEW r \in Rows, NEW i \in Ids
  PROVE  Sent(r, i) \in Rows /\ Sent(r, i).status = "SENT" /\ Sent(r, i).pid = i
BY DEF Sent, Rows, Statuses

LEMMA RowReceived ==
  ASSUME NEW r \in Rows, NEW s \in Statuses
  PROVE  Received(r, s) \in Rows /\ Received(r, s).status = s /\ Received(r, s).pid = r.pid
BY DEF Received, Rows

LEMMA JobNone == NoJob \in Jobs /\ NoJob.msg = NoMessage
BY DEF NoJob, Jobs

LEMMA JobTaken ==
  ASSUME NEW c \in Snapshots
  PROVE  Taken(c) \in Jobs /\ Taken(c).msg = c.msg /\ c.msg \in Messages
<1>1. c.attempts + 1 \in Nat /\ c.msg \in Messages
  BY DEF Snapshots
<1> QED
  BY <1>1 DEF Taken, NoJob, Jobs

LEMMA JobUpdates ==
  ASSUME NEW j \in Jobs
  PROVE  /\ \A b \in BOOLEAN : /\ [j EXCEPT !.retryable = b] \in Jobs
                               /\ [j EXCEPT !.retryable = b].msg = j.msg
                               /\ [j EXCEPT !.retryable = b].id = j.id
         /\ Reposted(j) \in Jobs
         /\ Reposted(j).msg = j.msg
         /\ \A i \in Ids : /\ [j EXCEPT !.id = i] \in Jobs
                           /\ [j EXCEPT !.id = i].msg = j.msg
                           /\ [j EXCEPT !.id = i].id = i
<1>1. j.posts + 1 \in Nat
  BY DEF Jobs
<1> QED
  BY <1>1 DEF Jobs, Reposted

LEMMA HookNone == NoHook \in Hooks /\ NoHook.step = "idle"
BY DEF NoHook, Hooks, AllKinds

LEMMA HookRecorded ==
  ASSUME NEW i \in Ids, NEW k \in AllKinds
  PROVE  /\ Recorded(i, k) \in Hooks /\ Recorded(i, k).step = "find"
         /\ Recorded(i, k).id = i /\ Recorded(i, k).kind = k
BY DEF Recorded, NoHook, Hooks

LEMMA HookChecked ==
  ASSUME NEW g \in Hooks, NEW s \in Statuses \cup {"NONE"}
  PROVE  /\ Checked(g, s) \in Hooks /\ Checked(g, s).step = "apply"
         /\ Checked(g, s).id = g.id /\ Checked(g, s).kind = g.kind
         /\ Checked(g, s).seen = s
BY DEF Checked, Hooks

-----------------------------------------------------------------------------
(* Type correctness. *)

LEMMA IdOfMessage ==
  ASSUME NEW i \in Ids
  PROVE  i[1] \in Messages
BY DEF Ids

LEMMA NextIdIsId ==
  ASSUME TypeOK, NEW m \in Messages, accepted[m] < MaxAccepts
  PROVE  NextId(m) \in Ids /\ NextId(m)[1] = m
<1>1. accepted[m] + 1 \in 1 .. MaxAccepts
  BY ConstantsAssumption DEF TypeOK
<1> QED
  BY <1>1 DEF NextId, Ids

LEMMA TypeInit == Init => TypeOK
<1> SUFFICES ASSUME Init PROVE TypeOK
  OBVIOUS
<1>1. /\ row \in [Messages -> Rows]
      /\ job \in [Workers -> Jobs]
      /\ hook \in [Handlers -> Hooks]
      /\ batch \in [Workers -> SUBSET Snapshots]
  BY NewRow, JobNone, HookNone DEF Init
<1>2. \A w \in Workers : job[w].msg \in Messages <=> pc[w] \notin {"idle", "claim"}
  BY JobNone, ConstantsAssumption DEF Init
<1>3. \A h \in Handlers : hook[h].step # "idle" => hook[h].id \in Ids
  BY HookNone DEF Init
<1> QED
  BY <1>1, <1>2, <1>3, ConstantsAssumption DEF Init, TypeOK

(* The action leaves the worker's message in hand, and its pc says so. *)
LEMMA RaiseType ==
  ASSUME TypeOK, NEW w \in Workers, pc[w] \notin {"idle", "claim"},
         NEW b \in BOOLEAN, Raise(w, b)
  PROVE  /\ pc' \in [Workers -> {"idle", "claim", "resolve", "post", "save", "settle"}]
         /\ job' \in [Workers -> Jobs]
         /\ \A v \in Workers : job'[v].msg = job[v].msg
         /\ \A v \in Workers : job'[v].msg \in Messages <=> pc'[v] \notin {"idle", "claim"}
<1>1. job[w] \in Jobs
  BY DEF TypeOK
<1>2. /\ [job[w] EXCEPT !.retryable = b] \in Jobs
      /\ [job[w] EXCEPT !.retryable = b].msg = job[w].msg
  BY <1>1, JobUpdates
<1> QED
  BY <1>2 DEF Raise, TypeOK

LEMMA RepostType ==
  ASSUME TypeOK, NEW w \in Workers, pc[w] = "post", RepostOrRaise(w)
  PROVE  /\ pc' \in [Workers -> {"idle", "claim", "resolve", "post", "save", "settle"}]
         /\ job' \in [Workers -> Jobs]
         /\ \A v \in Workers : job'[v].msg = job[v].msg
         /\ \A v \in Workers : job'[v].msg \in Messages <=> pc'[v] \notin {"idle", "claim"}
<1>1. job[w] \in Jobs
  BY DEF TypeOK
<1>2. CASE Raise(w, TRUE)
  BY <1>2, RaiseType
<1>3. CASE job' = [job EXCEPT ![w] = Reposted(@)] /\ UNCHANGED pc
  <2>1. /\ Reposted(job[w]) \in Jobs
        /\ Reposted(job[w]).msg = job[w].msg
    BY <1>1, JobUpdates
  <2> QED
    BY <1>3, <2>1 DEF TypeOK
<1> QED
  BY <1>2, <1>3 DEF RepostOrRaise

LEMMA AdvanceType ==
  ASSUME TypeOK, NEW w \in Workers, NEW rest, Advance(w, rest)
  PROVE  /\ pc' \in [Workers -> {"idle", "claim", "resolve", "post", "save", "settle"}]
         /\ job' \in [Workers -> Jobs]
         /\ \A v \in Workers : job'[v].msg \in Messages <=> pc'[v] \notin {"idle", "claim"}
BY JobNone, ConstantsAssumption DEF Advance, TypeOK

LEMMA AcceptType ==
  ASSUME TypeOK, NEW m \in Messages, Accept(m)
  PROVE  /\ accepted' \in [Messages -> 0 .. MaxAccepts]
         /\ fate' \in [Ids -> {"none", "accepted", "delivered", "read", "failed"}]
BY ConstantsAssumption, NextIdIsId DEF Accept, TypeOK

LEMMA LoseIdType ==
  ASSUME TypeOK, NEW m \in Messages, LoseId(m)
  PROVE  faults' \in [Messages -> 0 .. MaxFaults]
BY ConstantsAssumption DEF LoseId, TypeOK

LEMMA TypeNext == TypeOK /\ [Next]_vars => TypeOK'
<1> SUFFICES ASSUME TypeOK, [Next]_vars PROVE TypeOK'
  OBVIOUS
<1>1. ASSUME NEW m \in Messages, DispatchExecution(m) PROVE TypeOK'
  BY <1>1, NewRow DEF DispatchExecution, TypeOK, worker, provider, webhook, history
<1>2. ASSUME NEW m \in Messages, RequeueMessage(m) PROVE TypeOK'
  <2>1. row' \in [Messages -> Rows]
    BY <1>2, RowUpdates DEF RequeueMessage, TypeOK
  <2>2. requeues' \in [Messages -> 0 .. MaxRequeues]
    BY <1>2, ConstantsAssumption DEF RequeueMessage, TypeOK
  <2> QED
    BY <1>2, <2>1, <2>2 DEF RequeueMessage, TypeOK, worker, provider, webhook
<1>3. ASSUME NEW m \in Messages, CancelMessage(m) PROVE TypeOK'
  <2>1. row' \in [Messages -> Rows]
    BY <1>3, RowUpdates DEF CancelMessage, TypeOK
  <2> QED
    BY <1>3, <2>1 DEF CancelMessage, TypeOK, worker, provider, webhook, history
<1>4. ASSUME NEW m \in Messages, BackoffElapses(m) PROVE TypeOK'
  <2>1. row' \in [Messages -> Rows]
    BY <1>4, RowUpdates DEF BackoffElapses, TypeOK
  <2> QED
    BY <1>4, <2>1 DEF BackoffElapses, TypeOK, worker, provider, webhook, history
<1>5. CASE ConnectAccount \/ DisconnectAccount
  BY <1>5 DEF ConnectAccount, DisconnectAccount, TypeOK, worker, provider, webhook, history
<1>6. ASSUME NEW w \in Workers, StartDrain(w) PROVE TypeOK'
  <2>1. PICK S \in SUBSET Candidates :
          batch' = [batch EXCEPT ![w] = {Snapshot(m) : m \in S}]
    BY <1>6 DEF StartDrain
  <2>2. \A m \in S : m \in Messages /\ row[m].attempts \in Nat
    BY <2>1 DEF Candidates, TypeOK, Rows
  <2>3. \A m \in S : Snapshot(m) \in Snapshots
    BY <2>2 DEF Snapshot, Snapshots
  <2>4. batch' \in [Workers -> SUBSET Snapshots]
    BY <2>1, <2>3 DEF TypeOK
  <2>5. /\ pc' \in [Workers -> {"idle", "claim", "resolve", "post", "save", "settle"}]
        /\ \A v \in Workers : job'[v].msg \in Messages <=> pc'[v] \notin {"idle", "claim"}
    BY <1>6 DEF StartDrain, TypeOK
  <2> QED
    BY <1>6, <2>4, <2>5 DEF StartDrain, TypeOK, provider, webhook, history
<1>7. ASSUME NEW w \in Workers, ClaimMessage(w) PROVE TypeOK'
  <2>1. PICK c \in batch[w] :
          /\ batch' = [batch EXCEPT ![w] = @ \ {c}]
          /\ \/ /\ row' = [row EXCEPT ![c.msg] = Claimed(@)]
                /\ job' = [job EXCEPT ![w] = Taken(c)]
                /\ pc' = [pc EXCEPT ![w] = "resolve"]
             \/ Advance(w, batch[w] \ {c}) /\ UNCHANGED row
    BY <1>7 DEF ClaimMessage
  <2>2. c \in Snapshots /\ batch' \in [Workers -> SUBSET Snapshots]
    BY <2>1 DEF TypeOK
  <2>3. CASE /\ row' = [row EXCEPT ![c.msg] = Claimed(@)]
             /\ job' = [job EXCEPT ![w] = Taken(c)]
             /\ pc' = [pc EXCEPT ![w] = "resolve"]
    <3>1. row' \in [Messages -> Rows]
      BY <2>2, <2>3, JobTaken, RowUpdates DEF TypeOK
    <3>2. job' \in [Workers -> Jobs]
      BY <2>2, <2>3, JobTaken DEF TypeOK
    <3>3. /\ pc' \in [Workers -> {"idle", "claim", "resolve", "post", "save", "settle"}]
          /\ \A v \in Workers : job'[v].msg \in Messages <=> pc'[v] \notin {"idle", "claim"}
      BY <2>2, <2>3, JobTaken DEF TypeOK
    <3> QED
      BY <1>7, <2>2, <3>1, <3>2, <3>3 DEF ClaimMessage, TypeOK, provider, webhook, history
  <2>4. CASE Advance(w, batch[w] \ {c}) /\ UNCHANGED row
    BY <1>7, <2>2, <2>4, AdvanceType DEF ClaimMessage, TypeOK, provider, webhook, history
  <2> QED
    BY <2>1, <2>3, <2>4
<1>8. ASSUME NEW w \in Workers, ResolveAccount(w) PROVE TypeOK'
  <2>1. CASE Raise(w, FALSE) \/ Raise(w, TRUE)
    BY <1>8, <2>1, RaiseType DEF ResolveAccount, TypeOK, provider, webhook, history
  <2>2. CASE pc' = [pc EXCEPT ![w] = "post"] /\ UNCHANGED job
    BY <1>8, <2>2 DEF ResolveAccount, TypeOK, provider, webhook, history
  <2> QED
    BY <1>8, <2>1, <2>2 DEF ResolveAccount
<1>9. ASSUME NEW w \in Workers, PostAccepted(w) PROVE TypeOK'
  <2>1. job[w].msg \in Messages /\ job[w] \in Jobs
    BY <1>9 DEF PostAccepted, TypeOK
  <2>2. NextId(job[w].msg) \in Ids
    BY <1>9, <2>1, NextIdIsId DEF PostAccepted, Accept
  <2>3. /\ job' \in [Workers -> Jobs]
        /\ \A v \in Workers : job'[v].msg = job[v].msg
    <3>1. /\ [job[w] EXCEPT !.id = NextId(job[w].msg)] \in Jobs
          /\ [job[w] EXCEPT !.id = NextId(job[w].msg)].msg = job[w].msg
      BY <2>1, <2>2, JobUpdates
    <3> QED
      BY <1>9, <3>1 DEF PostAccepted, TypeOK
  <2>4. /\ pc' \in [Workers -> {"idle", "claim", "resolve", "post", "save", "settle"}]
        /\ \A v \in Workers : job'[v].msg \in Messages <=> pc'[v] \notin {"idle", "claim"}
    BY <1>9, <2>3 DEF PostAccepted, TypeOK
  <2> QED
    BY <1>9, <2>1, <2>3, <2>4, AcceptType DEF PostAccepted, TypeOK, webhook, history
<1>10. ASSUME NEW w \in Workers, PostUnanswered(w) PROVE TypeOK'
  <2>1. job[w].msg \in Messages
    BY <1>10 DEF PostUnanswered, TypeOK
  <2> QED
    BY <1>10, <2>1, AcceptType, LoseIdType, RepostType
       DEF PostUnanswered, LoseId, TypeOK, webhook
<1>11. ASSUME NEW w \in Workers, PostUnusable(w) PROVE TypeOK'
  <2>1. job[w].msg \in Messages
    BY <1>11 DEF PostUnusable, TypeOK
  <2> QED
    BY <1>11, <2>1, AcceptType, LoseIdType, RaiseType
       DEF PostUnusable, LoseId, TypeOK, webhook
<1>12. ASSUME NEW w \in Workers, PostRefused(w) PROVE TypeOK'
  BY <1>12, RepostType, RaiseType DEF PostRefused, TypeOK, provider, webhook, history
<1>13. ASSUME NEW w \in Workers, MarkSent(w) PROVE TypeOK'
  <2>1. job[w].msg \in Messages /\ job[w] \in Jobs /\ row[job[w].msg] \in Rows
    BY <1>13 DEF MarkSent, TypeOK
  <2>2. \A i \in Ids : Sent(row[job[w].msg], i) \in Rows
    BY <2>1, RowSent
  <2>3. Sent(row[job[w].msg], job[w].id) \in Rows
    BY <2>1 DEF Sent, Rows, Jobs, Statuses
  <2>4. row' \in [Messages -> Rows]
    BY <1>13, <2>3 DEF MarkSent, TypeOK
  <2> QED
    BY <1>13, <2>4, AdvanceType DEF MarkSent, TypeOK, provider, webhook, history
<1>14. ASSUME NEW w \in Workers, MarkSentThrows(w) PROVE TypeOK'
  <2>1. job[w].msg \in Messages
    BY <1>14 DEF MarkSentThrows, TypeOK
  <2> QED
    BY <1>14, <2>1, LoseIdType, RaiseType DEF MarkSentThrows, LoseId, TypeOK, provider, webhook
<1>15. ASSUME NEW w \in Workers, SettleFailure(w) PROVE TypeOK'
  <2>1. job[w].msg \in Messages /\ row[job[w].msg] \in Rows
    BY <1>15 DEF SettleFailure, TypeOK
  <2>2. row' \in [Messages -> Rows]
    BY <1>15, <2>1, RowUpdates DEF SettleFailure, TypeOK
  <2> QED
    BY <1>15, <2>2, AdvanceType DEF SettleFailure, TypeOK, provider, webhook, history
<1>16. ASSUME NEW w \in Workers, WorkerCrash(w) PROVE TypeOK'
  BY <1>16, JobNone, ConstantsAssumption DEF WorkerCrash, TypeOK, provider, webhook
<1>17. ASSUME NEW i \in Ids, ProviderProgress(i) PROVE TypeOK'
  BY <1>17 DEF ProviderProgress, TypeOK, worker, webhook, history
<1>18. ASSUME NEW h \in Handlers, RecordReceipt(h) PROVE TypeOK'
  <2>1. PICK i \in Ids, k \in AllKinds :
          /\ k \in Kinds
          /\ audit' = audit \cup {<<i, k>>}
          /\ hook' = [hook EXCEPT ![h] = Recorded(i, k)]
    BY <1>18, ConstantsAssumption DEF RecordReceipt, Emitted
  <2>3. /\ hook' \in [Handlers -> Hooks]
        /\ \A g \in Handlers : hook'[g].step # "idle" => hook'[g].id \in Ids
        /\ audit' \subseteq Ids \X Kinds
    BY <2>1, HookRecorded DEF TypeOK
  <2> QED
    BY <1>18, <2>3 DEF RecordReceipt, TypeOK, worker, provider, history
<1>19. ASSUME NEW h \in Handlers, FindMessage(h) PROVE TypeOK'
  <2>1. hook[h] \in Hooks /\ hook[h].id \in Ids /\ hook[h].id[1] \in Messages
    BY <1>19, IdOfMessage DEF FindMessage, TypeOK
  <2>2. row[hook[h].id[1]].status \in Statuses \cup {"NONE"}
    BY <2>1 DEF TypeOK, Rows
  <2>3. /\ hook' \in [Handlers -> Hooks]
        /\ \A g \in Handlers : hook'[g].step # "idle" => hook'[g].id \in Ids
    BY <1>19, <2>1, <2>2, HookChecked, HookNone DEF FindMessage, TypeOK
  <2> QED
    BY <1>19, <2>3 DEF FindMessage, TypeOK, worker, provider, history
<1>20. ASSUME NEW h \in Handlers, ApplyReceipt(h) PROVE TypeOK'
  <2>1. /\ hook[h].id[1] \in Messages /\ row[hook[h].id[1]] \in Rows
        /\ Target(hook[h].kind) \in Statuses
    BY <1>20, IdOfMessage DEF ApplyReceipt, TypeOK, Hooks, AllKinds, Target, Statuses
  <2>2. row' \in [Messages -> Rows]
    BY <1>20, <2>1, RowUpdates, RowReceived DEF ApplyReceipt, TypeOK
  <2> QED
    BY <1>20, <2>2, HookNone DEF ApplyReceipt, TypeOK, worker, provider, history
<1>21. ASSUME NEW h \in Handlers, HandlerCrash(h) PROVE TypeOK'
  BY <1>21, HookNone, ConstantsAssumption DEF HandlerCrash, TypeOK, worker, provider
<1>22. CASE UNCHANGED vars
  BY <1>22 DEF TypeOK, vars, worker, provider, webhook, history
<1> QED
  BY <1>1, <1>2, <1>3, <1>4, <1>5, <1>6, <1>7, <1>8, <1>9, <1>10, <1>11, <1>12, <1>13,
     <1>14, <1>15, <1>16, <1>17, <1>18, <1>19, <1>20, <1>21, <1>22
     DEF Next, WorkerStep, HandlerStep

(* Every reachable state is well typed; in particular a worker has a        *)
(* message in hand exactly between its claim and the settlement.            *)
THEOREM TypeCorrect == Spec => []TypeOK
BY TypeInit, TypeNext, PTL DEF Spec

-----------------------------------------------------------------------------
(* What a step does to one row, one worker, one webhook request and the     *)
(* provider's records, when messages are never cancelled.                   *)

Kept(m) == row'[m].status = row[m].status /\ row'[m].pid = row[m].pid

ByAdmin(m) ==
  /\ \/ row[m].status = "NONE"
     \/ row[m].status \in {"FAILED", "CANCELLED"} /\ requeues'[m] = requeues[m] + 1
  /\ row'[m].status = "QUEUED" /\ row'[m].pid = row[m].pid

ByClaim(m) ==
  /\ row[m].status = "QUEUED"
  /\ row'[m].status = "SENDING" /\ row'[m].pid = row[m].pid

Releases(w, m) == Holds(w, m) /\ job'[w].msg = NoMessage

ByMarkSent(m) == \E w \in Workers :
  /\ Releases(w, m) /\ pc[w] = "save"
  /\ row[m].status = "SENDING"
  /\ row'[m].status = "SENT" /\ row'[m].pid = job[w].id

BySettle(m) == \E w \in Workers :
  /\ Releases(w, m) /\ pc[w] = "settle"
  /\ row[m].status = "SENDING"
  /\ row'[m].status \in {"QUEUED", "FAILED"} /\ row'[m].pid = row[m].pid

ByReceipt(m) == \E h \in Handlers :
  /\ hook[h].step = "apply" /\ hook[h].id[1] = m /\ hook'[h].step = "idle"
  /\ row[m].status = hook[h].seen
  /\ row'[m].status = Target(hook[h].kind) /\ row'[m].pid = row[m].pid

RowStep(m) ==
  Kept(m) \/ ByAdmin(m) \/ ByClaim(m) \/ ByMarkSent(m) \/ BySettle(m) \/ ByReceipt(m)

Takes(w) ==
  /\ job[w].msg = NoMessage /\ job'[w].msg \in Messages
  /\ ByClaim(job'[w].msg)
  /\ \A v \in Workers \ {w} : job'[v] = job[v]

JobStep(w) == job'[w].msg = job[w].msg \/ job'[w].msg = NoMessage \/ Takes(w)

Records(h) ==
  /\ hook[h].step = "idle" /\ hook'[h].step = "find" /\ hook'[h].id \in Ids
  /\ hook'[h].kind \in Emitted(hook'[h].id)
  /\ <<hook'[h].id, hook'[h].kind>> \notin audit
  /\ <<hook'[h].id, hook'[h].kind>> \in audit'
  /\ \A g \in Handlers \ {h} : hook'[g] = hook[g]
  /\ UNCHANGED <<row, fate>>

Checks(h) ==
  /\ hook[h].step = "find" /\ hook'[h].step = "apply"
  /\ hook'[h].id = hook[h].id /\ hook'[h].kind = hook[h].kind
  /\ row[hook[h].id[1]].pid = hook[h].id
  /\ hook'[h].seen = row[hook[h].id[1]].status
  /\ Moves(hook'[h].seen, hook[h].kind)
  /\ UNCHANGED <<row, fate>>

HookStep(h) ==
  hook'[h] = hook[h] \/ hook'[h].step = "idle" \/ Records(h) \/ Checks(h)

FateStep(i) ==
  \/ fate'[i] = fate[i]
  \/ fate[i] = "none" /\ fate'[i] = "accepted"
  \/ fate[i] = "accepted" /\ fate'[i] \in {"delivered", "failed"}
  \/ fate[i] = "delivered" /\ fate'[i] = "read"

LEMMA TargetOf ==
  /\ Target("sent") = "SENT" /\ Target("delivered") = "DELIVERED"
  /\ Target("read") = "READ" /\ Target("failed") = "FAILED"
BY DEF Target

LEMMA RowSteps ==
  ASSUME TypeOK, OldIdsAreDead, [Next]_vars, ~CancelExposed, NEW m \in Messages
  PROVE  RowStep(m)
<1>1. ASSUME NEW n \in Messages, DispatchExecution(n) PROVE RowStep(m)
  BY <1>1, NewRow DEF DispatchExecution, RowStep, Kept, ByAdmin, TypeOK, OldIdsAreDead
<1>2. ASSUME NEW n \in Messages, RequeueMessage(n) PROVE RowStep(m)
  <2>1. row[n] \in Rows
    BY DEF TypeOK
  <2>2. Requeued(row[n]).status = "QUEUED" /\ Requeued(row[n]).pid = row[n].pid
    BY <2>1, RowUpdates
  <2> QED
    BY <1>2, <2>2 DEF RequeueMessage, Requeueable, RowStep, Kept, ByAdmin, TypeOK
<1>3. ASSUME NEW n \in Messages, BackoffElapses(n) PROVE RowStep(m)
  <2>1. row[n] \in Rows
    BY DEF TypeOK
  <2>2. /\ [row[n] EXCEPT !.due = TRUE].status = row[n].status
        /\ [row[n] EXCEPT !.due = TRUE].pid = row[n].pid
    BY <2>1, RowUpdates
  <2> QED
    BY <1>3, <2>2 DEF BackoffElapses, RowStep, Kept, TypeOK
<1>4. ASSUME NEW w \in Workers, ClaimMessage(w) PROVE RowStep(m)
  <2>1. CASE UNCHANGED row
    BY <2>1 DEF RowStep, Kept
  <2>2. ASSUME ~UNCHANGED row PROVE RowStep(m)
    <3>1. PICK c \in batch[w] :
            /\ row[c.msg].status = "QUEUED"
            /\ row' = [row EXCEPT ![c.msg] = Claimed(@)]
      BY <1>4, <2>2 DEF ClaimMessage, Claimable
    <3>2. c.msg \in Messages /\ row[c.msg] \in Rows
      BY <3>1, JobTaken DEF TypeOK
    <3>3. Claimed(row[c.msg]).status = "SENDING" /\ Claimed(row[c.msg]).pid = row[c.msg].pid
      BY <3>2, RowUpdates
    <3> QED
      BY <3>1, <3>2, <3>3 DEF RowStep, Kept, ByClaim, TypeOK
  <2> QED
    BY <2>1, <2>2
<1>5. ASSUME NEW w \in Workers, MarkSent(w) PROVE RowStep(m)
  <2>1. job[w].msg \in Messages /\ row[job[w].msg] \in Rows /\ job'[w].msg = NoMessage
    BY <1>5, JobNone DEF MarkSent, Advance, TypeOK
  <2>2. CASE row[job[w].msg].status = "SENDING" /\ m = job[w].msg
    <3>1. row'[m] = Sent(row[m], job[w].id)
      BY <1>5, <2>1, <2>2 DEF MarkSent, TypeOK
    <3>2. row'[m].status = "SENT" /\ row'[m].pid = job[w].id
      BY <2>1, <2>2, <3>1 DEF Sent, Rows
    <3> QED
      BY <1>5, <2>1, <2>2, <3>2 DEF MarkSent, RowStep, ByMarkSent, Releases, Holds
  <2>3. CASE ~(row[job[w].msg].status = "SENDING" /\ m = job[w].msg)
    BY <1>5, <2>1, <2>3 DEF MarkSent, RowStep, Kept, TypeOK
  <2> QED
    BY <2>2, <2>3
<1>6. ASSUME NEW w \in Workers, SettleFailure(w) PROVE RowStep(m)
  <2>1. job[w].msg \in Messages /\ row[job[w].msg] \in Rows /\ job'[w].msg = NoMessage
    BY <1>6, JobNone DEF SettleFailure, Advance, TypeOK
  <2>2. CASE row[job[w].msg].status = "SENDING" /\ m = job[w].msg
    <3>1. row'[m] = Rescheduled(row[m]) \/ row'[m] = Failed(row[m])
      BY <1>6, <2>1, <2>2 DEF SettleFailure, TypeOK
    <3>2. /\ Rescheduled(row[m]).status = "QUEUED" /\ Rescheduled(row[m]).pid = row[m].pid
          /\ Failed(row[m]).status = "FAILED" /\ Failed(row[m]).pid = row[m].pid
      BY <2>1, <2>2, RowUpdates
    <3> QED
      BY <1>6, <2>1, <2>2, <3>1, <3>2 DEF SettleFailure, RowStep, BySettle, Releases, Holds
  <2>3. CASE ~(row[job[w].msg].status = "SENDING" /\ m = job[w].msg)
    BY <1>6, <2>1, <2>3 DEF SettleFailure, RowStep, Kept, TypeOK
  <2> QED
    BY <2>2, <2>3
<1>7. ASSUME NEW h \in Handlers, ApplyReceipt(h) PROVE RowStep(m)
  <2> DEFINE n == hook[h].id[1]
  <2>1. /\ n \in Messages /\ row[n] \in Rows
        /\ Target(hook[h].kind) \in Statuses /\ hook[h].kind \in AllKinds
    BY <1>7, IdOfMessage DEF ApplyReceipt, TypeOK, Hooks, AllKinds, Target, Statuses
  <2>2. CASE row[n].status = hook[h].seen /\ m = n
    <3>1. \/ row'[m] = Failed(row[m]) /\ hook[h].kind = "failed"
          \/ row'[m] = Received(row[m], Target(hook[h].kind))
      BY <1>7, <2>1, <2>2 DEF ApplyReceipt, StillAt, TypeOK
    <3>a. Failed(row[m]).status = "FAILED" /\ Failed(row[m]).pid = row[m].pid
      BY <2>1, <2>2, RowUpdates
    <3>b. \A s \in Statuses : /\ Received(row[m], s).status = s
                             /\ Received(row[m], s).pid = row[m].pid
      BY <2>1, <2>2, RowReceived
    <3>2. row'[m].status = Target(hook[h].kind) /\ row'[m].pid = row[m].pid
      BY <2>1, <3>1, <3>a, <3>b, TargetOf
    <3>3. hook'[h].step = "idle" /\ hook[h].step = "apply"
      BY <1>7, HookNone DEF ApplyReceipt, TypeOK
    <3> QED
      BY <2>2, <3>2, <3>3 DEF RowStep, ByReceipt
  <2>3. CASE ~(row[n].status = hook[h].seen /\ m = n)
    BY <1>7, <2>1, <2>3 DEF ApplyReceipt, StillAt, RowStep, Kept, TypeOK
  <2> QED
    BY <2>2, <2>3
<1>8. CASE UNCHANGED row
  BY <1>8 DEF RowStep, Kept
<1>9. ASSUME NEW n \in Messages, CancelMessage(n) PROVE RowStep(m)
  BY <1>9 DEF CancelMessage
<1> QED
  BY <1>1, <1>2, <1>3, <1>4, <1>5, <1>6, <1>7, <1>8, <1>9
     DEF Next, WorkerStep, HandlerStep, vars, ConnectAccount, DisconnectAccount, StartDrain,
         ResolveAccount, PostAccepted, PostUnanswered, PostUnusable, PostRefused,
         MarkSentThrows, WorkerCrash, ProviderProgress, RecordReceipt, FindMessage,
         HandlerCrash

LEMMA JobSteps ==
  ASSUME TypeOK, [Next]_vars, NEW w \in Workers
  PROVE  JobStep(w)
<1>1. ASSUME NEW v \in Workers, ClaimMessage(v) PROVE JobStep(w)
  <2>1. PICK c \in batch[v] :
          \/ /\ row[c.msg].status = "QUEUED"
             /\ row' = [row EXCEPT ![c.msg] = Claimed(@)]
             /\ job' = [job EXCEPT ![v] = Taken(c)]
          \/ job' = [job EXCEPT ![v] = NoJob]
    BY <1>1 DEF ClaimMessage, Claimable, Advance
  <2>2. c.msg \in Messages /\ row[c.msg] \in Rows /\ Taken(c).msg = c.msg
    BY <2>1, JobTaken DEF TypeOK
  <2>3. Claimed(row[c.msg]).status = "SENDING" /\ Claimed(row[c.msg]).pid = row[c.msg].pid
    BY <2>2, RowUpdates
  <2>4. job[v].msg = NoMessage
    BY <1>1 DEF ClaimMessage, TypeOK, Jobs
  <2>5. CASE job' = [job EXCEPT ![v] = NoJob]
    BY <2>5, JobNone DEF JobStep, TypeOK
  <2>6. CASE /\ row[c.msg].status = "QUEUED"
             /\ row' = [row EXCEPT ![c.msg] = Claimed(@)]
             /\ job' = [job EXCEPT ![v] = Taken(c)]
    <3>1. CASE w = v
      <4>1. job'[w].msg = c.msg
        BY <2>2, <2>6, <3>1 DEF TypeOK
      <4>2. ByClaim(c.msg)
        BY <2>2, <2>3, <2>6 DEF ByClaim, TypeOK
      <4>3. \A u \in Workers \ {w} : job'[u] = job[u]
        BY <2>6, <3>1 DEF TypeOK
      <4> QED
        BY <2>2, <2>4, <3>1, <4>1, <4>2, <4>3 DEF JobStep, Takes
    <3>2. CASE w # v
      BY <2>6, <3>2 DEF JobStep, TypeOK
    <3> QED
      BY <3>1, <3>2
  <2> QED
    BY <2>1, <2>5, <2>6
<1>2. ASSUME NEW v \in Workers, NEW b \in BOOLEAN, Raise(v, b) PROVE JobStep(w)
  <2>1. job[v] \in Jobs
    BY DEF TypeOK
  <2>2. [job[v] EXCEPT !.retryable = b].msg = job[v].msg
    BY <2>1, JobUpdates
  <2> QED
    BY <1>2, <2>2 DEF Raise, JobStep, TypeOK
<1>3. ASSUME NEW v \in Workers, RepostOrRaise(v) PROVE JobStep(w)
  <2>1. job[v] \in Jobs
    BY DEF TypeOK
  <2>2. Reposted(job[v]).msg = job[v].msg
    BY <2>1, JobUpdates
  <2> QED
    BY <1>2, <1>3, <2>2 DEF RepostOrRaise, JobStep, TypeOK
<1>4. ASSUME NEW v \in Workers, NEW rest, Advance(v, rest) PROVE JobStep(w)
  BY <1>4, JobNone DEF Advance, JobStep, TypeOK
<1>5. ASSUME NEW v \in Workers, PostAccepted(v) PROVE JobStep(w)
  <2>1. job[v] \in Jobs /\ job[v].msg \in Messages
    BY <1>5 DEF PostAccepted, TypeOK
  <2>2. NextId(job[v].msg) \in Ids
    BY <1>5, <2>1, NextIdIsId DEF PostAccepted, Accept
  <2>3. [job[v] EXCEPT !.id = NextId(job[v].msg)].msg = job[v].msg
    BY <2>1, <2>2, JobUpdates
  <2> QED
    BY <1>5, <2>3 DEF PostAccepted, JobStep, TypeOK
<1>6. CASE UNCHANGED job
  BY <1>6 DEF JobStep
<1>7. ASSUME NEW v \in Workers, WorkerCrash(v) PROVE JobStep(w)
  BY <1>7, JobNone DEF WorkerCrash, JobStep, TypeOK
<1> QED
  BY <1>1, <1>2, <1>3, <1>4, <1>5, <1>6, <1>7
     DEF Next, WorkerStep, HandlerStep, vars, worker, DispatchExecution, RequeueMessage,
         CancelMessage, BackoffElapses, ConnectAccount, DisconnectAccount, StartDrain,
         ResolveAccount, PostUnanswered, PostUnusable, PostRefused, MarkSent,
         MarkSentThrows, SettleFailure, ProviderProgress, RecordReceipt, FindMessage,
         ApplyReceipt, HandlerCrash

LEMMA HookSteps ==
  ASSUME TypeOK, [Next]_vars, NEW h \in Handlers
  PROVE  HookStep(h)
<1>1. ASSUME NEW g \in Handlers, RecordReceipt(g) PROVE HookStep(h)
  <2>1. PICK i \in Ids, k \in AllKinds :
          /\ k \in Emitted(i) /\ <<i, k>> \notin audit
          /\ audit' = audit \cup {<<i, k>>}
          /\ hook' = [hook EXCEPT ![g] = Recorded(i, k)]
    BY <1>1, ConstantsAssumption DEF RecordReceipt, Emitted
  <2>2. /\ Recorded(i, k).step = "find" /\ Recorded(i, k).id = i
        /\ Recorded(i, k).kind = k
    BY HookRecorded
  <2>3. CASE h = g
    <3>1. hook'[h] = Recorded(i, k) /\ \A f \in Handlers \ {h} : hook'[f] = hook[f]
      BY <2>1, <2>3 DEF TypeOK
    <3>2. hook[h].step = "idle" /\ UNCHANGED <<row, fate>>
      BY <1>1, <2>3 DEF RecordReceipt, provider
    <3>3. <<i, k>> \in audit'
      BY <2>1
    <3> QED
      BY <2>1, <2>2, <3>1, <3>2, <3>3 DEF HookStep, Records
  <2>4. CASE h # g
    BY <2>1, <2>4 DEF HookStep, TypeOK
  <2> QED
    BY <2>3, <2>4
<1>2. ASSUME NEW g \in Handlers, FindMessage(g) PROVE HookStep(h)
  <2> DEFINE r == row[hook[g].id[1]]
  <2>1. hook[g] \in Hooks /\ hook[g].id \in Ids /\ r \in Rows
    BY <1>2, IdOfMessage DEF FindMessage, TypeOK
  <2>2. r.status \in Statuses \cup {"NONE"}
    BY <2>1 DEF Rows
  <2>3. CASE h # g \/ ~(Stores(r, hook[g].id) /\ Moves(r.status, hook[g].kind))
    BY <1>2, <2>3, HookNone DEF FindMessage, HookStep, TypeOK
  <2>4. CASE h = g /\ Stores(r, hook[g].id) /\ Moves(r.status, hook[g].kind)
    <3>1. hook'[h] = Checked(hook[h], r.status)
      BY <1>2, <2>4 DEF FindMessage, TypeOK
    <3>2. /\ hook'[h].step = "apply" /\ hook'[h].id = hook[h].id
          /\ hook'[h].kind = hook[h].kind /\ hook'[h].seen = r.status
      <4>1. hook[h] \in Hooks
        BY <2>1, <2>4
      <4> HIDE DEF r
      <4> QED
        BY <2>2, <3>1, <4>1, HookChecked
    <3>3. hook[h].step = "find" /\ UNCHANGED <<row, fate>>
      BY <1>2, <2>4 DEF FindMessage, provider
    <3>4. r.pid = hook[h].id /\ r = row[hook[h].id[1]] /\ Moves(r.status, hook[h].kind)
      BY <2>4 DEF Stores
    <3> QED
      BY <3>2, <3>3, <3>4 DEF HookStep, Checks
  <2> QED
    BY <2>3, <2>4
<1>3. ASSUME NEW g \in Handlers, ApplyReceipt(g) \/ HandlerCrash(g) PROVE HookStep(h)
  BY <1>3, HookNone DEF ApplyReceipt, HandlerCrash, HookStep, TypeOK
<1>4. CASE UNCHANGED hook
  BY <1>4 DEF HookStep
<1> QED
  BY <1>1, <1>2, <1>3, <1>4
     DEF Next, WorkerStep, HandlerStep, vars, webhook, DispatchExecution, RequeueMessage,
         CancelMessage, BackoffElapses, ConnectAccount, DisconnectAccount, StartDrain,
         ClaimMessage, ResolveAccount, PostAccepted, PostUnanswered, PostUnusable,
         PostRefused, MarkSent, MarkSentThrows, SettleFailure, WorkerCrash, ProviderProgress

LEMMA AuditGrows == TypeOK /\ [Next]_vars => audit \subseteq audit'
BY DEF Next, WorkerStep, HandlerStep, vars, webhook, DispatchExecution, RequeueMessage,
       CancelMessage, BackoffElapses, ConnectAccount, DisconnectAccount, StartDrain,
       ClaimMessage, ResolveAccount, PostAccepted, PostUnanswered, PostUnusable,
       PostRefused, MarkSent, MarkSentThrows, SettleFailure, WorkerCrash, ProviderProgress,
       RecordReceipt, FindMessage, ApplyReceipt, HandlerCrash

(* The provider takes over a message under a fresh id, and tells of it.     *)
LEMMA Accepts ==
  ASSUME TypeOK, IdsAreFresh, NEW m \in Messages, Accept(m)
  PROVE  /\ accepted' = [accepted EXCEPT ![m] = accepted[m] + 1]
         /\ \A i \in Ids : FateStep(i)
         /\ \A i \in Ids : i[2] > accepted'[i[1]] => fate'[i] = "none"
<1>1. NextId(m) \in Ids /\ NextId(m)[1] = m /\ NextId(m)[2] = accepted[m] + 1
  BY NextIdIsId DEF Accept, NextId
<1>2. accepted[m] \in Nat /\ accepted \in [Messages -> 0 .. MaxAccepts]
  BY ConstantsAssumption DEF TypeOK
<1>3. fate[NextId(m)] = "none"
  BY <1>1, <1>2 DEF IdsAreFresh
<1>4. \A i \in Ids : FateStep(i)
  BY <1>1, <1>3 DEF Accept, FateStep, TypeOK
<1>5. ASSUME NEW i \in Ids, i[2] > accepted'[i[1]] PROVE fate'[i] = "none"
  <2>1. i[1] \in Messages /\ i[2] \in Nat /\ accepted[i[1]] \in Nat
    BY ConstantsAssumption DEF Ids, TypeOK
  <2>2. accepted'[i[1]] = IF i[1] = m THEN accepted[m] + 1 ELSE accepted[i[1]]
    BY <1>2, <2>1 DEF Accept
  <2>3. i # NextId(m)
    BY <1>1, <1>2, <1>5, <2>2
  <2>4. fate'[i] = fate[i]
    BY <2>3 DEF Accept, TypeOK
  <2> QED
    BY <1>2, <1>5, <2>1, <2>2, <2>4 DEF IdsAreFresh
<1> QED
  BY <1>4, <1>5 DEF Accept

LEMMA FateSteps ==
  ASSUME TypeOK, IdsAreFresh, [Next]_vars
  PROVE  /\ \A i \in Ids : FateStep(i)
         /\ \A i \in Ids : i[2] > accepted'[i[1]] => fate'[i] = "none"
<1>1. ASSUME NEW w \in Workers, PostAccepted(w) \/ PostUnanswered(w) \/ PostUnusable(w)
      PROVE  Accept(job[w].msg) /\ job[w].msg \in Messages
  BY <1>1 DEF PostAccepted, PostUnanswered, PostUnusable, TypeOK
<1>2. ASSUME NEW j \in Ids, ProviderProgress(j)
      PROVE  /\ \A i \in Ids : FateStep(i)
             /\ \A i \in Ids : i[2] > accepted'[i[1]] => fate'[i] = "none"
  BY <1>2 DEF ProviderProgress, FateStep, IdsAreFresh, TypeOK
<1>3. CASE UNCHANGED <<accepted, fate>>
  BY <1>3 DEF FateStep, IdsAreFresh
<1> QED
  BY <1>1, <1>2, <1>3, Accepts
     DEF Next, WorkerStep, HandlerStep, vars, provider, DispatchExecution, RequeueMessage,
         CancelMessage, BackoffElapses, ConnectAccount, DisconnectAccount, StartDrain,
         ClaimMessage, ResolveAccount, PostRefused, MarkSent, MarkSentThrows,
         SettleFailure, WorkerCrash, RecordReceipt, FindMessage, ApplyReceipt, HandlerCrash

LEMMA EmittedGrows ==
  ASSUME NEW i \in Ids, FateStep(i)
  PROVE  Emitted(i) \subseteq Emitted(i)'
BY DEF FateStep, Emitted

LEMMA DeadStable ==
  ASSUME TypeOK, IdsAreFresh, [Next]_vars, NEW m \in Messages, Dead(m),
         row'[m].pid = row[m].pid
  PROVE  Dead(m)'
<1>1. fate'[row[m].pid] = "failed"
  BY FateSteps DEF Dead, FateStep
<1>2. <<row[m].pid, "failed">> \in audit'
  BY AuditGrows DEF Dead
<1>3. ASSUME NEW h \in Handlers, hook'[h].step # "idle", hook'[h].id = row[m].pid
      PROVE  hook'[h].kind # "failed"
  <2>1. HookStep(h)
    BY HookSteps
  <2> QED
    BY <1>3, <2>1 DEF HookStep, Records, Checks, Dead
<1> QED
  BY <1>1, <1>2, <1>3 DEF Dead

-----------------------------------------------------------------------------
(* The conjuncts of the inductive invariant, one lemma each. *)

(* The status a receipt read tells its kind.                                *)
LEMMA AtApply ==
  ASSUME TypeOK, HooksKnow, NEW h \in Handlers, hook[h].step = "apply"
  PROVE  LET i == hook[h].id
             m == i[1]
         IN /\ i \in Ids /\ m \in Messages
            /\ hook[h].kind \in AllKinds
            /\ hook[h].kind \in Emitted(i)
            /\ <<i, hook[h].kind>> \in audit
            /\ row[m].pid \in Ids
            /\ hook[h].kind = "sent" => hook[h].seen \in {"DRAFT", "QUEUED", "SENDING"}
            /\ hook[h].kind # "sent" =>
                 /\ row[m].pid = i
                 /\ row[m].status \in {"SENT", "DELIVERED", "READ"}
                 /\ hook[h].seen \in {"SENT", "DELIVERED"}
            /\ hook[h].kind \in {"delivered", "failed"} => hook[h].seen = "SENT"
<1>1. hook[h].id \in Ids /\ hook[h].kind \in AllKinds
  BY DEF TypeOK, Hooks
<1> QED
  BY <1>1, IdOfMessage DEF HooksKnow

LEMMA EmittedOf ==
  ASSUME TypeOK, NEW i \in Ids
  PROVE  /\ "failed" \in Emitted(i) => fate[i] = "failed"
         /\ "delivered" \in Emitted(i) => fate[i] \in {"delivered", "read"}
         /\ "read" \in Emitted(i) => fate[i] = "read"
         /\ fate[i] = "failed" => Emitted(i) \subseteq {"sent", "failed"}
BY DEF Emitted, TypeOK

LEMMA NoOtherStatus ==
  ASSUME IInv, [Next]_vars, ~CancelExposed
  PROVE  NeitherDraftNorCancelled'
<1> SUFFICES ASSUME NEW m \in Messages
             PROVE  row'[m].status \notin {"DRAFT", "CANCELLED"}
  BY DEF NeitherDraftNorCancelled
<1>1. RowStep(m)
  BY RowSteps DEF IInv
<1>2. CASE ByReceipt(m)
  <2>1. PICK h \in Handlers : /\ hook[h].step = "apply"
                              /\ row'[m].status = Target(hook[h].kind)
    BY <1>2 DEF ByReceipt
  <2>2. hook[h].kind \in AllKinds
    BY DEF IInv, TypeOK, Hooks
  <2> QED
    BY <2>1, <2>2, TargetOf DEF AllKinds
<1> QED
  BY <1>1, <1>2
     DEF RowStep, Kept, ByAdmin, ByClaim, ByMarkSent, BySettle, IInv, NeitherDraftNorCancelled

LEMMA SingleClaimStep ==
  ASSUME IInv, [Next]_vars
  PROVE  SingleClaim'
<1> SUFFICES ASSUME NEW m \in Messages, NEW v \in Workers, NEW w \in Workers,
                    job'[v].msg = m, job'[w].msg = m
             PROVE  v = w
  BY DEF SingleClaim, Holds
<1>1. JobStep(v) /\ JobStep(w)
  BY JobSteps DEF IInv
<1>2. m # NoMessage
  BY ConstantsAssumption
<1>3. ASSUME NEW u \in Workers, Takes(u), job'[u].msg = m
      PROVE  \A x \in Workers \ {u} : job'[x].msg # m
  BY <1>3 DEF Takes, ByClaim, IInv, ClaimedRows, Holds
<1>4. CASE job'[v].msg = job[v].msg /\ job'[w].msg = job[w].msg
  BY <1>4 DEF IInv, SingleClaim, Holds
<1> QED
  BY <1>1, <1>2, <1>3, <1>4 DEF JobStep

LEMMA ClaimedRowsStep ==
  ASSUME IInv, [Next]_vars, ~CancelExposed
  PROVE  ClaimedRows'
<1> SUFFICES ASSUME NEW m \in Messages, NEW w \in Workers, job'[w].msg = m
             PROVE  row'[m].status = "SENDING" \/ (row'[m].status = "SENT" /\ Dead(m)')
  BY DEF ClaimedRows, Holds
<1> USE DEF IInv
<1>0. m # NoMessage
  BY ConstantsAssumption
<1>1. JobStep(w)
  BY JobSteps
<1>2. CASE Takes(w)
  BY <1>2 DEF Takes, ByClaim
<1>3. CASE job[w].msg = m
  <2>1. row[m].status = "SENDING" \/ (row[m].status = "SENT" /\ Dead(m))
    BY <1>3 DEF ClaimedRows, Holds
  <2>2. RowStep(m)
    BY RowSteps
  <2>3. CASE Kept(m)
    BY <2>1, <2>3, DeadStable DEF Kept
  <2>4. CASE ByAdmin(m) \/ ByClaim(m)
    BY <2>1, <2>4 DEF ByAdmin, ByClaim
  <2>5. CASE ByMarkSent(m) \/ BySettle(m)
    <3>1. PICK v \in Workers : Releases(v, m)
      BY <2>5 DEF ByMarkSent, BySettle
    <3>2. v = w
      BY <1>3, <3>1 DEF Releases, SingleClaim, Holds
    <3> QED
      BY <1>0, <3>1, <3>2 DEF Releases
  <2>6. CASE ByReceipt(m)
    <3>1. PICK h \in Handlers :
            /\ hook[h].step = "apply" /\ hook[h].id[1] = m
            /\ row[m].status = hook[h].seen
            /\ row'[m].status = Target(hook[h].kind) /\ row'[m].pid = row[m].pid
      BY <2>6 DEF ByReceipt
    <3>2. row[m].pid \in Ids
      BY <3>1, AtApply
    <3>3. CASE row[m].status = "SENDING"
      <4>1. hook[h].kind = "sent"
        BY <3>1, <3>3, AtApply
      <4>2. Dead(m)
        BY <3>2, <3>3 DEF OldIdsAreDead
      <4> QED
        BY <3>1, <4>1, <4>2, DeadStable, TargetOf
    <3>4. CASE row[m].status = "SENT" /\ Dead(m)
      <4>1. hook[h].kind # "sent" /\ row[m].pid = hook[h].id
        BY <3>1, <3>4, AtApply
      <4>2. hook[h].kind \in Emitted(row[m].pid) /\ fate[row[m].pid] = "failed"
        BY <3>1, <3>4, <4>1, AtApply DEF Dead
      <4>3. hook[h].kind = "failed"
        BY <3>2, <4>1, <4>2, EmittedOf
      <4> QED
        BY <3>1, <3>4, <4>1, <4>3 DEF Dead
    <3> QED
      BY <2>1, <3>3, <3>4
  <2> QED
    BY <2>2, <2>3, <2>4, <2>5, <2>6 DEF RowStep
<1> QED
  BY <1>0, <1>1, <1>2, <1>3 DEF JobStep

LEMMA WorkerSaves ==
  ASSUME TypeOK, [Next]_vars, NEW w \in Workers, pc'[w] = "save"
  PROVE  \/ pc[w] = "save" /\ job'[w] = job[w]
         \/ job'[w].id \in Ids /\ job'[w].id[1] = job'[w].msg
<1>1. ASSUME NEW v \in Workers, PostAccepted(v)
      PROVE  \/ pc[w] = "save" /\ job'[w] = job[w]
             \/ job'[w].id \in Ids /\ job'[w].id[1] = job'[w].msg
  <2>1. job[v] \in Jobs /\ job[v].msg \in Messages
    BY <1>1 DEF PostAccepted, TypeOK
  <2>2. NextId(job[v].msg) \in Ids /\ NextId(job[v].msg)[1] = job[v].msg
    BY <1>1, <2>1, NextIdIsId DEF PostAccepted, Accept
  <2>3. /\ [job[v] EXCEPT !.id = NextId(job[v].msg)].msg = job[v].msg
        /\ [job[v] EXCEPT !.id = NextId(job[v].msg)].id = NextId(job[v].msg)
    BY <2>1, <2>2, JobUpdates
  <2> QED
    BY <1>1, <2>2, <2>3 DEF PostAccepted, TypeOK
<1>2. CASE UNCHANGED <<pc, job>>
  BY <1>2
<1>3. ASSUME NEW v \in Workers, NEW b \in BOOLEAN, Raise(v, b)
      PROVE  pc[w] = "save" /\ job'[w] = job[w]
  BY <1>3 DEF Raise, TypeOK
<1>4. ASSUME NEW v \in Workers, NEW rest, Advance(v, rest)
      PROVE  pc[w] = "save" /\ job'[w] = job[w]
  BY <1>4 DEF Advance, TypeOK
<1>5. ASSUME NEW v \in Workers, pc[v] = "post", RepostOrRaise(v)
      PROVE  pc[w] = "save" /\ job'[w] = job[w]
  BY <1>3, <1>5 DEF RepostOrRaise, TypeOK
<1>6. ASSUME NEW v \in Workers, ClaimMessage(v) \/ WorkerCrash(v) \/ StartDrain(v)
      PROVE  pc[w] = "save" /\ job'[w] = job[w]
  BY <1>4, <1>6 DEF ClaimMessage, WorkerCrash, StartDrain, TypeOK
<1>7. ASSUME NEW v \in Workers, ResolveAccount(v)
      PROVE  pc[w] = "save" /\ job'[w] = job[w]
  BY <1>3, <1>7 DEF ResolveAccount, TypeOK
<1> QED
  BY <1>1, <1>2, <1>3, <1>4, <1>5, <1>6, <1>7
     DEF Next, WorkerStep, HandlerStep, vars, worker, DispatchExecution, RequeueMessage,
         CancelMessage, BackoffElapses, ConnectAccount, DisconnectAccount,
         PostUnanswered, PostUnusable, PostRefused, MarkSent, MarkSentThrows,
         SettleFailure, ProviderProgress, RecordReceipt, FindMessage, ApplyReceipt,
         HandlerCrash

(* A provider message that failed the row is dead once the row is FAILED.   *)
LEMMA FailureKills ==
  ASSUME IInv, [Next]_vars, NEW h \in Handlers, NEW m \in Messages,
         hook[h].step = "apply", hook[h].kind = "failed", hook'[h].step = "idle",
         hook[h].id[1] = m, row'[m].pid = row[m].pid
  PROVE  Dead(m)'
<1> USE DEF IInv
<1>0. PICK i \in Ids : i = hook[h].id
  BY AtApply
<1>1. row[m].pid = i /\ fate[i] = "failed" /\ <<i, "failed">> \in audit
  BY <1>0, AtApply, EmittedOf
<1>2. fate'[i] = "failed" /\ <<i, "failed">> \in audit'
  BY <1>1, FateSteps, AuditGrows DEF FateStep
<1>3. ASSUME NEW g \in Handlers, hook'[g].step # "idle", hook'[g].id = i,
             hook'[g].kind = "failed"
      PROVE  FALSE
  <2>1. HookStep(g)
    BY HookSteps
  <2>2. hook[g].step # "idle" /\ hook[g].id = i /\ hook[g].kind = "failed"
    BY <1>1, <1>3, <2>1 DEF HookStep, Records, Checks
  <2>3. g = h
    BY <1>0, <2>2 DEF HooksDiffer
  <2> QED
    BY <1>3, <2>3
<1> QED
  BY <1>1, <1>2, <1>3 DEF Dead

LEMMA OldIdsStep ==
  ASSUME IInv, [Next]_vars, ~CancelExposed
  PROVE  OldIdsAreDead'
<1> USE DEF IInv
<1> SUFFICES ASSUME NEW m \in Messages
             PROVE  /\ row'[m].pid \in Ids => row'[m].pid[1] = m
                    /\ row'[m].status \in {"QUEUED", "SENDING", "FAILED"} /\ row'[m].pid \in Ids
                         => Dead(m)'
                    /\ row'[m].status \in {"SENT", "DELIVERED", "READ"} => row'[m].pid \in Ids
                    /\ row'[m].status = "NONE" => row'[m].pid = NoId
  BY DEF OldIdsAreDead
<1>0. /\ row[m].pid \in Ids => row[m].pid[1] = m
      /\ row[m].status \in {"QUEUED", "SENDING", "FAILED"} /\ row[m].pid \in Ids => Dead(m)
      /\ row[m].status \in {"SENT", "DELIVERED", "READ"} => row[m].pid \in Ids
      /\ row[m].status = "NONE" => row[m].pid = NoId
      /\ row[m].status # "CANCELLED"
      /\ NoId \notin Ids
  BY ConstantsAssumption DEF OldIdsAreDead, NeitherDraftNorCancelled
<1>1. RowStep(m)
  BY RowSteps
<1>2. CASE Kept(m)
  BY <1>0, <1>2, DeadStable DEF Kept
<1>3. CASE ByAdmin(m) \/ ByClaim(m) \/ BySettle(m)
  BY <1>0, <1>3, DeadStable DEF ByAdmin, ByClaim, BySettle
<1>4. CASE ByMarkSent(m)
  <2>1. PICK w \in Workers : /\ job[w].msg = m /\ pc[w] = "save"
                             /\ row'[m].status = "SENT" /\ row'[m].pid = job[w].id
    BY <1>4 DEF ByMarkSent, Releases, Holds
  <2> QED
    BY <2>1 DEF IdsAreFresh
<1>5. CASE ByReceipt(m)
  <2>1. PICK h \in Handlers :
          /\ hook[h].step = "apply" /\ hook[h].id[1] = m /\ hook'[h].step = "idle"
          /\ row'[m].status = Target(hook[h].kind) /\ row'[m].pid = row[m].pid
    BY <1>5 DEF ByReceipt
  <2>2. row[m].pid \in Ids /\ hook[h].kind \in AllKinds
    BY <2>1, AtApply
  <2>3. CASE hook[h].kind = "failed"
    BY <1>0, <2>1, <2>2, <2>3, FailureKills, TargetOf
  <2>4. CASE hook[h].kind # "failed"
    <3>1. row'[m].status \in {"SENT", "DELIVERED", "READ"}
      BY <2>1, <2>2, <2>4, TargetOf DEF AllKinds
    <3> QED
      BY <1>0, <2>1, <2>2, <3>1
  <2> QED
    BY <2>3, <2>4
<1> QED
  BY <1>1, <1>2, <1>3, <1>4, <1>5 DEF RowStep

LEMMA HooksDifferStep ==
  ASSUME IInv, [Next]_vars
  PROVE  HooksDiffer'
<1> USE DEF IInv
<1> SUFFICES ASSUME NEW g \in Handlers, NEW h \in Handlers,
                    hook'[g].step # "idle", hook'[h].step # "idle",
                    hook'[g].id = hook'[h].id, hook'[g].kind = hook'[h].kind
             PROVE  g = h
  BY DEF HooksDiffer
<1>1. HookStep(g) /\ HookStep(h)
  BY HookSteps
<1>2. ASSUME NEW e \in Handlers, NEW f \in Handlers, e # f, Records(e),
             hook'[f].step # "idle", hook'[e].id = hook'[f].id,
             hook'[e].kind = hook'[f].kind
      PROVE  FALSE
  BY <1>2 DEF Records, HooksKnow
<1> QED
  BY <1>1, <1>2 DEF HookStep, Checks, HooksDiffer

LEMMA ReceiptsTruthfulStep ==
  ASSUME IInv, [Next]_vars, ~CancelExposed
  PROVE  ReceiptsTruthful'
<1> USE DEF IInv
<1> SUFFICES ASSUME NEW m \in Messages
             PROVE  /\ row'[m].status = "DELIVERED" =>
                         row'[m].pid \in Ids /\ fate'[row'[m].pid] \in {"delivered", "read"}
                    /\ row'[m].status = "READ" =>
                         row'[m].pid \in Ids /\ fate'[row'[m].pid] = "read"
  BY DEF ReceiptsTruthful
<1>1. RowStep(m)
  BY RowSteps
<1>2. ASSUME NEW i \in Ids
      PROVE  /\ fate[i] \in {"delivered", "read"} => fate'[i] \in {"delivered", "read"}
             /\ fate[i] = "read" => fate'[i] = "read"
  BY FateSteps DEF FateStep
<1>3. CASE Kept(m)
  BY <1>2, <1>3 DEF Kept, ReceiptsTruthful
<1>4. CASE ByAdmin(m) \/ ByClaim(m) \/ ByMarkSent(m) \/ BySettle(m)
  BY <1>4 DEF ByAdmin, ByClaim, ByMarkSent, BySettle
<1>5. CASE ByReceipt(m)
  <2>1. PICK h \in Handlers :
          /\ hook[h].step = "apply" /\ hook[h].id[1] = m
          /\ row'[m].status = Target(hook[h].kind) /\ row'[m].pid = row[m].pid
    BY <1>5 DEF ByReceipt
  <2>2. /\ hook[h].id \in Ids /\ hook[h].kind \in AllKinds
        /\ hook[h].kind \in Emitted(hook[h].id)
        /\ hook[h].kind # "sent" => row[m].pid = hook[h].id
    BY <2>1, AtApply
  <2> QED
    BY <1>2, <2>1, <2>2, EmittedOf, TargetOf DEF AllKinds
<1> QED
  BY <1>1, <1>3, <1>4, <1>5 DEF RowStep

LEMMA MovesKnown ==
  /\ \A s : Moves(s, "sent") => s \in {"DRAFT", "QUEUED", "SENDING"}
  /\ \A s : Moves(s, "delivered") => s \in {"DRAFT", "QUEUED", "SENDING", "SENT"}
  /\ \A s : Moves(s, "read") => s \in {"DRAFT", "QUEUED", "SENDING", "SENT", "DELIVERED"}
  /\ \A s : Moves(s, "failed") => s \in {"QUEUED", "SENDING", "SENT"}
BY TargetOf DEF Moves, IsForwardProgress, Ranked, Rank

LEMMA HooksKnowStep ==
  ASSUME IInv, [Next]_vars, ~CancelExposed
  PROVE  HooksKnow'
<1> USE DEF IInv
<1> SUFFICES ASSUME NEW h \in Handlers, hook'[h].step # "idle",
                    NEW i \in Ids, i = hook'[h].id,
                    NEW k \in AllKinds, k = hook'[h].kind,
                    NEW m \in Messages, m = i[1]
             PROVE  /\ k \in Emitted(i)'
                    /\ <<i, k>> \in audit'
                    /\ hook'[h].step = "apply" =>
                         /\ row'[m].pid \in Ids
                         /\ k = "sent" => hook'[h].seen \in {"DRAFT", "QUEUED", "SENDING"}
                         /\ k # "sent" => /\ row'[m].pid = i
                                         /\ row'[m].status \in {"SENT", "DELIVERED", "READ"}
                                         /\ hook'[h].seen \in {"SENT", "DELIVERED"}
                         /\ k = "failed" => hook'[h].seen = "SENT"
                         /\ k = "delivered" => hook'[h].seen = "SENT"
  <2>1. TypeOK'
    BY TypeNext
  <2>2. \A h \in Handlers :
          hook'[h].step # "idle" => hook'[h].id \in Ids /\ hook'[h].id[1] \in Messages
    BY <2>1, IdOfMessage DEF TypeOK
  <2>3. \A h \in Handlers : hook'[h].kind \in AllKinds
    BY <2>1 DEF TypeOK, Hooks
  <2> QED
    BY <2>2, <2>3 DEF HooksKnow
<1>1. HookStep(h) /\ Emitted(i) \subseteq Emitted(i)' /\ audit \subseteq audit'
  BY HookSteps, FateSteps, EmittedGrows, AuditGrows
<1>2. CASE hook'[h] = hook[h]
  <2>1. k \in Emitted(i) /\ <<i, k>> \in audit
    BY <1>2 DEF HooksKnow
  <2>2. CASE hook[h].step = "apply"
    <3>1. /\ row[m].pid \in Ids
          /\ k = "sent" => hook[h].seen \in {"DRAFT", "QUEUED", "SENDING"}
          /\ k # "sent" => /\ row[m].pid = i
                          /\ row[m].status \in {"SENT", "DELIVERED", "READ"}
                          /\ hook[h].seen \in {"SENT", "DELIVERED"}
          /\ k \in {"failed", "delivered"} => hook[h].seen = "SENT"
      BY <1>2, <2>2 DEF HooksKnow
    <3>2. RowStep(m)
      BY RowSteps
    <3>3. row'[m].pid \in Ids /\ (k # "sent" => row'[m].pid = i)
      BY <3>1, <3>2 DEF RowStep, Kept, ByAdmin, ByClaim, ByMarkSent, BySettle, ByReceipt,
                        Releases, Holds, IdsAreFresh
    <3>4. ASSUME k # "sent" PROVE row'[m].status \in {"SENT", "DELIVERED", "READ"}
      <4>1. CASE ByReceipt(m)
        <5>1. PICK g \in Handlers :
                /\ hook[g].step = "apply" /\ hook[g].id[1] = m /\ hook'[g].step = "idle"
                /\ row[m].status = hook[g].seen /\ row'[m].status = Target(hook[g].kind)
          BY <4>1 DEF ByReceipt
        <5>2. /\ hook[g].kind \in AllKinds /\ hook[g].kind \in Emitted(hook[g].id)
              /\ hook[g].kind # "sent" /\ hook[g].id = i
          BY <3>1, <3>4, <5>1, AtApply
        <5>3. hook[g].kind # "failed"
          <6>1. SUFFICES ASSUME hook[g].kind = "failed" PROVE FALSE
            OBVIOUS
          <6>2. k = "failed"
            BY <2>1, <3>4, <5>2, <6>1, EmittedOf
          <6>3. g = h
            BY <1>2, <2>2, <5>1, <5>2, <6>1, <6>2 DEF HooksDiffer
          <6> QED
            BY <5>1, <6>3
        <5> QED
          BY <5>1, <5>2, <5>3, TargetOf DEF AllKinds
      <4> QED
        BY <3>1, <3>2, <3>4, <4>1
           DEF RowStep, Kept, ByAdmin, ByClaim, ByMarkSent, BySettle
    <3> QED
      BY <1>1, <1>2, <2>1, <3>1, <3>3, <3>4
  <2> QED
    BY <1>1, <1>2, <2>1, <2>2
<1>3. CASE Records(h)
  BY <1>1, <1>3 DEF Records
<1>4. CASE Checks(h)
  <2>1. /\ hook[h].step = "find" /\ hook[h].id = i /\ hook[h].kind = k
        /\ row[m].pid = i /\ row'[m] = row[m]
        /\ hook'[h].seen = row[m].status /\ Moves(row[m].status, k)
    BY <1>4 DEF Checks
  <2>2. k \in Emitted(i) /\ <<i, k>> \in audit
    BY <2>1 DEF HooksKnow
  <2>3. k # "sent" => row[m].status \in {"SENT", "DELIVERED"}
    <3>1. row[m].status \notin {"DRAFT", "CANCELLED"}
      BY DEF NeitherDraftNorCancelled
    <3>2. ASSUME row[m].status \in {"QUEUED", "SENDING"} PROVE k = "sent"
      <4>1. fate[i] = "failed" /\ k # "failed"
        BY <2>1, <3>2 DEF OldIdsAreDead, Dead
      <4> QED
        BY <2>2, <4>1, EmittedOf
    <3> QED
      BY <2>1, <3>1, <3>2, MovesKnown DEF AllKinds
  <2>4. k \in {"failed", "delivered"} => row[m].status = "SENT"
    BY <2>1, <2>3, MovesKnown
  <2>5. k = "sent" => row[m].status \in {"DRAFT", "QUEUED", "SENDING"}
    BY <2>1, MovesKnown
  <2> QED
    BY <1>1, <2>1, <2>2, <2>3, <2>4, <2>5
<1> QED
  BY <1>1, <1>2, <1>3, <1>4 DEF HookStep

LEMMA IdsAreFreshStep ==
  ASSUME IInv, [Next]_vars
  PROVE  IdsAreFresh'
<1>1. \A i \in Ids : i[2] > accepted'[i[1]] => fate'[i] = "none"
  BY FateSteps DEF IInv
<1>2. ASSUME NEW w \in Workers, pc'[w] = "save"
      PROVE  job'[w].id \in Ids /\ job'[w].id[1] = job'[w].msg
  BY <1>2, WorkerSaves DEF IInv, IdsAreFresh
<1> QED
  BY <1>1, <1>2 DEF IdsAreFresh

(* The books of one message: hand-overs, requeues and lost ids. *)

SameBooks(m) ==
  accepted'[m] = accepted[m] /\ requeues'[m] = requeues[m] /\ faults'[m] = faults[m]

BooksStep(m) ==
  \/ SameBooks(m)
  \/ /\ requeues'[m] = requeues[m] + 1
     /\ accepted'[m] = accepted[m] /\ faults'[m] = faults[m]
  \/ /\ faults'[m] = faults[m] + 1
     /\ accepted'[m] = accepted[m] /\ requeues'[m] = requeues[m]
  \/ /\ Owed(m)
     /\ accepted'[m] = accepted[m] + 1
     /\ faults'[m] = faults[m] + 1 /\ requeues'[m] = requeues[m]
  \/ /\ Owed(m) /\ ~Owed(m)'
     /\ accepted'[m] = accepted[m] + 1
     /\ faults'[m] = faults[m] /\ requeues'[m] = requeues[m]

LEMMA SaveLeaves ==
  ASSUME TypeOK, [Next]_vars, NEW w \in Workers, pc[w] = "save"
  PROVE  \/ pc'[w] \in {"save", "idle", "claim"}
         \/ faults'[job[w].msg] = faults[job[w].msg] + 1
<1> DEFINE Goal == \/ pc'[w] \in {"save", "idle", "claim"}
                   \/ faults'[job[w].msg] = faults[job[w].msg] + 1
<1>0. job[w].msg \in Messages
  BY DEF TypeOK
<1>1. CASE UNCHANGED pc
  BY <1>1
<1>2. ASSUME NEW v \in Workers, WorkerStep(v) \/ WorkerCrash(v) \/ StartDrain(v)
      PROVE  Goal
  <2>1. CASE v # w
    <3>1. pc'[w] = pc[w]
      BY <1>2, <2>1
         DEF WorkerStep, ClaimMessage, ResolveAccount, PostAccepted, PostUnanswered,
             PostUnusable, PostRefused, MarkSent, MarkSentThrows, SettleFailure,
             WorkerCrash, StartDrain, Raise, Advance, RepostOrRaise, TypeOK
    <3> QED
      BY <3>1
  <2>2. CASE v = w
    <3>1. CASE MarkSent(w)
      BY <3>1 DEF MarkSent, Advance, TypeOK
    <3>2. CASE MarkSentThrows(w)
      BY <1>0, <3>2 DEF MarkSentThrows, LoseId, TypeOK
    <3>3. CASE WorkerCrash(w)
      BY <3>3 DEF WorkerCrash, TypeOK
    <3> QED
      BY <1>2, <2>2, <3>1, <3>2, <3>3
         DEF WorkerStep, ClaimMessage, ResolveAccount, PostAccepted, PostUnanswered,
             PostUnusable, PostRefused, SettleFailure, StartDrain
  <2> QED
    BY <2>1, <2>2
<1> QED
  BY <1>1, <1>2
     DEF Next, HandlerStep, vars, worker, DispatchExecution, RequeueMessage,
         CancelMessage, BackoffElapses, ConnectAccount, DisconnectAccount,
         ProviderProgress, RecordReceipt, FindMessage, ApplyReceipt, HandlerCrash

(* A message is owed a hand-over again only by a requeue or a lost id.      *)
LEMMA OwedSteps ==
  ASSUME IInv, [Next]_vars, ~CancelExposed, NEW m \in Messages, ~Owed(m), Owed(m)'
  PROVE  requeues'[m] = requeues[m] + 1 \/ faults'[m] = faults[m] + 1
<1> USE DEF IInv
<1>1. RowStep(m)
  BY RowSteps
<1>2. CASE row'[m].status \in {"NONE", "QUEUED"}
  <2>1. ASSUME ByReceipt(m) PROVE FALSE
    <3>1. PICK h \in Handlers : /\ hook[h].step = "apply"
                                /\ row'[m].status = Target(hook[h].kind)
      BY <2>1 DEF ByReceipt
    <3> QED
      BY <1>2, <3>1, AtApply, TargetOf DEF AllKinds
  <2> QED
    BY <1>1, <1>2, <2>1
       DEF RowStep, Kept, ByAdmin, ByClaim, ByMarkSent, BySettle, Releases, Owed
<1>3. CASE \E w \in Workers : job'[w].msg = m /\ pc'[w] \in {"resolve", "post", "settle"}
  <2>1. PICK w \in Workers : job'[w].msg = m /\ pc'[w] \in {"resolve", "post", "settle"}
    BY <1>3
  <2>2. job[w].msg = m
    BY <2>1, JobSteps, ConstantsAssumption DEF JobStep, Takes, ByClaim, Owed
  <2>3. pc[w] = "save"
    BY <2>2 DEF Owed, Holds, TypeOK
  <2> QED
    BY <2>1, <2>2, <2>3, SaveLeaves
<1> QED
  BY <1>2, <1>3 DEF Owed, Holds

LEMMA BooksSteps ==
  ASSUME IInv, [Next]_vars, ~CancelExposed, NEW m \in Messages
  PROVE  BooksStep(m)
<1> USE DEF IInv
<1>1. ASSUME NEW n \in Messages, RequeueMessage(n) PROVE BooksStep(m)
  BY <1>1 DEF RequeueMessage, BooksStep, SameBooks, provider, TypeOK
<1>2. ASSUME NEW w \in Workers, PostUnanswered(w) \/ PostUnusable(w) PROVE BooksStep(m)
  <2>1. /\ job[w].msg \in Messages /\ Owed(job[w].msg)
        /\ Accept(job[w].msg) /\ LoseId(job[w].msg)
    BY <1>2 DEF PostUnanswered, PostUnusable, Owed, Holds, TypeOK
  <2>2. CASE m = job[w].msg
    <3>1. accepted'[m] = accepted[m] + 1 /\ faults'[m] = faults[m] + 1
      BY <2>1, <2>2 DEF Accept, LoseId, TypeOK
    <3>2. requeues'[m] = requeues[m]
      BY <2>1 DEF LoseId
    <3> QED
      BY <2>1, <2>2, <3>1, <3>2 DEF BooksStep
  <2>3. CASE m # job[w].msg
    BY <2>1, <2>3 DEF Accept, LoseId, BooksStep, SameBooks, TypeOK
  <2> QED
    BY <2>2, <2>3
<1>3. ASSUME NEW w \in Workers, PostAccepted(w) PROVE BooksStep(m)
  <2>1. /\ job[w].msg \in Messages /\ Owed(job[w].msg) /\ Accept(job[w].msg)
        /\ UNCHANGED <<row, requeues, faults>>
    BY <1>3 DEF PostAccepted, Owed, Holds, TypeOK, history
  <2>2. CASE m = job[w].msg
    <3>1. accepted'[m] = accepted[m] + 1
      BY <2>1, <2>2 DEF Accept, TypeOK
    <3>2. row'[m].status \notin {"NONE", "QUEUED"}
      BY <2>1, <2>2 DEF ClaimedRows, Holds
    <3>3. ASSUME NEW v \in Workers, job'[v].msg = m PROVE pc'[v] = "save"
      <4>1. job[v].msg = m
        BY <3>3, ConstantsAssumption, JobSteps, <2>1, <3>2 DEF JobStep, Takes, ByClaim
      <4>2. v = w
        BY <2>2, <4>1 DEF SingleClaim, Holds
      <4> QED
        BY <1>3, <4>2 DEF PostAccepted, TypeOK
    <3>4. ~Owed(m)'
      BY <3>2, <3>3 DEF Owed, Holds
    <3> QED
      BY <2>1, <2>2, <3>1, <3>4 DEF BooksStep
  <2>3. CASE m # job[w].msg
    BY <2>1, <2>3 DEF Accept, BooksStep, SameBooks, TypeOK
  <2> QED
    BY <2>2, <2>3
<1>4. ASSUME NEW w \in Workers, MarkSentThrows(w) PROVE BooksStep(m)
  <2>1. job[w].msg \in Messages
    BY <1>4 DEF MarkSentThrows, TypeOK
  <2> QED
    BY <1>4, <2>1 DEF MarkSentThrows, LoseId, BooksStep, SameBooks, provider, TypeOK
<1>5. CASE UNCHANGED <<accepted, requeues, faults>>
  BY <1>5 DEF BooksStep, SameBooks
<1> QED
  BY <1>1, <1>2, <1>3, <1>4, <1>5
     DEF Next, WorkerStep, HandlerStep, vars, provider, history, DispatchExecution,
         CancelMessage, BackoffElapses, ConnectAccount, DisconnectAccount, StartDrain,
         ClaimMessage, ResolveAccount, PostRefused, MarkSent, SettleFailure, WorkerCrash,
         ProviderProgress, RecordReceipt, FindMessage, ApplyReceipt, HandlerCrash

LEMMA SendsBalanceStep ==
  ASSUME IInv, [Next]_vars, ~CancelExposed
  PROVE  SendsBalance'
<1> SUFFICES ASSUME NEW m \in Messages
             PROVE  accepted'[m] <= requeues'[m] + faults'[m] + (IF Owed(m)' THEN 0 ELSE 1)
  BY DEF SendsBalance
<1>1. accepted[m] \in Nat /\ requeues[m] \in Nat /\ faults[m] \in Nat
  BY ConstantsAssumption DEF IInv, TypeOK
<1>2. accepted[m] <= requeues[m] + faults[m] + (IF Owed(m) THEN 0 ELSE 1)
  BY DEF IInv, SendsBalance
<1>3. BooksStep(m)
  BY BooksSteps
<1>4. SameBooks(m) => (Owed(m)' => Owed(m))
  BY <1>1, OwedSteps DEF SameBooks
<1> QED
  BY <1>1, <1>2, <1>3, <1>4 DEF BooksStep, SameBooks

-----------------------------------------------------------------------------
(* The theorems. *)

LEMMA IInvInit == Init => IInv
<1> SUFFICES ASSUME Init PROVE IInv
  OBVIOUS
<1>1. TypeOK
  BY TypeInit
<1>2. \A m \in Messages : row[m].status = "NONE" /\ row[m].pid = NoId
  BY NewRow DEF Init
<1>3. \A w \in Workers : job[w].msg = NoMessage /\ pc[w] = "idle"
  BY JobNone DEF Init
<1>4. \A h \in Handlers : hook[h].step = "idle"
  BY HookNone DEF Init
<1>5. NeitherDraftNorCancelled /\ OldIdsAreDead /\ ReceiptsTruthful
  BY <1>2, ConstantsAssumption DEF NeitherDraftNorCancelled, OldIdsAreDead, ReceiptsTruthful
<1>6. SingleClaim /\ ClaimedRows
  BY <1>3, ConstantsAssumption DEF SingleClaim, ClaimedRows, Holds
<1>7. HooksKnow /\ HooksDiffer
  BY <1>4 DEF HooksKnow, HooksDiffer
<1>8. IdsAreFresh
  BY <1>3 DEF IdsAreFresh, Init
<1>9. SendsBalance
  BY <1>2 DEF SendsBalance, Owed, Init
<1> QED
  BY <1>1, <1>5, <1>6, <1>7, <1>8, <1>9 DEF IInv

LEMMA IInvNext ==
  ASSUME ~CancelExposed, IInv, [Next]_vars
  PROVE  IInv'
<1>1. TypeOK'
  BY TypeNext DEF IInv
<1> QED
  BY <1>1, NoOtherStatus, SingleClaimStep, ClaimedRowsStep, OldIdsStep, HooksKnowStep,
     HooksDifferStep, IdsAreFreshStep, ReceiptsTruthfulStep, SendsBalanceStep DEF IInv

(* The invariant is inductive as long as no caller cancels a message, as is *)
(* the case in this code base: dispatcher.cancelMessage has no caller.      *)
THEOREM Inductive ==
  ASSUME ~CancelExposed
  PROVE  Spec => []IInv
<1>1. IInv /\ [Next]_vars => IInv'
  BY IInvNext
<1> QED
  BY <1>1, IInvInit, PTL DEF Spec

(* "Two workers can never send the same row concurrently": between its      *)
(* claim and its settlement a message is in the hands of one drain.         *)
THEOREM ClaimsAreExclusive ==
  ASSUME ~CancelExposed
  PROVE  Spec => []SingleClaim
<1>1. IInv => SingleClaim
  BY DEF IInv
<1> QED
  BY <1>1, Inductive, PTL

(* The provider takes a message over at most once per dispatch, admin       *)
(* requeue and lost id, whatever drains, receipts and crashes do.           *)
THEOREM SendsAreAccounted ==
  ASSUME ~CancelExposed
  PROVE  Spec => []SendsAccounted
<1>1. ASSUME IInv, NEW m \in Messages
      PROVE  accepted[m] <= 1 + requeues[m] + faults[m]
  <2>1. accepted[m] \in Nat /\ requeues[m] \in Nat /\ faults[m] \in Nat
    BY <1>1, ConstantsAssumption DEF IInv, TypeOK
  <2> QED
    BY <1>1, <2>1 DEF IInv, SendsBalance
<1>2. IInv => SendsAccounted
  BY <1>1 DEF SendsAccounted
<1> QED
  BY <1>2, Inductive, PTL

(* A row is shown DELIVERED or READ only for a provider message that was.   *)
THEOREM ReceiptsAreTruthful ==
  ASSUME ~CancelExposed
  PROVE  Spec => []ReceiptsTruthful
<1>1. IInv => ReceiptsTruthful
  BY DEF IInv
<1> QED
  BY <1>1, Inductive, PTL

(* Concurrent receipts, drains and requeues never take a message out of     *)
(* DELIVERED but to READ, and never out of READ.                            *)
THEOREM DeliveredStays ==
  ASSUME ~CancelExposed
  PROVE  Spec => DeliveredIsStable
<1> DEFINE Stable(m) ==
      /\ row[m].status = "DELIVERED" =>
           row'[m].status \in {"DELIVERED", "READ"} /\ row'[m].pid = row[m].pid
      /\ row[m].status = "READ" =>
           row'[m].status = "READ" /\ row'[m].pid = row[m].pid
<1>1. ASSUME IInv, [Next]_vars, NEW m \in Messages PROVE Stable(m)
  <2>1. RowStep(m)
    BY <1>1, RowSteps DEF IInv
  <2>2. CASE ByReceipt(m)
    <3>1. PICK h \in Handlers :
            /\ hook[h].step = "apply" /\ hook[h].id[1] = m
            /\ row[m].status = hook[h].seen
            /\ row'[m].status = Target(hook[h].kind) /\ row'[m].pid = row[m].pid
      BY <2>2 DEF ByReceipt
    <3>2. /\ hook[h].kind \in AllKinds
          /\ hook[h].seen \in {"DELIVERED", "READ"} =>
               hook[h].kind = "read" /\ hook[h].seen = "DELIVERED"
      BY <1>1, <3>1, AtApply DEF IInv, AllKinds
    <3> QED
      BY <3>1, <3>2, TargetOf
  <2> QED
    BY <2>1, <2>2 DEF RowStep, Kept, ByAdmin, ByClaim, ByMarkSent, BySettle
<1>2. IInv /\ [Next]_vars => [\A m \in Messages : Stable(m)]_vars
  BY <1>1
<1> QED
  BY <1>2, Inductive, PTL DEF Spec, DeliveredIsStable

-----------------------------------------------------------------------------
(* The queue implements DeliveryPromise. *)

statusOf == [m \in Messages |-> row[m].status]

Allowed(m) == requeues[m] + faults[m] + (IF row[m].status = "NONE" THEN 0 ELSE 1)

allowanceOf == [m \in Messages |-> Allowed(m)]

Mapped == <<statusOf, accepted, allowanceOf>>

LEMMA MappedVars == Promise!vars = Mapped
BY DEF Promise!vars, Mapped, statusOf, allowanceOf, Allowed

LEMMA PromiseInit == Init => Promise!Init
<1> SUFFICES ASSUME Init PROVE Promise!Init
  OBVIOUS
<1>1. \A m \in Messages : row[m].status = "NONE"
  BY NewRow DEF Init
<1> QED
  BY <1>1 DEF Init, Promise!Init

(* One more hand-over of m is allowed. *)
LEMMA OneMoreAllowed ==
  ASSUME NEW m \in Messages, Allowed(m)' = Allowed(m) + 1,
         \A n \in Messages \ {m} : Allowed(n)' = Allowed(n)
  PROVE  allowanceOf' = [allowanceOf EXCEPT ![m] = allowanceOf[m] + 1]
BY DEF allowanceOf

(* A step that rewrites one row's status along the map.                     *)
LEMMA PromiseMove ==
  ASSUME TypeOK, NEW m \in Messages, NEW r \in Rows,
         row' = [row EXCEPT ![m] = r],
         UNCHANGED <<accepted, requeues, faults>>,
         CanTransition(row[m].status, r.status) \/ <<row[m].status, r.status>> = <<"QUEUED", "SENT">>,
         row[m].status \notin {"NONE", "FAILED", "CANCELLED"},
         r.status # "NONE"
  PROVE  Promise!Next
<1>1. r.status \in Statuses
  BY DEF Rows
<1>2. statusOf' = [statusOf EXCEPT ![m] = r.status]
  BY DEF statusOf, TypeOK
<1>3. allowanceOf' = allowanceOf
  BY DEF allowanceOf, Allowed, TypeOK
<1>4. statusOf[m] = row[m].status
  BY DEF statusOf
<1>5. Promise!Move(m)
  BY <1>1, <1>2, <1>3, <1>4
     DEF statusOf, allowanceOf, Allowed, Promise!Move, Promise!StaleEdge, Promise!Statuses, Statuses,
         Promise!CanTransition, CanTransition, Promise!Transitions, Transitions
<1> QED
  BY <1>5 DEF Promise!Next

PromiseStep == Promise!Next \/ UNCHANGED Mapped

(* A step that changes no status and no book is a stutter.                  *)
LEMMA PromiseStutter ==
  ASSUME TypeOK, UNCHANGED <<accepted, requeues, faults>>,
         \A m \in Messages : row'[m].status = row[m].status
  PROVE  PromiseStep
BY DEF PromiseStep, Mapped, statusOf, allowanceOf, Allowed

(* The provider takes m over, and the id is lost (b = 1) or not (b = 0).    *)
LEMMA PromiseHandOver ==
  ASSUME IInv, NEW m \in Messages, Owed(m), row[m].status \in {"SENDING", "SENT"},
         accepted' = [accepted EXCEPT ![m] = accepted[m] + 1],
         UNCHANGED <<row, requeues>>,
         \/ UNCHANGED faults
         \/ faults' = [faults EXCEPT ![m] = faults[m] + 1]
  PROVE  Promise!Next
<1>1. /\ accepted \in [Messages -> Nat] /\ requeues \in [Messages -> Nat]
      /\ faults \in [Messages -> Nat]
  BY ConstantsAssumption DEF IInv, TypeOK
<1>2. accepted[m] < Allowed(m)
  BY <1>1 DEF IInv, SendsBalance, Allowed
<1>3. statusOf[m] \in {"SENDING", "SENT"} /\ accepted[m] < allowanceOf[m]
  BY <1>2 DEF statusOf, allowanceOf
<1>4. \/ allowanceOf' = allowanceOf
      \/ allowanceOf' = [allowanceOf EXCEPT ![m] = allowanceOf[m] + 1]
  <2>1. CASE UNCHANGED faults
    BY <2>1 DEF allowanceOf, Allowed
  <2>2. CASE faults' = [faults EXCEPT ![m] = faults[m] + 1]
    BY <1>1, <2>2, OneMoreAllowed DEF Allowed
  <2> QED
    BY <2>1, <2>2
<1>5. UNCHANGED statusOf
  BY DEF statusOf
<1>6. Promise!HandOver(m)
  BY <1>3, <1>4, <1>5 DEF Promise!HandOver, statusOf, allowanceOf, Allowed
<1> QED
  BY <1>6 DEF Promise!Next

LEMMA PromiseNext ==
  ASSUME ~CancelExposed, IInv, [Next]_vars
  PROVE  PromiseStep
<1> USE DEF IInv
<1>0. /\ accepted \in [Messages -> Nat] /\ requeues \in [Messages -> Nat]
      /\ faults \in [Messages -> Nat] /\ row \in [Messages -> Rows]
  BY ConstantsAssumption DEF TypeOK
<1>1. ASSUME NEW m \in Messages, DispatchExecution(m) PROVE PromiseStep
  <2>1. statusOf[m] = "NONE" /\ statusOf' = [statusOf EXCEPT ![m] = "QUEUED"]
    BY <1>0, <1>1, NewRow DEF DispatchExecution, statusOf
  <2>2. /\ Allowed(m)' = Allowed(m) + 1
        /\ \A n \in Messages \ {m} : Allowed(n)' = Allowed(n)
    BY <1>0, <1>1, NewRow DEF DispatchExecution, Allowed, history
  <2>3. allowanceOf' = [allowanceOf EXCEPT ![m] = allowanceOf[m] + 1]
    BY <2>2, OneMoreAllowed
  <2>4. Promise!Dispatch(m)
    BY <1>1, <2>1, <2>3
       DEF Promise!Dispatch, statusOf, allowanceOf, Allowed, DispatchExecution, provider
  <2> QED
    BY <2>4 DEF PromiseStep, Promise!Next
<1>2. ASSUME NEW m \in Messages, RequeueMessage(m) PROVE PromiseStep
  <2>1. Requeued(row[m]).status = "QUEUED" /\ row[m].status \in {"FAILED", "CANCELLED"}
    BY <1>0, <1>2, RowUpdates DEF RequeueMessage, Requeueable
  <2>2. /\ statusOf[m] \in {"FAILED", "CANCELLED"}
        /\ statusOf' = [statusOf EXCEPT ![m] = "QUEUED"]
    BY <1>0, <1>2, <2>1 DEF RequeueMessage, statusOf
  <2>3. /\ Allowed(m)' = Allowed(m) + 1
        /\ \A n \in Messages \ {m} : Allowed(n)' = Allowed(n)
    BY <1>0, <1>2, <2>1 DEF RequeueMessage, Allowed
  <2>4. allowanceOf' = [allowanceOf EXCEPT ![m] = allowanceOf[m] + 1]
    BY <2>3, OneMoreAllowed
  <2>5. Promise!Requeue(m)
    BY <1>2, <2>2, <2>4
       DEF Promise!Requeue, statusOf, allowanceOf, Allowed, RequeueMessage, provider
  <2> QED
    BY <2>5 DEF PromiseStep, Promise!Next
<1>3. ASSUME NEW m \in Messages, BackoffElapses(m) PROVE PromiseStep
  <2>1. [row[m] EXCEPT !.due = TRUE].status = row[m].status
    BY <1>0, RowUpdates
  <2> QED
    BY <1>0, <1>3, <2>1, PromiseStutter DEF BackoffElapses, provider, history
<1>4. ASSUME NEW w \in Workers, ClaimMessage(w) PROVE PromiseStep
  <2>1. CASE UNCHANGED row
    BY <1>4, <2>1, PromiseStutter DEF ClaimMessage, provider, history
  <2>2. ASSUME ~UNCHANGED row PROVE PromiseStep
    <3>1. PICK c \in batch[w] :
            /\ row[c.msg].status = "QUEUED"
            /\ row' = [row EXCEPT ![c.msg] = Claimed(@)]
      BY <1>4, <2>2 DEF ClaimMessage, Claimable
    <3>2. c.msg \in Messages /\ row[c.msg] \in Rows
      BY <3>1, JobTaken DEF TypeOK
    <3>3. Claimed(row[c.msg]) \in Rows /\ Claimed(row[c.msg]).status = "SENDING"
      BY <3>2, RowUpdates
    <3>4. row' = [row EXCEPT ![c.msg] = Claimed(row[c.msg])]
      BY <3>1
    <3>5. CanTransition("QUEUED", "SENDING")
      BY DEF CanTransition, Transitions
    <3>6. UNCHANGED <<accepted, requeues, faults>>
      BY <1>4 DEF ClaimMessage, provider, history
    <3> QED
      BY <3>1, <3>2, <3>3, <3>4, <3>5, <3>6, PromiseMove DEF PromiseStep
  <2> QED
    BY <2>1, <2>2
<1>5. ASSUME NEW w \in Workers,
             PostAccepted(w) \/ PostUnanswered(w) \/ PostUnusable(w)
      PROVE  PromiseStep
  <2> DEFINE m == job[w].msg
  <2>1. m \in Messages /\ Accept(m) /\ Owed(m) /\ Holds(w, m)
    BY <1>5 DEF PostAccepted, PostUnanswered, PostUnusable, Owed, Holds, TypeOK
  <2>2. row[m].status \in {"SENDING", "SENT"}
    BY <2>1 DEF ClaimedRows
  <2>3. UNCHANGED <<row, requeues>>
    BY <1>5 DEF PostAccepted, PostUnanswered, PostUnusable, LoseId, history
  <2>4. \/ UNCHANGED faults
        \/ faults' = [faults EXCEPT ![m] = faults[m] + 1]
    BY <1>5 DEF PostAccepted, PostUnanswered, PostUnusable, LoseId, history
  <2>5. accepted' = [accepted EXCEPT ![m] = accepted[m] + 1]
    BY <2>1 DEF Accept
  <2> QED
    BY <2>1, <2>2, <2>3, <2>4, <2>5, PromiseHandOver DEF PromiseStep
<1>6. ASSUME NEW w \in Workers, MarkSent(w) \/ SettleFailure(w) PROVE PromiseStep
  <2> DEFINE m == job[w].msg
  <2>1. m \in Messages /\ row[m] \in Rows /\ UNCHANGED <<accepted, requeues, faults>>
    BY <1>0, <1>6 DEF MarkSent, SettleFailure, TypeOK, provider, history
  <2>2. CASE UNCHANGED row
    BY <2>1, <2>2, PromiseStutter
  <2>3. CASE /\ row[m].status = "SENDING"
             /\ \E r \in Rows : /\ row' = [row EXCEPT ![m] = r]
                                /\ r.status \in {"SENT", "QUEUED", "FAILED"}
    <3>1. PICK r \in Rows : /\ row' = [row EXCEPT ![m] = r]
                            /\ r.status \in {"SENT", "QUEUED", "FAILED"}
      BY <2>3
    <3>2. CanTransition("SENDING", r.status)
      BY <3>1 DEF CanTransition, Transitions
    <3> QED
      BY <2>1, <2>3, <3>1, <3>2, PromiseMove DEF PromiseStep
  <2>4. \/ UNCHANGED row
        \/ /\ row[m].status = "SENDING"
           /\ row' \in {[row EXCEPT ![m] = Sent(@, job[w].id)],
                        [row EXCEPT ![m] = Rescheduled(@)], [row EXCEPT ![m] = Failed(@)]}
    BY <1>6 DEF MarkSent, SettleFailure
  <2>5. /\ Sent(row[m], job[w].id) \in Rows /\ Sent(row[m], job[w].id).status = "SENT"
        /\ Rescheduled(row[m]) \in Rows /\ Rescheduled(row[m]).status = "QUEUED"
        /\ Failed(row[m]) \in Rows /\ Failed(row[m]).status = "FAILED"
    <3>1. job[w] \in Jobs
      BY DEF TypeOK
    <3>2. Sent(row[m], job[w].id) \in Rows /\ Sent(row[m], job[w].id).status = "SENT"
      BY <2>1, <3>1 DEF Sent, Rows, Jobs, Statuses
    <3> QED
      BY <2>1, <3>2, RowUpdates
  <2> QED
    BY <2>2, <2>3, <2>4, <2>5
<1>7. ASSUME NEW w \in Workers, MarkSentThrows(w) PROVE PromiseStep
  <2>0. PICK m \in Messages : m = job[w].msg
    BY <1>7 DEF MarkSentThrows, TypeOK
  <2>1. Holds(w, m) /\ LoseId(m) /\ UNCHANGED <<row, accepted>> /\ UNCHANGED requeues
    BY <1>7, <2>0 DEF MarkSentThrows, LoseId, Holds, provider
  <2>2. /\ Allowed(m)' = Allowed(m) + 1
        /\ \A n \in Messages \ {m} : Allowed(n)' = Allowed(n)
    BY <1>0, <2>0, <2>1 DEF LoseId, Allowed
  <2>3. allowanceOf' = [allowanceOf EXCEPT ![m] = allowanceOf[m] + 1]
    BY <2>1, <2>2, OneMoreAllowed
  <2>4. Promise!LoseId(m)
    BY <2>1, <2>3 DEF Promise!LoseId, statusOf, allowanceOf, Allowed
  <2> QED
    BY <2>1, <2>4 DEF PromiseStep, Promise!Next
<1>8. ASSUME NEW h \in Handlers, ApplyReceipt(h) PROVE PromiseStep
  <2>1. PICK m \in Messages : m = hook[h].id[1]
    BY <1>8, AtApply DEF ApplyReceipt
  <2>2. hook[h].step = "apply" /\ UNCHANGED <<accepted, requeues, faults>>
    BY <1>8 DEF ApplyReceipt, provider, history
  <2>3. CASE UNCHANGED row
    BY <2>2, <2>3, PromiseStutter
  <2>4. CASE ~UNCHANGED row
    <3>1. /\ row[m].status = hook[h].seen
          /\ \/ /\ hook[h].kind = "failed"
                /\ row' = [row EXCEPT ![m] = Failed(@)]
             \/ /\ hook[h].kind # "failed"
                /\ row' = [row EXCEPT ![m] = Received(@, Target(hook[h].kind))]
      BY <1>8, <2>1, <2>4 DEF ApplyReceipt, StillAt
    <3>2. /\ hook[h].kind \in AllKinds
          /\ hook[h].kind = "sent" => row[m].status \in {"QUEUED", "SENDING"}
          /\ hook[h].kind = "read" => row[m].status \in {"SENT", "DELIVERED"}
          /\ hook[h].kind \in {"delivered", "failed"} => row[m].status = "SENT"
      BY <2>1, <2>2, <3>1, AtApply DEF NeitherDraftNorCancelled
    <3>3. Failed(row[m]) \in Rows /\ Failed(row[m]).status = "FAILED"
      BY <1>0, RowUpdates
    <3>4. \A s \in Statuses : Received(row[m], s) \in Rows /\ Received(row[m], s).status = s
      BY <1>0, RowReceived
    <3>5. \E r \in Rows : /\ row' = [row EXCEPT ![m] = r]
                          /\ r.status = Target(hook[h].kind)
      BY <3>1, <3>2, <3>3, <3>4, TargetOf DEF AllKinds, Statuses
    <3>6. PICK r \in Rows : /\ row' = [row EXCEPT ![m] = r]
                            /\ r.status = Target(hook[h].kind)
      BY <3>5
    <3>7. /\ \/ CanTransition(row[m].status, r.status)
             \/ <<row[m].status, r.status>> = <<"QUEUED", "SENT">>
          /\ row[m].status \notin {"NONE", "FAILED", "CANCELLED"}
          /\ r.status # "NONE"
      BY <3>2, <3>6, TargetOf DEF AllKinds, CanTransition, Transitions
    <3> QED
      BY <2>2, <3>6, <3>7, PromiseMove DEF PromiseStep
  <2> QED
    BY <2>3, <2>4
<1>9. CASE UNCHANGED <<row, accepted, requeues, faults>>
  BY <1>9, PromiseStutter
<1> QED
  BY <1>1, <1>2, <1>3, <1>4, <1>5, <1>6, <1>7, <1>8, <1>9
     DEF Next, WorkerStep, HandlerStep, vars, provider, history, CancelMessage,
         ConnectAccount, DisconnectAccount, StartDrain, ResolveAccount, PostRefused,
         WorkerCrash, ProviderProgress, RecordReceipt, FindMessage, HandlerCrash

(* The detailed queue implements the abstract one: every step maps to a     *)
(* dispatch, a requeue, a move along the map, a hand-over within the        *)
(* allowance or a lost id, or changes nothing of it.                        *)
THEOREM KeepsItsPromise ==
  ASSUME ~CancelExposed
  PROVE  Spec => KeepsPromise
<1>1. IInv /\ [Next]_vars => [Promise!Next]_(Promise!vars)
  BY PromiseNext, MappedVars DEF PromiseStep, Mapped, statusOf, allowanceOf, Allowed, Promise!vars
<1> QED
  BY <1>1, PromiseInit, Inductive, PTL DEF Spec, KeepsPromise, Promise!Spec

-----------------------------------------------------------------------------
(* How far stale snapshots can push the attempt counter. *)

(* Drain w may still give m back to the queue: it holds m, or will try to   *)
(* claim it, with a snapshot that has attempts left.                        *)
StillRetries(w, m) ==
  \/ Holds(w, m) /\ job[w].consumed < MaxAttempts
  \/ \E c \in batch[w] : c.msg = m /\ c.attempts + 1 < MaxAttempts

Retriers(m) == {w \in Workers : StillRetries(w, m)}

(* A drain lists a message once, and not again while it holds it.           *)
ListedOnce ==
  \A w \in Workers : \A c \in batch[w] :
    /\ job[w].msg # c.msg
    /\ \A d \in batch[w] : c.msg = d.msg => c = d

(* Once a message has used its attempts no drain can become a retrier of    *)
(* it, and each reschedule uses one up: what the counter has passed the     *)
(* budget by and the retriers left are together fewer than the drains.      *)
Overrun(m) ==
  LET a == row[m].attempts
      left == Cardinality(Retriers(m))
      others == Cardinality(Workers) - 1
  IN /\ a <= MaxAttempts + others
     /\ row[m].status = "QUEUED" /\ a > 0 /\ a >= MaxAttempts - 1
          => a + left <= MaxAttempts - 1 + others
     /\ row[m].status = "SENDING" /\ a >= MaxAttempts
          => a + left <= MaxAttempts + others

OverrunInv == ListedOnce /\ \A m \in Messages : Overrun(m)

(* What a step may do to a row's attempts, and why.                         *)
AttemptsStay(m) ==
  /\ row'[m].attempts = row[m].attempts
  /\ row'[m].status = row[m].status \/ row'[m].status \notin {"QUEUED", "SENDING"}

AttemptsRestart(m) == row'[m].attempts = 0 /\ row'[m].status # "SENDING"

ClaimedBy(m, w, c) ==
  /\ c \in batch[w] /\ c.msg = m
  /\ job[w].msg = NoMessage
  /\ row[m].status = "QUEUED" /\ row'[m].status = "SENDING"
  /\ row'[m].attempts = row[m].attempts + 1
  /\ job'[w] = Taken(c)
  /\ batch'[w] = batch[w] \ {c}

GivenBackBy(m, w) ==
  /\ Holds(w, m) /\ job[w].consumed < MaxAttempts
  /\ row[m].status = "SENDING" /\ row'[m].status = "QUEUED"
  /\ row'[m].attempts = row[m].attempts
  /\ job'[w] = NoJob
  /\ batch'[w] = batch[w]

AttemptStep(m) ==
  \/ AttemptsStay(m)
  \/ AttemptsRestart(m)
  \/ \E w \in Workers : \E c \in batch[w] : ClaimedBy(m, w, c)
  \/ \E w \in Workers : GivenBackBy(m, w)

LEMMA RowAttempts ==
  ASSUME NEW r \in Rows
  PROVE  /\ r.attempts \in Nat
         /\ Claimed(r).attempts = r.attempts + 1
         /\ Rescheduled(r).attempts = r.attempts
         /\ Failed(r).attempts = r.attempts
         /\ Requeued(r).attempts = 0
         /\ Cancelled(r).attempts = r.attempts
         /\ [r EXCEPT !.due = TRUE].attempts = r.attempts
         /\ \A i \in Ids : Sent(r, i).attempts = r.attempts
         /\ \A s \in Statuses : Received(r, s).attempts = r.attempts
BY DEF Rows, Claimed, Rescheduled, Failed, Requeued, Cancelled, Sent, Received

LEMMA AttemptSteps ==
  ASSUME TypeOK, [Next]_vars, NEW m \in Messages
  PROVE  AttemptStep(m)
<1>1. ASSUME NEW n \in Messages, DispatchExecution(n) PROVE AttemptStep(m)
  <2>1. Created.status = "QUEUED" /\ Created.attempts = 0
    BY DEF Created, NoRow
  <2>2. CASE m = n
    <3>1. row'[m] = Created
      BY <1>1, <2>2 DEF DispatchExecution, TypeOK
    <3> QED
      BY <2>1, <3>1 DEF AttemptStep, AttemptsRestart
  <2>3. CASE m # n
    BY <1>1, <2>3 DEF DispatchExecution, TypeOK, AttemptStep, AttemptsStay
  <2> QED
    BY <2>2, <2>3
<1>2. ASSUME NEW n \in Messages, RequeueMessage(n) PROVE AttemptStep(m)
  <2>1. row[n] \in Rows
    BY DEF TypeOK
  <2>2. Requeued(row[n]).status = "QUEUED" /\ Requeued(row[n]).attempts = 0
    BY <2>1, RowUpdates, RowAttempts
  <2>3. row'[m] = IF m = n THEN Requeued(row[n]) ELSE row[m]
    BY <1>2 DEF RequeueMessage, TypeOK
  <2> QED
    BY <2>2, <2>3 DEF AttemptStep, AttemptsRestart, AttemptsStay
<1>3. ASSUME NEW n \in Messages, CancelMessage(n) PROVE AttemptStep(m)
  <2>1. row[n] \in Rows
    BY DEF TypeOK
  <2>2. /\ Cancelled(row[n]).status = "CANCELLED"
        /\ Cancelled(row[n]).attempts = row[n].attempts
    BY <2>1, RowUpdates, RowAttempts
  <2>3. row'[m] = IF m = n THEN Cancelled(row[n]) ELSE row[m]
    BY <1>3 DEF CancelMessage, TypeOK
  <2> QED
    BY <2>2, <2>3 DEF AttemptStep, AttemptsStay
<1>4. ASSUME NEW n \in Messages, BackoffElapses(n) PROVE AttemptStep(m)
  <2>1. row[n] \in Rows
    BY DEF TypeOK
  <2>2. /\ [row[n] EXCEPT !.due = TRUE].status = row[n].status
        /\ [row[n] EXCEPT !.due = TRUE].attempts = row[n].attempts
    BY <2>1, RowUpdates, RowAttempts
  <2>3. row'[m] = IF m = n THEN [row[n] EXCEPT !.due = TRUE] ELSE row[m]
    BY <1>4 DEF BackoffElapses, TypeOK
  <2> QED
    BY <2>2, <2>3 DEF AttemptStep, AttemptsStay
<1>5. ASSUME NEW w \in Workers, ClaimMessage(w) PROVE AttemptStep(m)
  <2>1. CASE UNCHANGED row
    BY <2>1 DEF AttemptStep, AttemptsStay
  <2>2. ASSUME ~UNCHANGED row PROVE AttemptStep(m)
    <3>1. PICK c \in batch[w] :
            /\ row[c.msg].status = "QUEUED"
            /\ row' = [row EXCEPT ![c.msg] = Claimed(row[c.msg])]
            /\ job' = [job EXCEPT ![w] = Taken(c)]
            /\ batch' = [batch EXCEPT ![w] = batch[w] \ {c}]
      BY <1>5, <2>2 DEF ClaimMessage, Claimable
    <3>2. c.msg \in Messages /\ row[c.msg] \in Rows
      BY <3>1, JobTaken DEF TypeOK
    <3>3. /\ Claimed(row[c.msg]).status = "SENDING"
          /\ Claimed(row[c.msg]).attempts = row[c.msg].attempts + 1
      BY <3>2, RowUpdates, RowAttempts
    <3>4. CASE m # c.msg
      <4>1. row'[m] = row[m]
        BY <3>1, <3>2, <3>4 DEF TypeOK
      <4> QED
        BY <4>1 DEF AttemptStep, AttemptsStay
    <3>5. CASE m = c.msg
      <4>1. row'[m] = Claimed(row[m])
        BY <3>1, <3>2, <3>5 DEF TypeOK
      <4>2. job'[w] = Taken(c) /\ batch'[w] = batch[w] \ {c}
        BY <3>1 DEF TypeOK
      <4>3. job[w].msg = NoMessage
        BY <1>5 DEF ClaimMessage, TypeOK, Jobs
      <4>4. ClaimedBy(m, w, c)
        BY <3>1, <3>3, <3>5, <4>1, <4>2, <4>3 DEF ClaimedBy
      <4> QED
        BY <3>1, <4>4 DEF AttemptStep
    <3> QED
      BY <3>4, <3>5
  <2> QED
    BY <2>1, <2>2
<1>6. ASSUME NEW w \in Workers, MarkSent(w) PROVE AttemptStep(m)
  <2>1. job[w].msg \in Messages /\ row[job[w].msg] \in Rows /\ row[m] \in Rows
    BY <1>6 DEF MarkSent, TypeOK
  <2>2. CASE row[job[w].msg].status = "SENDING" /\ m = job[w].msg
    <3>1. row'[m] = Sent(row[m], job[w].id)
      BY <1>6, <2>1, <2>2 DEF MarkSent, TypeOK
    <3>2. row'[m].status = "SENT" /\ row'[m].attempts = row[m].attempts
      BY <2>1, <2>2, <3>1 DEF Sent, Rows
    <3> QED
      BY <3>2 DEF AttemptStep, AttemptsStay
  <2>3. CASE ~(row[job[w].msg].status = "SENDING" /\ m = job[w].msg)
    BY <1>6, <2>1, <2>3 DEF MarkSent, AttemptStep, AttemptsStay, TypeOK
  <2> QED
    BY <2>2, <2>3
<1>7. ASSUME NEW w \in Workers, SettleFailure(w) PROVE AttemptStep(m)
  <2>1. job[w].msg \in Messages /\ row[job[w].msg] \in Rows
    BY <1>7 DEF SettleFailure, TypeOK
  <2>2. CASE ~(row[job[w].msg].status = "SENDING" /\ m = job[w].msg)
    BY <1>7, <2>1, <2>2 DEF SettleFailure, AttemptStep, AttemptsStay, TypeOK
  <2>3. CASE row[job[w].msg].status = "SENDING" /\ m = job[w].msg
    <3>1. /\ Rescheduled(row[m]).status = "QUEUED" /\ Failed(row[m]).status = "FAILED"
          /\ Rescheduled(row[m]).attempts = row[m].attempts
          /\ Failed(row[m]).attempts = row[m].attempts
      BY <2>1, <2>3, RowUpdates, RowAttempts
    <3>2. CASE WillRetry(job[w])
      <4>1. row'[m] = Rescheduled(row[m])
        BY <1>7, <2>1, <2>3, <3>2 DEF SettleFailure, TypeOK
      <4>2. job'[w] = NoJob /\ batch'[w] = batch[w]
        BY <1>7 DEF SettleFailure, Advance, TypeOK
      <4>3. GivenBackBy(m, w)
        BY <2>3, <3>1, <3>2, <4>1, <4>2 DEF GivenBackBy, WillRetry, Holds
      <4> QED
        BY <4>3 DEF AttemptStep
    <3>3. CASE ~WillRetry(job[w])
      <4>1. row'[m] = Failed(row[m])
        BY <1>7, <2>1, <2>3, <3>3 DEF SettleFailure, TypeOK
      <4> QED
        BY <3>1, <4>1 DEF AttemptStep, AttemptsStay
    <3> QED
      BY <3>2, <3>3
  <2> QED
    BY <2>2, <2>3
<1>8. ASSUME NEW h \in Handlers, ApplyReceipt(h) PROVE AttemptStep(m)
  <2> DEFINE n == hook[h].id[1]
  <2>1. /\ n \in Messages /\ row[n] \in Rows
        /\ Target(hook[h].kind) \in {"SENT", "DELIVERED", "READ", "FAILED"}
        /\ Target(hook[h].kind) \in Statuses
    BY <1>8, IdOfMessage DEF ApplyReceipt, TypeOK, Hooks, AllKinds, Target, Statuses
  <2>2. CASE row[n].status = hook[h].seen /\ m = n
    <3>1. \/ row'[m] = Failed(row[m])
          \/ row'[m] = Received(row[m], Target(hook[h].kind))
      BY <1>8, <2>1, <2>2 DEF ApplyReceipt, StillAt, TypeOK
    <3>2. /\ Failed(row[m]).status = "FAILED"
          /\ Failed(row[m]).attempts = row[m].attempts
          /\ Received(row[m], Target(hook[h].kind)).status = Target(hook[h].kind)
          /\ Received(row[m], Target(hook[h].kind)).attempts = row[m].attempts
      BY <2>1, <2>2, RowUpdates, RowReceived, RowAttempts
    <3> QED
      BY <2>1, <3>1, <3>2 DEF AttemptStep, AttemptsStay
  <2>3. CASE ~(row[n].status = hook[h].seen /\ m = n)
    BY <1>8, <2>1, <2>3 DEF ApplyReceipt, StillAt, AttemptStep, AttemptsStay, TypeOK
  <2> QED
    BY <2>2, <2>3
<1>9. CASE UNCHANGED row
  BY <1>9 DEF AttemptStep, AttemptsStay
<1> QED
  BY <1>1, <1>2, <1>3, <1>4, <1>5, <1>6, <1>7, <1>8, <1>9
     DEF Next, WorkerStep, HandlerStep, vars, ConnectAccount, DisconnectAccount, StartDrain,
         ResolveAccount, PostAccepted, PostUnanswered, PostUnusable, PostRefused,
         MarkSentThrows, WorkerCrash, ProviderProgress, RecordReceipt, FindMessage,
         HandlerCrash

(* What a step may do to the work of a drain.                               *)
WorkShrinks(w) ==
  /\ job'[w].msg = job[w].msg /\ job'[w].consumed = job[w].consumed
  /\ batch'[w] \subseteq batch[w]

WorkDropped(w) == job'[w].msg = NoMessage /\ batch'[w] \subseteq batch[w]

WorkTaken(w) ==
  \E c \in batch[w] : job'[w] = Taken(c) /\ batch'[w] = batch[w] \ {c}

WorkListed(w) ==
  /\ job[w].msg = NoMessage /\ UNCHANGED <<row, job>>
  /\ \E S \in SUBSET Candidates : batch'[w] = {Snapshot(m) : m \in S}

WorkStep(w) ==
  WorkShrinks(w) \/ WorkDropped(w) \/ WorkTaken(w) \/ WorkListed(w)

LEMMA JobConsumed ==
  /\ \A c \in Snapshots : Taken(c).consumed = c.attempts + 1
  /\ \A j \in Jobs : /\ \A b \in BOOLEAN : [j EXCEPT !.retryable = b].consumed = j.consumed
                     /\ Reposted(j).consumed = j.consumed
                     /\ \A i \in Ids : [j EXCEPT !.id = i].consumed = j.consumed
<1>1. \A c \in Snapshots : Taken(c).consumed = c.attempts + 1
  BY DEF Taken, NoJob
<1>2. ASSUME NEW j \in Jobs
      PROVE  /\ \A b \in BOOLEAN : [j EXCEPT !.retryable = b].consumed = j.consumed
             /\ Reposted(j).consumed = j.consumed
             /\ \A i \in Ids : [j EXCEPT !.id = i].consumed = j.consumed
  BY DEF Jobs, Reposted
<1> QED
  BY <1>1, <1>2

LEMMA WorkSteps ==
  ASSUME TypeOK, [Next]_vars, NEW w \in Workers
  PROVE  WorkStep(w)
<1>1. ASSUME NEW v \in Workers, ClaimMessage(v) PROVE WorkStep(w)
  <2>1. PICK c \in batch[v] :
          /\ batch' = [batch EXCEPT ![v] = batch[v] \ {c}]
          /\ \/ job' = [job EXCEPT ![v] = Taken(c)]
             \/ job' = [job EXCEPT ![v] = NoJob]
    BY <1>1 DEF ClaimMessage, Advance
  <2>2. CASE w # v
    BY <2>1, <2>2 DEF TypeOK, WorkStep, WorkShrinks
  <2>3. CASE w = v
    <3>1. batch'[w] = batch[w] \ {c} /\ job'[w] \in {Taken(c), NoJob}
      BY <2>1, <2>3 DEF TypeOK
    <3> QED
      BY <2>1, <2>3, <3>1, JobNone DEF WorkStep, WorkTaken, WorkDropped
  <2> QED
    BY <2>2, <2>3
<1>2. ASSUME NEW v \in Workers, NEW b \in BOOLEAN, Raise(v, b), UNCHANGED batch
      PROVE  WorkStep(w)
  <2>1. job[v] \in Jobs
    BY DEF TypeOK
  <2>2. /\ [job[v] EXCEPT !.retryable = b].msg = job[v].msg
        /\ [job[v] EXCEPT !.retryable = b].consumed = job[v].consumed
    BY <2>1, JobUpdates, JobConsumed
  <2> QED
    BY <1>2, <2>2 DEF Raise, WorkStep, WorkShrinks, TypeOK
<1>3. ASSUME NEW v \in Workers, RepostOrRaise(v), UNCHANGED batch PROVE WorkStep(w)
  <2>1. job[v] \in Jobs
    BY DEF TypeOK
  <2>2. Reposted(job[v]).msg = job[v].msg /\ Reposted(job[v]).consumed = job[v].consumed
    BY <2>1, JobUpdates, JobConsumed
  <2> QED
    BY <1>2, <1>3, <2>2 DEF RepostOrRaise, WorkStep, WorkShrinks, TypeOK
<1>4. ASSUME NEW v \in Workers, Advance(v, batch[v]), UNCHANGED batch PROVE WorkStep(w)
  BY <1>4, JobNone DEF Advance, WorkStep, WorkShrinks, WorkDropped, TypeOK
<1>5. ASSUME NEW v \in Workers, PostAccepted(v) PROVE WorkStep(w)
  <2>1. job[v] \in Jobs /\ job[v].msg \in Messages
    BY <1>5 DEF PostAccepted, TypeOK
  <2>2. NextId(job[v].msg) \in Ids
    BY <1>5, <2>1, NextIdIsId DEF PostAccepted, Accept
  <2>3. /\ [job[v] EXCEPT !.id = NextId(job[v].msg)].msg = job[v].msg
        /\ [job[v] EXCEPT !.id = NextId(job[v].msg)].consumed = job[v].consumed
    BY <2>1, <2>2, JobUpdates, JobConsumed
  <2> QED
    BY <1>5, <2>3 DEF PostAccepted, WorkStep, WorkShrinks, TypeOK
<1>6. CASE UNCHANGED <<job, batch>>
  BY <1>6 DEF WorkStep, WorkShrinks
<1>7. ASSUME NEW v \in Workers, WorkerCrash(v) PROVE WorkStep(w)
  BY <1>7, JobNone DEF WorkerCrash, WorkStep, WorkShrinks, WorkDropped, TypeOK
<1>8. ASSUME NEW v \in Workers, StartDrain(v) PROVE WorkStep(w)
  <2>1. PICK S \in SUBSET Candidates :
          batch' = [batch EXCEPT ![v] = {Snapshot(m) : m \in S}]
    BY <1>8 DEF StartDrain
  <2>2. CASE w # v
    BY <1>8, <2>1, <2>2 DEF StartDrain, TypeOK, WorkStep, WorkShrinks
  <2>3. CASE w = v
    <3>1. batch'[w] = {Snapshot(m) : m \in S} /\ job[w].msg = NoMessage
      BY <1>8, <2>1, <2>3 DEF StartDrain, TypeOK, Jobs
    <3> QED
      BY <1>8, <2>1, <3>1 DEF StartDrain, WorkStep, WorkListed
  <2> QED
    BY <2>2, <2>3
<1> QED
  BY <1>1, <1>2, <1>3, <1>4, <1>5, <1>6, <1>7, <1>8
     DEF Next, WorkerStep, HandlerStep, vars, worker, DispatchExecution, RequeueMessage,
         CancelMessage, BackoffElapses, ConnectAccount, DisconnectAccount,
         ResolveAccount, PostUnanswered, PostUnusable, PostRefused, MarkSent,
         MarkSentThrows, SettleFailure, ProviderProgress, RecordReceipt, FindMessage,
         ApplyReceipt, HandlerCrash

LEMMA ListedOnceStep ==
  ASSUME TypeOK, ListedOnce, [Next]_vars
  PROVE  ListedOnce'
<1> SUFFICES ASSUME NEW w \in Workers
             PROVE  \A c \in batch'[w] :
                      /\ job'[w].msg # c.msg
                      /\ \A d \in batch'[w] : c.msg = d.msg => c = d
  BY DEF ListedOnce
<1>0. \A c \in batch[w] : c \in Snapshots /\ c.msg \in Messages /\ c.msg # NoMessage
  BY ConstantsAssumption, JobTaken DEF TypeOK
<1>1. CASE WorkShrinks(w)
  BY <1>1 DEF ListedOnce, WorkShrinks
<1>2. CASE WorkDropped(w)
  BY <1>0, <1>2 DEF ListedOnce, WorkDropped
<1>3. CASE WorkTaken(w)
  <2>1. PICK c \in batch[w] : job'[w] = Taken(c) /\ batch'[w] = batch[w] \ {c}
    BY <1>3 DEF WorkTaken
  <2>2. job'[w].msg = c.msg
    BY <1>0, <2>1, JobTaken
  <2> QED
    BY <2>1, <2>2 DEF ListedOnce
<1>4. CASE WorkListed(w)
  <2>1. PICK S \in SUBSET Candidates : batch'[w] = {Snapshot(m) : m \in S}
    BY <1>4 DEF WorkListed
  <2>2. \A m \in S : Snapshot(m).msg = m /\ m # NoMessage
    BY ConstantsAssumption DEF Snapshot, Candidates
  <2>3. job'[w].msg = NoMessage
    BY <1>4 DEF WorkListed
  <2> QED
    BY <2>1, <2>2, <2>3
<1> QED
  BY <1>1, <1>2, <1>3, <1>4, WorkSteps DEF WorkStep

(* No drain becomes a retrier, except by listing a message with attempts    *)
(* left.                                                                    *)
LEMMA RetriersShrink ==
  ASSUME TypeOK, [Next]_vars, NEW m \in Messages,
         \/ row[m].status # "QUEUED"
         \/ row[m].attempts + 1 >= MaxAttempts
  PROVE  Retriers(m)' \subseteq Retriers(m)
<1> SUFFICES ASSUME NEW w \in Workers, StillRetries(w, m)'
             PROVE  StillRetries(w, m)
  BY DEF Retriers
<1>0. \A c \in batch[w] : c \in Snapshots
  BY DEF TypeOK
<1>1. CASE WorkShrinks(w)
  BY <1>1 DEF StillRetries, Holds, WorkShrinks
<1>2. CASE WorkDropped(w)
  BY <1>2, ConstantsAssumption DEF StillRetries, Holds, WorkDropped
<1>3. CASE WorkTaken(w)
  <2>1. PICK c \in batch[w] : job'[w] = Taken(c) /\ batch'[w] = batch[w] \ {c}
    BY <1>3 DEF WorkTaken
  <2>2. job'[w].msg = c.msg /\ job'[w].consumed = c.attempts + 1
    BY <1>0, <2>1, JobTaken, JobConsumed
  <2> QED
    BY <2>1, <2>2 DEF StillRetries, Holds
<1>4. CASE WorkListed(w)
  <2>1. PICK S \in SUBSET Candidates : batch'[w] = {Snapshot(n) : n \in S}
    BY <1>4 DEF WorkListed
  <2>2. UNCHANGED job
    BY <1>4 DEF WorkListed
  <2>3. ASSUME NEW c \in batch'[w], c.msg = m, c.attempts + 1 < MaxAttempts
        PROVE  FALSE
    <3>1. PICK n \in S : c = Snapshot(n)
      BY <2>1, <2>3
    <3>2. n = m /\ c.attempts = row[m].attempts /\ row[m].status = "QUEUED"
      BY <2>3, <3>1 DEF Snapshot, Candidates
    <3>3. row[m].attempts \in Nat
      BY DEF TypeOK, Rows
    <3> QED
      BY <2>3, <3>2, <3>3, ConstantsAssumption
  <2> QED
    BY <2>2, <2>3 DEF StillRetries, Holds
<1> QED
  BY <1>1, <1>2, <1>3, <1>4, WorkSteps DEF WorkStep

LEMMA RetriersFinite ==
  ASSUME NEW m \in Messages
  PROVE  /\ IsFiniteSet(Retriers(m)) /\ Cardinality(Retriers(m)) \in Nat
         /\ Cardinality(Workers) \in Nat
         /\ Cardinality(Retriers(m)) <= Cardinality(Workers)
<1>1. IsFiniteSet(Workers) /\ Retriers(m) \subseteq Workers
  BY ConstantsAssumption DEF Retriers
<1> QED
  BY <1>1, FS_Subset, FS_CardinalityType

LEMMA RetriersFinitely ==
  ASSUME NEW m \in Messages
  PROVE  IsFiniteSet(Retriers(m)') /\ Cardinality(Retriers(m)') \in Nat
<1>1. IsFiniteSet(Workers) /\ Retriers(m)' \subseteq Workers
  BY ConstantsAssumption DEF Retriers
<1> QED
  BY <1>1, FS_Subset, FS_CardinalityType

(* Without one of the drains, the retriers are fewer than the drains.       *)
LEMMA OneLess ==
  ASSUME NEW S, IsFiniteSet(S), NEW T, T \subseteq S, NEW x \in S, x \notin T
  PROVE  Cardinality(T) <= Cardinality(S) - 1
<1>1. /\ IsFiniteSet(S \ {x}) /\ Cardinality(S \ {x}) = Cardinality(S) - 1
      /\ T \subseteq S \ {x}
  BY FS_RemoveElement
<1>2. Cardinality(T) <= Cardinality(S \ {x})
  BY <1>1, FS_Subset
<1> QED
  BY <1>1, <1>2

LEMMA OverrunStays ==
  ASSUME TypeOK, [Next]_vars, NEW m \in Messages, Overrun(m), AttemptsStay(m)
  PROVE  Overrun(m)'
<1> DEFINE a == row[m].attempts
           k == Cardinality(Retriers(m))
           l == Cardinality(Retriers(m)')
           n == Cardinality(Workers)
<1>1. a \in Nat /\ k \in Nat /\ l \in Nat /\ n \in Nat /\ MaxAttempts \in Nat
  BY RetriersFinite, RetriersFinitely, ConstantsAssumption DEF TypeOK, Rows
<1>2. row'[m].attempts = a /\ a <= MaxAttempts + (n - 1)
  BY DEF AttemptsStay, Overrun
<1>3. ASSUME row'[m].status = "QUEUED", a > 0, a >= MaxAttempts - 1
      PROVE  a + l <= MaxAttempts - 1 + (n - 1)
  <2>1. row[m].status = "QUEUED"
    BY <1>3 DEF AttemptsStay
  <2>2. a + k <= MaxAttempts - 1 + (n - 1)
    BY <1>3, <2>1 DEF Overrun
  <2>3. a + 1 >= MaxAttempts
    BY <1>1, <1>3
  <2>4. l <= k
    BY <2>3, RetriersShrink, RetriersFinite, FS_Subset
  <2> HIDE DEF a, k, l, n
  <2> QED
    BY <1>1, <2>2, <2>4
<1>4. ASSUME row'[m].status = "SENDING", a >= MaxAttempts
      PROVE  a + l <= MaxAttempts + (n - 1)
  <2>1. row[m].status = "SENDING"
    BY <1>4 DEF AttemptsStay
  <2>2. a + k <= MaxAttempts + (n - 1)
    BY <1>4, <2>1 DEF Overrun
  <2>3. l <= k
    BY <2>1, RetriersShrink, RetriersFinite, FS_Subset
  <2> HIDE DEF a, k, l, n
  <2> QED
    BY <1>1, <2>2, <2>3
<1>5. UNCHANGED Cardinality(Workers)
  OBVIOUS
<1> QED
  BY <1>2, <1>3, <1>4 DEF Overrun

LEMMA OverrunRestarts ==
  ASSUME NEW m \in Messages, AttemptsRestart(m), TypeOK
  PROVE  Overrun(m)'
<1>1. row'[m].attempts = 0 /\ row'[m].status # "SENDING"
  BY DEF AttemptsRestart
<1>2. Cardinality(Workers) \in Nat /\ MaxAttempts \in Nat \ {0}
  BY RetriersFinite, ConstantsAssumption
<1> QED
  BY <1>1, <1>2 DEF Overrun

LEMMA OverrunClaimed ==
  ASSUME TypeOK, [Next]_vars, ListedOnce, NEW m \in Messages, Overrun(m),
         NEW w \in Workers, NEW c \in batch[w], ClaimedBy(m, w, c)
  PROVE  Overrun(m)'
<1> DEFINE a == row[m].attempts
           k == Cardinality(Retriers(m))
           l == Cardinality(Retriers(m)')
           n == Cardinality(Workers)
<1>1. /\ a \in Nat /\ k \in Nat /\ l \in Nat /\ n \in Nat /\ k <= n
      /\ MaxAttempts \in Nat \ {0}
  BY RetriersFinite, RetriersFinitely, ConstantsAssumption DEF TypeOK, Rows
<1>2. row'[m].attempts = a + 1 /\ row'[m].status = "SENDING" /\ row[m].status = "QUEUED"
  BY DEF ClaimedBy
<1>3. n >= 1
  <2>1. Cardinality({}) <= Cardinality(Workers) - 1
    BY ConstantsAssumption, OneLess
  <2> QED
    BY <1>1, <2>1, FS_EmptySet
<1>4. ASSUME a + 1 >= MaxAttempts
      PROVE  (a + 1) + l <= MaxAttempts + (n - 1)
  <2>1. l <= k
    BY <1>4, RetriersShrink, RetriersFinite, FS_Subset
  <2>2. CASE a > 0
    <3>1. a >= MaxAttempts - 1
      BY <1>1, <1>4
    <3>2. a + k <= MaxAttempts - 1 + (n - 1)
      BY <1>2, <2>2, <3>1 DEF Overrun
    <3> HIDE DEF a, k, l, n
    <3> QED
      BY <1>1, <2>1, <3>2
  <2>3. CASE ~(a > 0)
    <3>1. a = 0 /\ MaxAttempts = 1
      BY <1>1, <1>4, <2>3
    <3>2. w \notin Retriers(m)'
      <4>1. c \in Snapshots /\ c.attempts \in Nat
        BY DEF TypeOK, Snapshots
      <4>2. job'[w].consumed = c.attempts + 1
        BY <4>1, JobConsumed DEF ClaimedBy
      <4>3. \A d \in batch'[w] : d.msg # m
        BY DEF ClaimedBy, ListedOnce
      <4>4. ~(job'[w].consumed < MaxAttempts)
        BY <3>1, <4>1, <4>2
      <4> QED
        BY <4>3, <4>4 DEF Retriers, StillRetries
    <3>3. Retriers(m)' \subseteq Workers
      BY DEF Retriers
    <3>4. l <= n - 1
      BY <3>2, <3>3, ConstantsAssumption, OneLess
    <3> HIDE DEF a, k, l, n
    <3> QED
      BY <1>1, <3>1, <3>4
  <2> QED
    BY <2>2, <2>3
<1>5. a + 1 <= MaxAttempts + (n - 1)
  <2> HIDE DEF a, k, l, n
  <2>1. CASE a + 1 >= MaxAttempts
    BY <1>1, <1>4, <2>1
  <2>2. CASE ~(a + 1 >= MaxAttempts)
    BY <1>1, <1>3, <2>2
  <2> QED
    BY <2>1, <2>2
<1>6. (row'[m].attempts >= MaxAttempts) => (a + 1 >= MaxAttempts)
  BY <1>2
<1> QED
  BY <1>2, <1>4, <1>5 DEF Overrun

LEMMA OverrunGivenBack ==
  ASSUME TypeOK, [Next]_vars, ListedOnce, NEW m \in Messages, Overrun(m),
         NEW w \in Workers, GivenBackBy(m, w)
  PROVE  Overrun(m)'
<1> DEFINE a == row[m].attempts
           k == Cardinality(Retriers(m))
           l == Cardinality(Retriers(m)')
           n == Cardinality(Workers)
<1>1. /\ a \in Nat /\ k \in Nat /\ l \in Nat /\ n \in Nat /\ k <= n
      /\ MaxAttempts \in Nat \ {0}
  BY RetriersFinite, RetriersFinitely, ConstantsAssumption DEF TypeOK, Rows
<1>2. row'[m].attempts = a /\ row'[m].status = "QUEUED" /\ row[m].status = "SENDING"
  BY DEF GivenBackBy
<1>3. a <= MaxAttempts + (n - 1)
  BY DEF Overrun
<1>4. w \in Retriers(m)
  BY DEF GivenBackBy, Retriers, StillRetries
<1>5. w \notin Retriers(m)'
  <2>1. job'[w].msg # m
    BY JobNone, ConstantsAssumption DEF GivenBackBy
  <2>2. \A d \in batch'[w] : d.msg # m
    BY DEF GivenBackBy, ListedOnce, Holds
  <2> QED
    BY <2>1, <2>2 DEF Retriers, StillRetries, Holds
<1>6. Retriers(m)' \subseteq Retriers(m)
  BY <1>2, RetriersShrink
<1>7. l <= k - 1
  BY <1>4, <1>5, <1>6, RetriersFinite, OneLess
<1>8. ASSUME a >= MaxAttempts - 1
      PROVE  a + l <= MaxAttempts - 1 + (n - 1)
  <2>1. CASE a >= MaxAttempts
    <3>1. a + k <= MaxAttempts + (n - 1)
      BY <1>2, <2>1 DEF Overrun
    <3> HIDE DEF a, k, l, n
    <3> QED
      BY <1>1, <1>7, <3>1
  <2>2. CASE ~(a >= MaxAttempts)
    <3> HIDE DEF a, k, l, n
    <3> QED
      BY <1>1, <1>7, <1>8, <2>2
  <2> QED
    BY <2>1, <2>2
<1> QED
  BY <1>2, <1>3, <1>8 DEF Overrun

(* Stale snapshots push the attempt counter past its budget by at most one  *)
(* attempt for every other drain (decideRetry in retry-engine.ts decides on *)
(* the snapshot), with or without cancellations, receipts and requeues.     *)
THEOREM OverrunIsBounded == Spec => []OverrunBounded
<1>1. Init => OverrunInv
  <2> SUFFICES ASSUME Init PROVE OverrunInv
    OBVIOUS
  <2>1. ListedOnce
    BY DEF Init, ListedOnce
  <2>2. ASSUME NEW m \in Messages PROVE Overrun(m)
    <3>1. row[m].attempts = 0 /\ row[m].status = "NONE"
      BY DEF Init, NoRow
    <3>2. Cardinality(Workers) \in Nat /\ MaxAttempts \in Nat \ {0}
      BY RetriersFinite, ConstantsAssumption
    <3> QED
      BY <3>1, <3>2 DEF Overrun
  <2> QED
    BY <2>1, <2>2 DEF OverrunInv
<1>2. TypeOK /\ OverrunInv /\ [Next]_vars => OverrunInv'
  <2> SUFFICES ASSUME TypeOK, OverrunInv, [Next]_vars PROVE OverrunInv'
    OBVIOUS
  <2>1. ListedOnce'
    BY ListedOnceStep DEF OverrunInv
  <2>2. ASSUME NEW m \in Messages PROVE Overrun(m)'
    BY AttemptSteps, OverrunStays, OverrunRestarts, OverrunClaimed, OverrunGivenBack
       DEF AttemptStep, OverrunInv
  <2> QED
    BY <2>1, <2>2 DEF OverrunInv
<1>3. OverrunInv => OverrunBounded
  <2> SUFFICES ASSUME OverrunInv, NEW m \in Messages
               PROVE  row[m].attempts <= MaxAttempts + Cardinality(Workers) - 1
    BY DEF OverrunBounded
  <2>1. row[m].attempts <= MaxAttempts + (Cardinality(Workers) - 1)
    BY DEF OverrunInv, Overrun
  <2>2. Cardinality(Workers) \in Nat /\ MaxAttempts \in Nat
    BY RetriersFinite, ConstantsAssumption
  <2> QED
    BY <2>1, <2>2
<1> QED
  BY <1>1, <1>2, <1>3, TypeCorrect, PTL DEF Spec
=============================================================================
