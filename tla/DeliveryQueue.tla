---------------------------- MODULE DeliveryQueue ----------------------------
(***************************************************************************)
(* The delivery queue of one organization and one channel: the dispatcher  *)
(* (modules/delivery/queue/dispatcher.ts), its repository and retry        *)
(* engine, and the Meta webhook receipts that race with it.                *)
(*                                                                         *)
(* A worker is one call of processQueue (any manager may start one).  It   *)
(* lists the due QUEUED rows once, then claims, sends and settles them one *)
(* by one; every database statement and every provider call is a step of   *)
(* its own, because other workers and webhook handlers run between them.   *)
(* A handler is one webhook request processing one status event: it writes *)
(* the audit key, reads the row by provider id, then updates it.           *)
(*                                                                         *)
(* A row of the table is identified by its idempotency key (tenant,        *)
(* executionId, channel, recipientId): a member of Messages.  Time is      *)
(* abstracted to whether nextAttemptAt has arrived (due).  Timestamps,     *)
(* payloads and error texts are left out.                                  *)
(***************************************************************************)
EXTENDS DeliveryStatus, FiniteSets

CONSTANTS
  Messages,       \* the idempotency keys that may be dispatched
  Workers,        \* concurrent processQueue calls
  Handlers,       \* concurrent webhook requests
  Kinds,          \* the receipt kinds the provider sends in this instance
  NoMessage,      \* the message of a worker that holds none
  NoId,           \* the provider id of a row that has none
  MaxAttempts,    \* DELIVERY_MAX_ATTEMPTS
  MaxPosts,       \* POSTs of one MetaGraphClient request (maxRetries + 1)
  DrainLimit,     \* processQueue's limit option
  CancelExposed,  \* whether a caller uses dispatcher.cancelMessage
  MaxAccepts,     \* bound: provider messages accepted per row
  MaxRequeues,    \* bound: admin requeues per row
  MaxFaults,      \* bound: accepted sends per row whose id is lost
  MaxCrashes      \* bound: worker and handler crashes in a behaviour

AllKinds == {"sent", "delivered", "read", "failed"}

Ids == Messages \X (1 .. MaxAccepts)

ASSUME ConstantsAssumption ==
  /\ IsFiniteSet(Workers)
  /\ MaxAttempts \in Nat \ {0}
  /\ MaxPosts \in Nat \ {0}
  /\ DrainLimit \in Nat \ {0}
  /\ MaxAccepts \in Nat
  /\ MaxRequeues \in Nat
  /\ MaxFaults \in Nat
  /\ MaxCrashes \in Nat
  /\ CancelExposed \in BOOLEAN
  /\ Kinds \subseteq AllKinds
  /\ NoMessage \notin Messages
  /\ NoId \notin Ids

VARIABLES
  row,        \* Messages -> the DeliveryMessage row ("NONE": not created)
  pc,         \* Workers  -> the statement the worker is about to run
  batch,      \* Workers  -> the snapshots it listed and has not reached yet
  job,        \* Workers  -> the claimed message it is sending
  connected,  \* whether the channel has a CONNECTED account
  accepted,   \* Messages -> how many POSTs the provider accepted
  fate,       \* Ids      -> what became of an accepted provider message
  audit,      \* the webhook events whose audit key is written
  hook,       \* Handlers -> the receipt a webhook request is applying
  requeues,   \* history: Messages -> effective admin requeues
  faults,     \* history: Messages -> accepted sends whose id was lost
  crashes     \* history: crashes so far

worker   == <<pc, batch, job>>
provider == <<accepted, fate>>
webhook  == <<audit, hook>>
history  == <<requeues, faults, crashes>>
vars     == <<row, worker, connected, provider, webhook, history>>

NoRow  == [status |-> "NONE", attempts |-> 0, due |-> TRUE, pid |-> NoId]
NoJob  == [msg |-> NoMessage, consumed |-> 0, posts |-> 0, id |-> NoId,
           retryable |-> FALSE]
NoHook == [step |-> "idle", id |-> NoId, kind |-> "sent", seen |-> "NONE"]

Init ==
  /\ row = [m \in Messages |-> NoRow]
  /\ pc = [w \in Workers |-> "idle"]
  /\ batch = [w \in Workers |-> {}]
  /\ job = [w \in Workers |-> NoJob]
  /\ connected = TRUE
  /\ accepted = [m \in Messages |-> 0]
  /\ fate = [i \in Ids |-> "none"]
  /\ audit = {}
  /\ hook = [h \in Handlers |-> NoHook]
  /\ requeues = [m \in Messages |-> 0]
  /\ faults = [m \in Messages |-> 0]
  /\ crashes = 0

-----------------------------------------------------------------------------
(* The data of the repository's updates: what each writes into a row. *)

Created == [NoRow EXCEPT !.status = "QUEUED"]

(* Mutant: the claim does not count the attempt. *)
Claimed_Uncounted(r) == [r EXCEPT !.status = "SENDING"]

Claimed(r) == [r EXCEPT !.status = "SENDING", !.attempts = @ + 1]

Sent(r, i) == [r EXCEPT !.status = "SENT", !.pid = i, !.due = TRUE]

(* Mutant: the status is not given back. *)
Rescheduled_Stuck(r) == [r EXCEPT !.due = FALSE]

Rescheduled(r) == [r EXCEPT !.status = "QUEUED", !.due = FALSE]

Failed(r) == [r EXCEPT !.status = "FAILED", !.due = TRUE]
Requeued(r) == [r EXCEPT !.status = "QUEUED", !.attempts = 0, !.due = TRUE]
Cancelled(r) == [r EXCEPT !.status = "CANCELLED", !.due = TRUE]
Received(r, s) == [r EXCEPT !.status = s]

-----------------------------------------------------------------------------
(* Intake and administration. *)

(* dispatchExecution: the first dispatch of a key creates a QUEUED row; a   *)
(* replay, or the loser of a create race, returns the existing row and      *)
(* writes nothing.                                                          *)
DispatchExecution(m) ==
  /\ row[m].status = "NONE"
  /\ row' = [row EXCEPT ![m] = Created]
  /\ UNCHANGED <<worker, connected, provider, webhook, history>>

(* Mutant: the status filter of the update also takes sent rows. *)
Requeueable_Sent(s) == s \in {"SENT", "FAILED", "CANCELLED"}

Requeueable(s) == s \in {"FAILED", "CANCELLED"}

(* requeueMessage: the guarded updateMany decides; the earlier read and     *)
(* assert can only refuse.  attempts restarts, providerMessageId stays.     *)
RequeueMessage(m) ==
  /\ Requeueable(row[m].status)
  /\ requeues[m] < MaxRequeues
  /\ row' = [row EXCEPT ![m] = Requeued(@)]
  /\ requeues' = [requeues EXCEPT ![m] = @ + 1]
  /\ UNCHANGED <<worker, connected, provider, webhook, faults, crashes>>

(* cancelMessage: the update is guarded by the status just read, which the  *)
(* assert restricts to the statuses with an edge to CANCELLED.              *)
CancelMessage(m) ==
  /\ CancelExposed
  /\ CanTransition(row[m].status, "CANCELLED")
  /\ row' = [row EXCEPT ![m] = Cancelled(@)]
  /\ UNCHANGED <<worker, connected, provider, webhook, history>>

ConnectAccount ==
  /\ ~connected
  /\ connected' = TRUE
  /\ UNCHANGED <<row, worker, provider, webhook, history>>

DisconnectAccount ==
  /\ connected
  /\ connected' = FALSE
  /\ UNCHANGED <<row, worker, provider, webhook, history>>

(* The clock reaches nextAttemptAt. *)
BackoffElapses(m) ==
  /\ ~row[m].due
  /\ row' = [row EXCEPT ![m] = [@ EXCEPT !.due = TRUE]]
  /\ UNCHANGED <<worker, connected, provider, webhook, history>>

-----------------------------------------------------------------------------
(* The worker: processQueue. *)

Candidates == {m \in Messages : row[m].status = "QUEUED" /\ row[m].due}

Snapshot(m) == [msg |-> m, attempts |-> row[m].attempts]

(* listDispatchCandidates: one read for the whole drain. *)
StartDrain(w) ==
  /\ pc[w] = "idle"
  /\ \E S \in SUBSET Candidates :
       /\ S # {}
       /\ Cardinality(S) <= DrainLimit
       /\ S = Candidates \/ Cardinality(S) = DrainLimit
       /\ batch' = [batch EXCEPT ![w] = {Snapshot(m) : m \in S}]
  /\ pc' = [pc EXCEPT ![w] = "claim"]
  /\ UNCHANGED <<row, job, connected, provider, webhook, history>>

(* The for loop goes on to the next snapshot, or processQueue returns. *)
Advance(w, rest) ==
  /\ pc' = [pc EXCEPT ![w] = IF rest = {} THEN "idle" ELSE "claim"]
  /\ job' = [job EXCEPT ![w] = NoJob]

(* The claimed candidate; attemptsConsumed is computed from its snapshot. *)
Taken(c) == [NoJob EXCEPT !.msg = c.msg, !.consumed = c.attempts + 1]

(* Mutant: the claim updates by id alone. *)
Claimable_ById(s) == s # "NONE"

Claimable(s) == s = "QUEUED"

(* claimMessageForSending matches a QUEUED row, whether or not it is due. *)
ClaimMessage(w) ==
  /\ pc[w] = "claim"
  /\ \E c \in batch[w] :
       /\ batch' = [batch EXCEPT ![w] = @ \ {c}]
       /\ \/ /\ Claimable(row[c.msg].status)
             /\ row' = [row EXCEPT ![c.msg] = Claimed(@)]
             /\ job' = [job EXCEPT ![w] = Taken(c)]
             /\ pc' = [pc EXCEPT ![w] = "resolve"]
          \/ /\ ~Claimable(row[c.msg].status)
             /\ Advance(w, batch[w] \ {c})
             /\ UNCHANGED row
  /\ UNCHANGED <<connected, provider, webhook, history>>

(* An exception reaches processQueue's catch block. *)
Raise(w, retryable) ==
  /\ pc' = [pc EXCEPT ![w] = "settle"]
  /\ job' = [job EXCEPT ![w] = [@ EXCEPT !.retryable = retryable]]

(* findActiveAccount, then decryption and payload checks in memory.  A      *)
(* missing account is retryable; a bad ciphertext or payload is not.        *)
ResolveAccount(w) ==
  /\ pc[w] = "resolve"
  /\ \/ /\ connected
        /\ pc' = [pc EXCEPT ![w] = "post"]
        /\ UNCHANGED job
     \/ connected /\ Raise(w, FALSE)
     \/ ~connected /\ Raise(w, TRUE)
  /\ UNCHANGED <<row, batch, connected, provider, webhook, history>>

NextId(m) == <<m, accepted[m] + 1>>

(* The provider takes the message over. *)
Accept(m) ==
  /\ accepted[m] < MaxAccepts
  /\ accepted' = [accepted EXCEPT ![m] = @ + 1]
  /\ fate' = [fate EXCEPT ![NextId(m)] = "accepted"]

LoseId(m) ==
  /\ faults[m] < MaxFaults
  /\ faults' = [faults EXCEPT ![m] = @ + 1]
  /\ UNCHANGED <<requeues, crashes>>

Reposted(j) == [j EXCEPT !.posts = @ + 1]

(* MetaGraphClient.request after a retryable failure: POST again, or give   *)
(* up with a retryable error once its own retries are used.                 *)
RepostOrRaise(w) ==
  \/ /\ job[w].posts + 1 < MaxPosts
     /\ job' = [job EXCEPT ![w] = Reposted(@)]
     /\ UNCHANGED pc
  \/ job[w].posts + 1 >= MaxPosts /\ Raise(w, TRUE)

PostAccepted(w) ==
  /\ pc[w] = "post"
  /\ Accept(job[w].msg)
  /\ job' = [job EXCEPT ![w] = [@ EXCEPT !.id = NextId(job[w].msg)]]
  /\ pc' = [pc EXCEPT ![w] = "save"]
  /\ UNCHANGED <<row, batch, connected, webhook, history>>

(* Accepted, but the connection fails before the answer is read. *)
PostUnanswered(w) ==
  /\ pc[w] = "post"
  /\ Accept(job[w].msg)
  /\ LoseId(job[w].msg)
  /\ RepostOrRaise(w)
  /\ UNCHANGED <<row, batch, connected, webhook>>

(* Accepted, but the answer has no message id (retryable 502) or is not     *)
(* JSON (not retryable for a 2xx answer).                                   *)
PostUnusable(w) ==
  /\ pc[w] = "post"
  /\ Accept(job[w].msg)
  /\ LoseId(job[w].msg)
  /\ \E retryable \in BOOLEAN : Raise(w, retryable)
  /\ UNCHANGED <<row, batch, connected, webhook>>

(* Not accepted: an unreachable provider, 408/429/5xx, or a permanent 4xx. *)
PostRefused(w) ==
  /\ pc[w] = "post"
  /\ RepostOrRaise(w) \/ Raise(w, FALSE)
  /\ UNCHANGED <<row, batch, connected, provider, webhook, history>>

(* markSent: guarded by SENDING, its row count is ignored. *)
MarkSent(w) ==
  /\ pc[w] = "save"
  /\ LET m == job[w].msg IN
       row' = IF row[m].status = "SENDING"
              THEN [row EXCEPT ![m] = Sent(@, job[w].id)]
              ELSE row
  /\ Advance(w, batch[w])
  /\ UNCHANGED <<batch, connected, provider, webhook, history>>

(* markSent throws: the catch block treats it as a permanent send failure. *)
MarkSentThrows(w) ==
  /\ pc[w] = "save"
  /\ LoseId(job[w].msg)
  /\ Raise(w, FALSE)
  /\ UNCHANGED <<row, batch, connected, provider, webhook>>

(* Mutant: the budget is off by one. *)
WillRetry_OffByOne(j) == j.retryable /\ j.consumed <= MaxAttempts

(* decideRetry on the consumed attempts of the snapshot. *)
WillRetry(j) == j.retryable /\ j.consumed < MaxAttempts

(* scheduleRetry or markFailed, both guarded by SENDING alone. *)
SettleFailure(w) ==
  /\ pc[w] = "settle"
  /\ LET m == job[w].msg IN
       row' = IF row[m].status # "SENDING" THEN row
              ELSE IF WillRetry(job[w])
              THEN [row EXCEPT ![m] = Rescheduled(@)]
              ELSE [row EXCEPT ![m] = Failed(@)]
  /\ Advance(w, batch[w])
  /\ UNCHANGED <<batch, connected, provider, webhook, history>>

(* The process dies, or a database statement outside the try throws: the    *)
(* drain stops where it is and the row keeps what was committed.            *)
WorkerCrash(w) ==
  /\ pc[w] # "idle"
  /\ crashes < MaxCrashes
  /\ crashes' = crashes + 1
  /\ pc' = [pc EXCEPT ![w] = "idle"]
  /\ batch' = [batch EXCEPT ![w] = {}]
  /\ job' = [job EXCEPT ![w] = NoJob]
  /\ UNCHANGED <<row, connected, provider, webhook, requeues, faults>>

-----------------------------------------------------------------------------
(* The provider and its webhook events (external). *)

(* An accepted message is delivered and then read, or it fails. *)
ProviderProgress(i) ==
  /\ \/ fate[i] = "accepted" /\ "delivered" \in Kinds
        /\ fate' = [fate EXCEPT ![i] = "delivered"]
     \/ fate[i] = "delivered" /\ "read" \in Kinds
        /\ fate' = [fate EXCEPT ![i] = "read"]
     \/ fate[i] = "accepted" /\ "failed" \in Kinds
        /\ fate' = [fate EXCEPT ![i] = "failed"]
  /\ UNCHANGED <<row, worker, connected, accepted, webhook, history>>

(* The events the provider has sent, and may send again, for message i. *)
Emitted(i) ==
  Kinds \cap (IF fate[i] = "none" THEN {}
              ELSE IF fate[i] = "accepted" THEN {"sent"}
              ELSE IF fate[i] = "delivered" THEN {"sent", "delivered"}
              ELSE IF fate[i] = "read" THEN {"sent", "delivered", "read"}
              ELSE {"sent", "failed"})

-----------------------------------------------------------------------------
(* The webhook handler of one status event. *)

Target(kind) ==
  CASE kind = "sent"      -> "SENT"
    [] kind = "delivered" -> "DELIVERED"
    [] kind = "read"      -> "READ"
    [] kind = "failed"    -> "FAILED"

Recorded(i, k) == [NoHook EXCEPT !.step = "find", !.id = i, !.kind = k]

(* writeAuditLog: the unique key makes a redelivery a duplicate (no step)   *)
(* before anything is applied.                                              *)
RecordReceipt(h) ==
  /\ hook[h].step = "idle"
  /\ \E i \in Ids : \E k \in Emitted(i) :
       /\ <<i, k>> \notin audit
       /\ audit' = audit \cup {<<i, k>>}
       /\ hook' = [hook EXCEPT ![h] = Recorded(i, k)]
  /\ UNCHANGED <<row, worker, connected, provider, history>>

(* Whether the receipt may move a row that has status s. *)
Moves(s, kind) ==
  IF kind = "failed" THEN s \in {"QUEUED", "SENDING", "SENT"}
                     ELSE IsForwardProgress(s, Target(kind))

(* Mutant: the lookup ignores the provider id. *)
Stores_AnyId(r, i) == TRUE

Stores(r, i) == r.pid = i

Checked(k, s) == [k EXCEPT !.step = "apply", !.seen = s]

(* findByProviderMessageId and the check on the status it read.  An id is   *)
(* stored by the row it was sent for only, so its first part names the row. *)
FindMessage(h) ==
  /\ hook[h].step = "find"
  /\ LET r == row[hook[h].id[1]] IN
       hook' = [hook EXCEPT ![h] =
                  IF Stores(r, hook[h].id) /\ Moves(r.status, hook[h].kind)
                  THEN Checked(@, r.status)
                  ELSE NoHook]
  /\ UNCHANGED <<row, worker, connected, provider, audit, history>>

(* Mutant: the update is not guarded by the status that was read. *)
StillAt_Unguarded(r, seen) == TRUE

StillAt(r, seen) == r.status = seen

(* The update is guarded by the status that was read, and by nothing else. *)
ApplyReceipt(h) ==
  /\ hook[h].step = "apply"
  /\ LET m == hook[h].id[1] IN
       row' = IF ~StillAt(row[m], hook[h].seen) THEN row
              ELSE IF hook[h].kind = "failed"
              THEN [row EXCEPT ![m] = Failed(@)]
              ELSE [row EXCEPT ![m] = Received(@, Target(hook[h].kind))]
  /\ hook' = [hook EXCEPT ![h] = NoHook]
  /\ UNCHANGED <<worker, connected, provider, audit, history>>

(* The request dies after its audit key is committed. *)
HandlerCrash(h) ==
  /\ hook[h].step # "idle"
  /\ crashes < MaxCrashes
  /\ crashes' = crashes + 1
  /\ hook' = [hook EXCEPT ![h] = NoHook]
  /\ UNCHANGED <<row, worker, connected, provider, audit, requeues, faults>>

-----------------------------------------------------------------------------
WorkerStep(w) ==
  \/ ClaimMessage(w) \/ ResolveAccount(w)
  \/ PostAccepted(w) \/ PostUnanswered(w) \/ PostUnusable(w) \/ PostRefused(w)
  \/ MarkSent(w) \/ MarkSentThrows(w) \/ SettleFailure(w)

HandlerStep(h) == FindMessage(h) \/ ApplyReceipt(h)

Next ==
  \/ \E m \in Messages : \/ DispatchExecution(m) \/ RequeueMessage(m)
                         \/ CancelMessage(m) \/ BackoffElapses(m)
  \/ ConnectAccount \/ DisconnectAccount
  \/ \E w \in Workers : StartDrain(w) \/ WorkerStep(w) \/ WorkerCrash(w)
  \/ \E i \in Ids : ProviderProgress(i)
  \/ \E h \in Handlers : RecordReceipt(h) \/ HandlerStep(h) \/ HandlerCrash(h)

Spec == Init /\ [][Next]_vars

(* What the deployment provides: a running drain or request goes on until   *)
(* it ends, the clock advances, and managers keep starting drains (there    *)
(* is no scheduler for this queue: app/dashboard/delivery/actions.ts).      *)
Fairness ==
  /\ \A w \in Workers : WF_vars(WorkerStep(w)) /\ WF_vars(StartDrain(w))
  /\ \A h \in Handlers : WF_vars(HandlerStep(h))
  /\ \A m \in Messages : WF_vars(BackoffElapses(m))

FairSpec == Spec /\ Fairness

-----------------------------------------------------------------------------
(* Properties. *)

Rows == [status : Statuses \cup {"NONE"}, attempts : Nat, due : BOOLEAN,
         pid : Ids \cup {NoId}]

Snapshots == [msg : Messages, attempts : Nat]

Jobs == [msg : Messages \cup {NoMessage}, consumed : Nat, posts : Nat,
         id : Ids \cup {NoId}, retryable : BOOLEAN]

Hooks == [step : {"idle", "find", "apply"}, id : Ids \cup {NoId},
          kind : AllKinds, seen : Statuses \cup {"NONE"}]

TypeOK ==
  /\ row \in [Messages -> Rows]
  /\ pc \in [Workers -> {"idle", "claim", "resolve", "post", "save", "settle"}]
  /\ batch \in [Workers -> SUBSET Snapshots]
  /\ job \in [Workers -> Jobs]
  /\ \A w \in Workers : job[w].msg \in Messages <=> pc[w] \notin {"idle", "claim"}
  /\ connected \in BOOLEAN
  /\ accepted \in [Messages -> 0 .. MaxAccepts]
  /\ fate \in [Ids -> {"none", "accepted", "delivered", "read", "failed"}]
  /\ audit \subseteq Ids \X Kinds
  /\ hook \in [Handlers -> Hooks]
  /\ \A h \in Handlers : hook[h].step # "idle" => hook[h].id \in Ids
  /\ requeues \in [Messages -> 0 .. MaxRequeues]
  /\ faults \in [Messages -> 0 .. MaxFaults]
  /\ crashes \in 0 .. MaxCrashes

Holds(w, m) == job[w].msg = m

(* "SENDING is acquired with a guarded updateMany, so two workers can never *)
(* send the same row concurrently" (dispatcher.ts): no two drains are       *)
(* between the claim and the settlement of one message.                     *)
SingleClaim ==
  \A m \in Messages : \A v, w \in Workers : Holds(v, m) /\ Holds(w, m) => v = w

(* "re-dispatch of one execution never duplicates a provider send": a row   *)
(* is accepted twice by the provider only for a cause an operator can name, *)
(* an admin requeue or the lost id of an accepted send.                     *)
SendsAccounted ==
  \A m \in Messages : accepted[m] <= 1 + requeues[m] + faults[m]

(* The attempt counter can pass its budget (a drain decides the retry on    *)
(* its stale snapshot), but by no more than one attempt for every other     *)
(* drain running at the same time.                                          *)
OverrunBounded ==
  \A m \in Messages : row[m].attempts <= MaxAttempts + Cardinality(Workers) - 1

(* A message shown as delivered or read is one the provider reported so,    *)
(* for the very provider message whose id the row keeps.                    *)
ReceiptsTruthful ==
  \A m \in Messages :
    /\ row[m].status = "DELIVERED" =>
         row[m].pid \in Ids /\ fate[row[m].pid] \in {"delivered", "read"}
    /\ row[m].status = "READ" => row[m].pid \in Ids /\ fate[row[m].pid] = "read"

(* Whatever webhooks, drains and administrators do concurrently, a message  *)
(* that reached DELIVERED only moves on to READ, and READ is final, with    *)
(* the provider id it had.                                                  *)
DeliveredIsStable ==
  [][\A m \in Messages :
       /\ row[m].status = "DELIVERED" =>
            row'[m].status \in {"DELIVERED", "READ"} /\ row'[m].pid = row[m].pid
       /\ row[m].status = "READ" =>
            row'[m].status = "READ" /\ row'[m].pid = row[m].pid]_vars

(* The inductive invariant, for a queue whose messages are never cancelled. *)

NeitherDraftNorCancelled ==
  \A m \in Messages : row[m].status \notin {"DRAFT", "CANCELLED"}

(* The provider message a row still names has failed, and no webhook        *)
(* request can fail the row on its account any more.                        *)
Dead(m) ==
  /\ row[m].pid \in Ids
  /\ fate[row[m].pid] = "failed"
  /\ <<row[m].pid, "failed">> \in audit
  /\ \A h \in Handlers :
       hook[h].step # "idle" /\ hook[h].id = row[m].pid => hook[h].kind # "failed"

(* A claimed row is SENDING, or a stale receipt took it out of the worker's *)
(* hands and it stays SENT.                                                 *)
ClaimedRows ==
  \A m \in Messages, w \in Workers :
    Holds(w, m) => \/ row[m].status = "SENDING"
                   \/ row[m].status = "SENT" /\ Dead(m)

(* A row only leaves SENT for the queue again because its provider message  *)
(* failed.                                                                  *)
OldIdsAreDead ==
  \A m \in Messages :
    /\ row[m].pid \in Ids => row[m].pid[1] = m
    /\ row[m].status \in {"QUEUED", "SENDING", "FAILED"} /\ row[m].pid \in Ids
         => Dead(m)
    /\ row[m].status \in {"SENT", "DELIVERED", "READ"} => row[m].pid \in Ids
    /\ row[m].status = "NONE" => row[m].pid = NoId

(* What a webhook request knows about the row it is about to update. *)
HooksKnow ==
  \A h \in Handlers :
    LET i == hook[h].id
        k == hook[h].kind
        m == i[1]
    IN hook[h].step # "idle" =>
         /\ k \in Emitted(i)
         /\ <<i, k>> \in audit
         /\ hook[h].step = "apply" =>
              /\ row[m].pid \in Ids
              /\ k = "sent" => hook[h].seen \in {"DRAFT", "QUEUED", "SENDING"}
              /\ k # "sent" => /\ row[m].pid = i
                              /\ row[m].status \in {"SENT", "DELIVERED", "READ"}
                              /\ hook[h].seen \in {"SENT", "DELIVERED"}
              /\ k = "failed" => hook[h].seen = "SENT"
              /\ k = "delivered" => hook[h].seen = "SENT"

(* An event is recorded once, so one request at most carries it. *)
HooksDiffer ==
  \A g, h \in Handlers :
    /\ hook[g].step # "idle" /\ hook[h].step # "idle"
    /\ hook[g].id = hook[h].id /\ hook[g].kind = hook[h].kind
    => g = h

(* Provider ids are fresh, and a worker saves an id of the message it sent. *)
IdsAreFresh ==
  /\ \A i \in Ids : i[2] > accepted[i[1]] => fate[i] = "none"
  /\ \A w \in Workers :
       pc[w] = "save" => job[w].id \in Ids /\ job[w].id[1] = job[w].msg

(* Whether a hand-over of m that was answered is yet to be accounted for. *)
Owed(m) ==
  \/ row[m].status \in {"NONE", "QUEUED"}
  \/ \E w \in Workers : Holds(w, m) /\ pc[w] \in {"resolve", "post", "settle"}

SendsBalance ==
  \A m \in Messages :
    accepted[m] <= requeues[m] + faults[m] + (IF Owed(m) THEN 0 ELSE 1)

IInv ==
  /\ TypeOK
  /\ NeitherDraftNorCancelled
  /\ SingleClaim
  /\ ClaimedRows
  /\ OldIdsAreDead
  /\ HooksKnow
  /\ HooksDiffer
  /\ IdsAreFresh
  /\ ReceiptsTruthful
  /\ SendsBalance

Promise == INSTANCE DeliveryPromise
             WITH status <- [m \in Messages |-> row[m].status],
                  sends <- accepted,
                  allowance <- [m \in Messages |->
                                  requeues[m] + faults[m]
                                  + (IF row[m].status = "NONE" THEN 0 ELSE 1)]

(* The queue implements DeliveryPromise: status writes follow the map but   *)
(* for one stale edge (so a provider failure never fails a QUEUED row,      *)
(* although applyProviderFailure lists QUEUED), and no interleaving hands a *)
(* message over more often than dispatches, requeues and lost ids allow.    *)
KeepsPromise == Promise!Spec

InTransit(m) == row[m].status \in {"QUEUED", "SENDING"}

(* A drain died, and no other will settle the claim any more. *)
Stranded(m) ==
  /\ crashes > 0
  /\ row[m].status = "SENDING" /\ \A w \in Workers : ~Holds(w, m)

(* A dispatched message leaves the queue: its attempts are bounded and each *)
(* one ends, so it is sent, failed or cancelled, unless a drain died with   *)
(* it in its hands.                                                         *)
SettlesOrStrands ==
  \A m \in Messages : InTransit(m) ~> ~InTransit(m) \/ Stranded(m)
=============================================================================
