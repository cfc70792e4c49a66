------------------------------- MODULE Outbox -------------------------------
(***************************************************************************)
(* The transactional outbox: its repository                                *)
(* (modules/async-outbox/outbox.repository.ts) and the polling loop of the *)
(* worker process (scripts/worker.ts), which publishes each committed      *)
(* OutboxEvent as a BullMQ job whose id is the event's.                    *)
(*                                                                         *)
(* An event is identified by (organizationId, idempotencyKey).  The rows   *)
(* that wait for a claim are kept in the order of availableAt: those whose *)
(* time has come (due) and those whose retry delay runs (delayed).         *)
(*                                                                         *)
(* claimNext reads a candidate and then updates it where availableAt <=    *)
(* now, with the now of the read.  Only a retry changes availableAt, to a  *)
(* time after that now, and only after a claim, which counts an attempt:   *)
(* so the row still has availableAt <= now exactly when its attempts are   *)
(* those that were read.  (Clocks of two processes are assumed to differ   *)
(* by less than RETRY_DELAY_MS.)                                           *)
(***************************************************************************)
EXTENDS Integers, Sequences, SequencesExt

CONSTANTS
  Events,      \* the keys a producer may write
  Pollers,     \* worker processes
  NoEvent,     \* the event of a poller that holds none
  MaxFaults,   \* bound: failures of Redis or of markProcessed
  MaxCrashes   \* bound: process deaths, and database errors outside the try

ASSUME ConstantsAssumption ==
  /\ NoEvent \notin Events
  /\ MaxFaults \in Nat
  /\ MaxCrashes \in Nat

VARIABLES
  row,      \* Events -> the OutboxEvent row ("NONE": not created)
  due,      \* the waiting rows whose availableAt has passed, oldest first
  delayed,  \* the waiting rows whose availableAt is still to come
  queued,   \* the events with a job in the queue outbox-dispatch
  poll,     \* Pollers -> the dispatchOnce call in progress
  faults,   \* history: failures so far
  crashes   \* history: crashes so far

vars == <<row, due, delayed, queued, poll, faults, crashes>>

NoRow  == [status |-> "NONE", attempts |-> 0]
NoPoll == [step |-> "idle", event |-> NoEvent, attempts |-> 0]

Init ==
  /\ row = [e \in Events |-> NoRow]
  /\ due = <<>>
  /\ delayed = <<>>
  /\ queued = {}
  /\ poll = [p \in Pollers |-> NoPoll]
  /\ faults = 0
  /\ crashes = 0

Waiting(e) == row[e].status \in {"PENDING", "FAILED"}

-----------------------------------------------------------------------------
(* create, in the producer's transaction: the row is committed with the     *)
(* mutation it describes.  A producer's retry finds the key and changes     *)
(* nothing.                                                                 *)
Create(e) ==
  /\ row[e].status = "NONE"
  /\ row' = [row EXCEPT ![e].status = "PENDING"]
  /\ due' = Append(due, e)
  /\ UNCHANGED <<delayed, queued, poll, faults, crashes>>

(* The clock reaches the next availableAt. *)
DelayElapses ==
  /\ delayed # <<>>
  /\ due' = Append(due, Head(delayed))
  /\ delayed' = Tail(delayed)
  /\ UNCHANGED <<row, queued, poll, faults, crashes>>

-----------------------------------------------------------------------------
(* The poller: dispatchOnce. *)

(* claimNext's findFirst: the oldest due row. *)
FindCandidate(p) ==
  /\ poll[p].step = "idle"
  /\ due # <<>>
  /\ poll' = [poll EXCEPT ![p] = [step |-> "claim", event |-> Head(due),
                                  attempts |-> row[Head(due)].attempts]]
  /\ UNCHANGED <<row, due, delayed, queued, faults, crashes>>

(* Mutants: the update is not guarded by the time, or not by the status. *)
Claimable_Early(e, seen) == Waiting(e)
Claimable_Locked(e, seen) == row[e].attempts = seen \/ row[e].status = "PROCESSING"

Claimable(e, seen) == Waiting(e) /\ row[e].attempts = seen

Claimed(r) == [status |-> "PROCESSING", attempts |-> r.attempts + 1]

(* The row leaves the waiting rows. *)
Unlist(e) ==
  \/ \E i \in 1 .. Len(due) :
       due[i] = e /\ due' = RemoveAt(due, i) /\ UNCHANGED delayed
  \/ \E i \in 1 .. Len(delayed) :
       delayed[i] = e /\ delayed' = RemoveAt(delayed, i) /\ UNCHANGED due
  \/ ~Contains(due, e) /\ ~Contains(delayed, e) /\ UNCHANGED <<due, delayed>>

(* claimNext's guarded updateMany, and the read of the row it now owns.     *)
(* Zero rows matched: dispatchOnce returns false.                           *)
ClaimNext(p) ==
  /\ poll[p].step = "claim"
  /\ LET e == poll[p].event IN
       \/ /\ Claimable(e, poll[p].attempts)
          /\ row' = [row EXCEPT ![e] = Claimed(@)]
          /\ Unlist(e)
          /\ poll' = [poll EXCEPT ![p].step = "enqueue"]
       \/ /\ ~Claimable(e, poll[p].attempts)
          /\ poll' = [poll EXCEPT ![p] = NoPoll]
          /\ UNCHANGED <<row, due, delayed>>
  /\ UNCHANGED <<queued, faults, crashes>>

(* enqueueOutboxDispatch: a second job of the same id coalesces. *)
EnqueueOutboxDispatch(p) ==
  /\ poll[p].step = "enqueue"
  /\ queued' = queued \cup {poll[p].event}
  /\ poll' = [poll EXCEPT ![p].step = "mark"]
  /\ UNCHANGED <<row, due, delayed, faults, crashes>>

Fault ==
  /\ faults < MaxFaults
  /\ faults' = faults + 1
  /\ UNCHANGED crashes

(* Mutant: the catch block is passed over. *)
AfterFailure_Ignored == "mark"

(* Where the catch block goes. *)
AfterFailure == "retry"

(* Redis fails, or its answer is lost after the job was added. *)
EnqueueThrows(p) ==
  /\ poll[p].step = "enqueue"
  /\ queued' \in {queued, queued \cup {poll[p].event}}
  /\ poll' = [poll EXCEPT ![p].step = AfterFailure]
  /\ Fault
  /\ UNCHANGED <<row, due, delayed>>

(* markProcessed, guarded by PROCESSING. *)
MarkProcessed(p) ==
  /\ poll[p].step = "mark"
  /\ row' = [row EXCEPT ![poll[p].event].status =
               IF @ = "PROCESSING" THEN "PROCESSED" ELSE @]
  /\ poll' = [poll EXCEPT ![p] = NoPoll]
  /\ UNCHANGED <<due, delayed, queued, faults, crashes>>

MarkThrows(p) ==
  /\ poll[p].step = "mark"
  /\ poll' = [poll EXCEPT ![p].step = AfterFailure]
  /\ Fault
  /\ UNCHANGED <<row, due, delayed, queued>>

(* Mutant: the failed row keeps its lock. *)
Rescheduled_Locked(r) == r

Rescheduled(r) == [r EXCEPT !.status = "FAILED"]

(* retry, guarded by PROCESSING: availableAt is now + RETRY_DELAY_MS, which *)
(* is later than that of every row listed so far.                           *)
Retry(p) ==
  /\ poll[p].step = "retry"
  /\ LET e == poll[p].event IN
       IF row[e].status = "PROCESSING"
       THEN /\ row' = [row EXCEPT ![e] = Rescheduled(@)]
            /\ delayed' = Append(delayed, e)
       ELSE UNCHANGED <<row, delayed>>
  /\ poll' = [poll EXCEPT ![p] = NoPoll]
  /\ UNCHANGED <<due, queued, faults, crashes>>

(* The process dies and is started again; also when claimNext or retry      *)
(* throws, which ends run().                                                *)
Crash(p) ==
  /\ poll[p].step # "idle"
  /\ crashes < MaxCrashes
  /\ crashes' = crashes + 1
  /\ poll' = [poll EXCEPT ![p] = NoPoll]
  /\ UNCHANGED <<row, due, delayed, queued, faults>>

-----------------------------------------------------------------------------
Proceed(p) ==
  \/ FindCandidate(p)
  \/ ClaimNext(p)
  \/ EnqueueOutboxDispatch(p)
  \/ MarkProcessed(p)
  \/ Retry(p)

Next ==
  \/ \E e \in Events : Create(e)
  \/ DelayElapses
  \/ \E p \in Pollers :
       \/ Proceed(p)
       \/ EnqueueThrows(p)
       \/ MarkThrows(p)
       \/ Crash(p)

Spec == Init /\ [][Next]_vars

(* Fairness: every process keeps polling, once a second when there is       *)
(* nothing to do, and the clock advances.                                   *)
FairSpec ==
  /\ Spec
  /\ WF_vars(DelayElapses)
  /\ \A p \in Pollers : WF_vars(Proceed(p))

-----------------------------------------------------------------------------
(* Properties. *)

RowStatuses == {"NONE", "PENDING", "PROCESSING", "PROCESSED", "FAILED"}
Rows == [status : RowStatuses, attempts : Nat]
Polls == [step : {"idle", "claim", "enqueue", "mark", "retry"},
          event : Events \cup {NoEvent}, attempts : Nat]

Working(p) == poll[p].step \in {"enqueue", "mark", "retry"}

(* Rows, calls and lists have their types, and a call that is not idle      *)
(* holds an event.                                                          *)
TypeOK ==
  /\ row \in [Events -> Rows]
  /\ due \in Seq(Events)
  /\ delayed \in Seq(Events)
  /\ queued \subseteq Events
  /\ poll \in [Pollers -> Polls]
  /\ \A p \in Pollers : poll[p].step # "idle" => poll[p].event \in Events
  /\ faults \in 0 .. MaxFaults
  /\ crashes \in 0 .. MaxCrashes

(* An event is claimed "exactly once and locked before dispatch"            *)
(* (tests/transactional-outbox.test.ts): two processes never dispatch the   *)
(* same row, however stale the candidate one of them read.                  *)
SingleDispatcher ==
  \A p, q \in Pollers :
    Working(p) /\ Working(q) /\ poll[p].event = poll[q].event => p = q

(* A row is stamped PROCESSED only when its job is in the queue, whatever   *)
(* answer was lost and whichever attempt added the job.                     *)
ProcessedIsQueued ==
  \A e \in Events : row[e].status = "PROCESSED" => e \in queued

(* Every attempt after the first is paid for by a failure: races between    *)
(* processes never use up an event's attempts.                              *)
AttemptsExplained == \A e \in Events : row[e].attempts <= 1 + faults

(* A claim never cuts a retry delay short, although the read and the update *)
(* are two statements and another process may reschedule the row between.   *)
ClaimsOnlyDue ==
  [][\A e \in Events :
       row[e].status # "PROCESSING" /\ row'[e].status = "PROCESSING"
         => Contains(due, e)]_vars

(* The inductive invariant. *)

(* A dispatched row is locked, and its job is queued when the stamp is due. *)
PollsHold ==
  \A p \in Pollers :
    Working(p) =>
      /\ row[poll[p].event].status = "PROCESSING"
      /\ poll[p].step = "mark" => poll[p].event \in queued

(* What a candidate's attempts say about it: unless another claim counted   *)
(* one more, the row still waits, and is due.                               *)
CandidatesKnow ==
  \A p \in Pollers :
    poll[p].step = "claim" =>
      LET e == poll[p].event IN
        /\ poll[p].attempts <= row[e].attempts
        /\ row[e].attempts = poll[p].attempts =>
             Waiting(e) /\ Contains(due, e)

(* Only rows that wait are listed, and each of them once. *)
ListedWait ==
  /\ \A i \in 1 .. Len(due) : Waiting(due[i])
  /\ \A i \in 1 .. Len(delayed) : Waiting(delayed[i])
  /\ IsInjective(due)
  /\ IsInjective(delayed)
  /\ \A i \in 1 .. Len(due), j \in 1 .. Len(delayed) : due[i] # delayed[j]

(* The attempts of a row that may be claimed again were all answered by a   *)
(* failure.                                                                 *)
AttemptsPaid ==
  \A e \in Events :
    /\ row[e].status = "NONE" => row[e].attempts = 0
    /\ Waiting(e) => row[e].attempts <= faults
    /\ row[e].attempts <= 1 + faults
    /\ \A p \in Pollers : poll[p].step = "retry" /\ poll[p].event = e
         => row[e].attempts <= faults

IInv ==
  /\ TypeOK
  /\ SingleDispatcher
  /\ ProcessedIsQueued
  /\ PollsHold
  /\ CandidatesKnow
  /\ ListedWait
  /\ AttemptsPaid

(* A process died, and no dispatchOnce call will settle the claim any more. *)
Stranded(e) ==
  /\ crashes > 0
  /\ row[e].status = "PROCESSING"
  /\ \A p \in Pollers : ~(Working(p) /\ poll[p].event = e)

(* The worker "claims durable tenant-scoped OutboxEvent rows and publishes  *)
(* idempotent BullMQ jobs" (README.md): whatever fails, is retried or races *)
(* with another process, a waiting event gets its job, and an event is left *)
(* without one only where a process died with the claim in its hands.       *)
EventIsPublished ==
  \A e \in Events : Waiting(e) ~> e \in queued \/ Stranded(e)

=============================================================================
