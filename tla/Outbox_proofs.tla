--------------------------- MODULE Outbox_proofs ---------------------------
(***************************************************************************)
(* TLAPS proofs about Outbox, for every set of events and of worker        *)
(* processes, and every bound on failures and crashes.                     *)
(***************************************************************************)
EXTENDS Outbox, TLAPS

-----------------------------------------------------------------------------
(* The two lists. *)

LEMMA Appended ==
  ASSUME NEW S, NEW s \in Seq(S), NEW x \in S
  PROVE  /\ Append(s, x) \in Seq(S)
         /\ Len(Append(s, x)) = Len(s) + 1
         /\ \A i \in 1 .. Len(s) : Append(s, x)[i] = s[i]
         /\ Append(s, x)[Len(s) + 1] = x
OBVIOUS

LEMMA Tailed ==
  ASSUME NEW S, NEW s \in Seq(S), s # <<>>
  PROVE  /\ Head(s) \in S /\ Head(s) = s[1] /\ Len(s) >= 1
         /\ Tail(s) \in Seq(S)
         /\ Len(Tail(s)) = Len(s) - 1
         /\ \A i \in 1 .. Len(s) - 1 : Tail(s)[i] = s[i + 1]
OBVIOUS

LEMMA Joined ==
  ASSUME NEW S, NEW s \in Seq(S), NEW t \in Seq(S)
  PROVE  /\ s \o t \in Seq(S)
         /\ Len(s \o t) = Len(s) + Len(t)
         /\ \A i \in 1 .. Len(s) + Len(t) :
              (s \o t)[i] = IF i <= Len(s) THEN s[i] ELSE t[i - Len(s)]
OBVIOUS

LEMMA Removed ==
  ASSUME NEW S, NEW s \in Seq(S), NEW i \in 1 .. Len(s)
  PROVE  /\ RemoveAt(s, i) \in Seq(S)
         /\ Len(RemoveAt(s, i)) = Len(s) - 1
         /\ \A k \in 1 .. Len(s) - 1 :
              RemoveAt(s, i)[k] = IF k < i THEN s[k] ELSE s[k + 1]
<1> DEFINE a == SubSeq(s, 1, i - 1)
           b == SubSeq(s, i + 1, Len(s))
<1>1. a \in Seq(S) /\ Len(a) = i - 1 /\ \A k \in 1 .. i - 1 : a[k] = s[k]
  OBVIOUS
<1>2. /\ b \in Seq(S) /\ Len(b) = Len(s) - i
      /\ \A k \in 1 .. Len(s) - i : b[k] = s[k + i]
  OBVIOUS
<1>3. RemoveAt(s, i) = a \o b
  BY DEF RemoveAt
<1> HIDE DEF a, b
<1>4. a \o b \in Seq(S) /\ Len(a \o b) = Len(s) - 1
  <2>1. a \o b \in Seq(S) /\ Len(a \o b) = Len(a) + Len(b)
    BY <1>1, <1>2, Joined
  <2> QED
    BY <1>1, <1>2, <2>1
<1>5. ASSUME NEW k \in 1 .. Len(s) - 1
      PROVE  (a \o b)[k] = IF k < i THEN s[k] ELSE s[k + 1]
  <2>1. (a \o b)[k] = IF k <= Len(a) THEN a[k] ELSE b[k - Len(a)]
    <3>1. k \in 1 .. Len(a) + Len(b)
      BY <1>1, <1>2
    <3> QED
      BY <1>1, <1>2, <3>1, Joined
  <2>2. CASE k < i
    <3>1. k <= Len(a) /\ k \in 1 .. i - 1
      BY <1>1, <2>2
    <3> QED
      BY <1>1, <2>1, <2>2, <3>1
  <2>3. CASE k >= i
    <3>1. k - Len(a) = k - i + 1 /\ k - i + 1 \in 1 .. Len(s) - i
      BY <1>1, <2>3
    <3>2. b[k - i + 1] = s[k - i + 1 + i]
      BY <1>2, <3>1
    <3>3. k - i + 1 + i = k + 1 /\ ~(k <= Len(a))
      BY <1>1, <2>3
    <3> QED
      BY <2>1, <2>3, <3>1, <3>2, <3>3
  <2>4. k < i \/ k >= i
    OBVIOUS
  <2> QED
    BY <2>2, <2>3, <2>4
<1> QED
  BY <1>3, <1>4, <1>5

(* An injective list from which an element is removed keeps the others. *)
LEMMA RemovedOnce ==
  ASSUME NEW S, NEW s \in Seq(S), IsInjective(s), NEW i \in 1 .. Len(s)
  PROVE  /\ IsInjective(RemoveAt(s, i))
         /\ \A k \in 1 .. Len(RemoveAt(s, i)) :
              /\ RemoveAt(s, i)[k] # s[i]
              /\ \E j \in 1 .. Len(s) : RemoveAt(s, i)[k] = s[j]
         /\ \A e : e # s[i] /\ Contains(s, e) => Contains(RemoveAt(s, i), e)
<1> DEFINE t == RemoveAt(s, i)
           at(k) == IF k < i THEN k ELSE k + 1
<1>1. t \in Seq(S) /\ Len(t) = Len(s) - 1
  BY Removed
<1>2. ASSUME NEW k \in 1 .. Len(t)
      PROVE  at(k) \in 1 .. Len(s) /\ at(k) # i /\ t[k] = s[at(k)]
  <2>1. t[k] = IF k < i THEN s[k] ELSE s[k + 1]
    BY <1>1, Removed
  <2>2. i \in Nat /\ k \in Nat /\ k <= Len(s) - 1 /\ Len(s) \in Nat
    BY <1>1
  <2> QED
    BY <2>1, <2>2
<1>3. ASSUME NEW j \in 1 .. Len(t), NEW k \in 1 .. Len(t), at(j) = at(k)
      PROVE  j = k
  <2>1. j \in Nat /\ k \in Nat /\ i \in Nat
    BY <1>1
  <2> QED
    BY <1>3, <2>1
<1>4. \A j, k \in 1 .. Len(s) : s[j] = s[k] => j = k
  BY DEF IsInjective
<1>5. ASSUME NEW e, e # s[i], Contains(s, e)
      PROVE  Contains(t, e)
  <2>1. PICK j \in 1 .. Len(s) : s[j] = e
    BY <1>5 DEF Contains
  <2>2. j # i
    BY <1>5, <2>1
  <2>3. \E k \in 1 .. Len(t) : at(k) = j
    <3>1. CASE j < i
      BY <1>1, <3>1
    <3>2. CASE j > i
      <4>1. j - 1 \in 1 .. Len(t) /\ at(j - 1) = j
        BY <1>1, <3>2
      <4> QED
        BY <4>1
    <3> QED
      BY <2>2, <3>1, <3>2
  <2> QED
    BY <1>2, <2>1, <2>3 DEF Contains
<1> HIDE DEF at, t
<1>6. IsInjective(t)
  <2> SUFFICES ASSUME NEW j \in 1 .. Len(t), NEW k \in 1 .. Len(t), t[j] = t[k]
               PROVE  j = k
    BY <1>1 DEF IsInjective
  <2>1. /\ at(j) \in 1 .. Len(s) /\ t[j] = s[at(j)]
        /\ at(k) \in 1 .. Len(s) /\ t[k] = s[at(k)]
    BY <1>2
  <2>2. at(j) = at(k)
    BY <1>4, <2>1
  <2> QED
    BY <1>3, <2>2
<1>7. \A k \in 1 .. Len(t) : t[k] # s[i] /\ \E j \in 1 .. Len(s) : t[k] = s[j]
  BY <1>2, <1>4
<1> QED
  BY <1>5, <1>6, <1>7 DEF t

-----------------------------------------------------------------------------
(* The parts of the invariant. *)

LEMMA InitInv == Init => IInv
<1> SUFFICES ASSUME Init
             PROVE  IInv
  OBVIOUS
<1>1. TypeOK
  BY ConstantsAssumption
     DEF Init, TypeOK, Rows, RowStatuses, Polls, NoRow, NoPoll, ConstantsAssumption
<1>2. SingleDispatcher /\ PollsHold /\ CandidatesKnow
  BY DEF Init, SingleDispatcher, PollsHold, CandidatesKnow, Working, NoPoll
<1>3. ProcessedIsQueued /\ AttemptsPaid
  BY ConstantsAssumption
     DEF Init, ProcessedIsQueued, AttemptsPaid, Waiting, NoRow, NoPoll
<1>4. ListedWait
  BY DEF Init, ListedWait, IsInjective
<1> QED
  BY <1>1, <1>2, <1>3, <1>4 DEF IInv

Steps == {"idle", "claim", "enqueue", "mark", "retry"}

LEMMA StepUpdates ==
  ASSUME NEW r \in Polls, NEW s \in Steps
  PROVE  /\ [r EXCEPT !.step = s] \in Polls
         /\ [r EXCEPT !.step = s].step = s
         /\ [r EXCEPT !.step = s].event = r.event
         /\ [r EXCEPT !.step = s].attempts = r.attempts
BY DEF Polls, Steps

(* What a call's move to another of its steps leaves alone. *)
LEMMA Moved ==
  ASSUME poll \in [Pollers -> Polls], NEW p \in Pollers, NEW s \in Steps,
         poll' = [poll EXCEPT ![p].step = s]
  PROVE  /\ poll' \in [Pollers -> Polls]
         /\ poll'[p].step = s
         /\ poll'[p].event = poll[p].event
         /\ \A q \in Pollers : q # p => poll'[q] = poll[q]
<1>1. poll' = [poll EXCEPT ![p] = [poll[p] EXCEPT !.step = s]]
  OBVIOUS
<1> QED
  BY <1>1, StepUpdates

LEMMA TypeStep == TypeOK /\ [Next]_vars => TypeOK'
<1> SUFFICES ASSUME TypeOK, [Next]_vars
             PROVE  TypeOK'
  OBVIOUS
<1>1. NoPoll \in Polls /\ NoPoll.step = "idle"
  BY DEF NoPoll, Polls
<1>2. ASSUME NEW e \in Events, Create(e)
      PROVE  TypeOK'
  <2>1. due' \in Seq(Events) /\ delayed' \in Seq(Events)
    BY <1>2, Appended DEF TypeOK, Create
  <2>2. row' \in [Events -> Rows]
    BY <1>2 DEF TypeOK, Create, Rows, RowStatuses
  <2> QED
    BY <1>2, <2>1, <2>2 DEF TypeOK, Create
<1>3. CASE DelayElapses
  BY <1>3, Appended, Tailed DEF TypeOK, DelayElapses
<1>4. ASSUME NEW p \in Pollers, FindCandidate(p)
      PROVE  TypeOK'
  <2>1. Head(due) \in Events /\ row[Head(due)].attempts \in Nat
    BY <1>4, Tailed DEF TypeOK, FindCandidate, Rows
  <2> QED
    BY <1>4, <2>1 DEF TypeOK, FindCandidate, Polls
<1>5. ASSUME NEW p \in Pollers, ClaimNext(p)
      PROVE  TypeOK'
  <2> DEFINE e == poll[p].event
  <2>1. e \in Events /\ row[e] \in Rows
    BY <1>5 DEF TypeOK, ClaimNext
  <2>2. CASE Claimable(e, poll[p].attempts)
    <3>1. Claimed(row[e]) \in Rows
      BY <2>1 DEF Claimed, Rows, RowStatuses
    <3>2. row' \in [Events -> Rows]
      BY <1>5, <2>1, <2>2, <3>1 DEF TypeOK, ClaimNext
    <3>3. due' \in Seq(Events) /\ delayed' \in Seq(Events)
      <4>1. Unlist(e)
        BY <1>5, <2>2 DEF ClaimNext
      <4>2. /\ due \in Seq(Events) /\ delayed \in Seq(Events)
            /\ \A i \in 1 .. Len(due) : RemoveAt(due, i) \in Seq(Events)
            /\ \A i \in 1 .. Len(delayed) : RemoveAt(delayed, i) \in Seq(Events)
        BY Removed DEF TypeOK
      <4> QED
        BY <4>1, <4>2 DEF Unlist
    <3>4. /\ poll' \in [Pollers -> Polls]
          /\ \A q \in Pollers : poll'[q].step # "idle" => poll'[q].event \in Events
      <4>1. poll' = [poll EXCEPT ![p].step = "enqueue"] /\ "enqueue" \in Steps
        BY <1>5, <2>2 DEF ClaimNext, Steps
      <4> QED
        BY <2>1, <4>1, Moved DEF TypeOK
    <3> QED
      BY <1>5, <3>2, <3>3, <3>4 DEF TypeOK, ClaimNext
  <2>3. CASE ~Claimable(e, poll[p].attempts)
    BY <1>1, <1>5, <2>3 DEF TypeOK, ClaimNext
  <2> QED
    BY <2>2, <2>3
<1>6. ASSUME NEW p \in Pollers,
             \/ EnqueueOutboxDispatch(p) \/ EnqueueThrows(p) \/ MarkThrows(p)
      PROVE  TypeOK'
  <2>1. PICK s \in Steps : poll' = [poll EXCEPT ![p].step = s]
    BY <1>6 DEF EnqueueOutboxDispatch, EnqueueThrows, MarkThrows, AfterFailure, Steps
  <2>2. poll[p].event \in Events
    BY <1>6 DEF TypeOK, EnqueueOutboxDispatch, EnqueueThrows, MarkThrows
  <2>3. /\ poll' \in [Pollers -> Polls]
        /\ \A q \in Pollers : poll'[q].step # "idle" => poll'[q].event \in Events
    BY <2>1, <2>2, Moved DEF TypeOK
  <2>4. faults' \in 0 .. MaxFaults
    BY <1>6, ConstantsAssumption
       DEF TypeOK, EnqueueOutboxDispatch, EnqueueThrows, MarkThrows, Fault,
           ConstantsAssumption
  <2> QED
    BY <1>6, <2>2, <2>3, <2>4
       DEF TypeOK, EnqueueOutboxDispatch, EnqueueThrows, MarkThrows, Fault
<1>7. ASSUME NEW p \in Pollers, MarkProcessed(p)
      PROVE  TypeOK'
  BY <1>1, <1>7 DEF TypeOK, MarkProcessed, Rows, RowStatuses
<1>8. ASSUME NEW p \in Pollers, Retry(p)
      PROVE  TypeOK'
  <2>1. poll[p].event \in Events /\ row[poll[p].event] \in Rows
    BY <1>8 DEF TypeOK, Retry
  <2>2. Rescheduled(row[poll[p].event]) \in Rows
    BY <2>1 DEF Rescheduled, Rows, RowStatuses
  <2>3. row' \in [Events -> Rows] /\ delayed' \in Seq(Events)
    <3>1. Append(delayed, poll[p].event) \in Seq(Events)
      BY <2>1, Appended DEF TypeOK
    <3> QED
      BY <1>8, <2>1, <2>2, <3>1 DEF TypeOK, Retry
  <2> QED
    BY <1>1, <1>8, <2>3 DEF TypeOK, Retry
<1>9. ASSUME NEW p \in Pollers, Crash(p)
      PROVE  TypeOK'
  BY <1>1, <1>9, ConstantsAssumption DEF TypeOK, Crash, ConstantsAssumption
<1>10. CASE UNCHANGED vars
  BY <1>10 DEF vars, TypeOK
<1> QED
  BY <1>2, <1>3, <1>4, <1>5, <1>6, <1>7, <1>8, <1>9, <1>10 DEF Next, Proceed

-----------------------------------------------------------------------------
(* What each step does to the rows, the lists and the calls. *)

LEMMA CreateFacts ==
  ASSUME IInv, NEW e \in Events, Create(e)
  PROVE  /\ row[e].status = "NONE" /\ row'[e].status = "PENDING"
         /\ row'[e].attempts = row[e].attempts
         /\ \A f \in Events : f # e => row'[f] = row[f]
BY DEF IInv, TypeOK, Rows, Create

LEMMA ClaimFacts ==
  ASSUME IInv, NEW p \in Pollers, ClaimNext(p), NEW e \in Events,
         e = poll[p].event, Claimable(e, poll[p].attempts)
  PROVE  /\ Waiting(e) /\ row[e].attempts = poll[p].attempts
         /\ row'[e].status = "PROCESSING"
         /\ row'[e].attempts = row[e].attempts + 1
         /\ \A f \in Events : f # e => row'[f] = row[f]
         /\ \E i \in 1 .. Len(due) : due[i] = e /\ due' = RemoveAt(due, i)
         /\ delayed' = delayed
         /\ poll'[p].step = "enqueue" /\ poll'[p].event = e
         /\ \A q \in Pollers : q # p => poll'[q] = poll[q]
<1>1. Waiting(e) /\ row[e].attempts = poll[p].attempts /\ row[e] \in Rows
  BY DEF Claimable, IInv, TypeOK
<1>2. row' = [row EXCEPT ![e] = Claimed(@)] /\ Unlist(e)
  BY DEF ClaimNext
<1>3. row'[e] = Claimed(row[e]) /\ \A f \in Events : f # e => row'[f] = row[f]
  BY <1>2 DEF IInv, TypeOK
<1>4. Contains(due, e)
  BY <1>1 DEF IInv, CandidatesKnow, ClaimNext
<1>5. PICK i \in 1 .. Len(due) : due[i] = e
  BY <1>4 DEF Contains
<1>6. \A j \in 1 .. Len(delayed) : delayed[j] # e
  BY <1>5 DEF IInv, ListedWait
<1>7. /\ \E j \in 1 .. Len(due) : due[j] = e /\ due' = RemoveAt(due, j)
      /\ delayed' = delayed
  BY <1>2, <1>4, <1>6 DEF Unlist
<1>8. poll' = [poll EXCEPT ![p].step = "enqueue"] /\ "enqueue" \in Steps
  BY DEF ClaimNext, Steps
<1>9. /\ poll'[p].step = "enqueue" /\ poll'[p].event = e
      /\ \A q \in Pollers : q # p => poll'[q] = poll[q]
  BY <1>8, Moved DEF IInv, TypeOK
<1> QED
  BY <1>1, <1>3, <1>7, <1>9 DEF Claimed

LEMMA RetryFacts ==
  ASSUME IInv, NEW p \in Pollers, Retry(p), NEW e \in Events, e = poll[p].event
  PROVE  /\ row[e].status = "PROCESSING"
         /\ row'[e].status = "FAILED"
         /\ row'[e].attempts = row[e].attempts
         /\ \A f \in Events : f # e => row'[f] = row[f]
         /\ due' = due
         /\ delayed' = Append(delayed, e)
         /\ poll' = [poll EXCEPT ![p] = NoPoll]
<1>1. row[e].status = "PROCESSING" /\ row[e] \in Rows
  BY DEF IInv, TypeOK, PollsHold, Working, Retry
<1>2. row' = [row EXCEPT ![e] = Rescheduled(@)] /\ delayed' = Append(delayed, e)
  BY <1>1 DEF Retry
<1>3. row'[e] = Rescheduled(row[e]) /\ \A f \in Events : f # e => row'[f] = row[f]
  BY <1>2 DEF IInv, TypeOK
<1>4. row'[e].status = "FAILED" /\ row'[e].attempts = row[e].attempts
  BY <1>1, <1>3 DEF Rescheduled, Rows
<1> QED
  BY <1>1, <1>2, <1>3, <1>4 DEF Retry

LEMMA MarkFacts ==
  ASSUME IInv, NEW p \in Pollers, MarkProcessed(p), NEW e \in Events, e = poll[p].event
  PROVE  /\ row[e].status = "PROCESSING" /\ e \in queued
         /\ row'[e].status = "PROCESSED"
         /\ row'[e].attempts = row[e].attempts
         /\ \A f \in Events : f # e => row'[f] = row[f]
         /\ poll' = [poll EXCEPT ![p] = NoPoll]
<1>1. row[e].status = "PROCESSING" /\ e \in queued /\ row[e] \in Rows
  BY DEF IInv, TypeOK, PollsHold, Working, MarkProcessed
<1>2. row' = [row EXCEPT ![e] = [row[e] EXCEPT !.status = "PROCESSED"]]
  BY <1>1 DEF MarkProcessed
<1>3. /\ row'[e] = [row[e] EXCEPT !.status = "PROCESSED"]
      /\ \A f \in Events : f # e => row'[f] = row[f]
  BY <1>2 DEF IInv, TypeOK
<1>4. row'[e].status = "PROCESSED" /\ row'[e].attempts = row[e].attempts
  BY <1>1, <1>3 DEF Rows
<1> QED
  BY <1>1, <1>3, <1>4 DEF MarkProcessed

(* The steps of the dispatch that change no row. *)
Dispatching(p) == EnqueueOutboxDispatch(p) \/ EnqueueThrows(p) \/ MarkThrows(p)

LEMMA DispatchFacts ==
  ASSUME IInv, NEW p \in Pollers, Dispatching(p)
  PROVE  /\ Working(p)
         /\ poll'[p].event = poll[p].event
         /\ poll'[p].step \in {"mark", "retry"}
         /\ poll'[p].step = "mark" => poll[p].event \in queued' /\ faults' = faults
         /\ poll'[p].step = "retry" => faults' = faults + 1
         /\ \A q \in Pollers : q # p => poll'[q] = poll[q]
         /\ queued \subseteq queued'
         /\ UNCHANGED <<row, due, delayed>>
<1>1. CASE EnqueueOutboxDispatch(p)
  <2>1. poll' = [poll EXCEPT ![p].step = "mark"] /\ "mark" \in Steps
    BY <1>1 DEF EnqueueOutboxDispatch, Steps
  <2>2. /\ poll'[p].step = "mark" /\ poll'[p].event = poll[p].event
        /\ \A q \in Pollers : q # p => poll'[q] = poll[q]
    BY <2>1, Moved DEF IInv, TypeOK
  <2> QED
    BY <1>1, <2>2 DEF EnqueueOutboxDispatch, Working
<1>2. CASE EnqueueThrows(p) \/ MarkThrows(p)
  <2>1. poll' = [poll EXCEPT ![p].step = "retry"] /\ "retry" \in Steps
    BY <1>2 DEF EnqueueThrows, MarkThrows, AfterFailure, Steps
  <2>2. /\ poll'[p].step = "retry" /\ poll'[p].event = poll[p].event
        /\ \A q \in Pollers : q # p => poll'[q] = poll[q]
    BY <2>1, Moved DEF IInv, TypeOK
  <2> QED
    BY <1>2, <2>2 DEF EnqueueThrows, MarkThrows, Fault, Working
<1> QED
  BY <1>1, <1>2 DEF Dispatching

LEMMA Released ==
  ASSUME IInv, NEW p \in Pollers, poll' = [poll EXCEPT ![p] = NoPoll]
  PROVE  /\ poll'[p].step = "idle"
         /\ \A q \in Pollers : q # p => poll'[q] = poll[q]
BY DEF IInv, TypeOK, NoPoll

LEMMA FindFacts ==
  ASSUME IInv, NEW p \in Pollers, FindCandidate(p)
  PROVE  /\ poll'[p].step = "claim"
         /\ poll'[p].event = due[1] /\ due[1] \in Events
         /\ poll'[p].attempts = row[due[1]].attempts
         /\ Waiting(due[1]) /\ Contains(due, due[1])
         /\ \A q \in Pollers : q # p => poll'[q] = poll[q]
         /\ UNCHANGED <<row, due, delayed, queued, faults>>
<1>1. due \in Seq(Events) /\ due # <<>>
  BY DEF IInv, TypeOK, FindCandidate
<1>2. Head(due) = due[1] /\ due[1] \in Events /\ 1 \in 1 .. Len(due)
  BY <1>1, Tailed
<1>3. Waiting(due[1]) /\ Contains(due, due[1])
  BY <1>2 DEF IInv, ListedWait, Contains
<1> QED
  BY <1>2, <1>3 DEF IInv, TypeOK, FindCandidate

(* One call's failed claim, or its crash. *)
GivesUp(p) ==
  \/ ClaimNext(p) /\ ~Claimable(poll[p].event, poll[p].attempts)
  \/ Crash(p)

LEMMA GivesUpFacts ==
  ASSUME NEW p \in Pollers, GivesUp(p)
  PROVE  /\ poll' = [poll EXCEPT ![p] = NoPoll]
         /\ UNCHANGED <<row, due, delayed, queued, faults>>
BY DEF GivesUp, ClaimNext, Crash

(* The steps of Next as the proofs below tell them apart. *)
LEMMA Cases ==
  ASSUME IInv, [Next]_vars
  PROVE  \/ \E e \in Events : Create(e)
         \/ DelayElapses
         \/ \E p \in Pollers :
              \/ FindCandidate(p)
              \/ /\ ClaimNext(p)
                 /\ Claimable(poll[p].event, poll[p].attempts)
                 /\ poll[p].event \in Events
              \/ Dispatching(p)
              \/ MarkProcessed(p) /\ poll[p].event \in Events
              \/ Retry(p) /\ poll[p].event \in Events
              \/ GivesUp(p)
         \/ UNCHANGED vars
<1>1. \A p \in Pollers : poll[p].step # "idle" => poll[p].event \in Events
  BY DEF IInv, TypeOK
<1>2. \A p \in Pollers : ClaimNext(p) \/ MarkProcessed(p) \/ Retry(p)
        => poll[p].event \in Events
  BY <1>1 DEF ClaimNext, MarkProcessed, Retry
<1> QED
  BY <1>2 DEF Next, Proceed, Dispatching, GivesUp

-----------------------------------------------------------------------------
(* Each part is preserved. *)

(* No call works on a row that another call works on, or that still waits. *)
LEMMA WorkingLocks ==
  ASSUME IInv, NEW p \in Pollers, Working(p)
  PROVE  row[poll[p].event].status = "PROCESSING"
BY DEF IInv, PollsHold

LEMMA SingleStep == IInv /\ [Next]_vars => SingleDispatcher'
<1> SUFFICES ASSUME IInv, [Next]_vars
             PROVE  SingleDispatcher'
  OBVIOUS
<1>1. SingleDispatcher
  BY DEF IInv
<1>2. ASSUME NEW p \in Pollers,
             ~Working(p)',
             \A q \in Pollers : q # p => poll'[q] = poll[q]
      PROVE  SingleDispatcher'
  BY <1>1, <1>2 DEF SingleDispatcher, Working
<1>3. CASE poll' = poll
  BY <1>1, <1>3 DEF SingleDispatcher, Working
<1>4. ASSUME NEW p \in Pollers, ClaimNext(p), poll[p].event \in Events,
             Claimable(poll[p].event, poll[p].attempts)
      PROVE  SingleDispatcher'
  <2>1. /\ Waiting(poll[p].event) /\ poll'[p].event = poll[p].event
        /\ \A q \in Pollers : q # p => poll'[q] = poll[q]
    BY <1>4, ClaimFacts
  <2>2. \A q \in Pollers : Working(q) => poll[q].event # poll[p].event
    BY <2>1, WorkingLocks DEF Waiting
  <2> QED
    BY <1>1, <2>1, <2>2 DEF SingleDispatcher, Working
<1>5. ASSUME NEW p \in Pollers, Dispatching(p)
      PROVE  SingleDispatcher'
  BY <1>1, <1>5, DispatchFacts DEF SingleDispatcher, Working
<1>6. ASSUME NEW p \in Pollers, FindCandidate(p)
      PROVE  SingleDispatcher'
  BY <1>2, <1>6, FindFacts DEF Working
<1>7. ASSUME NEW p \in Pollers, poll' = [poll EXCEPT ![p] = NoPoll]
      PROVE  SingleDispatcher'
  BY <1>2, <1>7, Released DEF Working
<1>8. CASE (\E e \in Events : Create(e)) \/ DelayElapses \/ UNCHANGED vars
  BY <1>3, <1>8 DEF Create, DelayElapses, vars
<1> QED
  BY <1>4, <1>5, <1>6, <1>7, <1>8, Cases, MarkFacts, RetryFacts, GivesUpFacts

LEMMA QueuedStep == IInv /\ [Next]_vars => ProcessedIsQueued' /\ PollsHold'
<1> SUFFICES ASSUME IInv, [Next]_vars
             PROVE  ProcessedIsQueued' /\ PollsHold'
  OBVIOUS
<1>1. ProcessedIsQueued /\ PollsHold
  BY DEF IInv
<1>2. \A q \in Pollers : Working(q) => poll[q].event \in Events
  BY DEF IInv, TypeOK, Working
<1>3. ASSUME NEW e \in Events, Create(e)
      PROVE  ProcessedIsQueued' /\ PollsHold'
  <2>1. queued' = queued /\ poll' = poll
    BY <1>3 DEF Create
  <2>2. \A q \in Pollers : Working(q) => poll[q].event # e
    BY <1>3, CreateFacts, WorkingLocks
  <2> QED
    BY <1>1, <1>2, <1>3, <2>1, <2>2, CreateFacts
       DEF ProcessedIsQueued, PollsHold, Working
<1>4. ASSUME NEW p \in Pollers, ~Working(p)',
             \A q \in Pollers : q # p => poll'[q] = poll[q],
             row' = row, queued' = queued
      PROVE  ProcessedIsQueued' /\ PollsHold'
  BY <1>1, <1>4 DEF ProcessedIsQueued, PollsHold, Working
<1>5. ASSUME NEW p \in Pollers, FindCandidate(p)
      PROVE  ProcessedIsQueued' /\ PollsHold'
  BY <1>4, <1>5, FindFacts DEF Working
<1>6. ASSUME NEW p \in Pollers, GivesUp(p)
      PROVE  ProcessedIsQueued' /\ PollsHold'
  BY <1>4, <1>6, GivesUpFacts, Released DEF Working
<1>7. ASSUME NEW p \in Pollers, ClaimNext(p), poll[p].event \in Events,
             Claimable(poll[p].event, poll[p].attempts)
      PROVE  ProcessedIsQueued' /\ PollsHold'
  <2> DEFINE e == poll[p].event
  <2>1. /\ Waiting(e) /\ row'[e].status = "PROCESSING"
        /\ \A f \in Events : f # e => row'[f] = row[f]
        /\ poll'[p].step = "enqueue" /\ poll'[p].event = e
        /\ \A q \in Pollers : q # p => poll'[q] = poll[q]
    BY <1>7, ClaimFacts
  <2>2. queued' = queued
    BY <1>7 DEF ClaimNext
  <2> HIDE DEF e
  <2> QED
    BY <1>1, <1>2, <2>1, <2>2 DEF ProcessedIsQueued, PollsHold, Working
<1>8. ASSUME NEW p \in Pollers, Dispatching(p)
      PROVE  ProcessedIsQueued' /\ PollsHold'
  BY <1>1, <1>8, DispatchFacts DEF ProcessedIsQueued, PollsHold, Working
<1>9. ASSUME NEW p \in Pollers, MarkProcessed(p) \/ Retry(p), poll[p].event \in Events
      PROVE  ProcessedIsQueued' /\ PollsHold'
  <2> DEFINE e == poll[p].event
  <2>1. /\ \/ row'[e].status = "PROCESSED" /\ e \in queued
           \/ row'[e].status = "FAILED"
        /\ \A f \in Events : f # e => row'[f] = row[f]
        /\ poll' = [poll EXCEPT ![p] = NoPoll]
    BY <1>9, MarkFacts, RetryFacts
  <2>2. queued' = queued /\ Working(p)
    BY <1>9 DEF MarkProcessed, Retry, Working
  <2>3. \A q \in Pollers : q # p /\ Working(q) => poll[q].event # e
    BY <2>2 DEF IInv, SingleDispatcher
  <2>4. poll'[p].step = "idle" /\ \A q \in Pollers : q # p => poll'[q] = poll[q]
    BY <2>1, Released
  <2> HIDE DEF e
  <2> QED
    BY <1>1, <1>2, <2>1, <2>2, <2>3, <2>4 DEF ProcessedIsQueued, PollsHold, Working
<1>10. CASE DelayElapses \/ UNCHANGED vars
  BY <1>1, <1>10 DEF DelayElapses, vars, ProcessedIsQueued, PollsHold, Working
<1> QED
  BY <1>3, <1>5, <1>6, <1>7, <1>8, <1>9, <1>10, Cases

LEMMA AttemptsStep == IInv /\ [Next]_vars => AttemptsPaid'
<1> SUFFICES ASSUME IInv, [Next]_vars
             PROVE  AttemptsPaid'
  OBVIOUS
<1>1. AttemptsPaid
  BY DEF IInv
<1>2. /\ faults \in Nat
      /\ \A e \in Events : row[e].attempts \in Nat
      /\ \A q \in Pollers : Working(q) => poll[q].event \in Events
  BY ConstantsAssumption DEF IInv, TypeOK, Rows, Working, ConstantsAssumption
<1>3. ASSUME NEW e \in Events, Create(e)
      PROVE  AttemptsPaid'
  <2>1. poll' = poll /\ faults' = faults
    BY <1>3 DEF Create
  <2> QED
    BY <1>1, <1>2, <1>3, <2>1, CreateFacts DEF AttemptsPaid, Waiting
<1>4. ASSUME NEW p \in Pollers, FindCandidate(p) \/ GivesUp(p)
      PROVE  AttemptsPaid'
  <2>1. /\ poll'[p].step # "retry"
        /\ \A q \in Pollers : q # p => poll'[q] = poll[q]
        /\ row' = row /\ faults' = faults
    BY <1>4, FindFacts, GivesUpFacts, Released
  <2> QED
    BY <1>1, <2>1 DEF AttemptsPaid, Waiting
<1>5. ASSUME NEW p \in Pollers, ClaimNext(p), poll[p].event \in Events,
             Claimable(poll[p].event, poll[p].attempts)
      PROVE  AttemptsPaid'
  <2> DEFINE e == poll[p].event
  <2>1. /\ Waiting(e) /\ row'[e].status = "PROCESSING"
        /\ row'[e].attempts = row[e].attempts + 1
        /\ \A f \in Events : f # e => row'[f] = row[f]
        /\ poll'[p].step = "enqueue" /\ poll'[p].event = e
        /\ \A q \in Pollers : q # p => poll'[q] = poll[q]
    BY <1>5, ClaimFacts
  <2>2. faults' = faults
    BY <1>5 DEF ClaimNext
  <2>3. \A q \in Pollers : poll[q].step = "retry" => poll[q].event # e
    BY <2>1, WorkingLocks DEF Working, Waiting
  <2> HIDE DEF e
  <2>4. row'[e].attempts <= 1 + faults
    BY <1>1, <1>2, <1>5, <2>1 DEF AttemptsPaid, e
  <2> QED
    BY <1>1, <2>1, <2>2, <2>3, <2>4 DEF AttemptsPaid, Waiting
<1>6. ASSUME NEW p \in Pollers, Dispatching(p)
      PROVE  AttemptsPaid'
  <2> DEFINE e == poll[p].event
  <2>1. /\ Working(p) /\ e \in Events
        /\ poll'[p].event = e /\ poll'[p].step \in {"mark", "retry"}
        /\ poll'[p].step = "mark" => faults' = faults
        /\ poll'[p].step = "retry" => faults' = faults + 1
        /\ \A q \in Pollers : q # p => poll'[q] = poll[q]
        /\ row' = row
    BY <1>2, <1>6, DispatchFacts
  <2> HIDE DEF e
  <2>2. CASE poll'[p].step = "mark"
    BY <1>1, <2>1, <2>2 DEF AttemptsPaid, Waiting
  <2>3. CASE poll'[p].step = "retry"
    <3>1. ASSUME NEW f \in Events
          PROVE  /\ row[f].attempts <= faults + 1
                 /\ row[f].attempts <= faults => row[f].attempts <= faults + 1
                 /\ row[f].attempts <= 1 + (faults + 1)
      BY <1>1, <1>2 DEF AttemptsPaid
    <3> QED
      BY <1>1, <2>1, <2>3, <3>1 DEF AttemptsPaid, Waiting
  <2> QED
    BY <2>1, <2>2, <2>3
<1>7. ASSUME NEW p \in Pollers, MarkProcessed(p) \/ Retry(p), poll[p].event \in Events
      PROVE  AttemptsPaid'
  <2> DEFINE e == poll[p].event
  <2>1. /\ \/ row'[e].status = "PROCESSED"
           \/ poll[p].step = "retry" /\ row'[e].status = "FAILED"
        /\ row'[e].attempts = row[e].attempts
        /\ \A f \in Events : f # e => row'[f] = row[f]
        /\ poll' = [poll EXCEPT ![p] = NoPoll]
    BY <1>7, MarkFacts, RetryFacts DEF Retry
  <2>2. faults' = faults
    BY <1>7 DEF MarkProcessed, Retry
  <2>3. poll'[p].step = "idle" /\ \A q \in Pollers : q # p => poll'[q] = poll[q]
    BY <2>1, Released
  <2> HIDE DEF e
  <2>4. poll[p].step = "retry" => row[e].attempts <= faults
    BY <1>1, <1>7 DEF AttemptsPaid, e
  <2> QED
    BY <1>1, <2>1, <2>2, <2>3, <2>4 DEF AttemptsPaid, Waiting
<1>8. CASE DelayElapses \/ UNCHANGED vars
  BY <1>1, <1>8 DEF DelayElapses, vars, AttemptsPaid, Waiting
<1> QED
  BY <1>3, <1>4, <1>5, <1>6, <1>7, <1>8, Cases

(* A row keeps its place among the due rows until it is claimed. *)
LEMMA CandidatesStep == IInv /\ [Next]_vars => CandidatesKnow'
<1> SUFFICES ASSUME IInv, [Next]_vars
             PROVE  CandidatesKnow'
  OBVIOUS
<1>1. CandidatesKnow
  BY DEF IInv
<1>2. /\ \A e \in Events : row[e].attempts \in Nat
      /\ \A q \in Pollers : poll[q].attempts \in Nat
      /\ \A q \in Pollers : poll[q].step = "claim" => poll[q].event \in Events
      /\ due \in Seq(Events) /\ delayed \in Seq(Events)
  BY DEF IInv, TypeOK, Rows, Polls
<1>3. ASSUME NEW e \in Events, Create(e)
      PROVE  CandidatesKnow'
  <2>1. poll' = poll /\ due' = Append(due, e)
    BY <1>3 DEF Create
  <2>2. \A f : Contains(due, f) => Contains(due', f)
    BY <1>2, <2>1, Appended DEF Contains
  <2> QED
    BY <1>1, <1>2, <1>3, <2>1, <2>2, CreateFacts DEF CandidatesKnow, Waiting
<1>4. CASE DelayElapses
  <2>1. due' = Append(due, Head(delayed)) /\ Head(delayed) \in Events
    BY <1>2, <1>4, Tailed DEF DelayElapses
  <2>2. \A f : Contains(due, f) => Contains(due', f)
    BY <1>2, <2>1, Appended DEF Contains
  <2> QED
    BY <1>1, <1>4, <2>2 DEF CandidatesKnow, Waiting, DelayElapses
<1>5. ASSUME NEW p \in Pollers, FindCandidate(p)
      PROVE  CandidatesKnow'
  BY <1>1, <1>2, <1>5, FindFacts DEF CandidatesKnow, Waiting
<1>6. ASSUME NEW p \in Pollers, poll'[p].step # "claim",
             \A q \in Pollers : q # p => poll'[q] = poll[q],
             row' = row, due' = due
      PROVE  CandidatesKnow'
  BY <1>1, <1>6 DEF CandidatesKnow, Waiting
<1>7. ASSUME NEW p \in Pollers, GivesUp(p)
      PROVE  CandidatesKnow'
  BY <1>6, <1>7, GivesUpFacts, Released
<1>8. ASSUME NEW p \in Pollers, Dispatching(p)
      PROVE  CandidatesKnow'
  BY <1>6, <1>8, DispatchFacts
<1>9. ASSUME NEW p \in Pollers, ClaimNext(p), poll[p].event \in Events,
             Claimable(poll[p].event, poll[p].attempts)
      PROVE  CandidatesKnow'
  <2> DEFINE e == poll[p].event
  <2>1. /\ row'[e].attempts = row[e].attempts + 1
        /\ \A f \in Events : f # e => row'[f] = row[f]
        /\ \E i \in 1 .. Len(due) : due[i] = e /\ due' = RemoveAt(due, i)
        /\ poll'[p].step = "enqueue"
        /\ \A q \in Pollers : q # p => poll'[q] = poll[q]
    BY <1>9, ClaimFacts
  <2> HIDE DEF e
  <2>2. \A f : f # e /\ Contains(due, f) => Contains(due', f)
    BY <1>2, <2>1, RemovedOnce DEF IInv, ListedWait
  <2> SUFFICES ASSUME NEW q \in Pollers, q # p, poll[q].step = "claim",
                      NEW f \in Events, f = poll[q].event
               PROVE  /\ poll[q].attempts <= row'[f].attempts
                      /\ row'[f].attempts = poll[q].attempts =>
                           Waiting(f)' /\ Contains(due', f)
    BY <1>2, <2>1 DEF CandidatesKnow
  <2>3. /\ poll[q].attempts <= row[f].attempts
        /\ row[f].attempts = poll[q].attempts => Waiting(f) /\ Contains(due, f)
    BY <1>1 DEF CandidatesKnow
  <2>4. CASE f = e
    BY <1>2, <2>1, <2>3, <2>4
  <2>5. CASE f # e
    BY <2>1, <2>2, <2>3, <2>5 DEF Waiting
  <2> QED
    BY <2>4, <2>5
<1>10. ASSUME NEW p \in Pollers, MarkProcessed(p) \/ Retry(p), poll[p].event \in Events
      PROVE  CandidatesKnow'
  <2> DEFINE e == poll[p].event
  <2>1. /\ row[e].status = "PROCESSING"
        /\ row'[e].attempts = row[e].attempts
        /\ \A f \in Events : f # e => row'[f] = row[f]
        /\ poll' = [poll EXCEPT ![p] = NoPoll]
        /\ due' = due
    BY <1>10, MarkFacts, RetryFacts DEF MarkProcessed
  <2>2. poll'[p].step = "idle" /\ \A q \in Pollers : q # p => poll'[q] = poll[q]
    BY <2>1, Released
  <2> HIDE DEF e
  <2> SUFFICES ASSUME NEW q \in Pollers, q # p, poll[q].step = "claim",
                      NEW f \in Events, f = poll[q].event
               PROVE  /\ poll[q].attempts <= row'[f].attempts
                      /\ row'[f].attempts = poll[q].attempts =>
                           Waiting(f)' /\ Contains(due', f)
    BY <1>2, <2>2 DEF CandidatesKnow
  <2>3. /\ poll[q].attempts <= row[f].attempts
        /\ row[f].attempts = poll[q].attempts => Waiting(f) /\ Contains(due, f)
    BY <1>1 DEF CandidatesKnow
  <2>4. CASE f = e
    BY <2>1, <2>3, <2>4 DEF Waiting
  <2>5. CASE f # e
    BY <2>1, <2>3, <2>5 DEF Waiting
  <2> QED
    BY <2>4, <2>5
<1>11. CASE UNCHANGED vars
  BY <1>1, <1>11 DEF vars, CandidatesKnow, Waiting
<1> QED
  BY <1>3, <1>4, <1>5, <1>7, <1>8, <1>9, <1>10, <1>11, Cases

(* Only waiting rows are listed, once: a claim unlists the row it locks. *)
LEMMA ListsStep == IInv /\ [Next]_vars => ListedWait'
<1> SUFFICES ASSUME IInv, [Next]_vars
             PROVE  ListedWait'
  OBVIOUS
<1> DEFINE W == {f \in Events : row[f].status \in {"PENDING", "FAILED"}}
           V == {f \in Events : row'[f].status \in {"PENDING", "FAILED"}}
<1>1. /\ due \in Seq(Events) /\ delayed \in Seq(Events)
      /\ \A i \in 1 .. Len(due) : due[i] \in W
      /\ \A i \in 1 .. Len(delayed) : delayed[i] \in W
      /\ IsInjective(due) /\ IsInjective(delayed)
      /\ \A i \in 1 .. Len(due), j \in 1 .. Len(delayed) : due[i] # delayed[j]
  BY DEF IInv, TypeOK, ListedWait, Waiting
<1>2. ASSUME \A i \in 1 .. Len(due') : due'[i] \in V,
             \A i \in 1 .. Len(delayed') : delayed'[i] \in V,
             IsInjective(due'), IsInjective(delayed'),
             \A i \in 1 .. Len(due'), j \in 1 .. Len(delayed') : due'[i] # delayed'[j]
      PROVE  ListedWait'
  BY <1>2 DEF ListedWait, Waiting
<1>3. ASSUME NEW e \in Events, Create(e)
      PROVE  /\ due' = Append(due, e) /\ delayed' = delayed
             /\ e \notin W /\ e \in V /\ W \subseteq V
  BY <1>3, CreateFacts DEF Create
<1>4. CASE DelayElapses
  <2>1. V = W
    BY <1>4 DEF DelayElapses
  <2> HIDE DEF V, W
  <2> DEFINE e == Head(delayed)
  <2>2. /\ e \in Events /\ e = delayed[1] /\ Len(delayed) \in Nat \ {0}
        /\ due' = Append(due, e) /\ delayed' = Tail(delayed)
    BY <1>1, <1>4, Tailed DEF DelayElapses
  <2>3. /\ delayed' \in Seq(Events) /\ Len(delayed') = Len(delayed) - 1
        /\ \A i \in 1 .. Len(delayed) - 1 : delayed'[i] = delayed[i + 1]
    BY <1>1, <1>4, Tailed DEF DelayElapses
  <2> HIDE DEF e
  <2>4. /\ Len(due') = Len(due) + 1 /\ due' \in Seq(Events)
        /\ \A i \in 1 .. Len(due) : due'[i] = due[i]
        /\ due'[Len(due) + 1] = e
    BY <1>1, <2>2, Appended
  <2>5. \A i \in 1 .. Len(due') : due'[i] \in V
    BY <1>1, <2>1, <2>2, <2>4
  <2>6. \A i \in 1 .. Len(delayed') : delayed'[i] \in V
    BY <1>1, <2>1, <2>2, <2>3
  <2>7. IsInjective(due')
    BY <1>1, <2>2, <2>4 DEF IsInjective
  <2>8. IsInjective(delayed')
    BY <1>1, <2>2, <2>3 DEF IsInjective
  <2>9. \A i \in 1 .. Len(due'), j \in 1 .. Len(delayed') : due'[i] # delayed'[j]
    <3> SUFFICES ASSUME NEW i \in 1 .. Len(due'), NEW j \in 1 .. Len(delayed')
                 PROVE  due'[i] # delayed'[j]
      OBVIOUS
    <3>1. j + 1 \in 1 .. Len(delayed) /\ delayed'[j] = delayed[j + 1] /\ j + 1 # 1
      BY <2>2, <2>3
    <3>2. CASE i \in 1 .. Len(due)
      BY <1>1, <2>4, <3>1, <3>2
    <3>3. CASE i = Len(due) + 1
      <4>1. 1 \in DOMAIN delayed /\ j + 1 \in DOMAIN delayed
        BY <1>1, <2>2, <3>1
      <4>2. delayed[1] # delayed[j + 1]
        BY <1>1, <3>1, <4>1 DEF IsInjective
      <4> QED
        BY <2>2, <2>4, <3>1, <3>3, <4>2
    <3> QED
      BY <1>1, <2>4, <3>2, <3>3
  <2> QED
    BY <1>2, <2>5, <2>6, <2>7, <2>8, <2>9
<1>5. ASSUME NEW p \in Pollers, ClaimNext(p), poll[p].event \in Events,
             Claimable(poll[p].event, poll[p].attempts)
      PROVE  /\ \E i \in 1 .. Len(due) :
                  due[i] = poll[p].event /\ due' = RemoveAt(due, i)
             /\ delayed' = delayed
             /\ \A f \in W : f # poll[p].event => f \in V
  BY <1>5, ClaimFacts
<1>6. ASSUME NEW p \in Pollers, MarkProcessed(p), poll[p].event \in Events
      PROVE  due' = due /\ delayed' = delayed /\ W \subseteq V
  BY <1>6, MarkFacts DEF MarkProcessed
<1>7. ASSUME NEW p \in Pollers, Retry(p), poll[p].event \in Events
      PROVE  /\ due' = due /\ delayed' = Append(delayed, poll[p].event)
             /\ poll[p].event \notin W /\ poll[p].event \in V /\ W \subseteq V
  BY <1>7, RetryFacts
<1>8. ASSUME row' = row
      PROVE  W = V
  BY <1>8
<1> HIDE DEF V, W
<1>9. ASSUME due' = due, delayed' = delayed, W \subseteq V
      PROVE  ListedWait'
  BY <1>1, <1>2, <1>9
<1>10. ASSUME NEW e \in Events, e \notin W, e \in V, W \subseteq V,
              due' = Append(due, e), delayed' = delayed
       PROVE  ListedWait'
  <2>1. /\ Len(due') = Len(due) + 1 /\ due' \in Seq(Events)
        /\ \A i \in 1 .. Len(due) : due'[i] = due[i]
        /\ due'[Len(due) + 1] = e
    BY <1>1, <1>10, Appended
  <2>2. IsInjective(due')
    BY <1>1, <1>10, <2>1 DEF IsInjective
  <2>3. /\ \A i \in 1 .. Len(due') : due'[i] \in V
        /\ \A i \in 1 .. Len(due'), j \in 1 .. Len(delayed') : due'[i] # delayed'[j]
    BY <1>1, <1>10, <2>1
  <2> QED
    BY <1>1, <1>2, <1>10, <2>2, <2>3
<1>11. ASSUME NEW e \in Events, e \notin W, e \in V, W \subseteq V,
              due' = due, delayed' = Append(delayed, e)
       PROVE  ListedWait'
  <2>1. /\ Len(delayed') = Len(delayed) + 1 /\ delayed' \in Seq(Events)
        /\ \A i \in 1 .. Len(delayed) : delayed'[i] = delayed[i]
        /\ delayed'[Len(delayed) + 1] = e
    BY <1>1, <1>11, Appended
  <2>2. IsInjective(delayed')
    BY <1>1, <1>11, <2>1 DEF IsInjective
  <2>3. /\ \A i \in 1 .. Len(delayed') : delayed'[i] \in V
        /\ \A i \in 1 .. Len(due'), j \in 1 .. Len(delayed') : due'[i] # delayed'[j]
    BY <1>1, <1>11, <2>1
  <2> QED
    BY <1>1, <1>2, <1>11, <2>2, <2>3
<1>12. ASSUME NEW e \in Events, NEW i \in 1 .. Len(due), due[i] = e,
              due' = RemoveAt(due, i), delayed' = delayed,
              \A f \in W : f # e => f \in V
       PROVE  ListedWait'
  <2>1. /\ IsInjective(due')
        /\ \A k \in 1 .. Len(due') :
             due'[k] # e /\ \E j \in 1 .. Len(due) : due'[k] = due[j]
    BY <1>1, <1>12, RemovedOnce
  <2>2. \A k \in 1 .. Len(delayed) : delayed[k] # e
    BY <1>1, <1>12
  <2>3. /\ \A k \in 1 .. Len(due') : due'[k] \in V
        /\ \A k \in 1 .. Len(delayed') : delayed'[k] \in V
    BY <1>1, <1>12, <2>1, <2>2
  <2>4. \A k \in 1 .. Len(due'), j \in 1 .. Len(delayed') : due'[k] # delayed'[j]
    BY <1>1, <1>12, <2>1
  <2> QED
    BY <1>1, <1>2, <1>12, <2>1, <2>3, <2>4
<1>13. ASSUME row' = row, due' = due, delayed' = delayed
       PROVE  ListedWait'
  BY <1>8, <1>9, <1>13
<1>14. ASSUME NEW p \in Pollers, ClaimNext(p), poll[p].event \in Events,
              Claimable(poll[p].event, poll[p].attempts)
       PROVE  ListedWait'
  BY <1>5, <1>12, <1>14
<1>15. ASSUME NEW p \in Pollers, MarkProcessed(p) \/ Retry(p), poll[p].event \in Events
       PROVE  ListedWait'
  BY <1>6, <1>7, <1>9, <1>11, <1>15
<1> QED
  BY <1>3, <1>4, <1>10, <1>13, <1>14, <1>15, Cases, FindFacts, DispatchFacts,
     GivesUpFacts DEF vars

-----------------------------------------------------------------------------
(* The inductive invariant holds in every behaviour. *)
THEOREM Inductive == Spec => []IInv
<1>1. IInv /\ [Next]_vars => IInv'
  BY TypeStep, SingleStep, QueuedStep, AttemptsStep, CandidatesStep, ListsStep DEF IInv
<1> QED
  BY InitInv, <1>1, PTL DEF Spec

(* Two processes never dispatch the same row (scripts/worker.ts), whatever  *)
(* stale candidates they read and however many run.                         *)
THEOREM DispatchIsExclusive == Spec => []SingleDispatcher
<1>1. IInv => SingleDispatcher
  BY DEF IInv
<1> QED
  BY Inductive, <1>1, PTL

(* A row stamped PROCESSED has its job in the queue. *)
THEOREM ProcessedWasPublished == Spec => []ProcessedIsQueued
<1>1. IInv => ProcessedIsQueued
  BY DEF IInv
<1> QED
  BY Inductive, <1>1, PTL

(* An attempt is only spent by a failure, never by a race. *)
THEOREM AttemptsArePaid == Spec => []AttemptsExplained
<1>1. IInv => AttemptsExplained
  BY DEF IInv, AttemptsPaid, AttemptsExplained
<1> QED
  BY Inductive, <1>1, PTL

(* claimNext's guard keeps the retry delay although it re-checks a time     *)
(* that it read before.                                                     *)
THEOREM DelaysAreKept == Spec => ClaimsOnlyDue
<1> DEFINE OnlyDue == \A e \in Events :
                        row[e].status # "PROCESSING" /\ row'[e].status = "PROCESSING"
                          => Contains(due, e)
<1>1. IInv /\ [Next]_vars => [OnlyDue]_vars
  <2> SUFFICES ASSUME IInv, [Next]_vars, NEW e \in Events,
                      row[e].status # "PROCESSING", row'[e].status = "PROCESSING"
               PROVE  Contains(due, e)
    BY DEF OnlyDue
  <2>1. ASSUME NEW f \in Events, Create(f)
        PROVE  FALSE
    BY <2>1, CreateFacts
  <2>2. ASSUME NEW p \in Pollers, MarkProcessed(p) \/ Retry(p), poll[p].event \in Events
        PROVE  FALSE
    BY <2>2, MarkFacts, RetryFacts
  <2>3. ASSUME NEW p \in Pollers, ClaimNext(p), poll[p].event \in Events,
               Claimable(poll[p].event, poll[p].attempts)
        PROVE  Contains(due, e)
    BY <2>3, ClaimFacts DEF Contains
  <2> QED
    BY <2>1, <2>2, <2>3, Cases, FindFacts, DispatchFacts, GivesUpFacts
       DEF DelayElapses, vars
<1> QED
  BY Inductive, <1>1, PTL DEF Spec, ClaimsOnlyDue
=============================================================================
