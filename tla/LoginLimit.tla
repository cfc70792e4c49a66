----------------------------- MODULE LoginLimit -----------------------------
(***************************************************************************)
(* The brute-force protection of the password login: lib/rate-limit.ts and *)
(* authorize in lib/auth.ts, for one address that has an account.  Each    *)
(* function of rate-limit.ts takes the time, reads the RateLimit row and   *)
(* writes it in statements of their own, so logins that run concurrently   *)
(* work on copies of the row that may be stale.                            *)
(***************************************************************************)
EXTENDS Integers, FiniteSets

CONSTANTS
  Logins,       \* requests that may run concurrently
  MaxAttempts,  \* MAX_ATTEMPTS
  LockWindow,   \* LOCK_WINDOW_MINUTES, in ticks
  LockDuration, \* LOCK_DURATION_MINUTES, in ticks
  MaxTime,      \* bound: ticks of the clock
  MaxCount      \* bound: attempts that a failure may read

ASSUME LoginAssumption ==
  /\ IsFiniteSet(Logins)
  /\ MaxAttempts \in Nat \ {0, 1}
  /\ LockWindow \in Nat /\ LockDuration \in Nat
  /\ MaxTime \in Nat /\ MaxCount \in Nat

VARIABLES
  clock,
  limit,   \* the RateLimit row; lockedAt is a set of at most one time
  login,   \* Logins -> the authorize call in progress
  failed,  \* history: failures recorded since the counter last started over
  early    \* history: calls admitted before the lock in force was set

loginVars == <<clock, limit, login, failed, early>>

Idle == [step |-> "idle", at |-> 0, seen |-> 0]

LoginInit ==
  /\ clock = 0
  /\ limit = [exists |-> FALSE, attempts |-> 0, lockedAt |-> {}, updatedAt |-> 0]
  /\ login = [l \in Logins |-> Idle]
  /\ failed = 0
  /\ early = {}

(* A call goes on; with a function of rate-limit.ts it looks at the clock.  *)
Proceeds(l, step) == login' = [login EXCEPT ![l].step = step]
Enters(l, step) == login' = [login EXCEPT ![l] = [step |-> step, at |-> clock, seen |-> 0]]
Leaves(l) == login' = [login EXCEPT ![l] = Idle]

Tick ==
  /\ clock < MaxTime
  /\ clock' = clock + 1
  /\ UNCHANGED <<limit, login, failed, early>>

BeginLogin(l) ==
  /\ login[l].step = "idle"
  /\ Enters(l, "check")
  /\ UNCHANGED <<clock, limit, failed, early>>

-----------------------------------------------------------------------------
(* isRateLimited *)

(* Mutant: a lock ends one tick early. *)
InForce_Early(t) == \E since \in limit.lockedAt : t + 1 < since + LockDuration

(* now < lockedAt + LOCK_DURATION_MS *)
InForce(t) == \E since \in limit.lockedAt : t < since + LockDuration

WindowPassed(t) == limit.updatedAt < t - LockWindow

Refuse(l) ==
  /\ login[l].step = "check"
  /\ limit.exists
  /\ \/ InForce(login[l].at)
     \/ /\ limit.lockedAt = {} /\ ~WindowPassed(login[l].at)
        /\ limit.attempts >= MaxAttempts
  /\ Leaves(l)
  /\ UNCHANGED <<clock, limit, failed, early>>

Admit(l) ==
  /\ login[l].step = "check"
  /\ \/ ~limit.exists /\ Proceeds(l, "verify")
     \/ /\ limit.exists /\ limit.lockedAt # {} /\ ~InForce(login[l].at)
        /\ Proceeds(l, "unlock")
     \/ /\ limit.exists /\ limit.lockedAt = {} /\ WindowPassed(login[l].at)
        /\ Proceeds(l, "forget")
     \/ /\ limit.exists /\ limit.lockedAt = {} /\ ~WindowPassed(login[l].at)
        /\ limit.attempts < MaxAttempts
        /\ Proceeds(l, "verify")
  /\ UNCHANGED <<clock, limit, failed, early>>

(* The lock, or the window, has passed: the counter starts over. *)
StartOver(l) ==
  /\ login[l].step \in {"unlock", "forget"}
  /\ limit' = [limit EXCEPT !.attempts = 0, !.updatedAt = login[l].at,
                            !.lockedAt = IF login[l].step = "unlock" THEN {} ELSE @]
  /\ failed' = 0
  /\ Proceeds(l, "verify")
  /\ UNCHANGED <<clock, early>>

-----------------------------------------------------------------------------
(* verifyPassword, then recordFailedAttempt or resetFailedAttempts *)

Verify(l) ==
  /\ login[l].step = "verify"
  /\ \E next \in {"wrong", "right"} : Enters(l, next)
  /\ UNCHANGED <<clock, limit, failed, early>>

ReadFailures(l) ==
  /\ login[l].step = "wrong"
  /\ limit.attempts < MaxCount
  /\ login' = [login EXCEPT
       ![l].step = IF ~limit.exists \/ WindowPassed(login[l].at) THEN "first" ELSE "count",
       ![l].seen = limit.attempts]
  /\ UNCHANGED <<clock, limit, failed, early>>

(* The upsert of a new row or a new window leaves lockedAt alone. *)
FirstFailure(l) ==
  /\ login[l].step = "first"
  /\ limit' = [limit EXCEPT !.exists = TRUE, !.attempts = 1, !.updatedAt = login[l].at]
  /\ failed' = 1
  /\ Leaves(l)
  /\ early' = early \ {l}
  /\ UNCHANGED clock

(* Mutant: the lock comes one failure late. *)
ReachesLimit_OffByOne(n) == n > MaxAttempts
ReachesLimit(n) == n >= MaxAttempts

(* Mutant: the row holds the end of the lock. *)
LockedAt_Until(t) == {t + LockDuration}
LockedAt(t) == {t}

(* Mutant: the count that was read is written back. *)
Counted_Lost(l) == login[l].seen
Counted(l) == login[l].seen + 1

(* The update writes what was read plus one, and sets or clears the lock.   *)
CountFailure(l) ==
  LET n == Counted(l)
  IN /\ login[l].step = "count"
     /\ limit' = [limit EXCEPT !.attempts = n, !.updatedAt = login[l].at,
                               !.lockedAt = IF ReachesLimit(n) THEN LockedAt(login[l].at) ELSE {}]
     /\ failed' = failed + 1
     /\ Leaves(l)
     /\ early' = IF ReachesLimit(n)
                 THEN {m \in Logins : login[m].step \notin {"idle", "check"}} \ {l}
                 ELSE early \ {l}
     /\ UNCHANGED clock

(* updateMany: a row that does not exist stays away. *)
Succeed(l) ==
  /\ login[l].step = "right"
  /\ limit' = IF limit.exists
              THEN [limit EXCEPT !.attempts = 0, !.lockedAt = {}, !.updatedAt = login[l].at]
              ELSE limit
  /\ failed' = 0
  /\ Leaves(l)
  /\ early' = early \ {l}
  /\ UNCHANGED clock

LoginNext ==
  \/ Tick
  \/ \E l \in Logins :
       \/ BeginLogin(l) \/ Refuse(l) \/ Admit(l) \/ StartOver(l) \/ Verify(l)
       \/ ReadFailures(l) \/ FirstFailure(l) \/ CountFailure(l) \/ Succeed(l)

LoginSpec == LoginInit /\ [][LoginNext]_loginVars

-----------------------------------------------------------------------------
(* Properties. *)

(* The row and the calls keep their shape; a row that does not exist holds  *)
(* no count, and no time lies in the future.                                *)
LoginTypeOK ==
  /\ clock \in 0..MaxTime
  /\ limit \in [exists : BOOLEAN, attempts : Nat, lockedAt : SUBSET (0..clock),
                updatedAt : 0..clock]
  /\ Cardinality(limit.lockedAt) <= 1
  /\ ~limit.exists => limit.attempts = 0 /\ limit.lockedAt = {}
  /\ login \in [Logins -> [step : {"idle", "check", "unlock", "forget", "verify", "wrong",
                                  "right", "first", "count"},
                           at : 0..clock, seen : Nat]]
  /\ failed \in Nat /\ early \subseteq Logins

(* A counter at its limit always carries the lock, so a refusal always has  *)
(* an end: no order of concurrent resets and counts strands an address at   *)
(* the limit without the lock whose expiry would free it.                   *)
LimitIsLocked == limit.attempts >= MaxAttempts => limit.lockedAt # {}

(* While a lock is in force nobody is admitted: only calls that had passed  *)
(* the check before it was set can end it, by a right password or by the    *)
(* stale count they write.                                                  *)
LockHolds ==
  [][\A since \in limit.lockedAt :
       clock < since + LockDuration /\ limit'.lockedAt # {since}
       => \E l \in early : login'[l] # login[l]]_loginVars

(* Paths[<<k, j>>] is the binomial coefficient (k + j over k).               *)
Paths[p \in Nat \X Nat] ==
  IF 0 \in {p[1], p[2]} THEN 1 ELSE Paths[<<p[1] - 1, p[2]>>] + Paths[<<p[1], p[2] - 1>>]

(* Lost increments and stale counts that lift a lock are bounded: n logins  *)
(* at once record at most (MaxAttempts + n over n) - 1 failures before the  *)
(* counter starts over, which is MaxAttempts when they come one by one.     *)
FailuresBounded ==
  /\ LoginTypeOK
  /\ failed <= Paths[<<Cardinality(Logins), MaxAttempts>>] - 1
=============================================================================
