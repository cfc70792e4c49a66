-------------------------- MODULE Platform_proofs --------------------------
(***************************************************************************)
(* TLAPS proofs about LoginLimit, AnalyticsSnapshots, Accounts and         *)
(* Governance, for every number of concurrent logins, dashboard requests,  *)
(* calls, agents and managers, and every value of the constants.           *)
(***************************************************************************)
EXTENDS LoginLimit, AnalyticsSnapshots, Accounts, Governance, Catalogue, SumTheorems, FiniteSetTheorems, TLAPS

-----------------------------------------------------------------------------
(* The password login. *)

Steps == {"idle", "check", "unlock", "forget", "verify", "wrong", "right", "first", "count"}
Limits == [exists : BOOLEAN, attempts : Nat, lockedAt : SUBSET (0..clock),
           updatedAt : 0..clock]
LoginCalls == [step : Steps, at : 0..clock, seen : Nat]

(* The shape of the row and of the calls; a lock is one time.               *)
Shaped ==
  /\ clock \in Nat
  /\ limit \in Limits
  /\ limit.lockedAt = {} \/ \E t \in 0..clock : limit.lockedAt = {t}
  /\ login \in [Logins -> LoginCalls]
  /\ failed \in Nat /\ early \subseteq Logins

(* A counter is only counted up in a row that exists.                       *)
RowsExist ==
  /\ ~limit.exists => limit.attempts = 0 /\ limit.lockedAt = {}
  /\ \A l \in Logins : login[l].step = "count" => limit.exists

(* Whoever has passed the check while a lock is in force passed it before   *)
(* the lock was set.                                                        *)
OnlyEarlyPass ==
  \A since \in limit.lockedAt : clock < since + LockDuration =>
    \A l \in Logins : login[l].step \in {"idle", "check"} \/ l \in early

LoginInv == Shaped /\ RowsExist /\ LimitIsLocked /\ OnlyEarlyPass

-----------------------------------------------------------------------------
(* What a call does to its own row of login.                                *)

LEMMA Moved ==
  ASSUME Shaped, NEW l \in Logins, NEW step \in Steps, UNCHANGED clock,
         Proceeds(l, step) \/ Enters(l, step)
  PROVE  /\ login' \in [Logins -> LoginCalls'] /\ login'[l].step = step
         /\ \A m \in Logins \ {l} : login'[m] = login[m]
<1>1. LoginCalls' = LoginCalls
  BY DEF LoginCalls
<1>2. login \in [Logins -> LoginCalls] /\ login[l] \in LoginCalls /\ clock \in Nat
  BY DEF Shaped
<1>3. CASE Proceeds(l, step)
  BY <1>1, <1>2, <1>3 DEF Proceeds, LoginCalls
<1>4. CASE Enters(l, step)
  BY <1>1, <1>2, <1>4 DEF Enters, LoginCalls
<1> QED
  BY <1>3, <1>4

LEMMA Left ==
  ASSUME Shaped, NEW l \in Logins, UNCHANGED clock, Leaves(l)
  PROVE  /\ login' \in [Logins -> LoginCalls'] /\ login'[l].step = "idle"
         /\ \A m \in Logins \ {l} : login'[m] = login[m]
BY DEF Shaped, Leaves, Idle, LoginCalls, Steps

-----------------------------------------------------------------------------
LEMMA InvInit ==
  ASSUME LoginInit
  PROVE  LoginInv
<1>1. Shaped
  BY DEF LoginInit, Shaped, Limits, LoginCalls, Steps, Idle
<1>2. RowsExist /\ OnlyEarlyPass
  BY DEF LoginInit, RowsExist, OnlyEarlyPass, Idle
<1>3. LimitIsLocked
  BY LoginAssumption DEF LoginInit, LimitIsLocked, LoginAssumption
<1> QED
  BY <1>1, <1>2, <1>3 DEF LoginInv

(* The clock only makes locks end and times older.                          *)
LEMMA InvTick ==
  ASSUME LoginInv, Tick
  PROVE  LoginInv'
<1>1. clock \in Nat /\ clock' = clock + 1 /\ UNCHANGED <<limit, login, failed, early>>
  BY DEF LoginInv, Shaped, Tick
<1>2. Limits \subseteq Limits' /\ LoginCalls \subseteq LoginCalls' /\ 0..clock \subseteq 0..clock'
  BY <1>1 DEF Limits, LoginCalls
<1>3. Shaped'
  BY <1>1, <1>2 DEF LoginInv, Shaped
<1>4. RowsExist' /\ LimitIsLocked'
  BY <1>1 DEF LoginInv, RowsExist, LimitIsLocked
<1>5. OnlyEarlyPass'
  <2>1. limit.lockedAt \subseteq Nat
    BY <1>1 DEF LoginInv, Shaped, Limits
  <2> QED
    BY <1>1, <2>1, LoginAssumption DEF LoginInv, OnlyEarlyPass, LoginAssumption
<1> QED
  BY <1>3, <1>4, <1>5 DEF LoginInv

(* LoginCalls that have not passed the check, and the check itself.              *)
LEMMA InvCheck ==
  ASSUME LoginInv, NEW l \in Logins, BeginLogin(l) \/ Refuse(l) \/ Admit(l) \/ Verify(l)
  PROVE  LoginInv'
<1>1. UNCHANGED <<clock, limit, failed, early>> /\ Shaped
  BY DEF LoginInv, BeginLogin, Refuse, Admit, Verify
<1>2. PICK step \in Steps :
         /\ login' \in [Logins -> LoginCalls'] /\ login'[l].step = step
         /\ \A m \in Logins \ {l} : login'[m] = login[m]
         /\ step # "count"
         /\ step \notin {"idle", "check"} => Admit(l) \/ login[l].step = "verify"
  <2>1. CASE BeginLogin(l)
    BY <1>1, <2>1, Moved DEF BeginLogin, Steps
  <2>2. CASE Refuse(l)
    BY <1>1, <2>2, Left DEF Refuse, Steps
  <2>3. CASE Admit(l)
    <3>1. PICK step \in {"verify", "unlock", "forget"} : Proceeds(l, step)
      BY <2>3 DEF Admit
    <3> QED
      BY <1>1, <2>3, <3>1, Moved DEF Steps
  <2>4. CASE Verify(l)
    <3>1. PICK step \in {"wrong", "right"} : Enters(l, step)
      BY <2>4 DEF Verify
    <3> QED
      BY <1>1, <2>4, <3>1, Moved DEF Verify, Steps
  <2> QED
    BY <2>1, <2>2, <2>3, <2>4
<1>3. Shaped'
  BY <1>1, <1>2 DEF Shaped, Limits
<1>4. RowsExist' /\ LimitIsLocked'
  BY <1>1, <1>2 DEF LoginInv, RowsExist, LimitIsLocked
<1>5. ASSUME NEW since \in limit.lockedAt, clock < since + LockDuration
      PROVE  ~Admit(l)
  <2>1. login[l].at \in 0..clock /\ clock \in Nat /\ since \in Nat /\ LockDuration \in Nat
    BY <1>1, LoginAssumption DEF Shaped, LoginCalls, Limits, LoginAssumption
  <2>2. InForce(login[l].at) /\ limit.lockedAt # {}
    BY <1>5, <2>1 DEF InForce
  <2>3. limit.exists
    BY <2>2 DEF LoginInv, RowsExist
  <2> QED
    BY <2>2, <2>3 DEF Admit
<1>6. OnlyEarlyPass'
  BY <1>1, <1>2, <1>5 DEF LoginInv, OnlyEarlyPass
<1> QED
  BY <1>3, <1>4, <1>6 DEF LoginInv

LEMMA InvStartOver ==
  ASSUME LoginInv, NEW l \in Logins, StartOver(l)
  PROVE  LoginInv'
<1>1. Shaped /\ clock' = clock /\ early' = early /\ failed' = 0
  BY DEF LoginInv, StartOver
<1>2. /\ login' \in [Logins -> LoginCalls'] /\ login'[l].step = "verify"
      /\ \A m \in Logins \ {l} : login'[m] = login[m]
  BY <1>1, Moved DEF StartOver, Steps
<1>3. /\ limit' \in Limits' /\ limit'.attempts = 0 /\ limit'.exists = limit.exists
      /\ limit'.lockedAt \in {{}, limit.lockedAt}
  <2>1. limit \in Limits /\ login[l].at \in 0..clock /\ Limits' = Limits
    BY <1>1 DEF Shaped, LoginCalls, Limits
  <2>2. CASE login[l].step = "unlock"
    BY <2>1, <2>2 DEF StartOver, Limits
  <2>3. CASE login[l].step = "forget"
    <3>1. limit' = [limit EXCEPT !.attempts = 0, !.updatedAt = login[l].at,
                                 !.lockedAt = limit.lockedAt]
      BY <2>3 DEF StartOver
    <3> QED
      BY <2>1, <3>1 DEF Limits
  <2> QED
    BY <2>2, <2>3 DEF StartOver
<1>4. Shaped'
  BY <1>1, <1>2, <1>3 DEF Shaped
<1>5. RowsExist'
  BY <1>2, <1>3 DEF LoginInv, RowsExist
<1>6. LimitIsLocked'
  BY <1>3, LoginAssumption DEF LimitIsLocked, LoginAssumption
<1>7. OnlyEarlyPass'
  <2>1. login[l].step \notin {"idle", "check"}
    BY DEF StartOver
  <2> QED
    BY <1>1, <1>2, <1>3, <2>1 DEF LoginInv, OnlyEarlyPass
<1> QED
  BY <1>4, <1>5, <1>6, <1>7 DEF LoginInv

LEMMA InvReadFailures ==
  ASSUME LoginInv, NEW l \in Logins, ReadFailures(l)
  PROVE  LoginInv'
<1>1. /\ Shaped /\ UNCHANGED <<clock, limit, failed, early>>
      /\ login[l].step = "wrong" /\ limit.attempts \in Nat
  BY DEF LoginInv, ReadFailures, Shaped, Limits
<1>2. /\ login' \in [Logins -> LoginCalls'] /\ login'[l].step \in {"first", "count"}
      /\ login'[l].step = "count" => limit.exists
      /\ \A m \in Logins \ {l} : login'[m] = login[m]
  <2> DEFINE step == IF ~limit.exists \/ WindowPassed(login[l].at) THEN "first" ELSE "count"
  <2>1. step \in {"first", "count"} /\ (step = "count" => limit.exists)
    OBVIOUS
  <2> DEFINE seen == limit.attempts
  <2>2. login' = [login EXCEPT ![l].step = step, ![l].seen = seen]
    BY DEF ReadFailures
  <2>3. login \in [Logins -> LoginCalls] /\ LoginCalls' = LoginCalls /\ seen \in Nat
    BY <1>1 DEF Shaped, LoginCalls
  <2> HIDE DEF step, seen
  <2> DEFINE seeing == [login[l] EXCEPT !.step = step, !.seen = seen]
  <2>4. seeing \in LoginCalls /\ seeing.step = step
    BY <2>1, <2>3 DEF LoginCalls, Steps
  <2>5. login' = [login EXCEPT ![l] = seeing]
    BY <2>2, <2>3
  <2> HIDE DEF seeing
  <2> QED
    BY <1>1, <2>1, <2>3, <2>4, <2>5
<1>3. Shaped'
  BY <1>1, <1>2 DEF Shaped, Limits
<1>4. RowsExist' /\ LimitIsLocked'
  BY <1>1, <1>2 DEF LoginInv, RowsExist, LimitIsLocked
<1>5. OnlyEarlyPass'
  BY <1>1, <1>2 DEF LoginInv, OnlyEarlyPass
<1> QED
  BY <1>3, <1>4, <1>5 DEF LoginInv

(* A call that ends writes the row with its lock, without it or with a new  *)
(* one that every other call past the check came before.                    *)
LEMMA InvEnds ==
  ASSUME LoginInv, NEW l \in Logins, Leaves(l), UNCHANGED clock, failed' \in Nat,
         limit' \in Limits', limit.exists => limit'.exists,
         limit'.exists \/ limit' = limit,
         limit'.attempts >= MaxAttempts => limit'.lockedAt # {},
         \/ limit'.lockedAt \in {{}, limit.lockedAt} /\ early' = early \ {l}
         \/ /\ limit'.lockedAt = {login[l].at}
            /\ early' = {m \in Logins : login[m].step \notin {"idle", "check"}} \ {l}
  PROVE  LoginInv'
<1>1. Shaped
  BY DEF LoginInv
<1>2. /\ login' \in [Logins -> LoginCalls'] /\ login'[l].step = "idle"
      /\ \A m \in Logins \ {l} : login'[m] = login[m]
  BY <1>1, Left
<1>3. Shaped'
  <2>1. login[l].at \in 0..clock
    BY <1>1 DEF Shaped, LoginCalls
  <2>2. limit'.lockedAt = {} \/ \E t \in 0..clock : limit'.lockedAt = {t}
    BY <1>1, <2>1 DEF Shaped
  <2> QED
    BY <1>1, <1>2, <2>2 DEF Shaped
<1>4. RowsExist'
  BY <1>2 DEF LoginInv, RowsExist
<1>5. LimitIsLocked'
  BY DEF LimitIsLocked
<1>6. OnlyEarlyPass'
  BY <1>2 DEF LoginInv, OnlyEarlyPass
<1> QED
  BY <1>3, <1>4, <1>5, <1>6 DEF LoginInv

LEMMA InvWrites ==
  ASSUME LoginInv, NEW l \in Logins, FirstFailure(l) \/ CountFailure(l) \/ Succeed(l)
  PROVE  LoginInv'
<1>1. /\ clock \in Nat /\ limit \in Limits /\ login[l] \in LoginCalls /\ clock' = clock
      /\ Limits' = Limits /\ failed \in Nat
  BY DEF LoginInv, Shaped, FirstFailure, CountFailure, Succeed, Limits
<1>2. MaxAttempts \in Nat /\ MaxAttempts > 1
  BY LoginAssumption DEF LoginAssumption
<1>3. CASE FirstFailure(l)
  <2>1. /\ limit' \in Limits' /\ limit'.exists /\ limit'.attempts = 1
        /\ limit'.lockedAt = limit.lockedAt
    BY <1>1, <1>3 DEF FirstFailure, Limits, LoginCalls
  <2>2. ~(limit'.attempts >= MaxAttempts)
    BY <1>2, <2>1
  <2> QED
    BY <1>1, <1>3, <2>1, <2>2, InvEnds DEF FirstFailure
<1>4. CASE CountFailure(l)
  <2> DEFINE n == login[l].seen + 1
             locked == IF n >= MaxAttempts THEN {login[l].at} ELSE {}
  <2>1. n \in Nat /\ locked \subseteq 0..clock
    BY <1>1 DEF LoginCalls
  <2>2. limit' = [limit EXCEPT !.attempts = n, !.updatedAt = login[l].at, !.lockedAt = locked]
    BY <1>4 DEF CountFailure, Counted, ReachesLimit, LockedAt
  <2>3. early' = IF n >= MaxAttempts
                 THEN {m \in Logins : login[m].step \notin {"idle", "check"}} \ {l}
                 ELSE early \ {l}
    BY <1>4 DEF CountFailure, Counted, ReachesLimit
  <2>4. n >= MaxAttempts => locked = {login[l].at}
    OBVIOUS
  <2>5. ~(n >= MaxAttempts) => locked = {}
    OBVIOUS
  <2> HIDE DEF n, locked
  <2>6. /\ limit' \in Limits' /\ limit'.attempts = n /\ limit'.lockedAt = locked
        /\ limit'.exists = limit.exists
    BY <1>1, <2>1, <2>2 DEF Limits, LoginCalls
  <2>7. limit.exists
    BY <1>4 DEF LoginInv, RowsExist, CountFailure
  <2>8. Leaves(l) /\ failed' = failed + 1
    BY <1>4 DEF CountFailure
  <2>11. limit'.exists /\ UNCHANGED clock /\ failed' \in Nat
    BY <1>1, <2>6, <2>7, <2>8
  <2>9. CASE n >= MaxAttempts
    <3>1. /\ limit'.lockedAt = {login[l].at}
          /\ early' = {m \in Logins : login[m].step \notin {"idle", "check"}} \ {l}
      BY <2>3, <2>4, <2>6, <2>9
    <3>2. limit'.attempts >= MaxAttempts => limit'.lockedAt # {}
      BY <3>1
    <3> QED
      BY <2>6, <2>8, <2>11, <3>1, <3>2, InvEnds
  <2>10. CASE ~(n >= MaxAttempts)
    BY <1>1, <2>3, <2>5, <2>6, <2>7, <2>8, <2>10, InvEnds
  <2> QED
    BY <2>9, <2>10
<1>5. CASE Succeed(l)
  <2>1. CASE limit.exists
    <3>1. /\ limit' \in Limits' /\ limit'.exists /\ limit'.attempts = 0 /\ limit'.lockedAt = {}
      BY <1>1, <1>5, <2>1 DEF Succeed, Limits, LoginCalls
    <3>2. ~(limit'.attempts >= MaxAttempts)
      BY <1>2, <3>1
    <3> QED
      BY <1>1, <1>5, <3>1, <3>2, InvEnds DEF Succeed
  <2>2. CASE ~limit.exists
    BY <1>1, <1>5, <2>2, InvEnds DEF Succeed, LoginInv, LimitIsLocked
  <2> QED
    BY <2>1, <2>2
<1> QED
  BY <1>3, <1>4, <1>5

LEMMA InvNext ==
  ASSUME LoginInv, [LoginNext]_loginVars
  PROVE  LoginInv'
<1>1. CASE Tick
  BY <1>1, InvTick
<1>2. ASSUME NEW l \in Logins,
             \/ BeginLogin(l) \/ Refuse(l) \/ Admit(l) \/ StartOver(l) \/ Verify(l)
             \/ ReadFailures(l) \/ FirstFailure(l) \/ CountFailure(l) \/ Succeed(l)
      PROVE  LoginInv'
  BY <1>2, InvCheck, InvStartOver, InvReadFailures, InvWrites
<1>3. CASE UNCHANGED loginVars
  <2>1. UNCHANGED <<clock, limit, login, failed, early>>
    BY <1>3 DEF loginVars
  <2> QED
    BY <2>1 DEF LoginInv, Shaped, Limits, LoginCalls, RowsExist, LimitIsLocked,
      OnlyEarlyPass
<1> QED
  BY <1>1, <1>2, <1>3 DEF LoginNext

LEMMA Inductive == LoginSpec => []LoginInv
BY InvInit, InvNext, PTL DEF LoginSpec

(* A counter at its limit carries the lock whose expiry frees the address,  *)
(* whatever resets and stale counts interleave (recordFailedAttempt,        *)
(* resetFailedAttempts).                                                    *)
THEOREM LimitSafe == LoginSpec => []LimitIsLocked
<1>1. LoginInv => LimitIsLocked
  BY DEF LoginInv
<1> QED
  BY <1>1, Inductive, PTL

LEMMA LockStep ==
  ASSUME LoginInv, LoginNext, NEW since \in limit.lockedAt, clock < since + LockDuration,
         limit'.lockedAt # {since}
  PROVE  \E l \in early : login'[l] # login[l]
<1>1. limit.lockedAt = {since} /\ limit' # limit
  BY DEF LoginInv, Shaped
<1>2. PICK l \in Logins : StartOver(l) \/ CountFailure(l) \/ Succeed(l)
  <2>1. ASSUME NEW l \in Logins, FirstFailure(l)
        PROVE  FALSE
    BY <1>1, <2>1 DEF FirstFailure, LoginInv, Shaped, Limits
  <2> QED
    BY <1>1, <2>1 DEF LoginNext, Tick, BeginLogin, Refuse, Admit, Verify, ReadFailures
<1>3. login[l].step \in {"unlock", "forget", "count", "right"}
  BY <1>2 DEF StartOver, CountFailure, Succeed
<1>4. l \in early
  BY <1>3 DEF LoginInv, OnlyEarlyPass
<1>5. Shaped /\ clock' = clock
  BY <1>2 DEF LoginInv, StartOver, CountFailure, Succeed
<1>6. login'[l].step \in {"verify", "idle"}
  BY <1>2, <1>5, Moved, Left DEF StartOver, CountFailure, Succeed, Steps
<1> QED
  BY <1>3, <1>4, <1>6

(* While a lock is in force only calls that had passed the check before it  *)
(* was set can end or replace it (isRateLimited).                           *)
THEOREM LockKept == LoginSpec => LockHolds
<1>1. LoginInv /\ [LoginNext]_loginVars =>
        [\A since \in limit.lockedAt :
           clock < since + LockDuration /\ limit'.lockedAt # {since}
           => \E l \in early : login'[l] # login[l]]_loginVars
  BY LockStep
<1> QED
  BY <1>1, Inductive, PTL DEF LoginSpec, LockHolds

-----------------------------------------------------------------------------
(* The paths that the bound on the failures counts.                         *)

Corner(n) == {p \in Nat \X Nat : p[1] + p[2] <= n}
Pascal(g, p) ==
  g[p] = IF 0 \in {p[1], p[2]} THEN 1 ELSE g[<<p[1] - 1, p[2]>>] + g[<<p[1], p[2] - 1>>]
Table(g, n) == g \in [Corner(n) -> Nat] /\ \A p \in Corner(n) : Pascal(g, p)

(* The two entries an entry is the sum of.                                  *)
LEMMA PathsBefore ==
  ASSUME NEW p \in Nat \X Nat, 0 \notin {p[1], p[2]}
  PROVE  /\ <<p[1] - 1, p[2]>> \in Nat \X Nat /\ <<p[1], p[2] - 1>> \in Nat \X Nat
         /\ \A n \in Nat : p[1] + p[2] <= n + 1 =>
              <<p[1] - 1, p[2]>> \in Corner(n) /\ <<p[1], p[2] - 1>> \in Corner(n)
<1>1. p[1] \in Nat \ {0} /\ p[2] \in Nat \ {0}
  OBVIOUS
<1>2. p[1] - 1 \in Nat /\ p[2] - 1 \in Nat
  BY <1>1
<1> QED
  BY <1>1, <1>2 DEF Corner

LEMMA TablesExist == ASSUME NEW n \in Nat PROVE \E g : Table(g, n)
<1> DEFINE P == {m \in Nat : \E g : Table(g, m)}
<1>1. 0 \in P
  <2> DEFINE g == [p \in Corner(0) |-> 1]
  <2>1. \A p \in Corner(0) : 0 \in {p[1], p[2]}
    BY DEF Corner
  <2>2. Table(g, 0)
    BY <2>1 DEF Table, Pascal
  <2> QED
    BY <2>2
<1>2. ASSUME NEW m \in Nat, m \in P PROVE m + 1 \in P
  <2>1. PICK g : Table(g, m)
    BY <1>2
  <2> DEFINE h == [p \in Corner(m + 1) |->
                     IF 0 \in {p[1], p[2]} THEN 1
                     ELSE g[<<p[1] - 1, p[2]>>] + g[<<p[1], p[2] - 1>>]]
  <2>2. ASSUME NEW p \in Corner(m + 1), 0 \notin {p[1], p[2]}
        PROVE  /\ <<p[1] - 1, p[2]>> \in Corner(m) /\ <<p[1], p[2] - 1>> \in Corner(m)
               /\ g[<<p[1] - 1, p[2]>>] \in Nat /\ g[<<p[1], p[2] - 1>>] \in Nat
    <3>1. p \in Nat \X Nat /\ p[1] + p[2] <= m + 1
      BY DEF Corner
    <3>2. <<p[1] - 1, p[2]>> \in Corner(m) /\ <<p[1], p[2] - 1>> \in Corner(m)
      BY <2>2, <3>1, PathsBefore
    <3> QED
      BY <2>1, <3>2 DEF Table
  <2>3. h \in [Corner(m + 1) -> Nat]
    BY <2>2
  <2>4. ASSUME NEW p \in Corner(m) PROVE p \in Corner(m + 1) /\ h[p] = g[p]
    <3>1. p \in Corner(m + 1)
      BY DEF Corner
    <3> QED
      BY <2>1, <3>1 DEF Table, Pascal
  <2>5. \A p \in Corner(m + 1) : Pascal(h, p)
    <3> SUFFICES ASSUME NEW p \in Corner(m + 1) PROVE Pascal(h, p)
      OBVIOUS
    <3>1. CASE 0 \in {p[1], p[2]}
      BY <3>1 DEF Pascal
    <3>2. CASE 0 \notin {p[1], p[2]}
      <4>1. h[p] = g[<<p[1] - 1, p[2]>>] + g[<<p[1], p[2] - 1>>]
        BY <3>2
      <4>2. /\ h[<<p[1] - 1, p[2]>>] = g[<<p[1] - 1, p[2]>>]
            /\ h[<<p[1], p[2] - 1>>] = g[<<p[1], p[2] - 1>>]
        <5> HIDE DEF h
        <5> QED
          BY <2>2, <2>4, <3>2
      <4> HIDE DEF h
      <4> QED
        BY <3>2, <4>1, <4>2 DEF Pascal
    <3> QED
      BY <3>1, <3>2
  <2>6. Table(h, m + 1)
    <3> HIDE DEF h
    <3> QED
      BY <2>3, <2>5 DEF Table
  <2> QED
    BY <2>6
<1>3. Nat \subseteq P
  <2> HIDE DEF P
  <2> QED
    BY <1>1, <1>2, NumberInduction
<1> QED
  BY <1>3

(* What two tables both hold, they agree on.                                *)
LEMMA TablesAgree ==
  ASSUME NEW n \in Nat, NEW m \in Nat, NEW g, NEW h, Table(g, n), Table(h, m),
         NEW p \in Corner(n), p \in Corner(m)
  PROVE  g[p] = h[p]
<1> DEFINE P == {k \in Nat : \A q \in Corner(k) :
                   q \in Corner(n) /\ q \in Corner(m) => g[q] = h[q]}
<1>1. 0 \in P
  <2>1. \A q \in Corner(0) : 0 \in {q[1], q[2]}
    BY DEF Corner
  <2> QED
    BY <2>1 DEF Table, Pascal
<1>2. ASSUME NEW k \in Nat, k \in P PROVE k + 1 \in P
  <2> SUFFICES ASSUME NEW q \in Corner(k + 1), q \in Corner(n), q \in Corner(m)
               PROVE  g[q] = h[q]
    OBVIOUS
  <2>1. Pascal(g, q) /\ Pascal(h, q)
    BY DEF Table
  <2>2. CASE 0 \in {q[1], q[2]}
    BY <2>1, <2>2 DEF Pascal
  <2>3. CASE 0 \notin {q[1], q[2]}
    <3>1. q \in Nat \X Nat /\ q[1] + q[2] <= k + 1 /\ q[1] + q[2] <= n /\ q[1] + q[2] <= m
      BY DEF Corner
    <3>2. ASSUME NEW a \in {<<q[1] - 1, q[2]>>, <<q[1], q[2] - 1>>}
          PROVE  a \in Corner(k) /\ a \in Corner(n) /\ a \in Corner(m)
      BY <2>3, <3>1, PathsBefore DEF Corner
    <3>3. /\ g[<<q[1] - 1, q[2]>>] = h[<<q[1] - 1, q[2]>>]
          /\ g[<<q[1], q[2] - 1>>] = h[<<q[1], q[2] - 1>>]
      BY <1>2, <3>2
    <3> QED
      BY <2>1, <2>3, <3>3 DEF Pascal
  <2> QED
    BY <2>2, <2>3
<1>3. Nat \subseteq P
  <2> HIDE DEF P
  <2> QED
    BY <1>1, <1>2, NumberInduction
<1>4. p[1] + p[2] \in P /\ p \in Corner(p[1] + p[2])
  BY <1>3 DEF Corner
<1> QED
  BY <1>4

LEMMA PathsExist ==
  /\ Paths \in [Nat \X Nat -> Nat]
  /\ \A p \in Nat \X Nat : Pascal(Paths, p)
<1> DEFINE T(p) == CHOOSE g : Table(g, p[1] + p[2])
           whole == [p \in Nat \X Nat |-> T(p)[p]]
<1>1. ASSUME NEW p \in Nat \X Nat
      PROVE  p[1] + p[2] \in Nat /\ p \in Corner(p[1] + p[2]) /\ Table(T(p), p[1] + p[2])
  <2>1. p[1] + p[2] \in Nat
    OBVIOUS
  <2>2. \E g : Table(g, p[1] + p[2])
    BY <2>1, TablesExist
  <2> QED
    BY <2>1, <2>2 DEF Corner
<1>2. ASSUME NEW p \in Nat \X Nat PROVE whole[p] \in Nat /\ Pascal(whole, p)
  <2>1. whole[p] = T(p)[p]
    OBVIOUS
  <2>2. whole[p] \in Nat
    <3> HIDE DEF T
    <3> QED
      BY <1>1, <2>1 DEF Table
  <2>3. Pascal(T(p), p)
    <3> HIDE DEF T
    <3> QED
      BY <1>1 DEF Table
  <2>4. ASSUME NEW q \in Nat \X Nat, q \in Corner(p[1] + p[2])
        PROVE  whole[q] = T(p)[q]
    <3>1. whole[q] = T(q)[q]
      OBVIOUS
    <3> HIDE DEF T
    <3>2. T(q)[q] = T(p)[q]
      BY <1>1, <2>4, TablesAgree
    <3> QED
      BY <3>1, <3>2
  <2>5. CASE 0 \in {p[1], p[2]}
    <3> HIDE DEF T, whole
    <3> QED
      BY <2>1, <2>2, <2>3, <2>5, Zenon DEF Pascal
  <2>6. CASE 0 \notin {p[1], p[2]}
    <3>1. /\ <<p[1] - 1, p[2]>> \in Nat \X Nat /\ <<p[1] - 1, p[2]>> \in Corner(p[1] + p[2])
          /\ <<p[1], p[2] - 1>> \in Nat \X Nat /\ <<p[1], p[2] - 1>> \in Corner(p[1] + p[2])
      BY <2>6, PathsBefore DEF Corner
    <3> HIDE DEF T, whole
    <3>2. /\ whole[<<p[1] - 1, p[2]>>] = T(p)[<<p[1] - 1, p[2]>>]
          /\ whole[<<p[1], p[2] - 1>>] = T(p)[<<p[1], p[2] - 1>>]
      BY <2>4, <3>1, Zenon
    <3> QED
      BY <2>1, <2>2, <2>3, <2>6, <3>2, Zenon DEF Pascal
  <2> QED
    BY <2>2, <2>5, <2>6
<1>3. whole = [p \in Nat \X Nat |->
                 IF 0 \in {p[1], p[2]} THEN 1
                 ELSE whole[<<p[1] - 1, p[2]>>] + whole[<<p[1], p[2] - 1>>]]
  <2>1. whole = [p \in Nat \X Nat |-> whole[p]]
    OBVIOUS
  <2> HIDE DEF whole
  <2> QED
    BY <1>2, <2>1 DEF Pascal
<1> DEFINE Q(g) == g = [p \in Nat \X Nat |->
                          IF 0 \in {p[1], p[2]} THEN 1
                          ELSE g[<<p[1] - 1, p[2]>>] + g[<<p[1], p[2] - 1>>]]
<1>4. Q(Paths)
  <2>1. Q(whole)
    BY <1>3
  <2>2. Paths = CHOOSE g : Q(g)
    BY Zenon DEF Paths
  <2> HIDE DEF Q, whole
  <2> QED
    BY <2>1, <2>2
<1>5. Paths = [p \in Nat \X Nat |-> Paths[p]]
  <2> DEFINE F(g) == [p \in Nat \X Nat |-> IF 0 \in {p[1], p[2]} THEN 1
                     ELSE g[<<p[1] - 1, p[2]>>] + g[<<p[1], p[2] - 1>>]]
  <2>1. \A g : F(g) = [p \in Nat \X Nat |-> F(g)[p]]
    OBVIOUS
  <2>2. Paths = F(Paths)
    BY <1>4, Zenon
  <2> HIDE DEF F
  <2> QED
    BY <2>1, <2>2
<1>6. ASSUME NEW p \in Nat \X Nat
      PROVE  /\ Pascal(Paths, p)
             /\ 0 \in {p[1], p[2]} => Paths[p] = 1
             /\ 0 \notin {p[1], p[2]} =>
                  Paths[p] = Paths[<<p[1] - 1, p[2]>>] + Paths[<<p[1], p[2] - 1>>]
  <2>1. Paths[p] = IF 0 \in {p[1], p[2]} THEN 1
                   ELSE Paths[<<p[1] - 1, p[2]>>] + Paths[<<p[1], p[2] - 1>>]
    BY <1>4, Zenon
  <2> QED
    BY <2>1, Zenon DEF Pascal
<1> DEFINE P == {n \in Nat : \A p \in Corner(n) : Paths[p] \in Nat}
<1> HIDE DEF Q, whole, T
<1>7. 0 \in P
  <2> SUFFICES ASSUME NEW p \in Corner(0) PROVE Paths[p] \in Nat
    OBVIOUS
  <2>1. 0 \in {p[1], p[2]} /\ p \in Nat \X Nat
    BY DEF Corner
  <2>2. Paths[p] = 1
    BY <1>6, <2>1, Zenon
  <2> QED
    BY <2>2
<1>8. ASSUME NEW n \in Nat, n \in P PROVE n + 1 \in P
  <2> SUFFICES ASSUME NEW p \in Corner(n + 1) PROVE Paths[p] \in Nat
    OBVIOUS
  <2>1. p \in Nat \X Nat /\ p[1] + p[2] <= n + 1
    BY DEF Corner
  <2>2. CASE 0 \in {p[1], p[2]}
    <3>1. Paths[p] = 1
      BY <1>6, <2>1, <2>2, Zenon
    <3> QED
      BY <3>1
  <2>3. CASE 0 \notin {p[1], p[2]}
    <3>1. <<p[1] - 1, p[2]>> \in Corner(n) /\ <<p[1], p[2] - 1>> \in Corner(n)
      BY <2>1, <2>3, PathsBefore
    <3>2. Paths[<<p[1] - 1, p[2]>>] \in Nat /\ Paths[<<p[1], p[2] - 1>>] \in Nat
      BY <1>8, <3>1, Zenon
    <3>3. Paths[p] = Paths[<<p[1] - 1, p[2]>>] + Paths[<<p[1], p[2] - 1>>]
      BY <1>6, <2>1, <2>3, Zenon
    <3> QED
      BY <3>2, <3>3
  <2> QED
    BY <2>2, <2>3
<1>9. Nat \subseteq P
  <2> HIDE DEF P
  <2> QED
    BY <1>7, <1>8, NumberInduction
<1>10. ASSUME NEW p \in Nat \X Nat PROVE Paths[p] \in Nat
  <2>1. p[1] + p[2] \in P /\ p \in Corner(p[1] + p[2])
    BY <1>9 DEF Corner
  <2> QED
    BY <2>1
<1> QED
  BY <1>5, <1>6, <1>10

(* Paths, as an operator of its two arguments.                             *)
Ways(k, j) == Paths[<<k, j>>]

(* The equations of the binomial coefficients.                              *)
LEMMA PathsValues ==
  ASSUME NEW k \in Nat, NEW j \in Nat
  PROVE  /\ Ways(k, j) \in Nat
         /\ Ways(0, j) = 1 /\ Ways(k, 0) = 1
         /\ Ways(k + 1, j + 1) = Ways(k, j + 1) + Ways(k + 1, j)
<1>1. /\ <<k, j>> \in Nat \X Nat /\ <<0, j>> \in Nat \X Nat /\ <<k, 0>> \in Nat \X Nat
      /\ <<k + 1, j + 1>> \in Nat \X Nat
  OBVIOUS
<1>2. Pascal(Paths, <<0, j>>) /\ Pascal(Paths, <<k, 0>>) /\ Pascal(Paths, <<k + 1, j + 1>>)
  BY <1>1, PathsExist, Zenon
<1>3. Ways(k, j) \in Nat
  BY <1>1, PathsExist DEF Ways
<1>4. Ways(0, j) = 1 /\ Ways(k, 0) = 1
  BY <1>2 DEF Pascal, Ways
<1>5. k + 1 # 0 /\ j + 1 # 0 /\ (k + 1) - 1 = k /\ (j + 1) - 1 = j
  OBVIOUS
<1>6. Ways(k + 1, j + 1) = Ways(k, j + 1) + Ways(k + 1, j)
  <2>1. Ways(k + 1, j + 1) = Ways((k + 1) - 1, j + 1) + Ways(k + 1, (j + 1) - 1)
    BY <1>2, <1>5 DEF Pascal, Ways
  <2> QED
    BY <1>5, <2>1
<1> QED
  BY <1>3, <1>4, <1>6

LEMMA PathsPositive == ASSUME NEW k \in Nat, NEW j \in Nat PROVE Ways(k, j) >= 1
<1> DEFINE P == {n \in Nat : Ways(n, j) >= 1}
<1>1. 0 \in P
  BY PathsValues
<1>2. ASSUME NEW n \in Nat, n \in P PROVE n + 1 \in P
  <2>1. CASE j = 0
    BY <2>1, PathsValues
  <2>2. CASE j # 0
    <3>1. j - 1 \in Nat /\ (j - 1) + 1 = j
      BY <2>2
    <3>2. Ways(n + 1, j) = Ways(n, j) + Ways(n + 1, j - 1)
      BY <3>1, PathsValues
    <3>3. Ways(n, j) \in Nat /\ Ways(n + 1, j - 1) \in Nat
      <4>1. n + 1 \in Nat
        OBVIOUS
      <4> QED
        BY <3>1, <4>1, PathsValues
    <3> QED
      BY <1>2, <3>2, <3>3
  <2> QED
    BY <2>1, <2>2
<1>3. Nat \subseteq P
  <2> HIDE DEF P
  <2> QED
    BY <1>1, <1>2, NumberInduction
<1> QED
  BY <1>3

LEMMA PathsGrow ==
  ASSUME NEW k \in Nat, NEW i \in Nat, NEW j \in Nat, i <= j
  PROVE  Ways(k, i) <= Ways(k, j)
<1> DEFINE P == {n \in Nat : Ways(k, i) <= Ways(k, i + n)}
<1>1. 0 \in P
  <2>1. i + 0 = i /\ Ways(k, i) \in Nat
    BY PathsValues
  <2> QED
    BY <2>1
<1>2. ASSUME NEW n \in Nat, n \in P PROVE n + 1 \in P
  <2>1. i + (n + 1) = (i + n) + 1 /\ i + n \in Nat /\ (i + n) + 1 \in Nat
    OBVIOUS
  <2>2. Ways(k, i + n) <= Ways(k, (i + n) + 1)
    <3>1. CASE k = 0
      <4>1. Ways(0, i + n) = 1 /\ Ways(0, (i + n) + 1) = 1
        BY <2>1, PathsValues
      <4> QED
        BY <3>1, <4>1
    <3>2. CASE k # 0
      <4>1. k - 1 \in Nat /\ (k - 1) + 1 = k
        BY <3>2
      <4>2. Ways(k, (i + n) + 1) = Ways(k - 1, (i + n) + 1) + Ways(k, i + n)
        BY <2>1, <4>1, PathsValues
      <4>3. Ways(k - 1, (i + n) + 1) \in Nat /\ Ways(k, i + n) \in Nat
        BY <2>1, <4>1, PathsValues
      <4> QED
        BY <4>2, <4>3
    <3> QED
      BY <3>1, <3>2
  <2>3. /\ Ways(k, i) \in Nat /\ Ways(k, i + n) \in Nat
        /\ Ways(k, (i + n) + 1) \in Nat
    BY <2>1, PathsValues
  <2>4. Ways(k, i) <= Ways(k, (i + n) + 1)
    BY <1>2, <2>2, <2>3
  <2> QED
    BY <2>1, <2>4
<1>3. j - i \in P /\ i + (j - i) = j
  <2>1. Nat \subseteq P
    <3> HIDE DEF P
    <3> QED
      BY <1>1, <1>2, NumberInduction
  <2> QED
    BY <2>1
<1> QED
  BY <1>3

(* An entry is one more than the column before it, down to its row.         *)
Column(j) == [k \in Nat |-> Ways(k, j)]

LEMMA PathsSum ==
  ASSUME NEW n \in Nat, NEW j \in Nat
  PROVE  Ways(n, j + 1) = 1 + SumFunctionOnSet(Column(j), 1..n)
<1> DEFINE P == {m \in Nat : Ways(m, j + 1) = 1 + SumFunctionOnSet(Column(j), 1..m)}
<1>1. 0 \in P
  <2>1. 1..0 = {} /\ j + 1 \in Nat
    OBVIOUS
  <2> QED
    BY <2>1, SumEmpty, PathsValues
<1>2. ASSUME NEW m \in Nat, m \in P PROVE m + 1 \in P
  <2>1. IsFiniteSet(1..m) /\ IsFiniteSet(1..(m + 1))
    BY FS_Interval
  <2>2. \A k \in 1..(m + 1) : Column(j)[k] \in Int
    BY PathsValues DEF Column
  <2>3. m + 1 \in 1..(m + 1) /\ (1..(m + 1)) \ {m + 1} = 1..m
    OBVIOUS
  <2>4. SumFunctionOnSet(Column(j), 1..(m + 1))
          = Column(j)[m + 1] + SumFunctionOnSet(Column(j), (1..(m + 1)) \ {m + 1})
    BY <2>1, <2>2, <2>3, SumTake
  <2>5. Column(j)[m + 1] = Ways(m + 1, j)
    BY DEF Column
  <2>6. Ways(m + 1, j + 1) = Ways(m, j + 1) + Ways(m + 1, j)
    BY PathsValues
  <2>7. SumFunctionOnSet(Column(j), 1..m) \in Int /\ Ways(m + 1, j) \in Nat
    <3>1. \A k \in 1..m : Column(j)[k] \in Int
      BY <2>2
    <3>2. m + 1 \in Nat
      OBVIOUS
    <3>3. Ways(m + 1, j) \in Nat
      BY <3>2, PathsValues
    <3> QED
      BY <2>1, <3>1, <3>3, SumType
  <2>8. Ways(m, j + 1) = 1 + SumFunctionOnSet(Column(j), 1..m)
    BY <1>2
  <2>9. Ways(m + 1, j + 1) = 1 + SumFunctionOnSet(Column(j), 1..(m + 1))
    <3>1. SumFunctionOnSet(Column(j), 1..(m + 1))
            = Ways(m + 1, j) + SumFunctionOnSet(Column(j), 1..m)
      BY <2>3, <2>4, <2>5
    <3> HIDE DEF P
    <3> QED
      BY <2>6, <2>7, <2>8, <3>1
  <2> QED
    BY <2>9
<1>3. Nat \subseteq P
  <2> HIDE DEF P
  <2> QED
    BY <1>1, <1>2, NumberInduction
<1> QED
  BY <1>3

-----------------------------------------------------------------------------
(* The failures that can still be recorded before the counter starts over:  *)
(* each login is worth what it can add, alone and through the logins that   *)
(* will read what it writes.  A login in the k-th place that counts from s  *)
(* is worth Ways(k, Room(s)); whoever is in which place, the failures and   *)
(* the worth of the logins stay within the bound.                           *)

Room(s) == IF s < MaxAttempts THEN (MaxAttempts - s) - 1 ELSE 0

Worth(c, attempts, k) ==
  IF c.step = "count" THEN Ways(k, Room(c.seen))
  ELSE IF attempts < MaxAttempts THEN Ways(k, Room(attempts))
  ELSE IF c.step \in {"verify", "wrong"} THEN 1 ELSE 0

Places == {r \in [Logins -> 1..Cardinality(Logins)] : \A l, m \in Logins : r[l] = r[m] => l = m}

Worths(calls, attempts, r) == [l \in Logins |-> Worth(calls[l], attempts, r[l])]
Owed(calls, attempts, r) == SumFunctionOnSet(Worths(calls, attempts, r), Logins)

MostFailures == Ways(Cardinality(Logins), MaxAttempts) - 1

FailuresPaid == \A r \in Places : failed + Owed(login, limit.attempts, r) <= MostFailures

LEMMA RoomFits ==
  ASSUME NEW s \in Nat
  PROVE  Room(s) \in Nat /\ Room(s) <= MaxAttempts - 1 /\ MaxAttempts - 1 \in Nat
BY LoginAssumption DEF Room, LoginAssumption

LEMMA WorthFits ==
  ASSUME NEW c, c.seen \in Nat, NEW a \in Nat, NEW k \in Nat
  PROVE  Worth(c, a, k) \in Nat /\ Worth(c, a, k) <= Ways(k, MaxAttempts - 1)
<1>1. ASSUME NEW s \in Nat
      PROVE  /\ Ways(k, Room(s)) \in Nat /\ Ways(k, MaxAttempts - 1) \in Nat
             /\ Ways(k, Room(s)) <= Ways(k, MaxAttempts - 1)
  BY RoomFits, PathsValues, PathsGrow
<1>2. Ways(k, MaxAttempts - 1) >= 1 /\ Ways(k, MaxAttempts - 1) \in Nat
  BY <1>1, RoomFits, PathsPositive
<1> QED
  BY <1>1, <1>2 DEF Worth

LEMMA WorthsTyped ==
  ASSUME NEW calls, \A l \in Logins : calls[l].seen \in Nat, NEW a \in Nat, NEW r \in Places
  PROVE  /\ IsFiniteSet(Logins)
         /\ \A l \in Logins : /\ Worths(calls, a, r)[l] = Worth(calls[l], a, r[l])
                              /\ Worths(calls, a, r)[l] \in Nat
                              /\ r[l] \in 1..Cardinality(Logins)
<1>1. \A l \in Logins : r[l] \in 1..Cardinality(Logins) /\ r[l] \in Nat
  BY DEF Places
<1> QED
  BY <1>1, WorthFits, LoginAssumption DEF Worths, LoginAssumption

(* What the logins may cost at most, and one more when one of them is       *)
(* further than it could be.                                                *)
LEMMA OwedFits ==
  ASSUME NEW calls, \A l \in Logins : calls[l].seen \in Nat, NEW a \in Nat, NEW r \in Places
  PROVE  /\ Owed(calls, a, r) \in Nat /\ MostFailures \in Int
         /\ Owed(calls, a, r) <= MostFailures
         /\ \A l \in Logins :
              Worth(calls[l], a, r[l]) + 1 <= Ways(r[l], MaxAttempts - 1)
              => Owed(calls, a, r) + 1 <= MostFailures
<1> DEFINE n == Cardinality(Logins)
           f == Worths(calls, a, r)
           g == Column(MaxAttempts - 1)
<1>1. /\ IsFiniteSet(Logins) /\ n \in Nat /\ IsFiniteSet(1..n)
      /\ MaxAttempts - 1 \in Nat /\ (MaxAttempts - 1) + 1 = MaxAttempts /\ MaxAttempts \in Nat
  BY FS_CardinalityType, FS_Interval, LoginAssumption DEF LoginAssumption
<1>2. /\ r \in [Logins -> 1..n]
      /\ \A l, m \in Logins : r[l] = r[m] => l = m
  BY DEF Places
<1>3. \A k \in 1..n : /\ k \in Nat /\ g[k] = Ways(k, MaxAttempts - 1)
                      /\ g[k] \in Int /\ g[k] >= 0
  BY <1>1, PathsValues DEF Column
<1>4. \A l \in Logins : /\ f[l] = Worth(calls[l], a, r[l]) /\ f[l] \in Int /\ f[l] >= 0
                        /\ r[l] \in 1..n
                        /\ f[l] <= g[r[l]]
  <2> SUFFICES ASSUME NEW l \in Logins
               PROVE  /\ f[l] = Worth(calls[l], a, r[l]) /\ f[l] \in Int /\ f[l] >= 0
                      /\ r[l] \in 1..n
                      /\ f[l] <= g[r[l]]
    OBVIOUS
  <2>1. f[l] = Worth(calls[l], a, r[l]) /\ r[l] \in 1..n
    BY WorthsTyped
  <2>2. g[r[l]] = Ways(r[l], MaxAttempts - 1) /\ r[l] \in Nat
    BY <1>3, <2>1
  <2>3. /\ Worth(calls[l], a, r[l]) \in Nat
        /\ Worth(calls[l], a, r[l]) <= Ways(r[l], MaxAttempts - 1)
    BY <2>2, WorthFits
  <2> HIDE DEF f, g
  <2> QED
    BY <2>1, <2>2, <2>3
<1> HIDE DEF n, f, g
<1>5. SumFunctionOnSet(g, 1..n) = MostFailures /\ MostFailures \in Int
  <2>1. Ways(n, MaxAttempts) = 1 + SumFunctionOnSet(g, 1..n)
    BY <1>1, PathsSum DEF g
  <2>2. SumFunctionOnSet(g, 1..n) \in Int
    BY <1>1, <1>3, SumType
  <2> QED
    BY <2>1, <2>2 DEF MostFailures, n
<1>6. /\ SumFunctionOnSet(f, Logins) \in Nat
      /\ SumFunctionOnSet(f, Logins) <= SumFunctionOnSet(g, 1..n)
  <2>1. SumFunctionOnSet(f, Logins) \in Int /\ SumFunctionOnSet(f, Logins) >= 0
    BY <1>1, <1>4, SumType
  <2>2. SumFunctionOnSet(f, Logins) <= SumFunctionOnSet(g, 1..n)
    BY <1>1, <1>2, <1>3, <1>4, SumInjects
  <2> QED
    BY <2>1, <2>2
<1>7. ASSUME NEW l \in Logins, Worth(calls[l], a, r[l]) + 1 <= Ways(r[l], MaxAttempts - 1)
      PROVE  SumFunctionOnSet(f, Logins) + 1 <= SumFunctionOnSet(g, 1..n)
  <2> DEFINE h == [m \in Logins |-> IF m = l THEN f[l] + 1 ELSE f[m]]
  <2>1. \A m \in Logins : h[m] \in Int /\ h[m] <= g[r[m]]
    BY <1>3, <1>4, <1>7
  <2>2. h[l] \in Int /\ h[l] = f[l] + 1 /\ \A m \in Logins \ {l} : h[m] = f[m]
    BY <1>4
  <2> HIDE DEF h
  <2>3. SumFunctionOnSet(h, Logins) = SumFunctionOnSet(f, Logins) - f[l] + h[l]
    BY <1>1, <1>4, <2>2, SumChange
  <2>4. SumFunctionOnSet(h, Logins) <= SumFunctionOnSet(g, 1..n)
    BY <1>1, <1>2, <1>3, <2>1, SumInjects
  <2> QED
    BY <1>4, <1>6, <2>2, <2>3, <2>4
<1> QED
  BY <1>5, <1>6, <1>7 DEF Owed, f

(* No login worth more, and one of them spent, if a failure was recorded.   *)
LEMMA OwedLess ==
  ASSUME NEW calls, \A l \in Logins : calls[l].seen \in Nat, NEW a \in Nat,
         NEW next, \A l \in Logins : next[l].seen \in Nat, NEW b \in Nat, NEW r \in Places,
         \A l \in Logins : Worth(next[l], b, r[l]) <= Worth(calls[l], a, r[l])
  PROVE  /\ Owed(next, b, r) <= Owed(calls, a, r)
         /\ \A l \in Logins : Worth(next[l], b, r[l]) + 1 <= Worth(calls[l], a, r[l])
              => Owed(next, b, r) + 1 <= Owed(calls, a, r)
<1> DEFINE f == Worths(next, b, r)
           g == Worths(calls, a, r)
<1>1. /\ IsFiniteSet(Logins)
      /\ \A l \in Logins : /\ f[l] = Worth(next[l], b, r[l]) /\ f[l] \in Int
                           /\ g[l] = Worth(calls[l], a, r[l]) /\ g[l] \in Int
                           /\ f[l] <= g[l]
  BY WorthsTyped
<1> HIDE DEF f, g
<1>2. SumFunctionOnSet(f, Logins) <= SumFunctionOnSet(g, Logins)
  BY <1>1, SumAtMost
<1>3. ASSUME NEW l \in Logins, f[l] + 1 <= g[l]
      PROVE  SumFunctionOnSet(f, Logins) + 1 <= SumFunctionOnSet(g, Logins)
  <2> DEFINE h == [m \in Logins |-> IF m = l THEN f[l] + 1 ELSE f[m]]
  <2>1. \A m \in Logins : h[m] \in Int /\ g[m] \in Int /\ h[m] <= g[m]
    BY <1>1, <1>3
  <2>2. h[l] \in Int /\ h[l] = f[l] + 1 /\ \A m \in Logins \ {l} : h[m] = f[m]
    BY <1>1
  <2> HIDE DEF h
  <2>3. SumFunctionOnSet(h, Logins) = SumFunctionOnSet(f, Logins) - f[l] + h[l]
    BY <1>1, <2>2, SumChange
  <2>4. SumFunctionOnSet(h, Logins) <= SumFunctionOnSet(g, Logins)
    BY <1>1, <2>1, SumAtMost
  <2>5. SumFunctionOnSet(f, Logins) \in Int /\ f[l] \in Int
    BY <1>1, SumType
  <2> QED
    BY <2>2, <2>3, <2>4, <2>5
<1> QED
  BY <1>1, <1>2, <1>3 DEF Owed, f, g

(* A failure that counts up to a new number below the limit: in the places  *)
(* r of the next state, the login that wrote it stood last of those that do *)
(* not count, and was worth what they all are worth now and one more.       *)
LEMMA OwedByReaders ==
  ASSUME NEW calls, \A l \in Logins : calls[l].seen \in Nat, NEW a \in Nat,
         NEW next, \A l \in Logins : next[l].seen \in Nat, NEW r \in Places,
         NEW l \in Logins, calls[l].step = "count", next[l].step # "count",
         calls[l].seen + 1 < MaxAttempts,
         \A m \in Logins \ {l} : next[m] = calls[m]
  PROVE  \E s \in Places : Owed(next, calls[l].seen + 1, r) + 1 <= Owed(calls, a, s)
<1> DEFINE n == Cardinality(Logins)
           b == calls[l].seen + 1
           Others == {m \in Logins : next[m].step # "count"}
           Gaps == {n - r[m] : m \in Others}
<1>1. IsFiniteSet(Logins) /\ n \in Nat /\ MaxAttempts \in Nat
  BY FS_CardinalityType, LoginAssumption DEF LoginAssumption
<1>2. r \in [Logins -> 1..n] /\ \A x, y \in Logins : r[x] = r[y] => x = y
  BY DEF Places
<1>3. PICK q \in Others : \A m \in Others : r[m] <= r[q]
  <2>1. Gaps \subseteq Nat /\ Gaps # {}
    BY <1>1, <1>2
  <2>2. PICK x \in Gaps : \A y \in Gaps : x <= y
    BY <2>1, LeastNumber
  <2>3. PICK q \in Others : x = n - r[q]
    BY <2>2
  <2>4. ASSUME NEW m \in Others PROVE r[m] <= r[q]
    <3>1. n - r[q] <= n - r[m]
      BY <2>2, <2>3
    <3> QED
      BY <1>1, <1>2, <3>1
  <2> QED
    BY <2>4
<1> DEFINE last == r[q]
           s == [m \in Logins |-> IF m = l THEN last ELSE IF m = q THEN r[l] ELSE r[m]]
<1>4. s \in Places
  BY <1>2 DEF Places
<1> DEFINE room == Room(calls[l].seen)
           f == Worths(next, b, r)
           g == Worths(calls, a, s)
<1>5. b \in Nat /\ room \in Nat /\ room - 1 \in Nat /\ Room(b) = room - 1 /\ b < MaxAttempts
  BY <1>1 DEF Room
<1>6. last \in 1..n /\ last \in Nat /\ s[l] = last /\ l \in Others
  BY <1>2, <1>3
<1>7. \A m \in Logins : f[m] \in Int /\ g[m] \in Int /\ g[m] >= 0
  BY <1>4, <1>5, WorthsTyped
<1>8. g[l] = Ways(last, room)
  BY <1>4, <1>6, WorthsTyped DEF Worth
<1>9. \A m \in Others : f[m] = Ways(r[m], room - 1) /\ r[m] \in 1..last
  BY <1>2, <1>3, <1>5, WorthsTyped DEF Worth
<1>10. \A m \in Logins \ Others : f[m] = g[m]
  <2> SUFFICES ASSUME NEW m \in Logins \ Others PROVE f[m] = g[m]
    OBVIOUS
  <2>1. m # l /\ m # q /\ next[m] = calls[m] /\ next[m].step = "count" /\ s[m] = r[m]
    BY <1>3, <1>6
  <2>2. f[m] = Worth(next[m], b, r[m]) /\ g[m] = Worth(calls[m], a, s[m])
    BY <1>4, <1>5, WorthsTyped
  <2> QED
    BY <2>1, <2>2 DEF Worth
<1>11. /\ Others \in SUBSET Logins /\ IsFiniteSet(Others)
       /\ IsFiniteSet(Logins \ Others) /\ IsFiniteSet(Others \ {l})
  BY <1>1, FS_Subset
<1> HIDE DEF f, g, s, Others, last, room, b, Gaps, n
<1>12. SumFunctionOnSet(f, Others) + 1 <= Ways(last, room)
  <2> DEFINE c == Column(room - 1)
             p == [m \in Others |-> r[m]]
  <2>1. IsFiniteSet(1..last)
    BY <1>6, FS_Interval
  <2>2. \A k \in 1..last : c[k] = Ways(k, room - 1) /\ c[k] \in Int /\ c[k] >= 0
    <3> SUFFICES ASSUME NEW k \in 1..last
                 PROVE  c[k] = Ways(k, room - 1) /\ c[k] \in Int /\ c[k] >= 0
      OBVIOUS
    <3>1. k \in Nat /\ c[k] = Ways(k, room - 1)
      BY <1>6 DEF Column
    <3>2. Ways(k, room - 1) \in Nat
      BY <1>5, <3>1, PathsValues
    <3> QED
      BY <3>1, <3>2
  <2>3. /\ p \in [Others -> 1..last] /\ \A x, y \in Others : p[x] = p[y] => x = y
        /\ \A m \in Others : f[m] \in Int /\ f[m] <= c[p[m]]
    BY <1>2, <1>7, <1>9, <1>11, <2>2
  <2> HIDE DEF c, p
  <2>4. SumFunctionOnSet(f, Others) <= SumFunctionOnSet(c, 1..last)
    BY <1>11, <2>1, <2>2, <2>3, SumInjects
  <2>5. Ways(last, (room - 1) + 1) = 1 + SumFunctionOnSet(c, 1..last)
    BY <1>5, <1>6, PathsSum DEF c
  <2>6. SumFunctionOnSet(f, Others) \in Int /\ SumFunctionOnSet(c, 1..last) \in Int
    BY <1>11, <2>1, <2>2, <2>3, SumType
  <2>7. (room - 1) + 1 = room
    BY <1>5
  <2> QED
    BY <2>4, <2>5, <2>6, <2>7
<1>13. Ways(last, room) <= SumFunctionOnSet(g, Others)
  <2>1. SumFunctionOnSet(g, Others) = g[l] + SumFunctionOnSet(g, Others \ {l})
    BY <1>6, <1>7, <1>11, SumTake
  <2>2. SumFunctionOnSet(g, Others \ {l}) \in Int /\ SumFunctionOnSet(g, Others \ {l}) >= 0
    <3>1. \A m \in Others \ {l} : g[m] \in Int /\ g[m] >= 0
      BY <1>7, <1>11
    <3> QED
      BY <1>11, <3>1, SumType
  <2>3. g[l] \in Int
    BY <1>7
  <2> QED
    BY <1>8, <2>1, <2>2, <2>3
<1>14. SumFunctionOnSet(f, Logins \ Others) = SumFunctionOnSet(g, Logins \ Others)
  BY <1>10, <1>11, SumSame
<1>15. /\ SumFunctionOnSet(f, Logins)
            = SumFunctionOnSet(f, Others) + SumFunctionOnSet(f, Logins \ Others)
       /\ SumFunctionOnSet(g, Logins)
            = SumFunctionOnSet(g, Others) + SumFunctionOnSet(g, Logins \ Others)
  BY <1>1, <1>7, <1>11, SumSplit
<1>16. /\ SumFunctionOnSet(f, Others) \in Int /\ SumFunctionOnSet(g, Others) \in Int
       /\ SumFunctionOnSet(f, Logins \ Others) \in Int /\ Ways(last, room) \in Int
  <2>1. \A m \in Others : f[m] \in Int /\ g[m] \in Int
    BY <1>7, <1>11
  <2>2. \A m \in Logins \ Others : f[m] \in Int
    BY <1>7
  <2>3. Ways(last, room) \in Nat
    BY <1>5, <1>6, PathsValues
  <2> QED
    BY <1>11, <2>1, <2>2, <2>3, SumType
<1>17. SumFunctionOnSet(f, Logins) + 1 <= SumFunctionOnSet(g, Logins)
  BY <1>12, <1>13, <1>14, <1>15, <1>16
<1> QED
  BY <1>4, <1>17 DEF Owed, f, g, b

-----------------------------------------------------------------------------
FailuresInv == LoginInv /\ FailuresPaid /\ clock <= MaxTime

LEMMA SeenTyped ==
  ASSUME LoginInv
  PROVE  /\ limit.attempts \in Nat /\ failed \in Nat
         /\ \A l \in Logins : login[l].seen \in Nat
BY DEF LoginInv, Shaped, LoginCalls, Limits

LEMMA SeenStaysTyped ==
  ASSUME LoginInv'
  PROVE  /\ limit'.attempts \in Nat /\ failed' \in Nat
         /\ \A l \in Logins : login'[l].seen \in Nat
BY DEF LoginInv, Shaped, LoginCalls, Limits

LEMMA PlaceTyped ==
  ASSUME NEW r \in Places, NEW l \in Logins
  PROVE  r[l] \in Nat \ {0}
BY DEF Places

(* A step that records no failure and leaves no login worth more.           *)
LEMMA QuietKeeps ==
  ASSUME FailuresInv, LoginInv', failed' = failed,
         \A k \in Nat : \A l \in Logins :
           Worth(login'[l], limit'.attempts, k) <= Worth(login[l], limit.attempts, k)
  PROVE  FailuresPaid'
<1> SUFFICES ASSUME NEW r \in Places
             PROVE  failed' + Owed(login', limit'.attempts, r) <= MostFailures
  BY DEF FailuresPaid, Places, MostFailures, Owed, Worths, Worth, Room, Ways, Paths
<1>1. Owed(login', limit'.attempts, r) <= Owed(login, limit.attempts, r)
  BY SeenTyped, SeenStaysTyped, PlaceTyped, OwedLess DEF FailuresInv
<1>2. failed + Owed(login, limit.attempts, r) <= MostFailures
  BY DEF FailuresInv, FailuresPaid
<1>3. /\ Owed(login, limit.attempts, r) \in Nat /\ Owed(login', limit'.attempts, r) \in Nat
      /\ failed \in Nat /\ MostFailures \in Int
  BY SeenTyped, SeenStaysTyped, OwedFits DEF FailuresInv
<1> QED
  BY <1>1, <1>2, <1>3

(* A step after which the counter starts over.                              *)
LEMMA ResetKeeps ==
  ASSUME LoginInv', failed' = 0
  PROVE  FailuresPaid'
<1> SUFFICES ASSUME NEW r \in Places
             PROVE  failed' + Owed(login', limit'.attempts, r) <= MostFailures
  BY DEF FailuresPaid, Places, MostFailures, Owed, Worths, Worth, Room, Ways, Paths
<1>1. /\ Owed(login', limit'.attempts, r) <= MostFailures /\ MostFailures \in Int
      /\ Owed(login', limit'.attempts, r) \in Nat
  BY SeenStaysTyped, OwedFits
<1> QED
  BY <1>1

(* One login moves and the count stays: the others are worth the same.      *)
LEMMA OneMoves ==
  ASSUME FailuresInv, LoginInv', UNCHANGED failed, limit'.attempts = limit.attempts,
         NEW l \in Logins, \A m \in Logins \ {l} : login'[m] = login[m],
         \A k \in Nat : Worth(login'[l], limit.attempts, k) <= Worth(login[l], limit.attempts, k)
  PROVE  FailuresPaid'
<1>1. ASSUME NEW k \in Nat, NEW m \in Logins
      PROVE  Worth(login'[m], limit'.attempts, k) <= Worth(login[m], limit.attempts, k)
  <2>1. CASE m = l
    BY <2>1
  <2>2. CASE m # l
    <3>1. Worth(login[m], limit.attempts, k) \in Nat
      BY SeenTyped, WorthFits DEF FailuresInv
    <3> QED
      BY <2>2, <3>1
  <2> QED
    BY <2>1, <2>2
<1> QED
  BY <1>1, QuietKeeps

(* Before the failure is counted: only a login that finds the counter below *)
(* its limit goes on to count on it.                                        *)
LEMMA CheckPaid ==
  ASSUME FailuresInv, LoginInv', NEW l \in Logins,
         BeginLogin(l) \/ Refuse(l) \/ Admit(l) \/ Verify(l)
  PROVE  FailuresPaid'
<1>1. UNCHANGED <<clock, limit, failed, early>> /\ Shaped /\ RowsExist /\ LimitIsLocked
  BY DEF FailuresInv, LoginInv, BeginLogin, Refuse, Admit, Verify
<1>2. PICK step \in Steps :
         /\ login'[l].step = step /\ login[l].step # "count" /\ step # "count"
         /\ \A m \in Logins \ {l} : login'[m] = login[m]
         /\ step \in {"verify", "wrong"} =>
              login[l].step = "verify" \/ limit.attempts < MaxAttempts
  <2>1. CASE BeginLogin(l)
    BY <1>1, <2>1, Moved DEF BeginLogin, Steps
  <2>2. CASE Refuse(l)
    BY <1>1, <2>2, Left DEF Refuse, Steps
  <2>3. CASE Admit(l)
    <3>1. PICK step \in {"verify", "unlock", "forget"} : Proceeds(l, step)
      BY <2>3 DEF Admit
    <3>2. /\ login'[l].step = step /\ step \in Steps
          /\ \A m \in Logins \ {l} : login'[m] = login[m]
      BY <1>1, <3>1, Moved DEF Steps
    <3>3. step = "verify" => limit.attempts < MaxAttempts
      <4>1. SUFFICES ASSUME step = "verify" PROVE limit.attempts < MaxAttempts
        OBVIOUS
      <4>2. ~limit.exists \/ limit.attempts < MaxAttempts
        <5>1. ~Proceeds(l, "unlock") /\ ~Proceeds(l, "forget")
          <6>1. ASSUME NEW other \in {"unlock", "forget"}, Proceeds(l, other) PROVE FALSE
            <7>1. login'[l].step = other
              BY <1>1, <6>1, Moved DEF Steps
            <7> QED
              BY <3>2, <4>1, <7>1
          <6> QED
            BY <6>1
        <5> QED
          BY <2>3, <5>1 DEF Admit
      <4>3. ~limit.exists => limit.attempts = 0
        BY <1>1 DEF RowsExist
      <4> QED
        BY <4>2, <4>3, LoginAssumption DEF LoginAssumption
    <3> QED
      BY <2>3, <3>1, <3>2, <3>3 DEF Admit
  <2>4. CASE Verify(l)
    <3>1. PICK step \in {"wrong", "right"} : Enters(l, step)
      BY <2>4 DEF Verify
    <3> QED
      BY <1>1, <2>4, <3>1, Moved DEF Verify, Steps
  <2> QED
    BY <2>1, <2>2, <2>3, <2>4
<1>3. ASSUME NEW k \in Nat
      PROVE  Worth(login'[l], limit.attempts, k) <= Worth(login[l], limit.attempts, k)
  <2>1. Worth(login[l], limit.attempts, k) \in Nat
    BY SeenTyped, WorthFits DEF FailuresInv
  <2> QED
    BY <1>2, <2>1 DEF Worth
<1> QED
  BY <1>1, <1>2, <1>3, OneMoves

(* The count that a failure reads is the one it was worth.                  *)
LEMMA ReadPaid ==
  ASSUME FailuresInv, LoginInv', NEW l \in Logins, ReadFailures(l)
  PROVE  FailuresPaid'
<1>1. /\ Shaped /\ UNCHANGED <<clock, limit, failed, early>>
      /\ login[l].step = "wrong" /\ limit.attempts \in Nat
  BY DEF FailuresInv, LoginInv, ReadFailures, Shaped, Limits
<1>2. /\ login'[l].step \in {"first", "count"} /\ login'[l].seen = limit.attempts
      /\ \A m \in Logins \ {l} : login'[m] = login[m]
  <2> DEFINE step == IF ~limit.exists \/ WindowPassed(login[l].at) THEN "first" ELSE "count"
  <2>1. step \in {"first", "count"}
    OBVIOUS
  <2> DEFINE seen == limit.attempts
  <2>2. login' = [login EXCEPT ![l].step = step, ![l].seen = seen]
    BY DEF ReadFailures
  <2>3. login \in [Logins -> LoginCalls]
    BY <1>1 DEF Shaped
  <2> HIDE DEF step, seen
  <2> DEFINE seeing == [login[l] EXCEPT !.step = step, !.seen = seen]
  <2>4. seeing.step = step /\ seeing.seen = seen
    BY <2>3 DEF LoginCalls
  <2>5. login' = [login EXCEPT ![l] = seeing]
    BY <2>2, <2>3
  <2> HIDE DEF seeing
  <2> QED
    BY <2>1, <2>3, <2>4, <2>5 DEF seen
<1>3. ASSUME NEW k \in Nat
      PROVE  Worth(login'[l], limit.attempts, k) <= Worth(login[l], limit.attempts, k)
  <2>1. CASE limit.attempts < MaxAttempts
    <3>1. Ways(k, Room(limit.attempts)) \in Nat
      BY <1>1, RoomFits, PathsValues
    <3> QED
      BY <1>1, <1>2, <2>1, <3>1 DEF Worth
  <2>2. CASE ~(limit.attempts < MaxAttempts)
    <3>1. Room(limit.attempts) = 0 /\ Ways(k, 0) = 1
      BY <2>2, PathsValues DEF Room
    <3> QED
      BY <1>1, <1>2, <2>2, <3>1 DEF Worth
  <2> QED
    BY <2>1, <2>2
<1> QED
  BY <1>1, <1>2, <1>3, OneMoves

(* The failure that opens a window leaves one place below the bound.        *)
LEMMA FirstPaid ==
  ASSUME FailuresInv, LoginInv', NEW l \in Logins, FirstFailure(l)
  PROVE  FailuresPaid'
<1> SUFFICES ASSUME NEW r \in Places
             PROVE  failed' + Owed(login', limit'.attempts, r) <= MostFailures
  BY DEF FailuresPaid, Places, MostFailures, Owed, Worths, Worth, Room, Ways, Paths
<1>1. failed' = 1 /\ limit'.attempts = 1 /\ login'[l].step = "idle"
  <2>1. limit \in Limits /\ UNCHANGED clock /\ Shaped
    BY DEF FailuresInv, LoginInv, Shaped, FirstFailure
  <2> QED
    BY <2>1, Left DEF FirstFailure, Limits
<1>2. MaxAttempts - 2 \in Nat /\ Room(1) = MaxAttempts - 2 /\ 1 < MaxAttempts
  BY LoginAssumption DEF Room, LoginAssumption
<1>3. Worth(login'[l], limit'.attempts, r[l]) = Ways(r[l], MaxAttempts - 2)
  BY <1>1, <1>2 DEF Worth
<1>4. Ways(r[l], MaxAttempts - 2) + 1 <= Ways(r[l], MaxAttempts - 1)
  <2> DEFINE k == r[l] - 1  j == MaxAttempts - 2
  <2>1. k \in Nat /\ j \in Nat /\ k + 1 = r[l] /\ j + 1 = MaxAttempts - 1
    BY <1>2, PlaceTyped, LoginAssumption DEF LoginAssumption
  <2> HIDE DEF k, j
  <2>2. Ways(k + 1, j + 1) = Ways(k, j + 1) + Ways(k + 1, j)
    BY <2>1, PathsValues
  <2>3. j + 1 \in Nat /\ k + 1 \in Nat
    BY <2>1
  <2>4. Ways(k, j + 1) \in Nat /\ Ways(k + 1, j) \in Nat /\ Ways(k, j + 1) >= 1
    BY <2>1, <2>3, PathsValues, PathsPositive
  <2>5. Ways(k + 1, j) + 1 <= Ways(k + 1, j + 1)
    BY <2>2, <2>4
  <2> QED
    BY <2>1, <2>5 DEF j
<1>5. Owed(login', limit'.attempts, r) + 1 <= MostFailures
  BY <1>3, <1>4, SeenStaysTyped, OwedFits
<1>6. Owed(login', limit'.attempts, r) \in Nat /\ MostFailures \in Int
  BY SeenStaysTyped, OwedFits
<1> QED
  BY <1>1, <1>5, <1>6

(* Each counted failure is paid by the login that records it: with its last *)
(* place, or with the places of all the logins that will read what it       *)
(* writes.                                                                  *)
LEMMA CountPaid ==
  ASSUME FailuresInv, LoginInv', NEW l \in Logins, CountFailure(l)
  PROVE  FailuresPaid'
<1> DEFINE seen == login[l].seen
<1> SUFFICES ASSUME NEW r \in Places
             PROVE  failed' + Owed(login', limit'.attempts, r) <= MostFailures
  BY DEF FailuresPaid, Places, MostFailures, Owed, Worths, Worth, Room, Ways, Paths
<1>1. /\ failed' = failed + 1 /\ login[l].step = "count" /\ seen \in Nat /\ failed \in Nat
      /\ limit \in Limits /\ Shaped /\ UNCHANGED clock /\ MaxAttempts \in Nat
  BY SeenTyped, LoginAssumption
     DEF FailuresInv, LoginInv, Shaped, CountFailure, LoginAssumption
<1>2. limit'.attempts = seen + 1
  <2> DEFINE locked == IF ReachesLimit(Counted(l)) THEN LockedAt(login[l].at) ELSE {}
             at == login[l].at
             n == Counted(l)
  <2>1. limit' = [limit EXCEPT !.attempts = n, !.updatedAt = at, !.lockedAt = locked]
    BY DEF CountFailure
  <2>2. n = seen + 1
    BY DEF Counted
  <2> HIDE DEF locked, at, n
  <2> QED
    BY <1>1, <2>1, <2>2 DEF Limits
<1>3. login'[l].step = "idle" /\ \A m \in Logins \ {l} : login'[m] = login[m]
  BY <1>1, Left DEF CountFailure
<1>4. /\ \A m \in Logins : login[m].seen \in Nat /\ login'[m].seen \in Nat
      /\ limit.attempts \in Nat /\ limit'.attempts \in Nat
      /\ \A s \in Places : failed + Owed(login, limit.attempts, s) <= MostFailures
  BY SeenTyped, SeenStaysTyped DEF FailuresInv, FailuresPaid
<1>5. \E s \in Places :
        Owed(login', limit'.attempts, r) + 1 <= Owed(login, limit.attempts, s)
  <2>1. CASE seen + 1 < MaxAttempts
    BY <1>1, <1>2, <1>3, <1>4, <2>1, OwedByReaders
  <2>2. CASE ~(seen + 1 < MaxAttempts)
    <3>1. /\ Room(seen) = 0 /\ ~(limit'.attempts < MaxAttempts)
          /\ \A k \in Nat : Ways(k, 0) = 1
      <4>1. ~(seen < MaxAttempts) \/ (MaxAttempts - seen) - 1 = 0
        BY <1>1, <2>2
      <4>2. ~(limit'.attempts < MaxAttempts)
        BY <1>2, <2>2
      <4>3. \A k \in Nat : Ways(k, 0) = 1
        BY PathsValues
      <4> HIDE DEF seen
      <4> QED
        BY <4>1, <4>2, <4>3 DEF Room
    <3>2. \A k \in Nat : /\ Worth(login'[l], limit'.attempts, k) = 0
                         /\ Worth(login[l], limit.attempts, k) = 1
      BY <1>1, <1>3, <3>1 DEF Worth
    <3>3. ASSUME NEW k \in Nat, NEW m \in Logins
          PROVE  Worth(login'[m], limit'.attempts, k) <= Worth(login[m], limit.attempts, k)
      <4>1. CASE m = l
        BY <3>2, <4>1
      <4>2. CASE m # l
        <5>1. login'[m] = login[m] /\ login[m].seen \in Nat
          BY <1>3, <1>4, <4>2
        <5>2. CASE login[m].step = "count"
          <6>1. Worth(login[m], limit.attempts, k) \in Nat
            BY <1>4, <5>1, WorthFits
          <6> QED
            BY <5>1, <5>2, <6>1 DEF Worth
        <5>3. CASE login[m].step # "count" /\ limit.attempts < MaxAttempts
          <6>1. Ways(k, Room(limit.attempts)) >= 1 /\ Ways(k, Room(limit.attempts)) \in Nat
            BY <1>4, RoomFits, PathsPositive, PathsValues
          <6> QED
            BY <3>1, <5>1, <5>3, <6>1 DEF Worth
        <5>4. CASE login[m].step # "count" /\ ~(limit.attempts < MaxAttempts)
          BY <3>1, <5>1, <5>4 DEF Worth
        <5> QED
          BY <5>2, <5>3, <5>4
      <4> QED
        BY <4>1, <4>2
    <3>4. \A m \in Logins :
            Worth(login'[m], limit'.attempts, r[m]) <= Worth(login[m], limit.attempts, r[m])
      BY <3>3, PlaceTyped
    <3>5. Worth(login'[l], limit'.attempts, r[l]) + 1 <= Worth(login[l], limit.attempts, r[l])
      BY <3>2, PlaceTyped
    <3> QED
      BY <1>4, <3>4, <3>5, OwedLess
  <2> QED
    BY <2>1, <2>2
<1>6. PICK s \in Places :
        Owed(login', limit'.attempts, r) + 1 <= Owed(login, limit.attempts, s)
  BY <1>5
<1>7. /\ Owed(login, limit.attempts, s) \in Nat /\ Owed(login', limit'.attempts, r) \in Nat
      /\ MostFailures \in Int
  BY <1>4, OwedFits
<1>8. failed + Owed(login, limit.attempts, s) <= MostFailures
  BY <1>4
<1> QED
  BY <1>1, <1>6, <1>7, <1>8

LEMMA PaidNext ==
  ASSUME FailuresInv, [LoginNext]_loginVars
  PROVE  FailuresInv'
<1>1. LoginInv'
  BY InvNext DEF FailuresInv
<1>2. ASSUME Tick \/ UNCHANGED loginVars PROVE FailuresPaid'
  <2>1. UNCHANGED <<limit, login, failed>>
    BY <1>2 DEF Tick, loginVars
  <2>2. FailuresPaid
    BY DEF FailuresInv
  <2>3. FailuresPaid'
    BY <2>1, <2>2 DEF FailuresPaid, Places, MostFailures, Owed, Worths, Worth, Room,
      Ways, Paths
  <2> QED
    BY <2>3
<1>3. ASSUME NEW l \in Logins,
             \/ BeginLogin(l) \/ Refuse(l) \/ Admit(l) \/ StartOver(l) \/ Verify(l)
             \/ ReadFailures(l) \/ FirstFailure(l) \/ CountFailure(l) \/ Succeed(l)
      PROVE  FailuresPaid'
  <2>1. CASE BeginLogin(l) \/ Refuse(l) \/ Admit(l) \/ Verify(l)
    BY <1>1, <2>1, CheckPaid
  <2>2. CASE StartOver(l) \/ Succeed(l)
    BY <1>1, <2>2, ResetKeeps DEF StartOver, Succeed
  <2> QED
    BY <1>1, <1>3, <2>1, <2>2, ReadPaid, FirstPaid, CountPaid
<1>4. FailuresPaid'
  BY <1>2, <1>3 DEF LoginNext
<1>5. clock' <= MaxTime
  <2>1. MaxTime \in Nat /\ clock \in Nat /\ clock <= MaxTime
    BY LoginAssumption DEF LoginAssumption, FailuresInv, LoginInv, Shaped
  <2>2. CASE Tick
    BY <2>1, <2>2 DEF Tick
  <2>3. CASE UNCHANGED clock
    BY <2>1, <2>3
  <2> QED
    BY <2>2, <2>3 DEF LoginNext, loginVars, BeginLogin, Refuse, Admit, StartOver,
      Verify,
      ReadFailures, FirstFailure, CountFailure, Succeed
<1> QED
  BY <1>1, <1>4, <1>5 DEF FailuresInv

LEMMA PaidInit ==
  ASSUME LoginInit
  PROVE  FailuresInv
<1>1. LoginInv
  BY InvInit
<1>2. ASSUME NEW r \in Places PROVE failed + Owed(login, limit.attempts, r) <= MostFailures
  <2>1. /\ Owed(login, limit.attempts, r) \in Nat /\ MostFailures \in Int
        /\ Owed(login, limit.attempts, r) <= MostFailures
    BY <1>1, SeenTyped, OwedFits
  <2>2. failed = 0
    BY DEF LoginInit
  <2> QED
    BY <2>1, <2>2
<1>3. clock <= MaxTime
  BY LoginAssumption DEF LoginInit, LoginAssumption
<1> QED
  BY <1>1, <1>2, <1>3 DEF FailuresInv, FailuresPaid

LEMMA PlacesExist == Places # {}
<1> DEFINE n == Cardinality(Logins)
<1>1. IsFiniteSet(Logins)
  BY LoginAssumption DEF LoginAssumption
<1>2. PICK f : f \in Bijection(1..n, Logins)
  BY <1>1, FS_CardinalityType DEF ExistsBijection
<1>3. \A l \in Logins : \E k \in 1..n : f[k] = l
  <2> HIDE DEF n
  <2> QED
    BY <1>2 DEF Bijection, Surjection
<1> DEFINE r == [l \in Logins |-> CHOOSE k \in 1..n : f[k] = l]
<1>4. \A l \in Logins : r[l] \in 1..n /\ f[r[l]] = l
  BY <1>3
<1>5. r \in [Logins -> 1..n]
  BY <1>4
<1> HIDE DEF r
<1>6. \A l, m \in Logins : r[l] = r[m] => l = m
  BY <1>4, Zenon
<1> QED
  BY <1>5, <1>6 DEF Places

(* Concurrent logins record at most (MaxAttempts + n over n) - 1 failures   *)
(* before the counter starts over (lib/rate-limit.ts, recordFailedAttempt), *)
(* for every number n of them.                                              *)
THEOREM FailuresSafe == LoginSpec => []FailuresBounded
<1>1. FailuresInv => FailuresBounded
  <2> SUFFICES ASSUME FailuresInv PROVE FailuresBounded
    OBVIOUS
  <2>1. PICK r \in Places : TRUE
    BY PlacesExist
  <2>2. /\ failed + Owed(login, limit.attempts, r) <= MostFailures
        /\ Owed(login, limit.attempts, r) \in Nat /\ MostFailures \in Int /\ failed \in Nat
    BY SeenTyped, OwedFits DEF FailuresInv, FailuresPaid
  <2>3. failed <= MostFailures
    BY <2>2
  <2>4. LoginTypeOK
    <3>1. clock \in 0..MaxTime
      BY LoginAssumption DEF LoginAssumption, FailuresInv, LoginInv, Shaped
    <3>2. Cardinality(limit.lockedAt) <= 1
      <4>1. \A t : Cardinality({t}) = 1
        BY FS_Singleton
      <4> QED
        BY <4>1, FS_EmptySet DEF FailuresInv, LoginInv, Shaped
    <3> QED
      BY <3>1, <3>2 DEF FailuresInv, LoginInv, Shaped, RowsExist, LoginTypeOK, Limits,
        LoginCalls, Steps
  <2> QED
    BY <2>3, <2>4 DEF FailuresBounded, MostFailures, Ways
<1> QED
  BY <1>1, PaidInit, PaidNext, PTL DEF LoginSpec

-----------------------------------------------------------------------------
(* The dashboard of analytics. *)

(* Times that have a bound have a greatest one.                             *)
LEMMA MaxOfTimes ==
  ASSUME NEW bound \in Nat, NEW T, T \subseteq 0..bound, T # {}
  PROVE  Max(T) \in T /\ \A y \in T : y <= Max(T)
<1> DEFINE Mirrored == {n \in Nat : bound - n \in T}
<1>1. PICK t \in T : TRUE
  OBVIOUS
<1>2. bound - t \in Mirrored
  <2>1. bound - t \in Nat /\ bound - (bound - t) = t
    BY <1>1
  <2>2. QED
    BY <1>1, <2>1
<1>3. PICK n \in Mirrored : \A m \in Mirrored : n <= m
  <2>1. Mirrored \subseteq Nat /\ Mirrored # {}
    BY <1>2
  <2>2. QED
    BY <2>1, LeastNumber
<1>4. bound - n \in T
  BY <1>3
<1>5. \A y \in T : bound - n >= y
  <2>1. SUFFICES ASSUME NEW y \in T PROVE bound - n >= y
    OBVIOUS
  <2>2. bound - y \in Nat /\ bound - (bound - y) = y /\ y \in Nat
    BY <2>1
  <2>3. bound - y \in Mirrored
    BY <2>1, <2>2
  <2>4. n <= bound - y /\ n \in Nat
    BY <1>3, <2>3
  <2>5. QED
    BY <2>2, <2>4
<1>6. \E x \in T : \A y \in T : x >= y
  BY <1>4, <1>5
<1>7. Max(T) \in T /\ \A y \in T : Max(T) >= y
  BY <1>6 DEF Max
<1>8. QED
  BY <1>7

Requests == [step : {"idle", "look", "serve", "compute", "save"}, now : 0..time,
             todo : SUBSET {"snapshot", "sales"}, need : [Sales -> Nat],
             computedAt : SUBSET (0..time), newest : SUBSET (0..time), holds : [Sales -> Nat]]

SnapshotTyped ==
  /\ SnapshotTypeOK
  /\ snapshot \in [computedAt : SUBSET (0..time), holds : [Sales -> Nat]]
  /\ reader \in [Readers -> Requests]
  /\ \A r \in Readers, s \in Sales : reader[r].need[s] <= sale[s].version

(* A computation that read h and is dated c knows of every sale, unless the *)
(* sale's last update is younger, or was committed late.                    *)
Covers(c, h) ==
  \A s \in Sales : h[s] < sale[s].version
    => sale[s].updatedAt > c \/ <<s, sale[s].version>> \in late

(* A request q that has asked for the youngest update time sees from it     *)
(* that such a computation lacks a version that q needs, unless a later one *)
(* was committed late.                                                      *)
Told(q, c, h) ==
  \A s \in Sales : h[s] < q.need[s]
    => \/ \E m \in q.newest : m > c
       \/ \E v \in q.need[s]..sale[s].version : <<s, v>> \in late

Asked(q) == q.step = "look" /\ "sales" \notin q.todo

Fits(c, h) ==
  /\ Covers(c, h)
  /\ \A r \in Readers : Asked(reader[r]) => Told(reader[r], c, h)

(* Every computation whose result can still be served fits.                 *)
RowFits == \A c \in snapshot.computedAt : Fits(c, snapshot.holds)
SavesFit == \A r \in Readers : reader[r].step = "save" => Fits(reader[r].now, reader[r].holds)
LooksFit == \A r \in Readers : reader[r].step = "look"
              => \A c \in reader[r].computedAt : Fits(c, reader[r].holds)

SnapshotInv == SnapshotTyped /\ RowFits /\ SavesFit /\ LooksFit /\ ServedIsFresh

LEMMA SnapshotStarts == SnapshotInit => SnapshotInv
<1> SUFFICES ASSUME SnapshotInit PROVE SnapshotInv
  OBVIOUS
<1> USE SnapshotAssumption DEF SnapshotInit, NoRead, NoWrite
<1>1. SnapshotTypeOK
  BY DEF SnapshotTypeOK
<1>2. SnapshotTyped
  BY <1>1 DEF SnapshotTyped, Requests
<1>3. RowFits /\ SavesFit /\ LooksFit /\ ServedIsFresh
  BY <1>1 DEF RowFits, SavesFit, LooksFit, ServedIsFresh
<1>4. QED
  BY <1>2, <1>3 DEF SnapshotInv

(* A request that stands at q keeps the invariant.                          *)
Served(q) ==
  \A s \in Sales : q.holds[s] < q.need[s]
    => \E v \in q.need[s]..sale[s].version : <<s, v>> \in late

Sound(q) ==
  /\ q \in Requests
  /\ \A s \in Sales : q.need[s] <= sale[s].version /\ q.holds[s] <= sale[s].version
  /\ q.step = "save" => Fits(q.now, q.holds)
  /\ q.step = "look" => \A c \in q.computedAt : Fits(c, q.holds)
  /\ q.step = "serve" => Served(q)
  /\ Asked(q) => \A c \in 0..time, h \in [Sales -> Nat] : Fits(c, h) => Told(q, c, h)

LEMMA RequestSound ==
  ASSUME SnapshotInv, NEW r \in Readers
  PROVE  /\ reader[r] \in Requests
         /\ \A s \in Sales : reader[r].need[s] <= sale[s].version /\ reader[r].holds[s] <= sale[s].version
         /\ reader[r].step = "save" => Fits(reader[r].now, reader[r].holds)
         /\ reader[r].step = "look" => \A c \in reader[r].computedAt : Fits(c, reader[r].holds)
         /\ reader[r].step = "serve" => Served(reader[r])
<1>1. reader[r] \in Requests
  BY DEF SnapshotInv, SnapshotTyped
<1>2. \A s \in Sales : reader[r].need[s] <= sale[s].version /\ reader[r].holds[s] <= sale[s].version
  <2>1. \A s \in Sales : reader[r].holds[s] \in 0..sale[s].version /\ sale[s].version \in Nat
    BY DEF SnapshotInv, SnapshotTyped, SnapshotTypeOK
  <2>2. QED
    BY <2>1 DEF SnapshotInv, SnapshotTyped
<1>3. reader[r].step = "save" => Fits(reader[r].now, reader[r].holds)
  BY DEF SnapshotInv, SavesFit
<1>4. reader[r].step = "look" => \A c \in reader[r].computedAt : Fits(c, reader[r].holds)
  BY DEF SnapshotInv, LooksFit
<1>5. reader[r].step = "serve" => Served(reader[r])
  BY DEF SnapshotInv, ServedIsFresh, Served
<1>6. QED
  BY <1>1, <1>2, <1>3, <1>4, <1>5

LEMMA RequestStep ==
  ASSUME SnapshotInv, NEW r \in Readers, NEW q, Sound(q),
         reader' = [reader EXCEPT ![r] = q],
         UNCHANGED <<time, sale, writer, late>>,
         \/ UNCHANGED snapshot
         \/ /\ snapshot' \in [computedAt : SUBSET (0..time), holds : [Sales -> Nat]]
            /\ \A s \in Sales : snapshot'.holds[s] <= sale[s].version
            /\ \A c \in snapshot'.computedAt : Fits(c, snapshot'.holds)
  PROVE  SnapshotInv'
<1>1. SnapshotTyped /\ RowFits /\ SavesFit /\ LooksFit /\ ServedIsFresh
  BY DEF SnapshotInv
<1>2. reader' \in [Readers -> Requests] /\ Requests' = Requests
  BY <1>1 DEF SnapshotTyped, Sound, Requests
<1>3. reader'[r] = q /\ \A x \in Readers \ {r} : reader'[x] = reader[x]
  BY <1>1 DEF SnapshotTyped
<1>4. \A x \in Readers : /\ \A s \in Sales : /\ reader'[x].need[s] <= sale[s].version
                                           /\ reader'[x].holds[s] <= sale[s].version
  BY <1>3, RequestSound DEF Sound
<1>5. /\ snapshot' \in [computedAt : SUBSET (0..time), holds : [Sales -> Nat]]
      /\ \A s \in Sales : snapshot'.holds[s] <= sale[s].version
      /\ \A c \in snapshot'.computedAt : Fits(c, snapshot'.holds)
  <2>1. \A s \in Sales : snapshot.holds[s] \in 0..sale[s].version /\ sale[s].version \in Nat
    BY <1>1 DEF SnapshotTyped, SnapshotTypeOK
  <2>2. QED
    BY <1>1, <2>1 DEF SnapshotTyped, RowFits
<1>6. time \in Nat /\ \A s \in Sales : sale[s].version \in Nat
  BY <1>1 DEF SnapshotTyped, SnapshotTypeOK
<1>7. SnapshotTypeOK'
  <2>1. (\A s \in Sales : snapshot.holds[s] \in 0..sale[s].version)'
    BY <1>5, <1>6
  <2>2. (\A x \in Readers :
          /\ reader[x].step \in {"idle", "look", "serve", "compute", "save"}
          /\ reader[x].now \in 0..time
          /\ \A s \in Sales : reader[x].holds[s] \in 0..sale[s].version)'
    <3>1. SUFFICES ASSUME NEW x \in Readers
                   PROVE  /\ reader'[x].step \in {"idle", "look", "serve", "compute", "save"}
                          /\ reader'[x].now \in 0..time
                          /\ \A s \in Sales : reader'[x].holds[s] \in 0..sale[s].version
      OBVIOUS
    <3>2. reader'[x] \in Requests
      BY <1>2
    <3>3. \A s \in Sales : reader'[x].holds[s] \in Nat
      BY <3>2 DEF Requests
    <3>4. QED
      BY <3>2, <3>3, <1>4, <1>6 DEF Requests
  <2>3. QED
    BY <1>1, <1>5, <2>1, <2>2 DEF SnapshotTyped, SnapshotTypeOK
<1>8. SnapshotTyped'
  BY <1>2, <1>4, <1>5, <1>7 DEF SnapshotTyped
<1>9. ASSUME NEW c \in 0..time, NEW h \in [Sales -> Nat], Fits(c, h)
      PROVE  Fits(c, h)'
  <2>1. Covers(c, h)'
    BY <1>9 DEF Fits, Covers
  <2>2. ASSUME NEW x \in Readers, Asked(reader'[x]) PROVE Told(reader[x], c, h)'
    <3>1. Told(reader'[x], c, h)
      BY <1>3, <1>9, <2>2 DEF Fits, Sound
    <3>2. QED
      BY <3>1 DEF Told
  <2>3. QED
    BY <2>1, <2>2 DEF Fits, Asked
<1>10. RowFits'
  <2>1. SUFFICES ASSUME NEW c \in snapshot'.computedAt PROVE Fits(c, snapshot.holds)'
    BY DEF RowFits
  <2>2. PICK h \in [Sales -> Nat] : h = snapshot'.holds
    BY <1>5
  <2>3. Fits(c, h) /\ c \in 0..time
    BY <1>5, <2>2
  <2>4. Fits(c, h)'
    BY <1>9, <2>3
  <2>5. QED
    BY <2>2, <2>4 DEF Fits, Covers, Told
<1>11. SavesFit'
  <2>1. SUFFICES ASSUME NEW x \in Readers, reader'[x].step = "save"
                 PROVE  Fits(reader[x].now, reader[x].holds)'
    BY DEF SavesFit
  <2>2. reader'[x].now \in 0..time /\ reader'[x].holds \in [Sales -> Nat]
    BY <1>2 DEF Requests
  <2>3. PICK c \in 0..time, h \in [Sales -> Nat] : c = reader'[x].now /\ h = reader'[x].holds
    BY <2>2
  <2>4. Fits(c, h)
    BY <1>3, <2>1, <2>3, RequestSound DEF Sound
  <2>5. Fits(c, h)'
    BY <1>9, <2>4
  <2>6. QED
    BY <2>3, <2>5 DEF Fits, Covers, Told
<1>12. LooksFit'
  <2>1. SUFFICES ASSUME NEW x \in Readers, reader'[x].step = "look", NEW c \in reader'[x].computedAt
                 PROVE  Fits(c, reader[x].holds)'
    BY DEF LooksFit
  <2>2. reader'[x].computedAt \subseteq 0..time /\ reader'[x].holds \in [Sales -> Nat]
    BY <1>2 DEF Requests
  <2>3. PICK h \in [Sales -> Nat] : h = reader'[x].holds
    BY <2>2
  <2>4. Fits(c, h) /\ c \in 0..time
    BY <1>3, <2>1, <2>2, <2>3, RequestSound DEF Sound
  <2>5. Fits(c, h)'
    BY <1>9, <2>4
  <2>6. QED
    BY <2>3, <2>5 DEF Fits, Covers, Told
<1>13. ServedIsFresh'
  <2>1. ASSUME NEW x \in Readers, reader'[x].step = "serve" PROVE Served(reader'[x])
    BY <1>3, <2>1, RequestSound DEF Sound
  <2>2. QED
    BY <1>7, <2>1 DEF ServedIsFresh, Served
<1>14. QED
  BY <1>8, <1>10, <1>11, <1>12, <1>13 DEF SnapshotInv

LEMMA NoReadShape ==
  ASSUME time \in Nat
  PROVE  /\ NoRead \in Requests
         /\ NoRead.step = "idle" /\ NoRead.todo = {} /\ NoRead.computedAt = {}
         /\ \A s \in Sales : NoRead.need[s] = 0 /\ NoRead.holds[s] = 0
  BY DEF NoRead, Requests

LEMMA IdleSound == SnapshotInv => Sound(NoRead)
<1> SUFFICES ASSUME SnapshotInv PROVE Sound(NoRead)
  OBVIOUS
<1>1. time \in Nat /\ \A s \in Sales : sale[s].version \in Nat
  BY DEF SnapshotInv, SnapshotTyped, SnapshotTypeOK
<1>2. QED
  BY <1>1, NoReadShape DEF Sound, Asked

LEMMA ComputingSound == SnapshotInv => \A now \in 0..time : Sound(Computing(now))
<1> SUFFICES ASSUME SnapshotInv, NEW now \in 0..time PROVE Sound(Computing(now))
  OBVIOUS
<1>1. time \in Nat /\ \A s \in Sales : sale[s].version \in Nat
  BY DEF SnapshotInv, SnapshotTyped, SnapshotTypeOK
<1> DEFINE q == Computing(now)
<1>2. /\ q \in Requests /\ q.step = "compute"
      /\ q.need = NoRead.need /\ q.holds = NoRead.holds
  BY <1>1, NoReadShape DEF Requests, Computing
<1> HIDE DEF q
<1>3. Sound(q)
  BY <1>1, <1>2, NoReadShape DEF Sound, Asked
<1>4. QED
  BY <1>3 DEF q

LEMMA OpenDashboardKeeps ==
  ASSUME SnapshotInv, NEW r \in Readers, OpenDashboard(r)
  PROVE  SnapshotInv'
<1> DEFINE q == [NoRead EXCEPT !.step = "look", !.now = time,
                               !.todo = {"snapshot", "sales"}, !.need = Versions]
<1>1. time \in Nat /\ \A s \in Sales : sale[s].version \in Nat
  BY DEF SnapshotInv, SnapshotTyped, SnapshotTypeOK
<1>2. Sound(q)
  <2>1. Versions \in [Sales -> Nat] /\ \A s \in Sales : Versions[s] = sale[s].version
    BY <1>1 DEF Versions
  <2>2. /\ q \in Requests /\ q.step = "look" /\ "sales" \in q.todo /\ q.computedAt = {}
        /\ q.need = Versions /\ q.holds = NoRead.holds
    <3> DEFINE look == [NoRead EXCEPT !.step = "look", !.now = time]
               asks == [look EXCEPT !.todo = {"snapshot", "sales"}, !.need = Versions]
    <3>1. time \in 0..time
      BY <1>1
    <3>2. /\ look \in Requests /\ look.step = "look"
          /\ look.computedAt = {} /\ look.holds = NoRead.holds
      BY <1>1, <3>1, NoReadShape DEF Requests
    <3>3. q = asks
      OBVIOUS
    <3> HIDE DEF look, q
    <3>4. QED
      BY <2>1, <3>2, <3>3 DEF Requests
  <2> HIDE DEF q
  <2>3. QED
    BY <1>1, <2>1, <2>2, NoReadShape DEF Sound, Asked
<1>3. reader' = [reader EXCEPT ![r] = q] /\ UNCHANGED <<time, sale, writer, snapshot, late>>
  BY DEF OpenDashboard
<1>4. QED
  BY <1>2, <1>3, RequestStep

LEMMA FindSnapshotKeeps ==
  ASSUME SnapshotInv, NEW r \in Readers, FindSnapshot(r)
  PROVE  SnapshotInv'
<1> DEFINE q == [reader[r] EXCEPT !.todo = @ \ {"snapshot"},
                                  !.computedAt = snapshot.computedAt,
                                  !.holds = snapshot.holds]
<1>1. time \in Nat /\ \A s \in Sales : sale[s].version \in Nat
  BY DEF SnapshotInv, SnapshotTyped, SnapshotTypeOK
<1>2. reader[r] \in Requests /\ reader[r].step = "look"
  BY RequestSound DEF FindSnapshot
<1>3. snapshot.holds \in [Sales -> Nat] /\ snapshot.computedAt \subseteq 0..time
  BY DEF SnapshotInv, SnapshotTyped
<1>4. \A s \in Sales : snapshot.holds[s] <= sale[s].version
  BY <1>1, <1>3 DEF SnapshotInv, SnapshotTyped, SnapshotTypeOK
<1>5. q \in Requests /\ q.step = "look" /\ q.need = reader[r].need /\ q.newest = reader[r].newest
      /\ q.holds = snapshot.holds /\ q.computedAt = snapshot.computedAt
      /\ ("sales" \in q.todo <=> "sales" \in reader[r].todo)
  BY <1>2, <1>3 DEF Requests
<1>6. \A c \in q.computedAt : Fits(c, q.holds)
  BY <1>5 DEF SnapshotInv, RowFits
<1>7. ASSUME Asked(q), NEW c \in 0..time, NEW h \in [Sales -> Nat], Fits(c, h)
      PROVE  Told(q, c, h)
  <2>1. Told(reader[r], c, h)
    BY <1>2, <1>5, <1>7 DEF Fits, Asked
  <2>2. QED
    BY <1>5, <2>1 DEF Told
<1>8. Sound(q)
  BY <1>4, <1>5, <1>6, <1>7, RequestSound DEF Sound
<1>9. reader' = [reader EXCEPT ![r] = q] /\ UNCHANGED <<time, sale, writer, snapshot, late>>
  <2>1. reader' = [reader EXCEPT ![r].todo = @ \ {"snapshot"},
                              ![r].computedAt = snapshot.computedAt,
                              ![r].holds = snapshot.holds]
    BY DEF FindSnapshot
  <2>2. reader \in [Readers -> Requests]
    BY DEF SnapshotInv, SnapshotTyped
  <2>3. QED
    BY <2>1, <2>2 DEF FindSnapshot, Requests
<1> HIDE DEF q
<1>10. QED
  BY <1>8, <1>9, RequestStep

LEMMA MaxSaleUpdatedAtKeeps ==
  ASSUME SnapshotInv, NEW r \in Readers, MaxSaleUpdatedAt(r)
  PROVE  SnapshotInv'
<1> DEFINE times == {sale[s].updatedAt : s \in {t \in Sales : sale[t].version > 0}}
           newest == IF times = {} THEN {} ELSE {Max(times)}
           q == [reader[r] EXCEPT !.todo = @ \ {"sales"}, !.newest = newest]
<1>1. time \in Nat /\ \A s \in Sales : sale[s].version \in Nat /\ sale[s].updatedAt \in 0..time
  BY DEF SnapshotInv, SnapshotTyped, SnapshotTypeOK
<1>2. reader[r] \in Requests /\ reader[r].step = "look"
  BY RequestSound DEF MaxSaleUpdatedAt
<1>3. times \subseteq 0..time
  BY <1>1
<1>4. newest \subseteq 0..time /\ \A t \in times : \E m \in newest : t <= m
  <2>1. CASE times = {}
    BY <2>1
  <2>2. CASE times # {}
    BY <1>1, <1>3, <2>2, MaxOfTimes
  <2>3. QED
    BY <2>1, <2>2
<1> HIDE DEF newest
<1>5. q \in Requests /\ q.step = "look" /\ q.need = reader[r].need /\ q.newest = newest
      /\ q.holds = reader[r].holds /\ q.computedAt = reader[r].computedAt
  BY <1>2, <1>4 DEF Requests
<1>6. \A c \in q.computedAt : Fits(c, q.holds)
  BY <1>2, <1>5, RequestSound
<1>7. ASSUME NEW c \in 0..time, NEW h \in [Sales -> Nat], Fits(c, h)
      PROVE  Told(q, c, h)
  <2>1. SUFFICES ASSUME NEW s \in Sales, h[s] < q.need[s]
                 PROVE  \/ \E m \in q.newest : m > c
                        \/ \E v \in q.need[s]..sale[s].version : <<s, v>> \in late
    BY DEF Told
  <2>2. q.need[s] <= sale[s].version /\ q.need[s] \in Nat
    BY <1>5, RequestSound DEF Requests
  <2>3. h[s] \in Nat /\ h[s] < sale[s].version /\ 0 < sale[s].version
    BY <1>1, <2>1, <2>2
  <2>4. sale[s].updatedAt > c \/ <<s, sale[s].version>> \in late
    BY <1>7, <2>3 DEF Fits, Covers
  <2>5. sale[s].updatedAt \in times
    BY <1>1, <2>3
  <2>6. PICK m \in newest : sale[s].updatedAt <= m
    BY <1>4, <2>5
  <2>7. sale[s].version \in q.need[s]..sale[s].version
    BY <1>1, <2>2
  <2>8. m \in 0..time
    BY <1>4
  <2>9. QED
    BY <1>1, <1>5, <2>4, <2>6, <2>7, <2>8
<1>8. Sound(q)
  BY <1>5, <1>6, <1>7, RequestSound DEF Sound
<1>9. reader' = [reader EXCEPT ![r] = q] /\ UNCHANGED <<time, sale, writer, snapshot, late>>
  <2>1. reader' = [reader EXCEPT ![r].todo = @ \ {"sales"}, ![r].newest = newest]
    BY DEF MaxSaleUpdatedAt, newest
  <2>2. reader \in [Readers -> Requests]
    BY DEF SnapshotInv, SnapshotTyped
  <2>3. QED
    BY <2>1, <2>2 DEF MaxSaleUpdatedAt, Requests
<1> HIDE DEF q
<1>10. QED
  BY <1>8, <1>9, RequestStep

LEMMA DecideKeeps ==
  ASSUME SnapshotInv, NEW r \in Readers, Decide(r)
  PROVE  SnapshotInv'
<1> DEFINE serves == reader[r].computedAt # {} /\ ~Stale(r)
           q == IF serves THEN [reader[r] EXCEPT !.step = "serve"]
                ELSE Computing(reader[r].now)
<1>1. time \in Nat /\ \A s \in Sales : sale[s].version \in Nat
  BY DEF SnapshotInv, SnapshotTyped, SnapshotTypeOK
<1>2. reader[r] \in Requests /\ reader[r].step = "look" /\ reader[r].todo = {}
  BY RequestSound DEF Decide
<1>3. Sound(q)
  <2>1. CASE serves
    <3>1. q \in Requests /\ q.step = "serve" /\ q.need = reader[r].need
          /\ q.holds = reader[r].holds
      BY <1>2, <2>1 DEF Requests
    <3>2. PICK c \in reader[r].computedAt : \A m \in reader[r].newest : ~(m > c)
      BY <2>1 DEF Stale
    <3>3. Fits(c, reader[r].holds)
      BY <1>2, <3>2, RequestSound
    <3>4. Told(reader[r], c, reader[r].holds)
      BY <1>2, <3>3 DEF Fits, Asked
    <3>5. Served(q)
      BY <3>1, <3>2, <3>4 DEF Told, Served
    <3>6. QED
      BY <3>1, <3>5, RequestSound DEF Sound, Asked
  <2>2. CASE ~serves
    BY <1>2, <2>2, ComputingSound DEF Requests
  <2>3. QED
    BY <2>1, <2>2
<1>4. reader' = [reader EXCEPT ![r] = q] /\ UNCHANGED <<time, sale, writer, snapshot, late>>
  BY DEF Decide
<1> HIDE DEF q
<1>5. QED
  BY <1>3, <1>4, RequestStep

LEMMA ServeKeeps ==
  ASSUME SnapshotInv, NEW r \in Readers, Serve(r) \/ ReaderDies(r)
  PROVE  SnapshotInv'
<1>1. reader' = [reader EXCEPT ![r] = NoRead] /\ UNCHANGED <<time, sale, writer, snapshot, late>>
  BY DEF Serve, ReaderDies
<1>2. QED
  BY <1>1, IdleSound, RequestStep

LEMMA RefreshKeeps ==
  ASSUME SnapshotInv, NEW r \in Readers, Refresh(r) \/ RefreshForSale(r)
  PROVE  SnapshotInv'
<1>1. reader' = [reader EXCEPT ![r] = Computing(time)]
      /\ UNCHANGED <<time, sale, writer, snapshot, late>>
  BY DEF Refresh, RefreshForSale
<1>2. time \in 0..time
  BY DEF SnapshotInv, SnapshotTyped, SnapshotTypeOK
<1>3. Sound(Computing(time))
  BY <1>2, ComputingSound
<1>4. QED
  BY <1>1, <1>3, RequestStep

LEMMA ComputeKeeps ==
  ASSUME SnapshotInv, NEW r \in Readers, Compute(r)
  PROVE  SnapshotInv'
<1> DEFINE q == [reader[r] EXCEPT !.step = "save", !.holds = Versions]
<1>1. time \in Nat /\ \A s \in Sales : sale[s].version \in Nat
  BY DEF SnapshotInv, SnapshotTyped, SnapshotTypeOK
<1>2. reader[r] \in Requests
  BY RequestSound
<1>3. q \in Requests /\ q.step = "save" /\ q.need = reader[r].need /\ q.holds = Versions
  BY <1>1, <1>2 DEF Requests, Versions
<1>4. Covers(q.now, q.holds)
  BY <1>1, <1>3 DEF Covers, Versions
<1>5. ASSUME NEW x \in Readers PROVE Told(reader[x], q.now, q.holds)
  <2>1. reader[x] \in Requests /\ \A s \in Sales : reader[x].need[s] <= sale[s].version
    BY RequestSound
  <2>2. SUFFICES ASSUME NEW s \in Sales PROVE ~(q.holds[s] < reader[x].need[s])
    BY DEF Told
  <2>3. q.holds[s] = sale[s].version
    BY <1>3 DEF Versions
  <2>4. reader[x].need[s] \in Nat /\ reader[x].need[s] <= sale[s].version
    BY <2>1 DEF Requests
  <2>5. QED
    BY <1>1, <2>3, <2>4
<1>6. Sound(q)
  BY <1>1, <1>3, <1>4, <1>5, RequestSound DEF Sound, Fits, Asked, Versions
<1>7. reader' = [reader EXCEPT ![r] = q] /\ UNCHANGED <<time, sale, writer, snapshot, late>>
  <2>1. reader' = [reader EXCEPT ![r].step = "save", ![r].holds = Versions]
    BY DEF Compute
  <2>2. reader \in [Readers -> Requests]
    BY DEF SnapshotInv, SnapshotTyped
  <2>3. QED
    BY <2>1, <2>2 DEF Compute, Requests
<1> HIDE DEF q
<1>8. QED
  BY <1>6, <1>7, RequestStep

LEMMA UpsertSnapshotKeeps ==
  ASSUME SnapshotInv, NEW r \in Readers, UpsertSnapshot(r)
  PROVE  SnapshotInv'
<1>1. reader[r] \in Requests /\ reader[r].step = "save"
  BY RequestSound DEF UpsertSnapshot
<1>2. snapshot' = [computedAt |-> {reader[r].now}, holds |-> reader[r].holds]
      /\ reader' = [reader EXCEPT ![r] = NoRead] /\ UNCHANGED <<time, sale, writer, late>>
  BY DEF UpsertSnapshot, ComputedAt
<1>3. snapshot' \in [computedAt : SUBSET (0..time), holds : [Sales -> Nat]]
  BY <1>1, <1>2 DEF Requests
<1>4. \A s \in Sales : snapshot'.holds[s] <= sale[s].version
  BY <1>2, RequestSound
<1>5. \A c \in snapshot'.computedAt : Fits(c, snapshot'.holds)
  BY <1>1, <1>2, RequestSound
<1>6. QED
  BY <1>2, <1>3, <1>4, <1>5, IdleSound, RequestStep

(* What does not touch the rows of sales and snapshot, nor requests.        *)
LEMMA FrameKeeps ==
  ASSUME SnapshotInv, UNCHANGED <<sale, snapshot, reader, late>>,
         time' \in time..LastTime, writer' \in [Writers -> [sale : SUBSET Sales, at : 0..time']]
  PROVE  SnapshotInv'
<1>1. SnapshotTyped /\ RowFits /\ SavesFit /\ LooksFit /\ ServedIsFresh
  BY DEF SnapshotInv
<1>2. time \in 0..LastTime /\ LastTime \in Nat /\ time' \in 0..LastTime /\ 0..time \subseteq 0..time'
  BY <1>1, SnapshotAssumption DEF SnapshotTyped, SnapshotTypeOK
<1>3. SnapshotTypeOK'
  <2>1. (sale \in [Sales -> [version : 0..MaxVersions, updatedAt : 0..time]])'
    <3>1. sale \in [Sales -> [version : 0..MaxVersions, updatedAt : 0..time]]
      BY <1>1 DEF SnapshotTyped, SnapshotTypeOK
    <3>2. QED
      BY <1>2, <3>1
  <2>2. (snapshot.computedAt \subseteq 0..time)'
    BY <1>1, <1>2 DEF SnapshotTyped
  <2>3. (\A r \in Readers : reader[r].now \in 0..time)'
    BY <1>1, <1>2 DEF SnapshotTyped, Requests
  <2>4. QED
    BY <1>1, <1>2, <2>1, <2>2, <2>3 DEF SnapshotTyped, SnapshotTypeOK
<1>4. SnapshotTyped'
  <2>1. Requests \subseteq Requests'
    BY <1>2 DEF Requests
  <2>2. (reader \in [Readers -> Requests])'
    BY <1>1, <2>1 DEF SnapshotTyped
  <2>3. (snapshot \in [computedAt : SUBSET (0..time), holds : [Sales -> Nat]])'
    BY <1>1, <1>2 DEF SnapshotTyped
  <2>4. QED
    BY <1>1, <1>3, <2>2, <2>3 DEF SnapshotTyped
<1>5. RowFits' /\ SavesFit' /\ LooksFit'
  BY <1>1 DEF RowFits, SavesFit, LooksFit, Fits, Covers, Told, Asked
<1>6. ServedIsFresh'
  BY <1>1, <1>3 DEF ServedIsFresh
<1>7. QED
  BY <1>4, <1>5, <1>6 DEF SnapshotInv

LEMMA TimePassesKeeps ==
  ASSUME SnapshotInv, TimePasses
  PROVE  SnapshotInv'
<1>1. time \in 0..LastTime /\ LastTime \in Nat
      /\ writer \in [Writers -> [sale : SUBSET Sales, at : 0..time]]
  BY SnapshotAssumption DEF SnapshotInv, SnapshotTyped, SnapshotTypeOK
<1>2. time' = time + 1 /\ time < LastTime /\ UNCHANGED <<sale, writer, snapshot, reader, late>>
  BY DEF TimePasses
<1>3. time' \in time..LastTime /\ 0..time \subseteq 0..time'
  BY <1>1, <1>2
<1>4. writer' \in [Writers -> [sale : SUBSET Sales, at : 0..time']]
  BY <1>1, <1>2, <1>3
<1>5. QED
  BY <1>2, <1>3, <1>4, FrameKeeps

LEMMA SendWriteKeeps ==
  ASSUME SnapshotInv, NEW w \in Writers, NEW s \in Sales, SendWrite(w, s)
  PROVE  SnapshotInv'
<1>1. time \in 0..LastTime /\ LastTime \in Nat
      /\ writer \in [Writers -> [sale : SUBSET Sales, at : 0..time]]
  BY SnapshotAssumption DEF SnapshotInv, SnapshotTyped, SnapshotTypeOK
<1>2. writer' = [writer EXCEPT ![w] = [sale |-> {s}, at |-> time]]
      /\ UNCHANGED <<time, sale, snapshot, reader, late>>
  BY DEF SendWrite
<1>3. time' \in time..LastTime /\ time \in 0..time'
  BY <1>1, <1>2
<1>4. writer' \in [Writers -> [sale : SUBSET Sales, at : 0..time']]
  BY <1>1, <1>2, <1>3
<1>5. QED
  BY <1>2, <1>3, <1>4, FrameKeeps

LEMMA CommitWriteKeeps ==
  ASSUME SnapshotInv, NEW w \in Writers, CommitWrite(w)
  PROVE  SnapshotInv'
<1>1. SnapshotTyped /\ RowFits /\ SavesFit /\ LooksFit /\ ServedIsFresh
  BY DEF SnapshotInv
<1>2. /\ time \in 0..LastTime /\ LastTime \in Nat /\ MaxVersions \in Nat
      /\ writer \in [Writers -> [sale : SUBSET Sales, at : 0..time]]
      /\ sale \in [Sales -> [version : 0..MaxVersions, updatedAt : 0..time]]
      /\ late \subseteq Sales \X (1..MaxVersions)
  BY <1>1, SnapshotAssumption DEF SnapshotTyped, SnapshotTypeOK
<1> DEFINE at == writer[w].at
<1>3. PICK s \in writer[w].sale :
        LET version == sale[s].version + 1
        IN /\ version <= MaxVersions
           /\ sale' = [sale EXCEPT ![s] = [version |-> version, updatedAt |-> at]]
           /\ late' = IF ComputedSince(at) THEN late \cup {<<s, version>>} ELSE late
  BY DEF CommitWrite
<1>4. writer' = [writer EXCEPT ![w] = NoWrite] /\ UNCHANGED <<time, snapshot, reader>>
  BY DEF CommitWrite
<1> DEFINE version == sale[s].version + 1
<1>5. s \in Sales /\ at \in 0..time /\ version \in 1..MaxVersions
      /\ sale[s].version \in Nat /\ \A x \in Sales : sale[x].version \in Nat /\ sale[x].updatedAt \in Nat
  BY <1>2, <1>3
<1>6. /\ sale'[s].version = version /\ sale'[s].updatedAt = at
      /\ \A x \in Sales \ {s} : sale'[x] = sale[x]
      /\ sale' \in [Sales -> [version : 0..MaxVersions, updatedAt : 0..time]]
  BY <1>2, <1>3, <1>5
<1>7. /\ late \subseteq late' /\ late' \subseteq Sales \X (1..MaxVersions)
      /\ ComputedSince(at) => <<s, version>> \in late'
  BY <1>2, <1>3, <1>5
<1> HIDE DEF at, version
<1>8. \A x \in Sales : sale[x].version <= sale'[x].version /\ sale'[x].version \in Nat
  BY <1>5, <1>6 DEF version
<1>9. SnapshotTypeOK'
  <2>1. writer' \in [Writers -> [sale : SUBSET Sales, at : 0..time]]
    BY <1>2, <1>4 DEF NoWrite
  <2>2. ASSUME NEW h \in [Sales -> Nat], \A x \in Sales : h[x] \in 0..sale[x].version
        PROVE  \A x \in Sales : h[x] \in 0..sale'[x].version
    BY <1>5, <1>8, <2>2
  <2>3. \A x \in Sales : snapshot.holds[x] \in 0..sale'[x].version
    BY <1>1, <2>2 DEF SnapshotTyped, SnapshotTypeOK
  <2>4. \A r \in Readers : \A x \in Sales : reader[r].holds[x] \in 0..sale'[x].version
    BY <1>1, <2>2 DEF SnapshotTyped, SnapshotTypeOK, Requests
  <2>5. QED
    BY <1>1, <1>2, <1>4, <1>6, <1>7, <2>1, <2>3, <2>4 DEF SnapshotTyped, SnapshotTypeOK
<1>10. SnapshotTyped'
  <2>1. Requests' = Requests
    BY <1>4 DEF Requests
  <2>2. \A r \in Readers, x \in Sales : reader[r].need[x] <= sale'[x].version
    <3>1. SUFFICES ASSUME NEW r \in Readers, NEW x \in Sales
                   PROVE  reader[r].need[x] <= sale'[x].version
      OBVIOUS
    <3>2. reader[r].need[x] \in Nat /\ reader[r].need[x] <= sale[x].version
      BY <1>1 DEF SnapshotTyped, Requests
    <3>3. QED
      BY <1>5, <1>8, <3>2
  <2>3. QED
    BY <1>1, <1>4, <1>9, <2>1, <2>2 DEF SnapshotTyped
<1>11. ASSUME NEW q \in Requests, NEW c, NEW h, Told(q, c, h)
       PROVE  Told(q, c, h)'
  <2>1. SUFFICES ASSUME NEW x \in Sales, h[x] < q.need[x], NEW v \in q.need[x]..sale[x].version,
                        <<x, v>> \in late
                 PROVE  v \in q.need[x]..sale'[x].version /\ <<x, v>> \in late'
    BY <1>11 DEF Told
  <2>2. q.need[x] \in Nat
    BY DEF Requests
  <2>3. QED
    BY <1>5, <1>7, <1>8, <2>1, <2>2
<1>12. ASSUME NEW c \in 0..time, NEW h \in [Sales -> Nat], Fits(c, h), c >= at => ComputedSince(at)
       PROVE  Fits(c, h)'
  <2>1. ASSUME NEW x \in Sales, h[x] < sale'[x].version
        PROVE  sale'[x].updatedAt > c \/ <<x, sale'[x].version>> \in late'
    <3>1. CASE x = s
      BY <1>2, <1>5, <1>6, <1>7, <1>12, <3>1
    <3>2. CASE x # s
      BY <1>6, <1>7, <1>12, <2>1, <3>2 DEF Fits, Covers
    <3>3. QED
      BY <3>1, <3>2
  <2>2. Covers(c, h)'
    BY <2>1 DEF Covers
  <2>3. ASSUME NEW r \in Readers, Asked(reader[r])' PROVE Told(reader[r], c, h)'
    <3>1. Asked(reader[r]) /\ reader[r] \in Requests
      BY <1>1, <1>4, <2>3 DEF Asked, SnapshotTyped
    <3>2. PICK q \in Requests : q = reader[r]
      BY <3>1
    <3>3. Told(q, c, h)'
      BY <1>11, <1>12, <3>1, <3>2 DEF Fits
    <3>4. QED
      BY <1>4, <3>2, <3>3 DEF Told
  <2>4. QED
    BY <2>2, <2>3 DEF Fits
<1>13. RowFits'
  <2>1. SUFFICES ASSUME NEW c \in snapshot.computedAt PROVE Fits(c, snapshot.holds)'
    BY <1>4 DEF RowFits
  <2>2. PICK h \in [Sales -> Nat] : h = snapshot.holds
    BY <1>1 DEF SnapshotTyped
  <2>3. c \in 0..time /\ Fits(c, h) /\ (c >= at => ComputedSince(at))
    BY <1>1, <2>2 DEF SnapshotTyped, RowFits, ComputedSince
  <2>4. Fits(c, h)'
    BY <1>12, <2>3
  <2>5. QED
    BY <1>4, <2>2, <2>4 DEF Fits, Covers, Told
<1>14. SavesFit'
  <2>1. SUFFICES ASSUME NEW r \in Readers, reader[r].step = "save"
                 PROVE  Fits(reader[r].now, reader[r].holds)'
    BY <1>4 DEF SavesFit
  <2>2. PICK c \in 0..time, h \in [Sales -> Nat] : c = reader[r].now /\ h = reader[r].holds
    BY <1>1 DEF SnapshotTyped, Requests
  <2>3. Fits(c, h) /\ (c >= at => ComputedSince(at))
    BY <1>1, <2>1, <2>2 DEF SavesFit, ComputedSince
  <2>4. Fits(c, h)'
    BY <1>12, <2>3
  <2>5. QED
    BY <1>4, <2>2, <2>4 DEF Fits, Covers, Told
<1>15. LooksFit'
  <2>1. SUFFICES ASSUME NEW r \in Readers, reader[r].step = "look", NEW c \in reader[r].computedAt
                 PROVE  Fits(c, reader[r].holds)'
    BY <1>4 DEF LooksFit
  <2>2. PICK h \in [Sales -> Nat] : h = reader[r].holds
    BY <1>1 DEF SnapshotTyped, Requests
  <2>3. c \in 0..time /\ Fits(c, h) /\ (c >= at => ComputedSince(at))
    BY <1>1, <2>1, <2>2 DEF SnapshotTyped, Requests, LooksFit, ComputedSince
  <2>4. Fits(c, h)'
    BY <1>12, <2>3
  <2>5. QED
    BY <1>4, <2>2, <2>4 DEF Fits, Covers, Told
<1>16. ServedIsFresh'
  <2>1. SUFFICES ASSUME NEW r \in Readers, reader[r].step = "serve",
                        NEW x \in Sales, reader[r].holds[x] < reader[r].need[x]
                 PROVE  \E v \in reader[r].need[x]..sale'[x].version : <<x, v>> \in late'
    BY <1>4, <1>9 DEF ServedIsFresh
  <2>2. PICK v \in reader[r].need[x]..sale[x].version : <<x, v>> \in late
    BY <1>1, <2>1 DEF ServedIsFresh
  <2>3. reader[r].need[x] \in Nat
    BY <1>1 DEF SnapshotTyped, Requests
  <2>4. v \in reader[r].need[x]..sale'[x].version
    BY <1>5, <1>8, <2>2, <2>3
  <2>5. QED
    BY <1>7, <2>2, <2>4
<1>17. QED
  BY <1>10, <1>13, <1>14, <1>15, <1>16 DEF SnapshotInv

LEMMA SnapshotInductive == SnapshotInv /\ [SnapshotNext]_snapshotVars => SnapshotInv'
<1> SUFFICES ASSUME SnapshotInv, [SnapshotNext]_snapshotVars PROVE SnapshotInv'
  OBVIOUS
<1>1. CASE SnapshotNext
  BY <1>1, TimePassesKeeps, CommitWriteKeeps, SendWriteKeeps, OpenDashboardKeeps,
     FindSnapshotKeeps, MaxSaleUpdatedAtKeeps, DecideKeeps, ServeKeeps, RefreshKeeps,
     ComputeKeeps, UpsertSnapshotKeeps DEF SnapshotNext
<1>2. CASE UNCHANGED snapshotVars
  <2>1. time' \in time..LastTime /\ writer' \in [Writers -> [sale : SUBSET Sales, at : 0..time']]
    BY <1>2, SnapshotAssumption DEF snapshotVars, SnapshotInv, SnapshotTyped,
      SnapshotTypeOK
  <2>2. QED
    BY <1>2, <2>1, FrameKeeps DEF snapshotVars
<1>3. QED
  BY <1>1, <1>2

(* A dashboard served from its row shows every sale committed before the    *)
(* request, except for late commits (getDashboard, upsertSnapshot), for     *)
(* every number of sales, writers, requests and changes.                    *)
THEOREM ServedFresh == SnapshotSpec => []ServedIsFresh
<1>1. SnapshotInv => ServedIsFresh
  BY DEF SnapshotInv
<1>2. QED
  BY <1>1, SnapshotStarts, SnapshotInductive, PTL DEF SnapshotSpec

-----------------------------------------------------------------------------
(* Invitations, sign-ups and password resets. *)

AccountRows == [org : {"none", "company", "own"}, role : Roles]
InviteRows == [status : {"NONE", "PENDING", "ACCEPTED", "REVOKED"},
               email : SUBSET Emails, role : Roles, fresh : BOOLEAN]
LinkRows == [state : {"none", "live", "used", "gone"}, email : SUBSET Emails, fresh : BOOLEAN]
ServiceCalls == [step : Services \cup {"idle", "forget", "renew"},
                 email : SUBSET Emails, role : Roles, id : Nat]

Shapes ==
  /\ scope \in Scopes
  /\ user \in [Emails -> AccountRows] /\ slug \in [Emails -> Nat]
  /\ inv \in [Invites -> InviteRows] /\ issued \in Nat
  /\ link \in [Links -> LinkRows] /\ call \in [Calls -> ServiceCalls]
  /\ accepts \in [Invites -> Nat] /\ resets \in [Links -> Nat]
  /\ raced \subseteq Invites /\ renewed \subseteq Invites /\ tangled \subseteq Emails

(* An invitation has one address from its creation on, and with it a status *)
(* that no other has.                                                       *)
InvitesAddressed ==
  /\ \A i \in Invites :
       IF inv[i].status = "NONE" THEN inv[i].email = {} /\ accepts[i] = 0
       ELSE \E e \in Emails : inv[i].email = {e}
  /\ \A i, j \in Invites :
       inv[i].status # "NONE" /\ inv[j].status = inv[i].status /\ inv[j].email = inv[i].email
         => i = j

(* Links are issued in their order; one that can still be used was not.     *)
LinksIssued ==
  \A k \in Links :
    /\ IF link[k].state = "none" THEN link[k].email = {}
       ELSE \E e \in Emails : link[k].email = {e}
    /\ link[k].state = "none" => \A j \in Links : j > k => link[j].state = "none"
    /\ link[k].state \in {"none", "live"} => resets[k] = 0

(* What a call k in progress knows.                                         *)
Knows(k) ==
  /\ k.step # "idle" => \E e \in Emails : k.email = {e}
  /\ k.step = "signup" => k.id # 0
  /\ k.step \in {"revoke", "accept"} \/ (k.step = "invite" /\ k.id # 0)
       => k.id \in Invites /\ inv[k.id].status # "NONE" /\ inv[k.id].email = k.email
  /\ k.step = "accept" => k.role = inv[k.id].role \/ k.id \in renewed
  /\ k.step = "reset" => k.id \in Links
  /\ k.step = "renew" => \A j \in Links :
       link[j].state = "live" /\ link[j].email = k.email => k.email \subseteq tangled

CallsKnow == \A c \in Calls : Knows(call[c])

Asks(k) == k.step \in {"forget", "renew"}
AskersTangled ==
  \A c, d \in Calls :
    c # d /\ Asks(call[c]) /\ Asks(call[d]) /\ call[c].email = call[d].email
      => call[c].email \subseteq tangled

Invited == InvitesAddressed /\ InvitationOnce /\ RevokedUnused /\ RoleAsInvited
Linked == LinksIssued /\ NewestLinkOnly

AccountsInv == Shapes /\ Invited /\ FoundersOwn /\ Linked /\ CallsKnow /\ AskersTangled

LEMMA AccountsStart == AcctInit => AccountsInv
<1> SUFFICES ASSUME AcctInit PROVE AccountsInv
  OBVIOUS
<1>1. Shapes
  BY AccountsAssumption DEF AcctInit, Shapes, AccountRows, InviteRows, LinkRows,
    ServiceCalls,
     NoUser, NoCall, Roles
<1>2. Invited
  BY DEF AcctInit, Invited, InvitesAddressed, InvitationOnce, RevokedUnused,
    RoleAsInvited, NoUser
<1>3. FoundersOwn
  BY DEF AcctInit, FoundersOwn, NoUser
<1>4. Linked
  BY DEF AcctInit, Linked, LinksIssued, NewestLinkOnly
<1>5. CallsKnow /\ AskersTangled
  BY DEF AcctInit, CallsKnow, Knows, AskersTangled, Asks, NoCall
<1>6. QED
  BY <1>1, <1>2, <1>3, <1>4, <1>5 DEF AccountsInv

(* One of the numbers up to one more than the addresses is no slug.         *)
LEMMA FreeSlugExists ==
  ASSUME slug \in [Emails -> Nat]
  PROVE  FreeSlug \in Nat \ {0}
<1> DEFINE C == Cardinality(Emails)
           Numbers == 1..(C + 1)
           Free == {n \in Numbers : \A e \in Emails : slug[e] # n}
<1>1. IsFiniteSet(Emails) /\ C \in Nat
  BY AccountsAssumption, FS_CardinalityType
<1>2. Free # {}
  <2>1. SUFFICES ASSUME \A n \in Numbers : \E e \in Emails : slug[e] = n PROVE FALSE
    OBVIOUS
  <2> DEFINE f == [n \in Numbers |-> CHOOSE e \in Emails : slug[e] = n]
  <2>2. f \in [Numbers -> Emails] /\ \A n \in Numbers : slug[f[n]] = n
    BY <2>1
  <2>3. IsFiniteSet(Numbers) /\ Cardinality(Numbers) = C + 1
    BY <1>1, FS_Interval
  <2> HIDE DEF f, Numbers
  <2>4. \E x, y \in Numbers : x # y /\ f[x] = f[y]
    BY <1>1, <2>2, <2>3, FS_PigeonHole
  <2>5. QED
    BY <2>2, <2>4
<1>3. PICK n \in Free : \A m \in Free : n <= m
  <2>1. Free \subseteq Nat
    BY <1>1
  <2>2. QED
    BY <1>2, <2>1, LeastNumber
<1>4. \A m \in 1..(n - 1) : \E e \in Emails : slug[e] = m
  <2>1. SUFFICES ASSUME NEW m \in 1..(n - 1), \A e \in Emails : slug[e] # m PROVE FALSE
    OBVIOUS
  <2>2. m \in Numbers /\ m < n
    BY <1>1, <1>3
  <2>3. m \in Free
    BY <2>1, <2>2
  <2>4. QED
    BY <1>1, <1>3, <2>2, <2>3
<1>5. \E k \in Numbers : /\ \A e \in Emails : slug[e] # k
                         /\ \A m \in 1..(k - 1) : \E e \in Emails : slug[e] = m
  BY <1>3, <1>4
<1>6. FreeSlug \in Numbers
  BY <1>5 DEF FreeSlug
<1>7. QED
  BY <1>1, <1>6

LEMMA TypesFollow == Shapes /\ InvitesAddressed /\ CallsKnow => AccountsTypeOK
<1> SUFFICES ASSUME Shapes, InvitesAddressed, CallsKnow PROVE AccountsTypeOK
  OBVIOUS
<1>1. ASSUME NEW i \in Invites, inv[i].status # "NONE"
      PROVE  Cardinality(Rows(inv[i].email, inv[i].status)) = 1
  <2>1. Rows(inv[i].email, inv[i].status) = {i}
    BY <1>1 DEF InvitesAddressed, Rows
  <2>2. QED
    BY <2>1, FS_Singleton
<1>2. ASSUME NEW c \in Calls, call[c].step # "idle"
      PROVE  Cardinality(call[c].email) = 1
  BY <1>2, FS_Singleton DEF CallsKnow, Knows
<1>3. QED
  BY <1>1, <1>2 DEF Shapes, AccountsTypeOK, AccountRows, InviteRows, LinkRows,
    ServiceCalls

(* What calls know stays true while one of them goes on to k and rows of    *)
(* invitations and links go forward.                                        *)
LEMMA CallStep ==
  ASSUME AccountsInv, NEW c \in Calls, NEW k \in ServiceCalls,
         call' = [call EXCEPT ![c] = k], Knows(k)',
         Asks(k) => \A d \in Calls \ {c} :
           Asks(call[d]) /\ call[d].email = k.email => k.email \subseteq tangled',
         \A i \in Invites : inv[i].status # "NONE" =>
           /\ inv'[i].status # "NONE" /\ inv'[i].email = inv[i].email
           /\ \/ inv'[i].role = inv[i].role
              \/ \A d \in Calls \ {c} :
                   call[d].step = "accept" /\ call[d].id = i => i \in renewed',
         renewed \subseteq renewed', tangled \subseteq tangled',
         \A j \in Links : link'[j].state = "live" =>
           \/ link[j].state = "live" /\ link'[j].email = link[j].email
           \/ \A d \in Calls \ {c} : call[d].step = "renew" /\ call[d].email = link'[j].email
                                       => call[d].email \subseteq tangled'
  PROVE  CallsKnow' /\ AskersTangled' /\ call' \in [Calls -> ServiceCalls]
<1>1. call \in [Calls -> ServiceCalls]
  BY DEF AccountsInv, Shapes
<1>2. call'[c] = k /\ \A d \in Calls \ {c} : call'[d] = call[d]
  BY <1>1
<1>3. CallsKnow'
  <2>1. Knows(call[c])'
    BY <1>2 DEF Knows
  <2>2. ASSUME NEW d \in Calls \ {c} PROVE Knows(call[d])'
    <3>1. Knows(call[d]) /\ call'[d] = call[d]
      BY <1>2 DEF AccountsInv, CallsKnow
    <3>2. /\ (call[d].step # "idle" => \E e \in Emails : call[d].email = {e})'
          /\ (call[d].step = "signup" => call[d].id # 0)'
          /\ (call[d].step = "reset" => call[d].id \in Links)'
      BY <3>1 DEF Knows
    <3>3. (call[d].step \in {"revoke", "accept"} \/ (call[d].step = "invite" /\ call[d].id # 0)
            => /\ call[d].id \in Invites
               /\ inv[call[d].id].status # "NONE" /\ inv[call[d].id].email = call[d].email)'
      BY <3>1 DEF Knows
    <3>4. (call[d].step = "accept"
             => call[d].role = inv[call[d].id].role \/ call[d].id \in renewed)'
      BY <3>1 DEF Knows
    <3>5. (call[d].step = "renew" => \A j \in Links :
            link[j].state = "live" /\ link[j].email = call[d].email
              => call[d].email \subseteq tangled)'
      BY <3>1 DEF Knows
    <3>6. QED
      BY <3>2, <3>3, <3>4, <3>5 DEF Knows
  <2>3. QED
    BY <2>1, <2>2 DEF CallsKnow
<1>4. AskersTangled'
  BY <1>2 DEF AccountsInv, AskersTangled
<1>5. call' \in [Calls -> ServiceCalls]
  BY <1>1
<1>6. QED
  BY <1>3, <1>4, <1>5

LEMMA NoCallKnows == NoCall \in ServiceCalls /\ ~Asks(NoCall) /\ Knows(NoCall) /\ Knows(NoCall)'
  BY DEF NoCall, ServiceCalls, Asks, Knows, Roles

(* A service that has only read, or that stops.                             *)
LEMMA ReadStep ==
  ASSUME AccountsInv, NEW c \in Calls, NEW k \in ServiceCalls,
         call' = [call EXCEPT ![c] = k], Knows(k),
         Asks(k) => \A d \in Calls \ {c} :
           Asks(call[d]) /\ call[d].email = k.email => k.email \subseteq tangled',
         UNCHANGED <<scope, user, slug, inv, issued, link, accepts, resets, raced, renewed>>,
         tangled \subseteq tangled', tangled' \subseteq Emails
  PROVE  AccountsInv'
<1>1. Shapes /\ Invited /\ FoundersOwn /\ Linked
  BY DEF AccountsInv
<1>2. Knows(k)'
  BY DEF Knows
<1>3. CallsKnow' /\ AskersTangled' /\ call' \in [Calls -> ServiceCalls]
  BY <1>2, CallStep
<1>4. Shapes'
  BY <1>1, <1>3 DEF Shapes
<1>5. Invited'
  BY <1>1 DEF Invited, InvitesAddressed, InvitationOnce, RevokedUnused, RoleAsInvited,
    Exists
<1>6. FoundersOwn'
  BY <1>1 DEF FoundersOwn
<1>7. Linked'
  BY <1>1 DEF Linked, LinksIssued, NewestLinkOnly
<1>8. QED
  BY <1>3, <1>4, <1>5, <1>6, <1>7 DEF AccountsInv

LEMMA ReadInviteKeeps ==
  ASSUME AccountsInv, NEW c \in Calls, NEW e \in Emails, NEW role \in Roles, ReadInvite(c, e, role)
  PROVE  AccountsInv'
<1>1. PICK i : /\ i = 0 \/ i \in Rows({e}, "PENDING")
               /\ call' = [call EXCEPT ![c] = [step |-> "invite", email |-> {e},
                                               role |-> role, id |-> i]]
  BY DEF ReadInvite, Begins
<1> DEFINE k == [step |-> "invite", email |-> {e}, role |-> role, id |-> i]
<1>2. i \in Nat /\ (i # 0 => i \in Invites /\ inv[i].status # "NONE" /\ inv[i].email = {e})
  BY <1>1, AccountsAssumption DEF Rows, Invites
<1>3. k \in ServiceCalls
  BY <1>2 DEF ServiceCalls, Services
<1>4. Knows(k) /\ ~Asks(k)
  BY <1>2 DEF Knows, Asks
<1>5. tangled' = tangled /\ tangled \subseteq Emails
      /\ UNCHANGED <<scope, user, slug, inv, issued, link, accepts, resets, raced, renewed>>
  BY DEF ReadInvite, AccountsInv, Shapes
<1>6. QED
  BY <1>1, <1>3, <1>4, <1>5, ReadStep

(* revoke and accept have read a pending invitation.                        *)
LEMMA ReadRowKeeps ==
  ASSUME AccountsInv, NEW c \in Calls, NEW i \in Invites, ReadRevoke(c, i) \/ ReadAccept(c, i)
  PROVE  AccountsInv'
<1>1. inv[i].status = "PENDING" /\ tangled' = tangled /\ tangled \subseteq Emails
      /\ UNCHANGED <<scope, user, slug, inv, issued, link, accepts, resets, raced, renewed>>
  BY DEF ReadRevoke, ReadAccept, AccountsInv, Shapes
<1>2. inv[i].role \in Roles
  BY DEF AccountsInv, Shapes, InviteRows
<1>3. PICK e \in inv[i].email, step \in {"revoke", "accept"}, role \in Roles :
        /\ step = "accept" => role = inv[i].role
        /\ call' = [call EXCEPT ![c] = [step |-> step, email |-> {e}, role |-> role, id |-> i]]
  BY <1>2 DEF ReadRevoke, ReadAccept, Begins, Roles
<1> DEFINE k == [step |-> step, email |-> {e}, role |-> role, id |-> i]
<1>4. e \in Emails /\ inv[i].email = {e} /\ i \in Nat
  <2>1. PICK f \in Emails : inv[i].email = {f}
    BY <1>1 DEF AccountsInv, Invited, InvitesAddressed
  <2>2. QED
    BY <1>3, <2>1, AccountsAssumption DEF Invites
<1>5. k \in ServiceCalls
  BY <1>3, <1>4 DEF ServiceCalls, Services, Roles
<1>6. Knows(k) /\ ~Asks(k)
  BY <1>1, <1>3, <1>4 DEF Knows, Asks
<1>7. QED
  BY <1>1, <1>3, <1>5, <1>6, ReadStep

LEMMA ReadSignupKeeps ==
  ASSUME AccountsInv, NEW c \in Calls, NEW e \in Emails, ReadSignup(c, e)
  PROVE  AccountsInv'
<1> DEFINE k == [step |-> "signup", email |-> {e}, role |-> "ADMIN", id |-> FreeSlug]
<1>1. FreeSlug \in Nat \ {0}
  BY FreeSlugExists DEF AccountsInv, Shapes
<1>2. k \in ServiceCalls
  BY <1>1 DEF ServiceCalls, Services, Roles
<1>3. Knows(k) /\ ~Asks(k)
  BY <1>1 DEF Knows, Asks
<1>4. tangled' = tangled /\ tangled \subseteq Emails /\ call' = [call EXCEPT ![c] = k]
      /\ UNCHANGED <<scope, user, slug, inv, issued, link, accepts, resets, raced, renewed>>
  BY DEF ReadSignup, Begins, AccountsInv, Shapes
<1>5. QED
  BY <1>2, <1>3, <1>4, ReadStep

LEMMA ReadForgotKeeps ==
  ASSUME AccountsInv, NEW c \in Calls, NEW e \in Emails, ReadForgot(c, e)
  PROVE  AccountsInv'
<1> DEFINE k == [step |-> "forget", email |-> {e}, role |-> "MEMBER", id |-> 0]
<1>1. k \in ServiceCalls
  BY DEF ServiceCalls, Roles
<1>2. Knows(k) /\ k.email = {e}
  BY DEF Knows
<1>3. call' = [call EXCEPT ![c] = k]
      /\ tangled' = (IF Asking(e) = {} THEN tangled ELSE tangled \cup {e})
      /\ UNCHANGED <<scope, user, slug, inv, issued, link, accepts, resets, raced, renewed>>
  BY DEF ReadForgot, Begins
<1>4. tangled \subseteq tangled' /\ tangled' \subseteq Emails
  BY <1>3 DEF AccountsInv, Shapes
<1>5. \A d \in Calls \ {c} : Asks(call[d]) /\ call[d].email = k.email => k.email \subseteq tangled'
  BY <1>2, <1>3 DEF Asking, Asks
<1> HIDE DEF k
<1>6. QED
  BY <1>1, <1>2, <1>3, <1>4, <1>5, ReadStep

LEMMA ReadResetKeeps ==
  ASSUME AccountsInv, NEW c \in Calls, NEW l \in Links, ReadReset(c, l)
  PROVE  AccountsInv'
<1>1. tangled' = tangled /\ tangled \subseteq Emails /\ link[l].email \subseteq Emails /\ l \in Nat
      /\ UNCHANGED <<scope, user, slug, inv, issued, link, accepts, resets, raced, renewed>>
  BY AccountsAssumption DEF ReadReset, AccountsInv, Shapes, LinkRows, Links
<1>2. PICK e \in link[l].email :
        call' = [call EXCEPT ![c] = [step |-> "reset", email |-> {e}, role |-> "MEMBER", id |-> l]]
  BY DEF ReadReset, Begins
<1> DEFINE k == [step |-> "reset", email |-> {e}, role |-> "MEMBER", id |-> l]
<1>3. k \in ServiceCalls
  BY <1>1, <1>2 DEF ServiceCalls, Services, Roles
<1>4. Knows(k) /\ ~Asks(k)
  BY <1>1, <1>2 DEF Knows, Asks
<1>5. QED
  BY <1>1, <1>2, <1>3, <1>4, ReadStep

LEMMA CallDiesKeeps ==
  ASSUME AccountsInv, NEW c \in Calls, CallDies(c)
  PROVE  AccountsInv'
<1>1. tangled' = tangled /\ tangled \subseteq Emails /\ call' = [call EXCEPT ![c] = NoCall]
      /\ UNCHANGED <<scope, user, slug, inv, issued, link, accepts, resets, raced, renewed>>
  BY DEF CallDies, Ends, AccountsInv, Shapes
<1>2. QED
  BY <1>1, NoCallKnows, ReadStep

LEMMA InvitedFrame ==
  ASSUME Invited, UNCHANGED <<user, inv, accepts, raced, renewed>>
  PROVE  Invited'
  BY DEF Invited, InvitesAddressed, InvitationOnce, RevokedUnused, RoleAsInvited, Exists

LEMMA FoundersFrame == ASSUME FoundersOwn, UNCHANGED <<user, slug>> PROVE FoundersOwn'
  BY DEF FoundersOwn

LEMMA LinkedFrame ==
  ASSUME Linked, UNCHANGED <<link, resets, tangled>>
  PROVE  Linked'
  BY DEF Linked, LinksIssued, NewestLinkOnly

(* A call that ends with a write to the rows of invitations and users.      *)
LEMMA InviteStep ==
  ASSUME AccountsInv, NEW c \in Calls, Ends(c),
         UNCHANGED <<scope, link, resets, tangled>>,
         user' \in [Emails -> AccountRows], slug' \in [Emails -> Nat],
         inv' \in [Invites -> InviteRows], issued' \in Nat, accepts' \in [Invites -> Nat],
         raced' \subseteq Invites, renewed' \subseteq Invites, renewed \subseteq renewed',
         \A i \in Invites : inv[i].status # "NONE" =>
           /\ inv'[i].status # "NONE" /\ inv'[i].email = inv[i].email
           /\ \/ inv'[i].role = inv[i].role
              \/ \A d \in Calls \ {c} :
                   call[d].step = "accept" /\ call[d].id = i => i \in renewed',
         Invited', FoundersOwn'
  PROVE  AccountsInv'
<1>1. Shapes /\ Linked
  BY DEF AccountsInv
<1>2. call' = [call EXCEPT ![c] = NoCall]
  BY DEF Ends
<1>3. CallsKnow' /\ AskersTangled' /\ call' \in [Calls -> ServiceCalls]
  BY <1>2, NoCallKnows, CallStep
<1>4. Shapes'
  BY <1>1, <1>3 DEF Shapes
<1>5. QED
  BY <1>1, <1>3, <1>4, LinkedFrame DEF AccountsInv

LEMMA ReissueKeeps ==
  ASSUME AccountsInv, NEW c \in Calls, WriteInvite(c), call[c].id # 0
  PROVE  AccountsInv'
<1> DEFINE old == call[c].id
<1>1. /\ call[c].step = "invite" /\ Ends(c)
      /\ inv' = [inv EXCEPT ![old].role = call[c].role, ![old].fresh = TRUE]
      /\ issued' = issued + 1
      /\ raced' = IF inv[old].status = "ACCEPTED" THEN raced \cup {old} ELSE raced
      /\ renewed' = IF \E d \in Calls : call[d].step = "accept" /\ call[d].id = old
                    THEN renewed \cup {old} ELSE renewed
      /\ UNCHANGED <<scope, user, slug, link, accepts, resets, tangled>>
  BY DEF WriteInvite
<1>2. Shapes /\ Invited /\ FoundersOwn
  BY DEF AccountsInv
<1>3. old \in Invites /\ inv[old].status # "NONE" /\ call[c].role \in Roles
  BY <1>1, <1>2 DEF AccountsInv, CallsKnow, Knows, Shapes, ServiceCalls
<1> HIDE DEF old
<1>4. inv \in [Invites -> InviteRows]
  BY <1>2 DEF Shapes
<1>5. /\ inv' \in [Invites -> InviteRows]
      /\ inv'[old].status = inv[old].status /\ inv'[old].email = inv[old].email
      /\ \A i \in Invites \ {old} : inv'[i] = inv[i]
  BY <1>1, <1>3, <1>4 DEF InviteRows
<1>6. \A i \in Invites : inv'[i].status = inv[i].status /\ inv'[i].email = inv[i].email
  BY <1>5
<1>7. raced' \subseteq Invites /\ renewed' \subseteq Invites
      /\ raced \subseteq raced' /\ renewed \subseteq renewed'
  BY <1>1, <1>2, <1>3 DEF Shapes
<1>8. user' = user /\ accepts' = accepts
  BY <1>1
<1>9. InvitesAddressed' /\ InvitationOnce'
  <2>1. InvitesAddressed'
    BY <1>2, <1>6, <1>8 DEF Invited, InvitesAddressed
  <2>2. InvitationOnce'
    BY <1>2, <1>6, <1>8 DEF Invited, InvitationOnce, Exists
  <2>3. QED
    BY <2>1, <2>2
<1>10. RevokedUnused'
  BY <1>1, <1>2, <1>6, <1>7 DEF Invited, RevokedUnused
<1>11. RoleAsInvited'
  <2>1. accepts[old] = 1 => old \in raced'
    BY <1>1, <1>2, <1>3, <1>4 DEF Invited, InvitationOnce, RevokedUnused, InviteRows
  <2>2. SUFFICES ASSUME NEW e \in Emails, user[e].org = "company"
                 PROVE  \E i \in Invites :
                          /\ accepts[i] = 1 /\ inv'[i].email = {e}
                          /\ inv'[i].role = user[e].role \/ i \in raced' \cup renewed'
    BY <1>8 DEF RoleAsInvited
  <2>3. PICK i \in Invites : /\ accepts[i] = 1 /\ inv[i].email = {e}
                             /\ inv[i].role = user[e].role \/ i \in raced \cup renewed
    BY <1>2, <2>2 DEF Invited, RoleAsInvited
  <2>4. QED
    BY <1>5, <1>6, <1>7, <2>1, <2>3
<1>12. Invited' /\ FoundersOwn'
  BY <1>1, <1>2, <1>9, <1>10, <1>11, FoundersFrame DEF Invited
<1>13. \A i \in Invites : inv[i].status # "NONE" =>
           /\ inv'[i].status # "NONE" /\ inv'[i].email = inv[i].email
           /\ \/ inv'[i].role = inv[i].role
              \/ \A d \in Calls \ {c} :
                   call[d].step = "accept" /\ call[d].id = i => i \in renewed'
  BY <1>1, <1>5, <1>6
<1>14. issued' \in Nat
  BY <1>1, <1>2 DEF Shapes
<1>15. QED
  BY <1>1, <1>2, <1>5, <1>7, <1>12, <1>13, <1>14, InviteStep DEF Shapes

LEMMA CreateInviteKeeps ==
  ASSUME AccountsInv, NEW c \in Calls, WriteInvite(c), call[c].id = 0,
         Rows(call[c].email, "PENDING") = {}
  PROVE  AccountsInv'
<1>1. /\ call[c].step = "invite" /\ Ends(c) /\ issued' = issued + 1
      /\ UNCHANGED <<scope, user, slug, link, accepts, resets, raced, renewed, tangled>>
  BY DEF WriteInvite
<1>2. PICK i \in Invites :
        /\ inv[i].status = "NONE"
        /\ inv' = [[inv EXCEPT ![i].role = call[c].role, ![i].fresh = TRUE]
                     EXCEPT ![i].status = "PENDING", ![i].email = call[c].email]
  BY DEF WriteInvite
<1>3. Shapes /\ Invited /\ FoundersOwn
  BY DEF AccountsInv
<1>4. PICK e \in Emails : call[c].email = {e}
  BY <1>1 DEF AccountsInv, CallsKnow, Knows
<1>5. call[c].role \in Roles /\ inv \in [Invites -> InviteRows]
  BY <1>3 DEF Shapes, ServiceCalls
<1>6. /\ inv' \in [Invites -> InviteRows]
      /\ inv'[i].status = "PENDING" /\ inv'[i].email = {e}
      /\ \A j \in Invites \ {i} : inv'[j] = inv[j]
  <2> DEFINE half == [inv EXCEPT ![i].role = call[c].role, ![i].fresh = TRUE]
  <2>1. half \in [Invites -> InviteRows] /\ \A j \in Invites \ {i} : half[j] = inv[j]
    BY <1>5 DEF InviteRows
  <2>2. inv' = [half EXCEPT ![i].status = "PENDING", ![i].email = call[c].email]
    BY <1>2
  <2> HIDE DEF half
  <2>3. QED
    BY <1>4, <2>1, <2>2 DEF InviteRows
<1>7. accepts[i] = 0 /\ \A j \in Invites : inv[j].status = "PENDING" => inv[j].email # {e}
  BY <1>2, <1>3, <1>4 DEF Invited, InvitesAddressed, Rows
<1>8. InvitesAddressed'
  BY <1>1, <1>3, <1>6, <1>7 DEF Invited, InvitesAddressed
<1>9. InvitationOnce' /\ RevokedUnused'
  BY <1>1, <1>3, <1>6, <1>7 DEF Invited, InvitationOnce, RevokedUnused, Exists
<1>10. RoleAsInvited'
  BY <1>1, <1>3, <1>6, <1>7 DEF Invited, RoleAsInvited
<1>11. Invited' /\ FoundersOwn'
  BY <1>1, <1>3, <1>8, <1>9, <1>10, FoundersFrame DEF Invited
<1>12. \A j \in Invites : inv[j].status # "NONE" =>
         inv'[j].status # "NONE" /\ inv'[j].email = inv[j].email /\ inv'[j].role = inv[j].role
  BY <1>2, <1>6
<1>13. issued' \in Nat
  BY <1>1, <1>3 DEF Shapes
<1>14. QED
  BY <1>1, <1>3, <1>6, <1>11, <1>12, <1>13, InviteStep DEF Shapes

LEMMA WriteInviteKeeps ==
  ASSUME AccountsInv, NEW c \in Calls, WriteInvite(c)
  PROVE  AccountsInv'
<1>1. CASE call[c].id = 0 /\ Rows(call[c].email, "PENDING") # {}
  <2>1. call' = [call EXCEPT ![c] = NoCall] /\ tangled' = tangled /\ tangled \subseteq Emails
        /\ UNCHANGED <<scope, user, slug, inv, issued, link, accepts, resets, raced, renewed>>
    BY <1>1 DEF WriteInvite, Ends, AccountsInv, Shapes
  <2>2. QED
    BY <2>1, NoCallKnows, ReadStep
<1>2. QED
  BY <1>1, ReissueKeeps, CreateInviteKeeps

LEMMA WriteRevokeKeeps ==
  ASSUME AccountsInv, NEW c \in Calls, WriteRevoke(c)
  PROVE  AccountsInv'
<1> DEFINE i == call[c].id
           taken == Taken(i, "REVOKED")
<1>1. /\ call[c].step = "revoke" /\ Ends(c)
      /\ inv' = IF taken THEN inv ELSE [inv EXCEPT ![i].status = "REVOKED"]
      /\ raced' = IF ~taken /\ inv[i].status = "ACCEPTED" THEN raced \cup {i} ELSE raced
      /\ UNCHANGED <<scope, user, slug, issued, link, accepts, resets, renewed, tangled>>
  BY DEF WriteRevoke
<1>2. Shapes /\ Invited /\ FoundersOwn
  BY DEF AccountsInv
<1>3. i \in Invites /\ inv[i].status # "NONE"
  BY <1>1 DEF AccountsInv, CallsKnow, Knows
<1> HIDE DEF i
<1>4. inv \in [Invites -> InviteRows] /\ user' = user /\ accepts' = accepts
      /\ renewed' = renewed /\ raced \subseteq raced' /\ raced' \subseteq Invites
  BY <1>1, <1>2, <1>3 DEF Shapes
<1>5. CASE taken
  <2>1. UNCHANGED <<user, inv, accepts, raced, renewed, slug>>
    BY <1>1, <1>5
  <2>2. Invited' /\ FoundersOwn'
    BY <1>2, <2>1, InvitedFrame, FoundersFrame
  <2>3. QED
    BY <1>1, <1>2, <2>1, <2>2, InviteStep DEF Shapes
<1>6. CASE ~taken
  <2>1. inv' = [inv EXCEPT ![i].status = "REVOKED"]
        /\ (inv[i].status = "ACCEPTED" => i \in raced')
    BY <1>1, <1>6
  <2>2. /\ inv' \in [Invites -> InviteRows]
        /\ inv'[i].status = "REVOKED"
        /\ \A j \in Invites \ {i} : inv'[j] = inv[j]
    BY <1>3, <1>4, <2>1 DEF InviteRows
  <2>3. \A j \in Invites : inv'[j].email = inv[j].email /\ inv'[j].role = inv[j].role
    BY <1>3, <1>4, <2>1, <2>2 DEF InviteRows
  <2>4. \A j \in Invites \ {i} : ~(inv[j].email = inv[i].email /\ inv[j].status = "REVOKED")
    BY <1>6 DEF Taken, Rows
  <2>5. InvitesAddressed'
    <3>1. \A j \in Invites : inv'[j].status = "NONE" <=> inv[j].status = "NONE"
      BY <1>3, <2>2
    <3>2. (\A j \in Invites :
             IF inv[j].status = "NONE" THEN inv[j].email = {} /\ accepts[j] = 0
             ELSE \E e \in Emails : inv[j].email = {e})'
      BY <1>2, <1>4, <2>3, <3>1 DEF Invited, InvitesAddressed
    <3>3. (\A j, k \in Invites :
             inv[j].status # "NONE" /\ inv[k].status = inv[j].status /\ inv[k].email = inv[j].email
               => j = k)'
      BY <1>2, <1>3, <2>2, <2>3, <2>4 DEF Invited, InvitesAddressed
    <3>4. QED
      BY <3>2, <3>3 DEF InvitesAddressed
  <2>6. InvitationOnce'
    BY <1>2, <1>4, <2>2, <2>3 DEF Invited, InvitationOnce, Exists
  <2>7. RevokedUnused'
    <3>1. i \in raced' \/ accepts[i] = 0
      BY <1>2, <1>3, <1>4, <2>1 DEF Invited, InvitationOnce, RevokedUnused, InviteRows
    <3>2. QED
      BY <1>2, <1>4, <2>2, <3>1 DEF Invited, RevokedUnused
  <2>8. RoleAsInvited'
    <3>1. SUFFICES ASSUME NEW f \in Emails, user[f].org = "company"
                   PROVE  \E j \in Invites :
                            /\ accepts[j] = 1 /\ inv'[j].email = {f}
                            /\ inv'[j].role = user[f].role \/ j \in raced' \cup renewed
      BY <1>4 DEF RoleAsInvited
    <3>2. PICK j \in Invites : /\ accepts[j] = 1 /\ inv[j].email = {f}
                               /\ inv[j].role = user[f].role \/ j \in raced \cup renewed
      BY <1>2, <3>1 DEF Invited, RoleAsInvited
    <3>3. QED
      BY <1>4, <2>3, <3>2
  <2>9. Invited' /\ FoundersOwn'
    BY <1>1, <1>2, <2>5, <2>6, <2>7, <2>8, FoundersFrame DEF Invited
  <2>10. QED
    BY <1>1, <1>2, <1>4, <2>2, <2>3, <2>9, InviteStep DEF Shapes
<1>7. QED
  BY <1>5, <1>6

LEMMA WriteAcceptKeeps ==
  ASSUME AccountsInv, NEW c \in Calls, WriteAccept(c)
  PROVE  AccountsInv'
<1> DEFINE i == call[c].id
           claimed == Claimable(i) /\ ~Taken(i, "ACCEPTED")
<1>1. call[c].step = "accept" /\ Ends(c)
      /\ UNCHANGED <<scope, slug, issued, link, resets, raced, renewed, tangled>>
  BY DEF WriteAccept
<1>2. Shapes /\ Invited /\ FoundersOwn
  BY DEF AccountsInv
<1>3. i \in Invites /\ inv[i].email = call[c].email
      /\ (call[c].role = inv[i].role \/ i \in renewed)
  BY <1>1 DEF AccountsInv, CallsKnow, Knows
<1>4. /\ inv \in [Invites -> InviteRows] /\ user \in [Emails -> AccountRows]
      /\ accepts \in [Invites -> Nat] /\ call[c].role \in Roles
  BY <1>2 DEF Shapes, ServiceCalls
<1>5. CASE ~claimed
  <2>1. UNCHANGED <<user, inv, accepts, raced, renewed, slug>>
    BY <1>1, <1>5 DEF WriteAccept
  <2>2. Invited' /\ FoundersOwn'
    BY <1>2, <2>1, InvitedFrame, FoundersFrame
  <2>3. QED
    BY <1>1, <1>2, <2>1, <2>2, InviteStep DEF Shapes
<1>6. CASE claimed
  <2>1. PICK e \in call[c].email : user' = [user EXCEPT ![e] = Joined(e, call[c].role)]
    BY <1>6 DEF WriteAccept
  <2>2. inv' = [inv EXCEPT ![i].status = "ACCEPTED"] /\ accepts' = [accepts EXCEPT ![i] = @ + 1]
    BY <1>6 DEF WriteAccept, Consumed
  <2>3. inv[i].status = "PENDING" /\ \A j \in Invites \ {i} :
          ~(inv[j].email = inv[i].email /\ inv[j].status = "ACCEPTED")
    BY <1>6 DEF Claimable, Taken, Rows
  <2>4. e \in Emails /\ inv[i].email = {e}
    BY <1>2, <1>3, <2>1, <2>3 DEF Invited, InvitesAddressed
  <2> HIDE DEF i
  <2>5. /\ user' \in [Emails -> AccountRows]
        /\ \A f \in Emails \ {e} : user'[f] = user[f]
        /\ Exists(e) => user'[e] = user[e]
        /\ ~Exists(e) => user'[e].org = "company" /\ user'[e].role = call[c].role
    BY <1>4, <2>1, <2>4 DEF Joined, AccountRows
  <2>6. /\ inv' \in [Invites -> InviteRows] /\ inv'[i].status = "ACCEPTED"
        /\ \A j \in Invites \ {i} : inv'[j] = inv[j]
    BY <1>3, <1>4, <2>2 DEF InviteRows
  <2>7. \A j \in Invites : inv'[j].email = inv[j].email /\ inv'[j].role = inv[j].role
    BY <1>3, <1>4, <2>2, <2>6 DEF InviteRows
  <2>8. /\ accepts' \in [Invites -> Nat] /\ accepts[i] = 0 /\ accepts'[i] = 1
        /\ \A j \in Invites \ {i} : accepts'[j] = accepts[j]
    BY <1>2, <1>3, <1>4, <2>2, <2>3 DEF Invited, InvitationOnce
  <2>9. InvitesAddressed'
    <3>1. (\A j \in Invites :
             IF inv[j].status = "NONE" THEN inv[j].email = {} /\ accepts[j] = 0
             ELSE \E f \in Emails : inv[j].email = {f})'
      BY <1>2, <2>3, <2>6, <2>7, <2>8 DEF Invited, InvitesAddressed
    <3>2. (\A j, k \in Invites :
             inv[j].status # "NONE" /\ inv[k].status = inv[j].status /\ inv[k].email = inv[j].email
               => j = k)'
      BY <1>2, <2>3, <2>6, <2>7 DEF Invited, InvitesAddressed
    <3>3. QED
      BY <3>1, <3>2 DEF InvitesAddressed
  <2>10. \A f \in Emails : /\ Exists(f) => user'[f] = user[f]
                           /\ user'[f].org # "none" \/ f # e
    BY <2>5 DEF Exists
  <2>11. InvitationOnce'
    <3>1. \A f \in Emails : Exists(f) => Exists(f)'
      BY <2>10 DEF Exists
    <3>2. Exists(e)'
      BY <2>4, <2>10 DEF Exists
    <3>3. ASSUME NEW j \in Invites
          PROVE  /\ accepts'[j] <= 1
                 /\ inv'[j].status = "PENDING" => accepts'[j] = 0
                 /\ inv'[j].status = "ACCEPTED" => \A f \in inv'[j].email : Exists(f)'
      <4>1. CASE j = i
        BY <2>4, <2>6, <2>7, <2>8, <3>2, <4>1
      <4>2. CASE j # i
        <5>1. inv'[j] = inv[j] /\ accepts'[j] = accepts[j] /\ inv[j].email \subseteq Emails
          BY <1>4, <2>6, <2>8, <4>2 DEF InviteRows
        <5>2. QED
          BY <1>2, <3>1, <5>1 DEF Invited, InvitationOnce
      <4>3. QED
        BY <4>1, <4>2
    <3>4. QED
      BY <3>3 DEF InvitationOnce
  <2>12. RevokedUnused'
    BY <1>1, <1>2, <2>6, <2>8 DEF Invited, RevokedUnused
  <2>13. RoleAsInvited'
    <3>1. SUFFICES ASSUME NEW f \in Emails, user'[f].org = "company"
                   PROVE  \E j \in Invites :
                            /\ accepts'[j] = 1 /\ inv'[j].email = {f}
                            /\ inv'[j].role = user'[f].role \/ j \in raced \cup renewed
      BY <1>1 DEF RoleAsInvited
    <3>2. CASE user'[f] = user[f]
      <4>1. PICK j \in Invites : /\ accepts[j] = 1 /\ inv[j].email = {f}
                                 /\ inv[j].role = user[f].role \/ j \in raced \cup renewed
        BY <1>2, <3>1, <3>2 DEF Invited, RoleAsInvited
      <4>2. QED
        BY <2>7, <2>8, <3>2, <4>1
    <3>3. CASE user'[f] # user[f]
      <4>1. f = e /\ user'[f].role = call[c].role
        BY <2>5, <3>3
      <4>2. QED
        BY <1>3, <2>4, <2>7, <2>8, <4>1
    <3>4. QED
      BY <3>2, <3>3
  <2>14. FoundersOwn'
    BY <1>1, <1>2, <2>5 DEF FoundersOwn, Exists
  <2>15. Invited'
    BY <2>9, <2>11, <2>12, <2>13 DEF Invited
  <2>16. \A j \in Invites : inv[j].status # "NONE" =>
           inv'[j].status # "NONE" /\ inv'[j].email = inv[j].email /\ inv'[j].role = inv[j].role
    BY <2>6, <2>7
  <2>17. QED
    BY <1>1, <1>2, <2>5, <2>6, <2>8, <2>14, <2>15, <2>16, InviteStep DEF Shapes
<1>7. QED
  BY <1>5, <1>6

LEMMA WriteSignupKeeps ==
  ASSUME AccountsInv, NEW c \in Calls, WriteSignup(c)
  PROVE  AccountsInv'
<1>1. call[c].step = "signup" /\ Ends(c)
      /\ UNCHANGED <<scope, inv, issued, link, accepts, resets, raced, renewed, tangled>>
  BY DEF WriteSignup
<1> DEFINE n == call[c].id
<1>2. PICK e \in call[c].email :
        IF Founded(e, n)
        THEN /\ slug' = [slug EXCEPT ![e] = n]
             /\ user' = IF Exists(e) THEN user
                        ELSE [user EXCEPT ![e] = [org |-> "own", role |-> "ADMIN"]]
        ELSE UNCHANGED <<slug, user>>
  BY DEF WriteSignup
<1>3. Shapes /\ Invited /\ FoundersOwn
  BY DEF AccountsInv
<1>4. e \in Emails /\ n \in Nat \ {0}
  BY <1>1, <1>2, <1>3 DEF AccountsInv, CallsKnow, Knows, Shapes, ServiceCalls
<1>5. user \in [Emails -> AccountRows] /\ slug \in [Emails -> Nat]
  BY <1>3 DEF Shapes
<1> HIDE DEF n
<1>6. CASE ~Founded(e, n)
  <2>1. UNCHANGED <<user, slug>>
    BY <1>2, <1>6
  <2>2. Invited' /\ FoundersOwn'
    BY <1>1, <1>3, <2>1, InvitedFrame, FoundersFrame
  <2>3. QED
    BY <1>1, <1>3, <2>1, <2>2, InviteStep DEF Shapes
<1>7. CASE Founded(e, n)
  <2>1. ~Exists(e) /\ \A f \in Emails : slug[f] # n
    BY <1>7 DEF Founded
  <2>2. slug' = [slug EXCEPT ![e] = n]
        /\ user' = [user EXCEPT ![e] = [org |-> "own", role |-> "ADMIN"]]
    BY <1>2, <1>7, <2>1
  <2>3. /\ user' \in [Emails -> AccountRows] /\ slug' \in [Emails -> Nat]
        /\ user'[e].org = "own" /\ user'[e].role = "ADMIN" /\ slug'[e] = n
        /\ \A f \in Emails \ {e} : user'[f] = user[f] /\ slug'[f] = slug[f]
    BY <1>4, <1>5, <2>2 DEF AccountRows, Roles
  <2>4. FoundersOwn'
    BY <1>3, <1>4, <2>1, <2>3 DEF FoundersOwn
  <2>5. InvitesAddressed' /\ RevokedUnused'
    BY <1>1, <1>3 DEF Invited, InvitesAddressed, RevokedUnused
  <2>6. InvitationOnce'
    <3>1. \A f \in Emails : Exists(f) => Exists(f)'
      BY <2>3 DEF Exists
    <3>2. \A i \in Invites : inv[i].email \subseteq Emails
      BY <1>3 DEF Shapes, InviteRows
    <3>3. QED
      BY <1>1, <1>3, <3>1, <3>2 DEF Invited, InvitationOnce
  <2>7. RoleAsInvited'
    <3>1. SUFFICES ASSUME NEW f \in Emails, user'[f].org = "company"
                   PROVE  \E j \in Invites :
                            /\ accepts[j] = 1 /\ inv[j].email = {f}
                            /\ inv[j].role = user'[f].role \/ j \in raced \cup renewed
      BY <1>1 DEF RoleAsInvited
    <3>2. user'[f] = user[f]
      BY <2>3, <3>1
    <3>3. QED
      BY <1>3, <3>1, <3>2 DEF Invited, RoleAsInvited
  <2>8. Invited'
    BY <2>5, <2>6, <2>7 DEF Invited
  <2>9. QED
    BY <1>1, <1>3, <2>3, <2>4, <2>8, InviteStep DEF Shapes
<1>8. QED
  BY <1>6, <1>7

(* A step of the password resets: the rows of links and the calls change.   *)
LEMMA ResetStep ==
  ASSUME AccountsInv, NEW c \in Calls, NEW k \in ServiceCalls,
         call' = [call EXCEPT ![c] = k], Knows(k)',
         Asks(k) => \A d \in Calls \ {c} :
           Asks(call[d]) /\ call[d].email = k.email => k.email \subseteq tangled,
         \A j \in Links : link'[j].state = "live" =>
           \/ link[j].state = "live" /\ link'[j].email = link[j].email
           \/ \A d \in Calls \ {c} : call[d].step = "renew" /\ call[d].email = link'[j].email
                                       => call[d].email \subseteq tangled,
         link' \in [Links -> LinkRows], resets' \in [Links -> Nat], Linked',
         UNCHANGED <<scope, user, slug, inv, issued, accepts, raced, renewed, tangled>>
  PROVE  AccountsInv'
<1>1. Shapes /\ Invited /\ FoundersOwn
  BY DEF AccountsInv
<1>2. CallsKnow' /\ AskersTangled' /\ call' \in [Calls -> ServiceCalls]
  BY CallStep
<1>3. Shapes'
  BY <1>1, <1>2 DEF Shapes
<1>4. Invited' /\ FoundersOwn'
  BY <1>1, InvitedFrame, FoundersFrame
<1>5. QED
  BY <1>2, <1>3, <1>4 DEF AccountsInv

LEMMA DeleteLinksKeeps ==
  ASSUME AccountsInv, NEW c \in Calls, DeleteLinks(c)
  PROVE  AccountsInv'
<1> DEFINE email == call[c].email
<1>1. /\ call[c].step = "forget"
      /\ link' = [j \in Links |-> IF link[j].email = email
                                  THEN [link[j] EXCEPT !.state = "gone"] ELSE link[j]]
      /\ UNCHANGED <<scope, user, slug, inv, issued, resets, accepts, raced, renewed, tangled>>
  BY DEF DeleteLinks, Invalidated
<1>2. Shapes /\ Linked /\ call[c] \in ServiceCalls
  BY DEF AccountsInv, Shapes
<1>3. PICK k \in ServiceCalls :
        k.step = "renew" /\ k.email = email /\ call' = [call EXCEPT ![c] = k]
  <2> DEFINE next == [call[c] EXCEPT !.step = "renew"]
  <2>1. next \in ServiceCalls /\ next.step = "renew" /\ next.email = email
    BY <1>2 DEF ServiceCalls
  <2>2. call' = [call EXCEPT ![c] = next]
    BY <1>2 DEF DeleteLinks, Shapes, ServiceCalls
  <2> HIDE DEF next
  <2>3. QED
    BY <2>1, <2>2
<1>4. PICK e \in Emails : email = {e}
  BY <1>1 DEF AccountsInv, CallsKnow, Knows
<1>5. link \in [Links -> LinkRows]
  BY <1>2 DEF Shapes
<1>6. link' \in [Links -> LinkRows]
  BY <1>1, <1>5 DEF LinkRows
<1>7. \A j \in Links :
        /\ link'[j].email = link[j].email
        /\ link[j].email = email => link'[j].state = "gone"
        /\ link[j].email # email => link'[j].state = link[j].state
  BY <1>1, <1>5 DEF LinkRows
<1>8. \A j \in Links : link[j].email = email => link[j].state # "none"
  BY <1>2, <1>4 DEF Linked, LinksIssued
<1>9. UNCHANGED <<scope, user, slug, inv, issued, resets, accepts, raced, renewed, tangled>>
  BY <1>1
<1>10. \A j \in Links : link'[j].state = "none" <=> link[j].state = "none"
  BY <1>7, <1>8
<1>11. LinksIssued'
  <2>1. ASSUME NEW j \in Links
        PROVE  /\ IF link'[j].state = "none" THEN link'[j].email = {}
                  ELSE \E f \in Emails : link'[j].email = {f}
               /\ link'[j].state \in {"none", "live"} => resets[j] = 0
    BY <1>2, <1>7, <1>8, <1>10 DEF Linked, LinksIssued
  <2>2. \A j \in Links : link'[j].state = "none" =>
          \A m \in Links : m > j => link'[m].state = "none"
    BY <1>2, <1>10 DEF Linked, LinksIssued
  <2>3. QED
    BY <1>9, <2>1, <2>2 DEF LinksIssued
<1>12. NewestLinkOnly'
  <2>1. \A j \in Links : link'[j].state = "live" => link[j].state = "live"
    BY <1>7
  <2>2. \A j \in Links : link'[j].email = link[j].email
    BY <1>7
  <2>3. QED
    BY <1>2, <1>9, <2>1, <2>2 DEF Linked, NewestLinkOnly
<1>13. Knows(k)'
  <2>1. \A j \in Links : ~(link'[j].state = "live" /\ link'[j].email = email)
    BY <1>7
  <2>2. k.step = "renew" /\ k.email = email /\ k.email = {e}
    BY <1>3, <1>4
  <2> HIDE DEF email
  <2>3. QED
    BY <2>1, <2>2 DEF Knows
<1>14. \A d \in Calls \ {c} : Asks(call[d]) /\ call[d].email = k.email => k.email \subseteq tangled
  BY <1>1, <1>3 DEF AccountsInv, AskersTangled, Asks
<1>15. \A j \in Links : link'[j].state = "live" =>
         link[j].state = "live" /\ link'[j].email = link[j].email
  BY <1>7
<1>16. Linked' /\ resets' \in [Links -> Nat]
  BY <1>1, <1>2, <1>11, <1>12 DEF Linked, Shapes
<1>17. QED
  BY <1>9, <1>3, <1>6, <1>13, <1>14, <1>15, <1>16, ResetStep

LEMMA CreateLinkKeeps ==
  ASSUME AccountsInv, NEW c \in Calls, CreateLink(c)
  PROVE  AccountsInv'
<1>1. /\ call[c].step = "renew" /\ call' = [call EXCEPT ![c] = NoCall]
      /\ UNCHANGED <<scope, user, slug, inv, issued, resets, accepts, raced, renewed, tangled>>
  BY DEF CreateLink, Ends
<1> DEFINE email == call[c].email
<1>2. PICK l \in Links : /\ link[l].state = "none"
                         /\ \A j \in 1..(l - 1) : link[j].state # "none"
                         /\ link' = [link EXCEPT ![l] = [state |-> "live", email |-> email,
                                                         fresh |-> TRUE]]
  BY DEF CreateLink
<1>3. Shapes /\ Linked
  BY DEF AccountsInv
<1>4. Knows(call[c])
  BY DEF AccountsInv, CallsKnow
<1>5. PICK e \in Emails : email = {e}
  BY <1>1, <1>4 DEF Knows
<1>6. \A j \in Links : link[j].state = "live" /\ link[j].email = email => email \subseteq tangled
  BY <1>1, <1>4 DEF Knows
<1>7. link \in [Links -> LinkRows] /\ resets \in [Links -> Nat]
  BY <1>3 DEF Shapes
<1> HIDE DEF email
<1>8. /\ link' \in [Links -> LinkRows]
      /\ link'[l].state = "live" /\ link'[l].email = email
      /\ \A j \in Links \ {l} : link'[j] = link[j]
  BY <1>2, <1>5, <1>7 DEF LinkRows
<1>9. \A j \in Links : j \in Nat /\ (j < l => link[j].state # "none")
                       /\ (j > l => link[j].state = "none" /\ link[j].email = {})
  <2>1. \A j \in Links : j \in Nat /\ l \in Nat /\ (j < l => j \in 1..(l - 1))
    BY AccountsAssumption DEF Links
  <2>2. QED
    BY <1>2, <1>3, <2>1 DEF Linked, LinksIssued
<1>10. LinksIssued'
  <2>1. ASSUME NEW j \in Links
        PROVE  /\ IF link'[j].state = "none" THEN link'[j].email = {}
                  ELSE \E f \in Emails : link'[j].email = {f}
               /\ link'[j].state \in {"none", "live"} => resets[j] = 0
    BY <1>2, <1>3, <1>5, <1>8 DEF Linked, LinksIssued
  <2>2. ASSUME NEW j \in Links, link'[j].state = "none", NEW m \in Links, m > j
        PROVE  link'[m].state = "none"
    <3>1. j # l /\ link[j].state = "none" /\ l \in Nat /\ j \in Nat /\ m \in Nat
      BY <1>8, <1>9, <2>2
    <3>2. m > l
      BY <1>9, <2>2, <3>1
    <3>3. QED
      BY <1>8, <1>9, <3>1, <3>2
  <2>3. QED
    BY <1>1, <2>1, <2>2 DEF LinksIssued
<1>11. NewestLinkOnly'
  <2>1. SUFFICES ASSUME NEW j \in Links, NEW m \in Links, j < m, link'[j].state = "live",
                        link'[j].email = link'[m].email
                 PROVE  link'[m].email \subseteq tangled
    BY <1>1, <1>3 DEF Linked, NewestLinkOnly
  <2>2. CASE m = l
    BY <1>6, <1>8, <1>9, <2>1, <2>2
  <2>3. CASE j = l
    <3>1. m > l /\ m # l
      BY <1>9, <2>1, <2>3
    <3>2. link'[m].email = {}
      BY <1>8, <1>9, <3>1
    <3>3. QED
      BY <3>2
  <2>4. CASE m # l /\ j # l
    BY <1>3, <1>8, <2>1, <2>4 DEF Linked, NewestLinkOnly
  <2>5. QED
    BY <2>2, <2>3, <2>4
<1>12. \A d \in Calls \ {c} : call[d].step = "renew" /\ call[d].email = email
         => call[d].email \subseteq tangled
  BY <1>1 DEF email, AccountsInv, AskersTangled, Asks
<1>13. \A j \in Links : link'[j].state = "live" =>
         \/ link[j].state = "live" /\ link'[j].email = link[j].email
         \/ \A d \in Calls \ {c} : call[d].step = "renew" /\ call[d].email = link'[j].email
                                     => call[d].email \subseteq tangled
  BY <1>8, <1>12
<1>14. Linked' /\ resets' \in [Links -> Nat]
  BY <1>1, <1>7, <1>10, <1>11 DEF Linked
<1>15. QED
  BY <1>1, <1>8, <1>13, <1>14, NoCallKnows, ResetStep

LEMMA WriteResetKeeps ==
  ASSUME AccountsInv, NEW c \in Calls, WriteReset(c)
  PROVE  AccountsInv'
<1> DEFINE l == call[c].id
<1>1. /\ call[c].step = "reset" /\ call' = [call EXCEPT ![c] = NoCall]
      /\ UNCHANGED <<scope, user, slug, inv, issued, accepts, raced, renewed, tangled>>
  BY DEF WriteReset, Ends
<1>2. Shapes /\ Linked /\ l \in Links
  BY <1>1 DEF AccountsInv, CallsKnow, Knows
<1>3. link \in [Links -> LinkRows] /\ resets \in [Links -> Nat]
  BY <1>2 DEF Shapes
<1>4. CASE ~Redeemable(l)
  <2>1. UNCHANGED <<link, resets>>
    BY <1>4 DEF WriteReset
  <2>2. Linked'
    BY <1>1, <1>2, <2>1, LinkedFrame
  <2>3. QED
    BY <1>1, <1>3, <2>1, <2>2, NoCallKnows, ResetStep
<1>5. CASE Redeemable(l)
  <2>1. /\ link' = [j \in Links |->
              IF j = l THEN [link[j] EXCEPT !.state = "used"]
              ELSE IF link[j].email = link[l].email /\ link[j].state = "live"
              THEN [link[j] EXCEPT !.state = "gone"] ELSE link[j]]
        /\ resets' = [resets EXCEPT ![l] = @ + 1]
    BY <1>5 DEF WriteReset
  <2>2. link[l].state = "live" /\ resets[l] = 0
    BY <1>2, <1>5 DEF Redeemable, Linked, LinksIssued
  <2> HIDE DEF l
  <2>3. link' \in [Links -> LinkRows]
    BY <1>3, <2>1 DEF LinkRows
  <2>4. \A j \in Links :
          /\ link'[j].email = link[j].email
          /\ link'[j].state = link[j].state \/ (link[j].state = "live" /\ link'[j].state \in {"used", "gone"})
    BY <1>3, <2>1, <2>2 DEF LinkRows
  <2>5. /\ resets' \in [Links -> Nat] /\ resets'[l] = 1
        /\ \A j \in Links \ {l} : resets'[j] = resets[j]
    BY <1>2, <1>3, <2>1, <2>2
  <2>6. link'[l].state = "used"
    BY <1>2, <1>3, <2>1 DEF LinkRows
  <2>7. LinksIssued'
    BY <1>2, <2>4, <2>5, <2>6 DEF Linked, LinksIssued
  <2>8. NewestLinkOnly'
    BY <1>1, <1>2, <2>4, <2>5 DEF Linked, NewestLinkOnly
  <2>9. \A j \in Links : link'[j].state = "live" =>
          link[j].state = "live" /\ link'[j].email = link[j].email
    BY <2>4
  <2>10. Linked'
    BY <2>7, <2>8 DEF Linked
  <2>11. QED
    BY <1>1, <2>3, <2>5, <2>9, <2>10, NoCallKnows, ResetStep
<1>6. QED
  BY <1>4, <1>5

(* Time passes for an invitation or a reset link.                           *)
LEMMA ExpiryKeeps ==
  ASSUME AccountsInv,
         UNCHANGED <<scope, user, slug, issued, call, accepts, resets, raced, renewed, tangled>>,
         inv' \in [Invites -> InviteRows], link' \in [Links -> LinkRows],
         \A i \in Invites : /\ inv'[i].status = inv[i].status /\ inv'[i].email = inv[i].email
                            /\ inv'[i].role = inv[i].role,
         \A k \in Links : link'[k].state = link[k].state /\ link'[k].email = link[k].email
  PROVE  AccountsInv'
<1>1. Shapes /\ Invited /\ FoundersOwn /\ Linked /\ CallsKnow /\ AskersTangled
  BY DEF AccountsInv
<1>2. Shapes'
  BY <1>1 DEF Shapes
<1>3. InvitesAddressed'
  BY <1>1 DEF Invited, InvitesAddressed
<1>4. InvitationOnce' /\ RevokedUnused'
  BY <1>1 DEF Invited, InvitationOnce, RevokedUnused, Exists
<1>5. RoleAsInvited'
  <2>1. SUFFICES ASSUME NEW e \in Emails, user[e].org = "company"
                 PROVE  \E i \in Invites :
                          /\ accepts[i] = 1 /\ inv'[i].email = {e}
                          /\ inv'[i].role = user[e].role \/ i \in raced \cup renewed
    BY DEF RoleAsInvited
  <2>2. PICK i \in Invites : /\ accepts[i] = 1 /\ inv[i].email = {e}
                             /\ inv[i].role = user[e].role \/ i \in raced \cup renewed
    BY <1>1, <2>1 DEF Invited, RoleAsInvited
  <2>3. QED
    BY <2>2
<1>6. FoundersOwn'
  BY <1>1, FoundersFrame
<1>7. LinksIssued' /\ NewestLinkOnly'
  <2>1. LinksIssued'
    BY <1>1 DEF Linked, LinksIssued
  <2>2. NewestLinkOnly'
    BY <1>1 DEF Linked, NewestLinkOnly
  <2>3. QED
    BY <2>1, <2>2
<1>8. CallsKnow'
  <2>1. SUFFICES ASSUME NEW c \in Calls PROVE Knows(call[c])'
    BY DEF CallsKnow
  <2>2. Knows(call[c]) /\ call'[c] = call[c]
    BY <1>1 DEF CallsKnow
  <2>3. QED
    BY <2>2 DEF Knows
<1>9. AskersTangled'
  BY <1>1 DEF AskersTangled, Asks
<1>10. QED
  BY <1>2, <1>3, <1>4, <1>5, <1>6, <1>7, <1>8, <1>9 DEF AccountsInv, Invited, Linked

LEMMA ExpiriesKeep ==
  ASSUME AccountsInv,
         \/ \E i \in Invites : InvitationExpires(i)
         \/ \E k \in Links : LinkExpires(k)
         \/ UNCHANGED acctVars
  PROVE  AccountsInv'
<1>1. inv \in [Invites -> InviteRows] /\ link \in [Links -> LinkRows]
  BY DEF AccountsInv, Shapes
<1>2. CASE \E i \in Invites : InvitationExpires(i)
  <2>1. PICK i \in Invites : InvitationExpires(i)
    BY <1>2
  <2>2. inv' = [inv EXCEPT ![i].fresh = FALSE]
        /\ UNCHANGED <<scope, user, slug, issued, link, call, accepts, resets, raced, renewed, tangled>>
    BY <2>1 DEF InvitationExpires
  <2>3. inv' \in [Invites -> InviteRows]
        /\ \A j \in Invites : /\ inv'[j].status = inv[j].status /\ inv'[j].email = inv[j].email
                              /\ inv'[j].role = inv[j].role
    BY <1>1, <2>2 DEF InviteRows
  <2>4. QED
    BY <1>1, <2>2, <2>3, ExpiryKeeps
<1>3. CASE \E k \in Links : LinkExpires(k)
  <2>1. PICK k \in Links : LinkExpires(k)
    BY <1>3
  <2>2. link' = [link EXCEPT ![k].fresh = FALSE]
        /\ UNCHANGED <<scope, user, slug, inv, issued, call, accepts, resets, raced, renewed, tangled>>
    BY <2>1 DEF LinkExpires
  <2>3. link' \in [Links -> LinkRows]
        /\ \A j \in Links : link'[j].state = link[j].state /\ link'[j].email = link[j].email
    BY <1>1, <2>2 DEF LinkRows
  <2>4. QED
    BY <1>1, <2>2, <2>3, ExpiryKeeps
<1>4. CASE UNCHANGED acctVars
  BY <1>1, <1>4, ExpiryKeeps DEF acctVars
<1>5. QED
  BY <1>2, <1>3, <1>4

LEMMA AccountsInductive == AccountsInv /\ [AcctNext]_acctVars => AccountsInv'
<1> SUFFICES ASSUME AccountsInv, [AcctNext]_acctVars PROVE AccountsInv'
  OBVIOUS
<1>1. ASSUME NEW c \in Calls,
             \/ \E e \in Emails : \/ \E role \in Roles : ReadInvite(c, e, role)
                                  \/ ReadSignup(c, e) \/ ReadForgot(c, e)
             \/ \E i \in Invites : ReadRevoke(c, i) \/ ReadAccept(c, i)
             \/ \E k \in Links : ReadReset(c, k)
      PROVE  AccountsInv'
  BY <1>1, ReadInviteKeeps, ReadSignupKeeps, ReadForgotKeeps, ReadRowKeeps,
    ReadResetKeeps
<1>2. ASSUME NEW c \in Calls,
             \/ WriteInvite(c) \/ WriteRevoke(c) \/ WriteAccept(c) \/ WriteSignup(c)
             \/ DeleteLinks(c) \/ CreateLink(c) \/ WriteReset(c) \/ CallDies(c)
      PROVE  AccountsInv'
  BY <1>2, WriteInviteKeeps, WriteRevokeKeeps, WriteAcceptKeeps, WriteSignupKeeps,
     DeleteLinksKeeps, CreateLinkKeeps, WriteResetKeeps, CallDiesKeeps
<1>3. QED
  BY <1>1, <1>2, ExpiriesKeep DEF AcctNext

(* Invitations and links are used once and as they were issued, and every   *)
(* organization keeps its founder (invitation.service.ts, signup.service.ts,*)
(* password-reset.service.ts), for every number of addresses and calls.     *)
THEOREM AccountsCorrect == AcctSpec => []AccountsSafe
<1>1. AccountsInv => AccountsSafe
  BY TypesFollow DEF AccountsInv, Invited, Linked, AccountsSafe
<1>2. QED
  BY <1>1, AccountsStart, AccountsInductive, PTL DEF AcctSpec

-----------------------------------------------------------------------------
(* The governance of the AI. *)

RunRows == [status : {"NONE", "RUNNING", "COMPLETED", "FAILED", "BLOCKED"},
            cost : Costs, recent : BOOLEAN]
Work == [step : {"idle", "admit", "refuse", "work", "fail"}, run : 0..MaxRuns]
ApprovalRows == [status : {"NONE", "PENDING", "APPROVED", "REJECTED"}, run : 0..MaxRuns]
ToolCalls == [step : {"idle", "record"}, run : 0..MaxRuns, approval : SUBSET Approvals]
DecisionStates == {"PENDING", "APPROVED", "REJECTED", "EXECUTED"}
Transitions == [step : {"idle", "write"}, target : DecisionStates]

RunsTyped ==
  /\ enabled \in BOOLEAN
  /\ run \in [Runs -> RunRows]
  /\ \A r \in Runs :
       /\ run[r].status # "COMPLETED" => run[r].cost = 0
       /\ run[r].cost <= RunBudget
  /\ agent \in [Agents -> Work]

ToolsTyped ==
  /\ approval \in [Approvals -> ApprovalRows]
  /\ tool \in [Agents -> ToolCalls]
  /\ effects \subseteq Runs \X Approvals

DecisionTyped ==
  /\ decision \in [status : DecisionStates, approved : BOOLEAN, rejected : BOOLEAN]
  /\ manager \in [Managers -> Transitions]
  /\ overlapped \in BOOLEAN

LEMMA TypeParts == GovernanceTypeOK <=> duty \in Duties /\ RunsTyped /\ ToolsTyped /\ DecisionTyped
BY DEF GovernanceTypeOK, RunsTyped, ToolsTyped, DecisionTyped, RunRows, Work,
  ApprovalRows,
       ToolCalls, DecisionStates, Transitions

(* A run that somebody works on has a row. *)
WorkHasRun ==
  \A a \in Agents : agent[a].step \in {"work", "fail"} => agent[a].run \in Runs

(* The approval that a tool call has found stays given. *)
ToolsApproved ==
  \A a \in Agents : tool[a].step = "record" =>
    /\ tool[a].run \in Runs
    /\ \A p \in tool[a].approval :
         approval[p].status = "APPROVED" /\ approval[p].run = tool[a].run

EffectsGranted ==
  \A r \in Runs, p \in Approvals : <<r, p>> \in effects =>
    approval[p].status = "APPROVED" /\ approval[p].run = r

(* What a manager is about to write follows from the status, as long as no  *)
(* two transitions overlapped.                                              *)
DecisionLogged ==
  /\ decision.status \in {"APPROVED", "EXECUTED"} => decision.approved
  /\ \A m \in Managers :
       manager[m].step = "write" /\ manager[m].target = "EXECUTED" => decision.approved
  /\ ~overlapped =>
       /\ decision.status = "PENDING" => ~decision.approved
       /\ decision.status # "REJECTED" => ~decision.rejected
       /\ decision.status = "REJECTED" => ~decision.approved
       /\ \A m \in Managers : manager[m].step = "write" =>
            /\ CanTransition(decision.status, manager[m].target)
            /\ \A n \in Managers \ {m} : manager[n].step # "write"

RunsInv == RunsTyped /\ WorkHasRun
ToolsInv == ToolsTyped /\ ToolsApproved /\ EffectsGranted
DecisionInv == DecisionTyped /\ DecisionLogged
GovernanceInv == duty \in Duties /\ RunsInv /\ ToolsInv /\ DecisionInv

runVars == <<enabled, run, agent>>
toolVars == <<approval, tool, effects>>
decisionVars == <<decision, manager, overlapped>>

-----------------------------------------------------------------------------
(* The three parts share no variable: what leaves one alone preserves it.   *)

LEMMA RunsRest == ASSUME RunsInv, UNCHANGED runVars PROVE RunsInv'
BY DEF RunsInv, RunsTyped, WorkHasRun, runVars

LEMMA ToolsRest == ASSUME ToolsInv, UNCHANGED toolVars PROVE ToolsInv'
BY DEF ToolsInv, ToolsTyped, ToolsApproved, EffectsGranted, toolVars

LEMMA DecisionRests == ASSUME DecisionInv, UNCHANGED decisionVars PROVE DecisionInv'
BY DEF DecisionInv, DecisionTyped, DecisionLogged, decisionVars

-----------------------------------------------------------------------------
(* Runs. *)

LEMMA AgentMoves ==
  ASSUME agent \in [Agents -> Work], NEW a \in Agents,
         NEW step \in {"admit", "refuse", "work", "fail"}, NEW r \in 0..MaxRuns,
         Works(a, step, r) \/ Rests(a)
  PROVE  /\ agent' \in [Agents -> Work]
         /\ \A b \in Agents \ {a} : agent'[b] = agent[b]
         /\ agent'[a].step \in {"idle", step}
         /\ agent'[a].step = step => agent'[a].run = r
<1>1. 0 \in 0..MaxRuns
  BY GovernanceAssumption DEF GovernanceAssumption
<1>2. CASE Works(a, step, r)
  BY <1>2 DEF Works, Work
<1>3. CASE Rests(a)
  BY <1>1, <1>3 DEF Rests, NoWork, Work
<1> QED
  BY <1>2, <1>3

(* A statement ends a run only while it is RUNNING. *)
LEMMA RunEnds ==
  ASSUME RunsTyped, NEW r \in Runs, NEW status \in {"COMPLETED", "FAILED", "BLOCKED"},
         NEW cost \in Costs, cost <= RunBudget, status # "COMPLETED" => cost = 0,
         run' = Ended(r, status, cost)
  PROVE  /\ run' \in [Runs -> RunRows]
         /\ \A s \in Runs : /\ run'[s].status # "COMPLETED" => run'[s].cost = 0
                            /\ run'[s].cost <= RunBudget
                            /\ run[s].status \in {"COMPLETED", "FAILED", "BLOCKED"}
                                 => run'[s] = run[s]
<1>1. run \in [Runs -> RunRows]
  BY DEF RunsTyped
<1>2. CASE run[r].status = "RUNNING"
  <2>1. run' = [run EXCEPT ![r] = [status |-> status, cost |-> cost, recent |-> run[r].recent]]
    <3> DEFINE f == [run EXCEPT ![r].status = status]
               g == [f EXCEPT ![r].cost = cost]
    <3>1. /\ f \in [Runs -> RunRows]
          /\ \A s \in Runs : f[s] = IF s = r THEN [run[r] EXCEPT !.status = status] ELSE run[s]
      BY <1>1 DEF RunRows
    <3>2. /\ g \in [Runs -> RunRows]
          /\ \A s \in Runs : g[s] = IF s = r THEN [f[r] EXCEPT !.cost = cost] ELSE f[s]
      BY <3>1 DEF RunRows
    <3>3. g[r] = [status |-> status, cost |-> cost, recent |-> run[r].recent]
      <4>1. f[r] = [status |-> status, cost |-> run[r].cost, recent |-> run[r].recent]
        BY <1>1, <3>1 DEF RunRows
      <4> HIDE DEF f
      <4>2. g[r] = [f[r] EXCEPT !.cost = cost]
        BY <3>2
      <4> HIDE DEF g
      <4> QED
        BY <4>1, <4>2
    <3>4. run' = g
      BY <1>2 DEF Ended
    <3> HIDE DEF f, g
    <3> QED
      BY <1>1, <3>1, <3>2, <3>3, <3>4
  <2>2. [status |-> status, cost |-> cost, recent |-> run[r].recent] \in RunRows
    BY <1>1 DEF RunRows
  <2> QED
    BY <1>1, <1>2, <2>1, <2>2 DEF RunsTyped
<1>3. CASE run[r].status # "RUNNING"
  BY <1>1, <1>3 DEF Ended, RunsTyped
<1> QED
  BY <1>2, <1>3

LEMMA CreateStep ==
  ASSUME RunsInv, NEW a \in Agents, CreateRun(a)
  PROVE  /\ RunsInv'
         /\ \A s \in Runs : run[s].status \in {"COMPLETED", "FAILED", "BLOCKED"}
                              => run'[s] = run[s]
<1>1. PICK r \in Runs :
        /\ run[r].status = "NONE"
        /\ \/ /\ run' = [run EXCEPT ![r] = [status |-> "RUNNING", cost |-> 0, recent |-> TRUE]]
              /\ Works(a, "work", r)
           \/ /\ run' = [run EXCEPT ![r] = [status |-> "BLOCKED", cost |-> 0, recent |-> TRUE]]
              /\ Rests(a)
  BY DEF CreateRun
<1>2. /\ [status |-> "RUNNING", cost |-> 0, recent |-> TRUE] \in RunRows
      /\ [status |-> "BLOCKED", cost |-> 0, recent |-> TRUE] \in RunRows
      /\ 0 <= RunBudget
  BY GovernanceAssumption DEF GovernanceAssumption, RunRows, Costs
<1>3. PICK row \in RunRows : /\ run' = [run EXCEPT ![r] = row]
                             /\ row.cost = 0 /\ row.status \in {"RUNNING", "BLOCKED"}
  BY <1>1, <1>2
<1>4. /\ run' \in [Runs -> RunRows]
      /\ \A s \in Runs : run'[s] = IF s = r THEN row ELSE run[s]
  BY <1>3 DEF RunsInv, RunsTyped
<1>5. r \in 0..MaxRuns /\ agent \in [Agents -> Work]
  BY DEF RunsInv, RunsTyped, Runs
<1>6. /\ agent' \in [Agents -> Work]
      /\ \A b \in Agents \ {a} : agent'[b] = agent[b]
      /\ agent'[a].step \in {"idle", "work"}
      /\ agent'[a].step = "work" => agent'[a].run = r
  BY <1>1, <1>5, AgentMoves
<1>7. RunsTyped'
  BY <1>2, <1>3, <1>4, <1>6 DEF RunsInv, RunsTyped, CreateRun
<1>8. WorkHasRun'
  BY <1>6 DEF RunsInv, WorkHasRun
<1> QED
  BY <1>1, <1>4, <1>7, <1>8 DEF RunsInv

LEMMA EndStep ==
  ASSUME RunsInv, NEW a \in Agents,
         FailRun(a) \/ \E cost \in Costs : CompleteRun(a, cost)
  PROVE  /\ RunsInv'
         /\ \A s \in Runs : run[s].status \in {"COMPLETED", "FAILED", "BLOCKED"}
                              => run'[s] = run[s]
<1> DEFINE r == agent[a].run
<1>1. r \in Runs /\ r \in 0..MaxRuns /\ RunsTyped /\ agent \in [Agents -> Work]
  BY DEF RunsInv, RunsTyped, WorkHasRun, FailRun, CompleteRun, Runs
<1> HIDE DEF r
<1>2. PICK status \in {"COMPLETED", "FAILED", "BLOCKED"}, cost \in Costs :
        /\ run' = Ended(r, status, cost)
        /\ cost <= RunBudget /\ (status # "COMPLETED" => cost = 0)
        /\ Works(a, "fail", r) \/ Rests(a)
  <2>1. 0 \in Costs /\ 0 <= RunBudget
    BY GovernanceAssumption DEF GovernanceAssumption, Costs
  <2>2. CASE FailRun(a)
    BY <2>1, <2>2 DEF FailRun, Failed, r
  <2>3. ASSUME NEW c \in Costs, CompleteRun(a, c)
        PROVE  \E status \in {"COMPLETED", "FAILED", "BLOCKED"}, cost \in Costs :
                 /\ run' = Ended(r, status, cost)
                 /\ cost <= RunBudget /\ (status # "COMPLETED" => cost = 0)
                 /\ Works(a, "fail", r) \/ Rests(a)
    BY <2>1, <2>3 DEF CompleteRun, Affordable, r
  <2> QED
    BY <2>2, <2>3
<1>3. /\ run' \in [Runs -> RunRows]
      /\ \A s \in Runs : /\ run'[s].status # "COMPLETED" => run'[s].cost = 0
                         /\ run'[s].cost <= RunBudget
                         /\ run[s].status \in {"COMPLETED", "FAILED", "BLOCKED"}
                              => run'[s] = run[s]
  BY <1>1, <1>2, RunEnds
<1>4. /\ agent' \in [Agents -> Work]
      /\ \A b \in Agents \ {a} : agent'[b] = agent[b]
      /\ agent'[a].step \in {"idle", "fail"}
      /\ agent'[a].step = "fail" => agent'[a].run = r
  BY <1>1, <1>2, AgentMoves
<1>5. enabled' = enabled
  BY DEF FailRun, CompleteRun
<1>6. RunsTyped'
  BY <1>3, <1>4, <1>5 DEF RunsInv, RunsTyped
<1>7. WorkHasRun'
  BY <1>1, <1>4 DEF RunsInv, WorkHasRun
<1> QED
  BY <1>3, <1>6, <1>7 DEF RunsInv

(* The other actions of a run change no status and no cost. *)
LEMMA RunStep ==
  ASSUME RunsInv, UNCHANGED run, enabled' \in BOOLEAN,
         \/ \E a \in Agents : ReadBudget(a) \/ ModelFails(a) \/ AgentDies(a)
         \/ Deploy
  PROVE  RunsInv'
<1>1. agent \in [Agents -> Work] /\ 0 \in 0..MaxRuns
  BY GovernanceAssumption DEF RunsInv, RunsTyped, GovernanceAssumption
<1>2. /\ agent' \in [Agents -> Work]
      /\ \A b \in Agents : agent'[b].step \in {"work", "fail"} => agent'[b].run \in Runs
  <2>1. ASSUME NEW a \in Agents, ReadBudget(a)
        PROVE  <1>2!1 /\ <1>2!2
    <3>1. PICK step \in {"admit", "refuse"} : Works(a, step, 0)
      BY <2>1 DEF ReadBudget
    <3> QED
      BY <1>1, <3>1, AgentMoves DEF RunsInv, WorkHasRun
  <2>2. ASSUME NEW a \in Agents, ModelFails(a)
        PROVE  <1>2!1 /\ <1>2!2
    <3>1. agent[a].run \in Runs /\ agent[a].run \in 0..MaxRuns /\ Works(a, "fail", agent[a].run)
      BY <2>2 DEF ModelFails, RunsInv, WorkHasRun, Runs
    <3> QED
      BY <1>1, <3>1, AgentMoves DEF RunsInv, WorkHasRun
  <2>3. ASSUME NEW a \in Agents, AgentDies(a)
        PROVE  <1>2!1 /\ <1>2!2
    <3>1. /\ agent' \in [Agents -> Work]
          /\ \A b \in Agents \ {a} : agent'[b] = agent[b]
          /\ agent'[a].step \in {"idle", "admit"}
      BY <1>1, <2>3, AgentMoves DEF AgentDies
    <3> QED
      BY <3>1 DEF RunsInv, WorkHasRun
  <2>4. CASE Deploy
    BY <1>1, <2>4 DEF Deploy, NoWork, Work
  <2> QED
    BY <2>1, <2>2, <2>3, <2>4
<1> QED
  BY <1>2 DEF RunsInv, RunsTyped, WorkHasRun

LEMMA PeriodStep ==
  ASSUME RunsInv, NEW r \in Runs, PeriodPasses(r)
  PROVE  /\ RunsInv'
         /\ \A s \in Runs : run'[s].status = run[s].status /\ run'[s].cost = run[s].cost
<1>1. run \in [Runs -> RunRows] /\ run' = [run EXCEPT ![r].recent = FALSE]
  BY DEF RunsInv, RunsTyped, PeriodPasses
<1>2. /\ run' \in [Runs -> RunRows]
      /\ \A s \in Runs : run'[s].status = run[s].status /\ run'[s].cost = run[s].cost
  BY <1>1 DEF RunRows
<1> QED
  BY <1>2 DEF RunsInv, RunsTyped, WorkHasRun, PeriodPasses

-----------------------------------------------------------------------------
(* Approvals and tool calls. *)

LEMMA ApprovalStep ==
  ASSUME ToolsInv, NEW p \in Approvals,
         \/ \E r \in Runs : RequestApproval(p, r)
         \/ \E verdict \in {"APPROVED", "REJECTED"} : ResolveApproval(p, verdict)
  PROVE  ToolsInv'
<1>1. UNCHANGED <<tool, effects>> /\ approval \in [Approvals -> ApprovalRows]
  BY DEF RequestApproval, ResolveApproval, ToolsInv, ToolsTyped
<1>2. /\ approval' \in [Approvals -> ApprovalRows]
      /\ approval[p].status # "APPROVED"
      /\ \A q \in Approvals \ {p} : approval'[q] = approval[q]
  BY <1>1 DEF RequestApproval, ResolveApproval, Resolvable, ApprovalRows, Runs
<1>3. \A q \in Approvals : approval[q].status = "APPROVED" => approval'[q] = approval[q]
  BY <1>2
<1>4. ToolsTyped'
  BY <1>1, <1>2 DEF ToolsInv, ToolsTyped
<1>5. ToolsApproved'
  <2>1. \A a \in Agents : tool[a].approval \subseteq Approvals
    BY DEF ToolsInv, ToolsTyped, ToolCalls
  <2> QED
    BY <1>1, <1>3, <2>1 DEF ToolsInv, ToolsApproved
<1>6. EffectsGranted'
  BY <1>1, <1>3 DEF ToolsInv, EffectsGranted
<1> QED
  BY <1>4, <1>5, <1>6 DEF ToolsInv

LEMMA FindStep ==
  ASSUME ToolsInv, NEW a \in Agents, NEW p \in Approvals, NEW r \in Runs, ReadApproval(a, p, r)
  PROVE  ToolsInv'
<1> DEFINE t == [step |-> "record", run |-> r, approval |-> {p}]
<1>1. tool' = [tool EXCEPT ![a] = t] /\ UNCHANGED <<approval, effects>>
  BY DEF ReadApproval
<1>2. t \in ToolCalls /\ t.run = r /\ t.approval = {p}
  BY DEF ToolCalls, Runs
<1>3. approval[p].status = "APPROVED" /\ approval[p].run = r
  BY DEF ReadApproval
<1> HIDE DEF t
<1>4. tool \in [Agents -> ToolCalls]
  BY DEF ToolsInv, ToolsTyped
<1>5. ToolsTyped'
  BY <1>1, <1>2, <1>4 DEF ToolsInv, ToolsTyped
<1>6. ToolsApproved'
  BY <1>1, <1>2, <1>3, <1>4 DEF ToolsInv, ToolsApproved
<1>7. EffectsGranted'
  BY <1>1 DEF ToolsInv, EffectsGranted
<1> QED
  BY <1>5, <1>6, <1>7 DEF ToolsInv

LEMMA RecordStep ==
  ASSUME ToolsInv, NEW a \in Agents, RecordToolCall(a)
  PROVE  ToolsInv'
<1>1. /\ tool \in [Agents -> ToolCalls] /\ tool[a].step = "record" /\ approval' = approval
      /\ tool' = [tool EXCEPT ![a] = NoTool]
      /\ effects' = effects \cup {<<tool[a].run, p>> : p \in tool[a].approval}
  BY DEF ToolsInv, ToolsTyped, RecordToolCall
<1>2. NoTool \in ToolCalls /\ NoTool.step = "idle"
  BY GovernanceAssumption DEF NoTool, ToolCalls, GovernanceAssumption
<1>3. /\ tool[a].run \in Runs /\ tool[a].approval \subseteq Approvals
      /\ \A p \in tool[a].approval :
           approval[p].status = "APPROVED" /\ approval[p].run = tool[a].run
  BY <1>1 DEF ToolsInv, ToolsApproved, ToolCalls
<1>4. ToolsTyped'
  BY <1>1, <1>2, <1>3 DEF ToolsInv, ToolsTyped
<1>5. ToolsApproved'
  BY <1>1, <1>2 DEF ToolsInv, ToolsApproved
<1>6. EffectsGranted'
  BY <1>1, <1>3 DEF ToolsInv, EffectsGranted
<1> QED
  BY <1>4, <1>5, <1>6 DEF ToolsInv

-----------------------------------------------------------------------------
(* Decisions. *)

LEMMA ReadDecisionStep ==
  ASSUME DecisionInv, NEW m \in Managers, NEW target \in {"APPROVED", "REJECTED", "EXECUTED"},
         ReadDecision(m, target)
  PROVE  DecisionInv'
<1>1. /\ manager \in [Managers -> Transitions] /\ decision' = decision
      /\ manager' = [manager EXCEPT ![m] = [step |-> "write", target |-> target]]
      /\ CanTransition(decision.status, target)
      /\ overlapped' = (overlapped \/ \E n \in Managers : manager[n].step = "write")
  BY DEF DecisionInv, DecisionTyped, ReadDecision
<1>2. [step |-> "write", target |-> target] \in Transitions
  BY DEF Transitions, DecisionStates
<1>3. DecisionTyped'
  BY <1>1, <1>2 DEF DecisionInv, DecisionTyped
<1>4. target = "EXECUTED" => decision.approved
  BY <1>1 DEF CanTransition, DecisionInv, DecisionLogged
<1>5. ~overlapped' => ~overlapped /\ \A n \in Managers : manager[n].step # "write"
  BY <1>1
<1>6. /\ manager'[m].step = "write" /\ manager'[m].target = target
      /\ \A n \in Managers \ {m} : manager'[n] = manager[n]
  BY <1>1
<1>7. DecisionLogged'
  BY <1>1, <1>4, <1>5, <1>6 DEF DecisionInv, DecisionLogged
<1> QED
  BY <1>3, <1>7 DEF DecisionInv

LEMMA WriteDecisionStep ==
  ASSUME DecisionInv, NEW m \in Managers, WriteDecision(m)
  PROVE  DecisionInv'
<1> DEFINE target == manager[m].target
<1>1. /\ manager \in [Managers -> Transitions] /\ overlapped' = overlapped
      /\ manager[m].step = "write" /\ target \in DecisionStates
      /\ manager' = [manager EXCEPT ![m] = NoDecision]
      /\ decision' = [status |-> target,
                      approved |-> decision.approved \/ target = "APPROVED",
                      rejected |-> decision.rejected \/ target = "REJECTED"]
  BY DEF DecisionInv, DecisionTyped, WriteDecision, Transitions
<1>2. NoDecision \in Transitions /\ NoDecision.step = "idle"
  BY DEF NoDecision, Transitions, DecisionStates
<1>3. target = "EXECUTED" => decision.approved
  BY <1>1 DEF DecisionInv, DecisionLogged
<1>4. ~overlapped => /\ CanTransition(decision.status, target)
                     /\ \A n \in Managers \ {m} : manager[n].step # "write"
  BY <1>1 DEF DecisionInv, DecisionLogged
<1> HIDE DEF target
<1>5. /\ decision'.status = target
      /\ decision'.approved = (decision.approved \/ target = "APPROVED")
      /\ decision'.rejected = (decision.rejected \/ target = "REJECTED")
  BY <1>1
<1>6. /\ manager'[m].step = "idle" /\ manager' \in [Managers -> Transitions]
      /\ \A n \in Managers \ {m} : manager'[n] = manager[n]
  BY <1>1, <1>2
<1>7. DecisionTyped'
  BY <1>1, <1>6 DEF DecisionInv, DecisionTyped
<1>8. DecisionLogged'
  BY <1>1, <1>3, <1>4, <1>5, <1>6 DEF DecisionInv, DecisionLogged, CanTransition
<1> QED
  BY <1>7, <1>8 DEF DecisionInv

-----------------------------------------------------------------------------
LEMMA GovernanceStarts ==
  ASSUME GovernanceInit
  PROVE  GovernanceInv
<1>1. 0 \in 0..MaxRuns /\ 0 \in Costs /\ 0 <= RunBudget
  BY GovernanceAssumption DEF GovernanceAssumption, Costs
<1>2. RunsInv
  BY <1>1 DEF GovernanceInit, RunsInv, RunsTyped, WorkHasRun, RunRows, Work, NoRun,
    NoWork
<1>3. ToolsInv
  BY <1>1 DEF GovernanceInit, ToolsInv, ToolsTyped, ToolsApproved, EffectsGranted,
     ApprovalRows, ToolCalls, NoTool
<1>4. DecisionInv
  BY DEF GovernanceInit, DecisionInv, DecisionTyped, DecisionLogged, DecisionStates,
     Transitions, NoDecision
<1> QED
  BY <1>2, <1>3, <1>4 DEF GovernanceInit, GovernanceInv

Ending == \A r \in Runs : run[r].status \in {"COMPLETED", "FAILED", "BLOCKED"}
            => run'[r].status = run[r].status /\ run'[r].cost = run[r].cost

(* A step preserves the invariant, and leaves what has ended alone.         *)
LEMMA GovernanceStep ==
  ASSUME GovernanceInv, [GovernanceNext]_governanceVars
  PROVE  GovernanceInv' /\ Ending
<1>1. ASSUME NEW a \in Agents, CreateRun(a) \/ FailRun(a) \/ \E c \in Costs : CompleteRun(a, c)
      PROVE  GovernanceInv' /\ Ending
  <2>1. UNCHANGED <<duty, toolVars, decisionVars>>
    BY <1>1 DEF CreateRun, FailRun, CompleteRun, toolVars, decisionVars
  <2> QED
    BY <1>1, <2>1, CreateStep, EndStep, ToolsRest, DecisionRests DEF GovernanceInv,
      Ending
<1>2. ASSUME \/ \E a \in Agents : ReadBudget(a) \/ ModelFails(a) \/ AgentDies(a)
             \/ Deploy
      PROVE  GovernanceInv' /\ Ending
  <2>1. UNCHANGED <<duty, run, toolVars, decisionVars>>
    BY <1>2 DEF ReadBudget, ModelFails, AgentDies, Deploy, toolVars, decisionVars
  <2>2. enabled' \in BOOLEAN
    BY <1>2 DEF ReadBudget, ModelFails, AgentDies, Deploy, GovernanceInv, RunsInv,
      RunsTyped
  <2> QED
    BY <1>2, <2>1, <2>2, RunStep, ToolsRest, DecisionRests DEF GovernanceInv, Ending
<1>3. ASSUME NEW r \in Runs, PeriodPasses(r)
      PROVE  GovernanceInv' /\ Ending
  <2>1. UNCHANGED <<duty, toolVars, decisionVars>>
    BY <1>3 DEF PeriodPasses, toolVars, decisionVars
  <2> QED
    BY <1>3, <2>1, PeriodStep, ToolsRest, DecisionRests DEF GovernanceInv, Ending
<1>4. ASSUME \/ \E p \in Approvals, r \in Runs : RequestApproval(p, r)
             \/ \E p \in Approvals, v \in {"APPROVED", "REJECTED"} : ResolveApproval(p, v)
             \/ \E a \in Agents, p \in Approvals, r \in Runs : ReadApproval(a, p, r)
             \/ \E a \in Agents : RecordToolCall(a)
      PROVE  GovernanceInv' /\ Ending
  <2>1. UNCHANGED <<duty, runVars, decisionVars>>
    BY <1>4 DEF RequestApproval, ResolveApproval, ReadApproval, RecordToolCall, runVars,
       decisionVars
  <2>2. ToolsInv'
    BY <1>4, ApprovalStep, FindStep, RecordStep DEF GovernanceInv
  <2> QED
    BY <2>1, <2>2, RunsRest, DecisionRests DEF GovernanceInv, Ending, runVars
<1>5. ASSUME \/ \E m \in Managers, t \in {"APPROVED", "REJECTED", "EXECUTED"} :
                  ReadDecision(m, t)
             \/ \E m \in Managers : WriteDecision(m)
      PROVE  GovernanceInv' /\ Ending
  <2>1. UNCHANGED <<duty, runVars, toolVars>>
    BY <1>5 DEF ReadDecision, WriteDecision, runVars, toolVars
  <2>2. DecisionInv'
    BY <1>5, ReadDecisionStep, WriteDecisionStep DEF GovernanceInv
  <2> QED
    BY <2>1, <2>2, RunsRest, ToolsRest DEF GovernanceInv, Ending, runVars
<1>6. CASE UNCHANGED governanceVars
  <2>1. UNCHANGED <<duty, runVars, toolVars, decisionVars>>
    BY <1>6 DEF governanceVars, runVars, toolVars, decisionVars
  <2> QED
    BY <2>1, RunsRest, ToolsRest, DecisionRests DEF GovernanceInv, Ending, runVars
<1> QED
  BY <1>1, <1>2, <1>3, <1>4, <1>5, <1>6 DEF GovernanceNext

LEMMA GovernanceHolds == GovernanceSpec => []GovernanceInv
BY GovernanceStarts, GovernanceStep, PTL DEF GovernanceSpec

(* Rows and calls keep their shape; only completed runs carry a cost, none  *)
(* above the budget of a run (completeRun).                                 *)
THEOREM GovernanceTyped == GovernanceSpec => []GovernanceTypeOK
<1>1. GovernanceInv => GovernanceTypeOK
  BY TypeParts DEF GovernanceInv, RunsInv, ToolsInv, DecisionInv
<1> QED
  BY <1>1, GovernanceHolds, PTL

(* Every recorded external effect names an approval that stands for its run *)
(* (recordToolCall, resolveApproval).                                       *)
THEOREM EffectsSafe == GovernanceSpec => []EffectsApproved
<1>1. ASSUME GovernanceInv, NEW e \in effects
      PROVE  approval[e[2]].status = "APPROVED" /\ approval[e[2]].run = e[1]
  <2>1. PICK r \in Runs, p \in Approvals : e = <<r, p>>
    BY <1>1 DEF GovernanceInv, ToolsInv, ToolsTyped
  <2>2. e[1] = r /\ e[2] = p /\ <<r, p>> \in effects
    BY <2>1
  <2> QED
    BY <1>1, <2>2 DEF GovernanceInv, ToolsInv, EffectsGranted
<1>2. GovernanceInv => EffectsApproved
  BY <1>1 DEF EffectsApproved
<1> QED
  BY <1>2, GovernanceHolds, PTL

(* An executed decision was approved; only overlapping transitions leave    *)
(* one both approved and rejected (transition of ai-ceo.repository.ts).     *)
THEOREM DecisionsSafe == GovernanceSpec => []DecisionsConsistent
<1>1. GovernanceInv => DecisionsConsistent
  BY DEF GovernanceInv, DecisionInv, DecisionTyped, DecisionLogged, DecisionStates,
     DecisionsConsistent
<1> QED
  BY <1>1, GovernanceHolds, PTL

(* Approvals and decisions bind the agents: shapes, effects and decisions   *)
(* together.                                                                *)
THEOREM ApprovalsSafe == GovernanceSpec => []ApprovalsHold
<1>1. GovernanceTypeOK /\ EffectsApproved /\ DecisionsConsistent => ApprovalsHold
  BY DEF ApprovalsHold
<1> QED
  BY <1>1, GovernanceTyped, EffectsSafe, DecisionsSafe, PTL

(* A run that has ended keeps its status and its cost (the guarded          *)
(* updateMany statements of completeRun and failRun).                       *)
THEOREM EndedRunsKept == GovernanceSpec => EndedRunsStay
<1>1. GovernanceInv /\ [GovernanceNext]_governanceVars =>
        [\A r \in Runs : run[r].status \in {"COMPLETED", "FAILED", "BLOCKED"}
           => run'[r].status = run[r].status /\ run'[r].cost = run[r].cost]_governanceVars
  BY GovernanceStep DEF Ending
<1> QED
  BY <1>1, GovernanceHolds, PTL DEF GovernanceSpec, EndedRunsStay

-----------------------------------------------------------------------------
(* The budget: what the callers that may still complete a run can spend is   *)
(* kept back from the bound.                                                *)
Admitted == {a \in Agents : agent[a].step \in {"admit", "work"}}

BudgetKept ==
  PeriodBudget > 0 =>
    Spent + RunBudget * Cardinality(Admitted)
      <= PeriodBudget - 1 + Cardinality(Agents) * RunBudget

LEMMA SpentIs ==
  ASSUME RunsTyped
  PROVE  /\ Spent = SumFunctionOnSet(Charged, Runs)
         /\ IsFiniteSet(Runs) /\ Spent \in Nat
         /\ \A r \in Runs : Charged[r] \in 0..RunBudget
<1>1. Spent = SumFunctionOnSet(Charged, Runs) /\ IsFiniteSet(Runs)
  BY FS_Interval, GovernanceAssumption DEF Spent, SumFunction, Charged, Runs,
    GovernanceAssumption
<1>2. \A r \in Runs : Charged[r] \in 0..RunBudget
  BY GovernanceAssumption DEF RunsTyped, RunRows, Charged, Costs, GovernanceAssumption
<1>3. SumFunctionOnSet(Charged, Runs) \in Int /\ SumFunctionOnSet(Charged, Runs) >= 0
  BY <1>1, <1>2, SumType, GovernanceAssumption DEF GovernanceAssumption
<1> QED
  BY <1>1, <1>2, <1>3

LEMMA AdmittedCounted ==
  /\ \A S \in SUBSET Agents : IsFiniteSet(S) /\ Cardinality(S) \in 0..Cardinality(Agents)
  /\ Admitted \subseteq Agents
  /\ Cardinality(Agents) \in Nat
BY GovernanceAssumption, FS_Subset, FS_CardinalityType DEF GovernanceAssumption,
  Admitted

LEMMA BudgetTimes ==
  ASSUME NEW b \in Nat, NEW m \in Nat, NEW n \in Nat
  PROVE  /\ b * m \in Nat
         /\ m <= n => b * m <= b * n
         /\ b * (m + 1) = b * m + b
         /\ m * b = b * m
OBVIOUS

(* One run changes: the sum changes by as much. *)
LEMMA SpentMoves ==
  ASSUME RunsTyped, RunsTyped', NEW r \in Runs,
         \A s \in Runs \ {r} : run'[s] = run[s]
  PROVE  Spent' = Spent - Charged[r] + Charged'[r]
<1>1. \A s \in Runs \ {r} : Charged'[s] = Charged[s]
  BY DEF Charged, Runs
<1>2. Spent = SumFunctionOnSet(Charged, Runs) /\ IsFiniteSet(Runs)
      /\ \A s \in Runs : Charged[s] \in Int
  BY SpentIs, GovernanceAssumption DEF GovernanceAssumption
<1>3. Spent' = SumFunctionOnSet(Charged', Runs) /\ \A s \in Runs : Charged'[s] \in Int
  <2>1. Spent' = SumFunctionOnSet(Charged', Runs)
    BY DEF Spent, SumFunction, Charged, Runs
  <2>2. \A s \in Runs : Charged'[s] \in Int
    BY GovernanceAssumption DEF RunsTyped, RunRows, Charged, Costs,
      GovernanceAssumption, Runs
  <2> QED
    BY <2>1, <2>2
<1> DEFINE f == Charged
           g == Charged'
<1> HIDE DEF f, g
<1>4. SumFunctionOnSet(g, Runs) = SumFunctionOnSet(f, Runs) - f[r] + g[r]
  BY <1>1, <1>2, <1>3, SumChange DEF f, g
<1> QED
  BY <1>2, <1>3, <1>4 DEF f, g

LEMMA BudgetSame ==
  ASSUME BudgetKept, RunsInv, Spent' \in Int, Spent' <= Spent, Admitted' \subseteq Admitted
  PROVE  BudgetKept'
<1>1. Cardinality(Admitted') \in Nat /\ Cardinality(Admitted) \in Nat
      /\ Cardinality(Admitted') <= Cardinality(Admitted)
  BY AdmittedCounted, FS_Subset, FS_CardinalityType
<1>2. RunBudget * Cardinality(Admitted') <= RunBudget * Cardinality(Admitted)
      /\ RunBudget * Cardinality(Admitted') \in Nat /\ RunBudget * Cardinality(Admitted) \in Nat
      /\ Cardinality(Agents) * RunBudget \in Nat
  BY <1>1, BudgetTimes, AdmittedCounted, GovernanceAssumption DEF GovernanceAssumption
<1>3. Spent \in Nat
  BY SpentIs DEF RunsInv
<1> QED
  BY <1>2, <1>3, GovernanceAssumption DEF BudgetKept, GovernanceAssumption

LEMMA BudgetCreate ==
  ASSUME RunsInv, RunsInv', BudgetKept, NEW a \in Agents, CreateRun(a)
  PROVE  BudgetKept'
<1>1. PICK r \in Runs :
        /\ run[r].status = "NONE"
        /\ \/ /\ run' = [run EXCEPT ![r] = [status |-> "RUNNING", cost |-> 0, recent |-> TRUE]]
              /\ agent[a].step = "admit"
           \/ run' = [run EXCEPT ![r] = [status |-> "BLOCKED", cost |-> 0, recent |-> TRUE]]
              /\ Rests(a)
  BY DEF CreateRun
<1>2. Charged[r] = 0 /\ Charged'[r] = 0 /\ \A s \in Runs \ {r} : run'[s] = run[s]
  BY <1>1 DEF Charged, Runs, RunsInv, RunsTyped
<1>3. Spent' = Spent /\ Spent \in Nat
  BY <1>2, SpentMoves, SpentIs DEF RunsInv
<1>4. Admitted' \subseteq Admitted
  BY <1>1 DEF Admitted, CreateRun, Works, Rests, NoWork, RunsInv, RunsTyped
<1> QED
  BY <1>3, <1>4, BudgetSame


(* A completed run is charged at most a run's budget, and its caller may    *)
(* complete no other.                                                       *)
LEMMA BudgetEnd ==
  ASSUME RunsInv, RunsInv', BudgetKept, NEW a \in Agents,
         FailRun(a) \/ \E cost \in Costs : CompleteRun(a, cost)
  PROVE  BudgetKept'
<1> DEFINE r == agent[a].run
<1>1. r \in Runs /\ agent \in [Agents -> Work] /\ run \in [Runs -> RunRows]
  BY DEF RunsInv, RunsTyped, WorkHasRun, FailRun, CompleteRun
<1>7. PICK status \in {"COMPLETED", "FAILED", "BLOCKED"}, cost \in Costs :
        /\ run' = Ended(r, status, cost)
        /\ agent[a].step # "work" => status = "FAILED"
        /\ Works(a, "fail", r) \/ Rests(a)
  <2>1. 0 \in Costs
    BY GovernanceAssumption DEF GovernanceAssumption, Costs
  <2>2. CASE FailRun(a)
    BY <2>1, <2>2 DEF FailRun, Failed, r
  <2>3. ASSUME NEW c \in Costs, CompleteRun(a, c)
        PROVE  \E status \in {"COMPLETED", "FAILED", "BLOCKED"}, cost \in Costs :
                 /\ run' = Ended(r, status, cost)
                 /\ agent[a].step # "work" => status = "FAILED"
                 /\ Works(a, "fail", r) \/ Rests(a)
    BY <2>1, <2>3 DEF CompleteRun, r
  <2> QED
    BY <2>2, <2>3
<1> HIDE DEF r
<1>8. r \in 0..MaxRuns
  BY <1>1 DEF Runs
<1>2. /\ \A s \in Runs \ {r} : run'[s] = run[s]
      /\ run'[r] = run[r] \/ (run[r].status = "RUNNING" /\ run'[r].status = status)
      /\ agent'[a].step \in {"idle", "fail"}
      /\ \A b \in Agents \ {a} : agent'[b] = agent[b]
  <2>1. /\ agent'[a].step \in {"idle", "fail"}
        /\ \A b \in Agents \ {a} : agent'[b] = agent[b]
    BY <1>1, <1>7, <1>8, AgentMoves
  <2>2. CASE run[r].status # "RUNNING"
    BY <1>7, <2>1, <2>2 DEF Ended
  <2>3. CASE run[r].status = "RUNNING"
    <3> DEFINE f == [run EXCEPT ![r].status = status]
    <3>1. f[r].status = status /\ \A s \in Runs \ {r} : f[s] = run[s]
      BY <1>1 DEF RunRows
    <3>2. f \in [Runs -> RunRows]
      BY <1>1 DEF RunRows
    <3>3. run' = [f EXCEPT ![r].cost = cost]
      BY <1>7, <2>3 DEF Ended
    <3> HIDE DEF f
    <3>4. run'[r].status = f[r].status /\ \A s \in Runs \ {r} : run'[s] = f[s]
      BY <1>1, <3>2, <3>3 DEF RunRows
    <3> QED
      BY <2>1, <2>3, <3>1, <3>4
  <2> QED
    BY <2>2, <2>3
<1>3. /\ Charged'[r] \in 0..RunBudget /\ Charged[r] \in 0..RunBudget
      /\ Charged'[r] = Charged[r] \/ Charged[r] = 0
  <2>1. Charged'[r] \in 0..RunBudget
    BY <1>1, GovernanceAssumption
    DEF RunsInv, RunsTyped, RunRows, Charged, Costs, GovernanceAssumption, Runs
  <2>2. Charged[r] \in 0..RunBudget
    BY <1>1, SpentIs DEF RunsInv
  <2> QED
    BY <1>1, <1>2, <2>1, <2>2 DEF Charged, Runs
<1>4. Spent' = Spent - Charged[r] + Charged'[r] /\ Spent \in Nat
  BY <1>1, <1>2, SpentMoves, SpentIs DEF RunsInv
<1>5. CASE agent[a].step = "work" /\ Charged'[r] # Charged[r]
  <2>1. a \in Admitted /\ Admitted' = Admitted \ {a}
    BY <1>1, <1>2, <1>5 DEF Admitted
  <2>2. Cardinality(Admitted') = Cardinality(Admitted) - 1 /\ Cardinality(Admitted') \in Nat
    BY <2>1, AdmittedCounted, FS_RemoveElement, FS_CardinalityType
  <2>3. RunBudget * Cardinality(Admitted) = RunBudget * Cardinality(Admitted') + RunBudget
        /\ RunBudget * Cardinality(Admitted') \in Nat
        /\ Cardinality(Agents) * RunBudget \in Nat
    <3> DEFINE n == Cardinality(Admitted')
    <3>1. n \in Nat /\ Cardinality(Admitted) = n + 1 /\ RunBudget \in Nat
          /\ Cardinality(Agents) \in Nat
      BY <2>2, AdmittedCounted, FS_CardinalityType, GovernanceAssumption
      DEF GovernanceAssumption
    <3> HIDE DEF n
    <3>2. RunBudget * (n + 1) = RunBudget * n + RunBudget /\ RunBudget * n \in Nat
      BY <3>1, BudgetTimes
    <3>3. Cardinality(Agents) * RunBudget \in Nat
      BY <3>1, BudgetTimes
    <3> QED
      BY <3>1, <3>2, <3>3 DEF n
  <2>4. Spent' <= Spent + RunBudget /\ Spent' \in Int
    <3>1. RunBudget \in Nat
      BY GovernanceAssumption DEF GovernanceAssumption
    <3> QED
      BY <1>3, <1>4, <3>1
  <2> QED
    BY <1>4, <2>3, <2>4, GovernanceAssumption DEF BudgetKept, GovernanceAssumption
<1>6. CASE agent[a].step # "work" \/ Charged'[r] = Charged[r]
  <2>1. Admitted' \subseteq Admitted
    BY <1>1, <1>2 DEF Admitted
  <2>2. Spent' <= Spent /\ Spent' \in Int
    <3>1. agent[a].step # "work" => Charged'[r] = Charged[r]
      BY <1>1, <1>2, <1>7 DEF Charged, Runs
    <3>2. RunBudget \in Nat
      BY GovernanceAssumption DEF GovernanceAssumption
    <3> QED
      BY <1>3, <1>4, <1>6, <3>1, <3>2
  <2> QED
    BY <2>1, <2>2, BudgetSame
<1> QED
  BY <1>5, <1>6

LEMMA BudgetRead ==
  ASSUME RunsInv, RunsInv', BudgetKept, UNCHANGED run,
         \/ \E a \in Agents : ReadBudget(a) \/ ModelFails(a) \/ AgentDies(a)
         \/ Deploy
  PROVE  BudgetKept'
<1>1. Spent' = Spent /\ Spent \in Nat
  BY SpentIs DEF Spent, Charged, Runs, RunsInv
<1>2. agent \in [Agents -> Work]
  BY DEF RunsInv, RunsTyped
<1>3. CASE Admitted' \subseteq Admitted
  BY <1>1, <1>3, BudgetSame
<1>4. CASE WithinBudget(Spent)
  <2>1. Cardinality(Admitted') \in Nat /\ Cardinality(Agents) \in Nat
        /\ Cardinality(Admitted') <= Cardinality(Agents)
    <3>1. Admitted' \in SUBSET Agents
      BY DEF Admitted
    <3> QED
      BY <3>1, AdmittedCounted
  <2> DEFINE m == Cardinality(Admitted')
             n == Cardinality(Agents)
  <2>2. m \in Nat /\ n \in Nat /\ m <= n /\ RunBudget \in Nat
    BY <2>1, GovernanceAssumption DEF GovernanceAssumption
  <2> HIDE DEF m, n
  <2>3. RunBudget * m <= n * RunBudget /\ RunBudget * m \in Nat /\ n * RunBudget \in Nat
    <3>1. RunBudget * m <= RunBudget * n /\ n * RunBudget = RunBudget * n
          /\ RunBudget * n \in Nat /\ RunBudget * m \in Nat
      BY <2>2, BudgetTimes
    <3> QED
      BY <3>1
  <2>4. PeriodBudget > 0 => Spent' + RunBudget * m <= PeriodBudget - 1 + n * RunBudget
    BY <1>1, <1>4, <2>3, GovernanceAssumption DEF WithinBudget, GovernanceAssumption
  <2> QED
    BY <2>4 DEF BudgetKept, m, n
<1>5. Admitted' \subseteq Admitted \/ WithinBudget(Spent)
  BY <1>2 DEF ReadBudget, ModelFails, AgentDies, Deploy, Works, Rests, NoWork, Admitted
<1> QED
  BY <1>3, <1>4, <1>5

LEMMA BudgetPeriod ==
  ASSUME RunsInv, RunsInv', BudgetKept, NEW r \in Runs, PeriodPasses(r)
  PROVE  BudgetKept'
<1>1. /\ \A s \in Runs \ {r} : run'[s] = run[s]
      /\ Charged'[r] = 0 /\ Admitted' = Admitted
  BY DEF PeriodPasses, RunsInv, RunsTyped, RunRows, Charged, Runs, Admitted
<1>2. Spent' = Spent - Charged[r] + Charged'[r] /\ Spent \in Nat /\ Charged[r] \in 0..RunBudget
  BY <1>1, SpentMoves, SpentIs DEF RunsInv
<1>3. Spent' <= Spent /\ Spent' \in Int
  BY <1>1, <1>2, GovernanceAssumption DEF GovernanceAssumption
<1> QED
  BY <1>1, <1>3, BudgetSame

LEMMA BudgetRests == ASSUME BudgetKept, UNCHANGED runVars PROVE BudgetKept'
BY DEF BudgetKept, runVars, Spent, Charged, Runs, Admitted

LEMMA BudgetStarts == GovernanceInit /\ RunsInv => BudgetKept
<1> SUFFICES ASSUME GovernanceInit, RunsInv, PeriodBudget > 0
             PROVE  Spent + RunBudget * Cardinality(Admitted)
                      <= PeriodBudget - 1 + Cardinality(Agents) * RunBudget
  BY DEF BudgetKept
<1>1. \A r \in Runs : Charged[r] = 0
  BY DEF GovernanceInit, Charged, NoRun
<1>2. Spent = 0
  BY <1>1, SpentIs, SumZero DEF RunsInv
<1>3. Admitted = {}
  BY DEF GovernanceInit, Admitted, NoWork
<1>4. RunBudget * Cardinality(Admitted) = 0
  BY <1>3, FS_EmptySet, GovernanceAssumption DEF GovernanceAssumption
<1>5. Cardinality(Agents) * RunBudget \in Nat
  BY AdmittedCounted, BudgetTimes, GovernanceAssumption DEF GovernanceAssumption
<1> QED
  BY <1>2, <1>4, <1>5, GovernanceAssumption DEF GovernanceAssumption

(* Runs that were admitted together overspend by less than a run each       *)
(* (startRun, completeRun).                                                 *)
THEOREM SpendingSafe == GovernanceSpec => []SpendBounded
<1>1. GovernanceInit => GovernanceInv /\ BudgetKept
  BY GovernanceStarts, BudgetStarts DEF GovernanceInv
<1>2. GovernanceInv /\ BudgetKept /\ [GovernanceNext]_governanceVars
        => (GovernanceInv /\ BudgetKept)'
  <2> SUFFICES ASSUME GovernanceInv, BudgetKept, [GovernanceNext]_governanceVars
               PROVE  (GovernanceInv /\ BudgetKept)'
    OBVIOUS
  <2>1. GovernanceInv' /\ RunsInv /\ RunsInv'
    BY GovernanceStep DEF GovernanceInv
  <2>2. CASE UNCHANGED runVars
    BY <2>1, <2>2, BudgetRests
  <2>3. ASSUME NEW a \in Agents, CreateRun(a) \/ FailRun(a) \/ \E c \in Costs : CompleteRun(a, c)
        PROVE  BudgetKept'
    BY <2>1, <2>3, BudgetCreate, BudgetEnd
  <2>4. ASSUME \/ \E a \in Agents : ReadBudget(a) \/ ModelFails(a) \/ AgentDies(a)
               \/ Deploy
        PROVE  BudgetKept'
    <3>1. UNCHANGED run
      BY <2>4 DEF ReadBudget, ModelFails, AgentDies, Deploy
    <3> QED
      BY <2>1, <2>4, <3>1, BudgetRead
  <2>5. ASSUME NEW r \in Runs, PeriodPasses(r)
        PROVE  BudgetKept'
    BY <2>1, <2>5, BudgetPeriod
  <2>6. ASSUME \/ \E p \in Approvals, r \in Runs : RequestApproval(p, r)
               \/ \E p \in Approvals, v \in {"APPROVED", "REJECTED"} : ResolveApproval(p, v)
               \/ \E a \in Agents, p \in Approvals, r \in Runs : ReadApproval(a, p, r)
               \/ \E a \in Agents : RecordToolCall(a)
               \/ \E m \in Managers, t \in {"APPROVED", "REJECTED", "EXECUTED"} :
                    ReadDecision(m, t)
               \/ \E m \in Managers : WriteDecision(m)
               \/ UNCHANGED governanceVars
        PROVE  UNCHANGED runVars
    BY <2>6 DEF RequestApproval, ResolveApproval, ReadApproval, RecordToolCall,
       ReadDecision, WriteDecision, governanceVars, runVars
  <2> QED
    BY <2>1, <2>2, <2>3, <2>4, <2>5, <2>6 DEF GovernanceNext
<1>3. GovernanceInv /\ BudgetKept => SpendBounded
  <2> SUFFICES ASSUME GovernanceInv, BudgetKept, PeriodBudget > 0
               PROVE  Spent <= (PeriodBudget - 1) + Cardinality(Agents) * RunBudget
    BY DEF SpendBounded
  <2>1. RunBudget * Cardinality(Admitted) \in Nat /\ Cardinality(Agents) * RunBudget \in Nat
    BY AdmittedCounted, FS_CardinalityType, BudgetTimes, GovernanceAssumption
    DEF GovernanceAssumption
  <2>2. Spent \in Nat
    BY SpentIs DEF GovernanceInv, RunsInv
  <2> QED
    BY <2>1, <2>2, GovernanceAssumption DEF BudgetKept, GovernanceAssumption
<1> QED
  BY <1>1, <1>2, <1>3, PTL DEF GovernanceSpec

-----------------------------------------------------------------------------
(* The copies of the catalogue. *)

Whole == Amounts \cup {0}
Held == {{}} \cup {{i} : i \in Items}
Images == {{}} \cup {{x} : x \in Items \cup {Elsewhere}}
Copies == {"pricing", "stock", "cover"}

Products == [price : Amounts, cost : Whole, margin : Amounts \X Whole, stock : Nat,
             cover : Images]
EditSteps == Unread \cup {"update", "current", "snapshot", "store", "clear", "choose",
                          "attach", "mark", "show", "detach", "check", "remaining"}
Edits == [step : EditSteps, item : Held, price : Whole, cost : Whole, want : Nat,
          margin : SUBSET (Amounts \X Whole), primary : BOOLEAN, cover : Images,
          clean : BOOLEAN]

(* What a call of each step has, whatever the others wrote meanwhile.       *)
Suits(e) ==
  /\ e.step \in {"uncost", "recalculate", "current", "snapshot"} => "pricing" \in area
  /\ e.step \in {"vary", "unvary", "list", "store"} => "stock" \in area
  /\ e.step \in {"clear", "choose", "attach", "mark", "show", "detach", "check", "remaining"}
       => "cover" \in area
  /\ e.step \in {"update", "vary"} => e.want \in Amounts
  /\ e.step \in {"current", "snapshot"} => e.price \in Amounts
  /\ e.step \in {"clear", "attach", "choose", "mark"} => e.item # {}
  /\ e.step = "clear" => e.primary
  /\ e.step \in {"detach", "check", "remaining"} => ~e.primary

EditsSuit == edit \in [Editors -> Edits] /\ \A m \in Editors : Suits(edit[m])
CatalogueTyped ==
  /\ area \in Areas
  /\ product \in Products
  /\ costRow \in [Items -> [is : BOOLEAN, total : Whole, from : Whole]]
  /\ variant \in [Items -> [is : BOOLEAN, stock : Nat, active : BOOLEAN]]
  /\ medium \in [Items -> [is : BOOLEAN, primary : BOOLEAN]]
  /\ \A i \in Items : /\ ~variant[i].is => variant[i] = NoVariant
                      /\ ~medium[i].is => medium[i] = NoMedium
  /\ blurred \subseteq Copies /\ typed \subseteq Copies
  /\ EditsSuit

(* Cost and margin: in step, or about to be; a clean call knows the price,  *)
(* the cost it found and what an update of the price writes.                *)
PriceGood == product.cost \in Current /\ product.margin = <<product.price, product.cost>>
Recalculates(e) == e.step \in {"recalculate", "current", "snapshot"}
PriceKnown(e) ==
  e.clean =>
    /\ e.step \in {"current", "snapshot"} => e.price = product.price
    /\ e.step = "snapshot" => e.cost \in Current
    /\ e.step = "update" => e.margin = Repriced(e.want)
PricingHeld ==
  /\ "pricing" \notin blurred \cup typed =>
       PriceGood \/ \E m \in Editors : Recalculates(edit[m])
  /\ \A m \in Editors : PriceKnown(edit[m])

(* The stock, and a clean call that has summed it.                          *)
StockGood == Stored(variant) # {} => product.stock = Total
SumsStock(e) == e.step \in {"list", "store"}
StockKnown(e) == e.clean /\ e.step = "store" => e.want = Total
StockHeld ==
  /\ "stock" \notin blurred \cup typed =>
       StockGood \/ \E m \in Editors : SumsStock(edit[m])
  /\ \A m \in Editors : StockKnown(edit[m])

(* The image: one primary medium at most, and the product shows it or is    *)
(* about to; a clean call knows the image it read, that no medium is marked *)
(* while it sets a new one, and that it shows the one that is.              *)
Primary == {i \in Items : medium[i].primary}
AtMostOne == \A i, j \in Primary : i = j
Showing(cover) == AtMostOne /\ ("cover" \notin typed => \A i \in Primary : cover = {i})
CoverKnown(m) ==
  edit[m].clean =>
    /\ edit[m].step \in {"attach", "mark"} /\ (edit[m].primary \/ edit[m].step = "mark")
         => Primary = {}
    /\ edit[m].step = "attach" /\ ~edit[m].primary => edit[m].cover = product.cover
    /\ edit[m].step = "show" /\ edit[m].primary => \A i \in Primary : edit[m].item = {i}
    /\ edit[m].step = "show" /\ ~edit[m].primary =>
         \/ "cover" \in blurred \/ Showing(edit[m].item)
         \/ \E n \in Editors \ {m} : edit[n].step = "show"
CoverHeld ==
  /\ "cover" \notin blurred =>
       Showing(product.cover) \/ \E m \in Editors : edit[m].step = "show"
  /\ \A m \in Editors : CoverKnown(m)

CatalogueInv == CatalogueTyped /\ PricingHeld /\ StockHeld /\ CoverHeld

-----------------------------------------------------------------------------
(* Turns of the calls.  A call that is behind is that call, and holds nothing *)
(* that a copy depends on.                                                   *)
Turns(m, e) == Reads(m, e) \/ Writes(m, e)
Aware(e) == e.clean /\ e.step \notin Unread

LEMMA BehindTyped ==
  ASSUME NEW e \in Edits
  PROVE  /\ Behind(e) \in Edits /\ Behind(e).step = e.step /\ ~Aware(Behind(e))
         /\ Behind(e).item = e.item /\ Behind(e).want = e.want
         /\ Behind(e).price = e.price /\ Behind(e).primary = e.primary
BY DEF Behind, Edits, Aware

LEMMA BehindSuits ==
  ASSUME NEW e \in Edits, Suits(e)
  PROVE  Suits(Behind(e))
BY BehindTyped DEF Suits

(* A turn of one call leaves the others at their step.                      *)
LEMMA TurnKeeps ==
  ASSUME CatalogueTyped, NEW m \in Editors, NEW e, Turns(m, e)
  PROVE  /\ edit'[m] = e
         /\ \A n \in Editors \ {m} :
              /\ edit'[n].step = edit[n].step
              /\ edit'[n] = edit[n] \/ ~Aware(edit'[n])
<1>1. edit \in [Editors -> Edits]
  BY DEF CatalogueTyped, EditsSuit
<1>2. CASE Reads(m, e)
  BY <1>1, <1>2 DEF Reads
<1>3. CASE Writes(m, e)
  <2>1. \A n \in Editors : edit'[n] = IF n = m THEN e ELSE Behind(edit[n])
    BY <1>3 DEF Writes
  <2> QED
    BY <1>1, <2>1, BehindTyped
<1> QED
  BY <1>2, <1>3 DEF Turns

LEMMA TurnSuits ==
  ASSUME CatalogueTyped, NEW m \in Editors, NEW e \in Edits, Turns(m, e), Suits(e),
         area' = area
  PROVE  EditsSuit'
<1>1. edit \in [Editors -> Edits] /\ \A n \in Editors : Suits(edit[n])
  BY DEF CatalogueTyped, EditsSuit
<1>2. edit' = [n \in Editors |-> edit'[n]]
  BY <1>1 DEF Turns, Reads, Writes
<1>3. ASSUME NEW n \in Editors PROVE edit'[n] \in {e, edit[n], Behind(edit[n])}
  BY <1>1 DEF Turns, Reads, Writes
<1>4. ASSUME NEW n \in Editors PROVE edit'[n] \in Edits /\ Suits(edit[n])'
  <2>1. edit[n] \in Edits /\ Behind(edit[n]) \in Edits /\ Suits(edit[n])
    BY <1>1, BehindTyped
  <2>2. Suits(Behind(edit[n]))
    BY <2>1, BehindSuits
  <2>3. \/ Suits(edit[n])' <=> Suits(e)
        \/ Suits(edit[n])' <=> Suits(edit[n])
        \/ Suits(edit[n])' <=> Suits(Behind(edit[n]))
    BY <1>3 DEF Suits
  <2> QED
    BY <1>3, <2>1, <2>2, <2>3
<1> QED
  BY <1>2, <1>4 DEF EditsSuit

LEMMA WriteBlinds ==
  ASSUME CatalogueTyped, NEW m \in Editors, NEW e, Writes(m, e)
  PROVE  \A n \in Editors \ {m} : ~Aware(edit'[n])
<1>1. edit \in [Editors -> Edits]
  BY DEF CatalogueTyped, EditsSuit
<1>2. \A n \in Editors : edit'[n] = IF n = m THEN e ELSE Behind(edit[n])
  BY DEF Writes
<1> QED
  BY <1>1, <1>2, BehindTyped

(* What the other calls know of a copy still holds: their call wrote, or    *)
(* the rows of the copy are what they were.                                 *)
LEMMA PriceOthers ==
  ASSUME CatalogueTyped, PricingHeld, NEW m \in Editors, NEW e, Turns(m, e),
         \/ Writes(m, e)
         \/ /\ product'.price = product.price /\ product'.cost = product.cost
            /\ costRow' = costRow
  PROVE  \A n \in Editors \ {m} : PriceKnown(edit[n])'
<1> SUFFICES ASSUME NEW n \in Editors \ {m} PROVE PriceKnown(edit[n])'
  OBVIOUS
<1>1. CASE ~Aware(edit'[n])
  BY <1>1 DEF PriceKnown, Aware, Unread
<1>2. CASE Aware(edit'[n])
  <2>1. edit'[n] = edit[n] /\ ~Writes(m, e)
    BY <1>2, TurnKeeps, WriteBlinds
  <2>2. Current' = Current
    BY <2>1 DEF Current, Stored, Latest
  <2>3. PriceKnown(edit[n])
    BY DEF PricingHeld
  <2> QED
    BY <2>1, <2>2, <2>3 DEF PriceKnown, Repriced
<1> QED
  BY <1>1, <1>2

LEMMA StockOthers ==
  ASSUME CatalogueTyped, StockHeld, NEW m \in Editors, NEW e, Turns(m, e),
         Writes(m, e) \/ variant' = variant
  PROVE  \A n \in Editors \ {m} : StockKnown(edit[n])'
<1> SUFFICES ASSUME NEW n \in Editors \ {m} PROVE StockKnown(edit[n])'
  OBVIOUS
<1>1. CASE ~Aware(edit'[n])
  BY <1>1 DEF StockKnown, Aware, Unread
<1>2. CASE Aware(edit'[n])
  <2>1. edit'[n] = edit[n] /\ ~Writes(m, e)
    BY <1>2, TurnKeeps, WriteBlinds
  <2>2. Total' = Total
    BY <2>1 DEF Total, Stored, Stocks
  <2>3. StockKnown(edit[n])
    BY DEF StockHeld
  <2> QED
    BY <2>1, <2>2, <2>3 DEF StockKnown
<1> QED
  BY <1>1, <1>2

LEMMA CoverOthers ==
  ASSUME CatalogueTyped, CoverHeld, NEW m \in Editors, NEW e, Turns(m, e),
         \/ Writes(m, e)
         \/ /\ product'.cover = product.cover /\ medium' = medium
            /\ "cover" \in typed' <=> "cover" \in typed
            /\ "cover" \in blurred => "cover" \in blurred'
            /\ edit[m].step = "show" => "cover" \in blurred'
  PROVE  \A n \in Editors \ {m} : CoverKnown(n)'
<1> SUFFICES ASSUME NEW n \in Editors \ {m} PROVE CoverKnown(n)'
  OBVIOUS
<1>1. CASE ~Aware(edit'[n])
  BY <1>1 DEF CoverKnown, Aware, Unread
<1>2. CASE Aware(edit'[n])
  <2>1. edit'[n] = edit[n] /\ ~Writes(m, e)
    BY <1>2, TurnKeeps, WriteBlinds
  <2>2. Primary' = Primary /\ (AtMostOne' <=> AtMostOne)
    BY <2>1 DEF Primary, AtMostOne
  <2>3. Showing(edit[n].item)' <=> Showing(edit[n].item)
    BY <2>1, <2>2 DEF Showing
  <2>4. ASSUME NEW k \in Editors \ {n}, edit[k].step = "show"
        PROVE  "cover" \in blurred' \/ edit'[k].step = "show"
    BY <2>1, <2>4, TurnKeeps
  <2>5. CoverKnown(n)
    BY DEF CoverHeld
  <2> QED
    BY <2>1, <2>2, <2>3, <2>4, <2>5 DEF CoverKnown
<1> QED
  BY <1>1, <1>2

(* A turn that touches no row of a copy, of a call that is not at work on   *)
(* the copy, leaves what is held of it.                                     *)
LEMMA PricingCalm ==
  ASSUME CatalogueTyped, PricingHeld, NEW m \in Editors, NEW e, Turns(m, e),
         product'.price = product.price, product'.cost = product.cost,
         product'.margin = product.margin, costRow' = costRow,
         "pricing" \in blurred \cup typed => "pricing" \in blurred' \cup typed',
         ~Recalculates(edit[m]), e.step \notin {"current", "snapshot", "update"}
  PROVE  PricingHeld'
<1>1. Current' = Current /\ (PriceGood' <=> PriceGood)
  BY DEF Current, PriceGood, Stored, Latest
<1>2. \A n \in Editors : PriceKnown(edit[n])'
  BY PriceOthers, TurnKeeps DEF PriceKnown
<1>3. ASSUME NEW n \in Editors, Recalculates(edit[n]) PROVE Recalculates(edit[n])'
  BY <1>3, TurnKeeps DEF Recalculates
<1> QED
  BY <1>1, <1>2, <1>3 DEF PricingHeld

LEMMA StockCalm ==
  ASSUME CatalogueTyped, StockHeld, NEW m \in Editors, NEW e, Turns(m, e),
         product'.stock = product.stock, variant' = variant,
         "stock" \in blurred \cup typed => "stock" \in blurred' \cup typed',
         ~SumsStock(edit[m]), e.step # "store"
  PROVE  StockHeld'
<1>1. Total' = Total /\ (StockGood' <=> StockGood)
  BY DEF Total, StockGood, Stored, Stocks
<1>2. \A n \in Editors : StockKnown(edit[n])'
  BY StockOthers, TurnKeeps DEF StockKnown
<1>3. ASSUME NEW n \in Editors, SumsStock(edit[n]) PROVE SumsStock(edit[n])'
  BY <1>3, TurnKeeps DEF SumsStock
<1> QED
  BY <1>1, <1>2, <1>3 DEF StockHeld

LEMMA CoverCalm ==
  ASSUME CatalogueTyped, CoverHeld, NEW m \in Editors, NEW e, Turns(m, e),
         product'.cover = product.cover, medium' = medium,
         "cover" \in blurred' <=> "cover" \in blurred,
         "cover" \in typed' <=> "cover" \in typed,
         edit[m].step # "show", e.step \notin {"attach", "mark", "show"}
  PROVE  CoverHeld'
<1>1. Primary' = Primary /\ (AtMostOne' <=> AtMostOne)
  BY DEF Primary, AtMostOne
<1>2. Showing(product.cover)' <=> Showing(product.cover)
  BY <1>1 DEF Showing
<1>3. ASSUME NEW n \in Editors, edit[n].step = "show" PROVE edit'[n].step = "show"
  BY <1>3, TurnKeeps
<1>4. \A n \in Editors : CoverKnown(n)'
  BY CoverOthers, TurnKeeps DEF CoverKnown
<1> QED
  BY <1>2, <1>3, <1>4 DEF CoverHeld

(* Nothing in progress.                                                      *)
LEMMA NoEditSuits == NoEdit \in Edits /\ Suits(NoEdit)
BY CatalogueAssumption
   DEF CatalogueAssumption, NoEdit, Edits, EditSteps, Unread, Held, Whole, Images, Suits

-----------------------------------------------------------------------------
(* Every step keeps the invariant: pricing.                                  *)
LEMMA ReadForUpdateHolds ==
  ASSUME CatalogueInv, NEW m \in Editors, NEW p \in Amounts,
         ReadForUpdate(m, p)
  PROVE  CatalogueInv'
<1> DEFINE e == [NoEdit EXCEPT !.step = "update", !.want = p, !.margin = Repriced(p)]
<1>1. CatalogueTyped /\ PricingHeld /\ StockHeld /\ CoverHeld
  BY DEF CatalogueInv
<1>2. edit[m].step = "idle" /\ Turns(m, e)
      /\ UNCHANGED <<area, product, costRow, variant, medium, blurred, typed>>
  BY DEF ReadForUpdate, Starts, Turns, Reads
<1>3. product.cost \in Whole
  BY <1>1 DEF CatalogueTyped, Products
<1>4. e \in Edits /\ e.step = "update" /\ e.want = p /\ e.margin = Repriced(p)
  <2>1. Repriced(p) \in SUBSET (Amounts \X Whole) /\ p \in Nat
    BY <1>3, CatalogueAssumption DEF CatalogueAssumption, Repriced
  <2> QED
    BY <2>1, NoEditSuits DEF Edits, EditSteps
<1> HIDE DEF e
<1>5. Suits(e)
  BY <1>4 DEF Suits
<1>6. CatalogueTyped'
  BY <1>1, <1>2, <1>4, <1>5, TurnSuits DEF CatalogueTyped
<1>7. PricingHeld'
  <2>1. \A n \in Editors \ {m} : PriceKnown(edit[n])'
    BY <1>1, <1>2, PriceOthers
  <2>2. PriceKnown(edit[m])'
    BY <1>1, <1>2, <1>4, TurnKeeps DEF PriceKnown, Repriced
  <2>3. ASSUME NEW n \in Editors, Recalculates(edit[n]) PROVE Recalculates(edit[n])'
    BY <1>1, <1>2, <2>3, TurnKeeps DEF Recalculates
  <2> QED
    BY <1>1, <1>2, <2>1, <2>2, <2>3 DEF PricingHeld, PriceGood, Current, Latest, Stored
<1>8. StockHeld'
  BY <1>1, <1>2, <1>4, StockCalm DEF SumsStock
<1>9. CoverHeld'
  BY <1>1, <1>2, <1>4, CoverCalm
<1> QED
  BY <1>6, <1>7, <1>8, <1>9 DEF CatalogueInv

LEMMA UpdatePriceHolds ==
  ASSUME CatalogueInv, NEW m \in Editors, UpdatePrice(m)
  PROVE  CatalogueInv'
<1>1. CatalogueTyped /\ PricingHeld /\ StockHeld /\ CoverHeld
  BY DEF CatalogueInv
<1>2. edit[m].step = "update" /\ Turns(m, NoEdit) /\ Writes(m, NoEdit)
      /\ UNCHANGED <<area, costRow, variant, medium, typed>>
  BY DEF UpdatePrice, Turns
<1>3. blurred' = IF edit[m].clean THEN blurred ELSE blurred \cup {"pricing"}
  BY DEF UpdatePrice
<1>4. PICK margin \in IF edit[m].margin = {} THEN {product.margin} ELSE edit[m].margin :
        product' = [product EXCEPT !.price = edit[m].want, !.margin = margin]
  BY DEF UpdatePrice
<1>5. edit[m] \in Edits /\ edit[m].want \in Amounts /\ product \in Products
  BY <1>1, <1>2 DEF CatalogueTyped, EditsSuit, Suits
<1>6. margin \in Amounts \X Whole
  BY <1>4, <1>5 DEF Edits, Products
<1>7. /\ product'.price = edit[m].want /\ product'.margin = margin
      /\ product'.cost = product.cost /\ product'.stock = product.stock
      /\ product'.cover = product.cover /\ product' \in Products
  BY <1>4, <1>5, <1>6 DEF Products
<1>8. CatalogueTyped'
  BY <1>1, <1>2, <1>3, <1>7, NoEditSuits, TurnSuits DEF CatalogueTyped, Copies
<1>9. PricingHeld'
  <2>1. \A n \in Editors : PriceKnown(edit[n])'
    BY <1>1, <1>2, PriceOthers, TurnKeeps DEF PriceKnown, NoEdit
  <2>2. ASSUME NEW n \in Editors, Recalculates(edit[n]) PROVE Recalculates(edit[n])'
    BY <1>1, <1>2, <2>2, TurnKeeps DEF Recalculates
  <2>3. ASSUME edit[m].clean, PriceGood PROVE PriceGood'
    <3>1. edit[m].margin = Repriced(edit[m].want)
      BY <1>1, <1>2, <2>3 DEF PricingHeld, PriceKnown
    <3>2. margin = <<edit[m].want, product.cost>>
      BY <1>4, <2>3, <3>1 DEF Repriced, PriceGood
    <3> QED
      BY <1>2, <1>7, <2>3, <3>2 DEF PriceGood, Current, Latest, Stored
  <2> QED
    BY <1>1, <1>2, <1>3, <2>1, <2>2, <2>3 DEF PricingHeld
<1>10. StockHeld'
  BY <1>1, <1>2, <1>3, <1>7, StockCalm DEF SumsStock, NoEdit
<1>11. CoverHeld'
  BY <1>1, <1>2, <1>3, <1>7, CoverCalm DEF NoEdit
<1> QED
  BY <1>8, <1>9, <1>10, <1>11 DEF CatalogueInv

LEMMA AddCostHolds ==
  ASSUME CatalogueInv, NEW m \in Editors, NEW i \in Items,
         NEW t \in Amounts, NEW f \in Amounts, AddCost(m, i, t, f)
  PROVE  CatalogueInv'
<1> DEFINE e == [NoEdit EXCEPT !.step = "recalculate"]
<1>1. CatalogueTyped /\ PricingHeld /\ StockHeld /\ CoverHeld
  BY DEF CatalogueInv
<1>2. edit[m].step = "idle" /\ Turns(m, e) /\ Writes(m, e) /\ "pricing" \in area
      /\ UNCHANGED <<area, product, variant, medium, blurred, typed>>
  BY DEF AddCost, Turns
<1>3. e \in Edits /\ e.step = "recalculate"
  BY NoEditSuits DEF NoEdit, Edits, EditSteps, Unread
<1>4. costRow' \in [Items -> [is : BOOLEAN, total : Whole, from : Whole]]
  BY <1>1 DEF AddCost, CatalogueTyped, Whole
<1> HIDE DEF e
<1>5. Suits(e)
  BY <1>2, <1>3 DEF Suits
<1>6. CatalogueTyped'
  BY <1>1, <1>2, <1>3, <1>4, <1>5, TurnSuits DEF CatalogueTyped
<1>7. PricingHeld'
  BY <1>1, <1>2, <1>3, PriceOthers, TurnKeeps DEF PricingHeld, PriceKnown, Recalculates
<1>8. StockHeld'
  BY <1>1, <1>2, <1>3, StockCalm DEF SumsStock
<1>9. CoverHeld'
  BY <1>1, <1>2, <1>3, CoverCalm
<1> QED
  BY <1>6, <1>7, <1>8, <1>9 DEF CatalogueInv

LEMMA DeleteCostHolds ==
  ASSUME CatalogueInv, NEW m \in Editors, DeleteCost(m)
  PROVE  CatalogueInv'
<1> DEFINE e == [NoEdit EXCEPT !.step = "recalculate"]
<1>1. CatalogueTyped /\ PricingHeld /\ StockHeld /\ CoverHeld
  BY DEF CatalogueInv
<1>2. edit[m].step = "uncost" /\ Turns(m, e) /\ Writes(m, e)
      /\ UNCHANGED <<area, product, variant, medium, blurred, typed>>
  BY DEF DeleteCost, Turns
<1>3. e \in Edits /\ e.step = "recalculate"
  BY NoEditSuits DEF NoEdit, Edits, EditSteps, Unread
<1>4. costRow' \in [Items -> [is : BOOLEAN, total : Whole, from : Whole]]
  BY <1>1 DEF DeleteCost, CatalogueTyped, Whole, NoCost
<1> HIDE DEF e
<1>5. Suits(e)
  BY <1>1, <1>2, <1>3 DEF Suits, CatalogueTyped, EditsSuit
<1>6. CatalogueTyped'
  BY <1>1, <1>2, <1>3, <1>4, <1>5, TurnSuits DEF CatalogueTyped
<1>7. PricingHeld'
  BY <1>1, <1>2, <1>3, PriceOthers, TurnKeeps DEF PricingHeld, PriceKnown, Recalculates
<1>8. StockHeld'
  BY <1>1, <1>2, <1>3, StockCalm DEF SumsStock
<1>9. CoverHeld'
  BY <1>1, <1>2, <1>3, CoverCalm
<1> QED
  BY <1>6, <1>7, <1>8, <1>9 DEF CatalogueInv

(* A call that starts by looking for its row.                                *)
LEMMA FindHolds ==
  ASSUME CatalogueInv, NEW m \in Editors, NEW i \in Items,
         NEW s \in {"uncost", "vary", "unvary", "choose", "detach"}, NEW w \in Amounts \cup {0},
         s = "uncost" => "pricing" \in area,
         s \in {"vary", "unvary"} => "stock" \in area,
         s \in {"choose", "detach"} => "cover" \in area,
         s = "vary" => w \in Amounts,
         edit[m].step = "idle",
         Reads(m, [NoEdit EXCEPT !.step = s, !.item = {i}, !.want = w]),
         UNCHANGED <<area, product, costRow, variant, medium, blurred, typed>>
  PROVE  CatalogueInv'
<1> DEFINE e == [NoEdit EXCEPT !.step = s, !.item = {i}, !.want = w]
<1>1. CatalogueTyped /\ PricingHeld /\ StockHeld /\ CoverHeld
  BY DEF CatalogueInv
<1>2. Turns(m, e)
  BY DEF Turns
<1>3. e \in Edits /\ e.step = s /\ e.item = {i} /\ e.want = w /\ e.primary = FALSE
  <2>1. w \in Nat /\ {i} \in Held /\ s \in EditSteps
    BY CatalogueAssumption DEF CatalogueAssumption, Held, EditSteps, Unread
  <2>2. NoEdit.primary = FALSE
    BY DEF NoEdit
  <2> QED
    BY <2>1, <2>2, NoEditSuits DEF Edits
<1> HIDE DEF e
<1>4. Suits(e)
  BY <1>3 DEF Suits
<1>5. CatalogueTyped'
  BY <1>1, <1>2, <1>3, <1>4, TurnSuits DEF CatalogueTyped
<1>6. PricingHeld'
  BY <1>1, <1>2, <1>3, PricingCalm DEF Recalculates
<1>7. StockHeld'
  BY <1>1, <1>2, <1>3, StockCalm DEF SumsStock
<1>8. CoverHeld'
  BY <1>1, <1>2, <1>3, CoverCalm
<1> QED
  BY <1>5, <1>6, <1>7, <1>8 DEF CatalogueInv

LEMMA FindCostHolds ==
  ASSUME CatalogueInv, NEW m \in Editors, NEW i \in Items, FindCost(m, i)
  PROVE  CatalogueInv'
<1>1. [NoEdit EXCEPT !.step = "uncost", !.item = {i}]
        = [NoEdit EXCEPT !.step = "uncost", !.item = {i}, !.want = 0]
  <2> DEFINE a == [NoEdit EXCEPT !.step = "uncost", !.item = {i}]
  <2>1. a.want = 0 /\ a = [f \in DOMAIN a |-> a[f]]
    BY DEF NoEdit
  <2>2. [NoEdit EXCEPT !.step = "uncost", !.item = {i}, !.want = 0] = [a EXCEPT !.want = 0]
    OBVIOUS
  <2> HIDE DEF a
  <2>3. a = [a EXCEPT !.want = 0]
    BY <2>1
  <2> QED
    BY <2>2, <2>3 DEF a
<1> QED
  BY <1>1, FindHolds DEF FindCost, Starts, Reads

LEMMA ReadProductHolds ==
  ASSUME CatalogueInv, NEW m \in Editors, ReadProduct(m)
  PROVE  CatalogueInv'
<1> DEFINE e == [NoEdit EXCEPT !.step = "current", !.price = product.price]
<1>1. CatalogueTyped /\ PricingHeld /\ StockHeld /\ CoverHeld
  BY DEF CatalogueInv
<1>2. edit[m].step = "recalculate" /\ Turns(m, e)
      /\ UNCHANGED <<area, product, costRow, variant, medium, blurred, typed>>
  BY DEF ReadProduct, Turns
<1>3. product.price \in Amounts /\ Suits(edit[m])
  BY <1>1 DEF CatalogueTyped, Products, EditsSuit
<1>4. e \in Edits /\ e.step = "current" /\ e.price = product.price
  <2>1. product.price \in Whole
    BY <1>3 DEF Whole
  <2> QED
    BY <2>1, NoEditSuits DEF Edits, EditSteps
<1> HIDE DEF e
<1>5. Suits(e)
  BY <1>2, <1>3, <1>4 DEF Suits
<1>6. CatalogueTyped'
  BY <1>1, <1>2, <1>4, <1>5, TurnSuits DEF CatalogueTyped
<1>7. PricingHeld'
  BY <1>1, <1>2, <1>4, PriceOthers, TurnKeeps DEF PricingHeld, PriceKnown, Recalculates
<1>8. StockHeld'
  BY <1>1, <1>2, <1>4, StockCalm DEF SumsStock
<1>9. CoverHeld'
  BY <1>1, <1>2, <1>4, CoverCalm
<1> QED
  BY <1>6, <1>7, <1>8, <1>9 DEF CatalogueInv

LEMMA ReadCurrentHolds ==
  ASSUME CatalogueInv, NEW m \in Editors, ReadCurrent(m)
  PROVE  CatalogueInv'
<1>1. CatalogueTyped /\ PricingHeld /\ StockHeld /\ CoverHeld
  BY DEF CatalogueInv
<1>2. PICK total \in Current : Reads(m, [edit[m] EXCEPT !.step = "snapshot", !.cost = total])
  BY DEF ReadCurrent, FoundCost
<1> DEFINE e == [edit[m] EXCEPT !.step = "snapshot", !.cost = total]
<1>3. edit[m].step = "current" /\ Turns(m, e)
      /\ UNCHANGED <<area, product, costRow, variant, medium, blurred, typed>>
  BY <1>2 DEF ReadCurrent, Turns
<1>4. edit[m] \in Edits /\ Suits(edit[m])
  BY <1>1 DEF CatalogueTyped, EditsSuit
<1>5. total \in Whole
  BY <1>1, <1>2 DEF Current, Stored, CatalogueTyped, Whole
<1>6. e \in Edits /\ e.step = "snapshot" /\ e.price = edit[m].price /\ e.cost = total
      /\ e.clean = edit[m].clean
  BY <1>4, <1>5 DEF Edits, EditSteps
<1> HIDE DEF e
<1>7. Suits(e)
  BY <1>3, <1>4, <1>6 DEF Suits
<1>8. CatalogueTyped'
  BY <1>1, <1>3, <1>6, <1>7, TurnSuits DEF CatalogueTyped
<1>9. PricingHeld'
  <2>1. Current' = Current
    BY <1>3 DEF Current, Stored, Latest
  <2>2. PriceKnown(edit[m])'
    <3>1. edit'[m] = e /\ PriceKnown(edit[m])
      BY <1>1, <1>3, TurnKeeps DEF PricingHeld
    <3> QED
      BY <1>2, <1>3, <1>6, <2>1, <3>1 DEF PriceKnown
  <2>3. \A n \in Editors \ {m} : PriceKnown(edit[n])'
    BY <1>1, <1>3, PriceOthers
  <2>4. ASSUME NEW n \in Editors, Recalculates(edit[n]) PROVE Recalculates(edit[n])'
    BY <1>1, <1>3, <1>6, <2>4, TurnKeeps DEF Recalculates
  <2>5. PriceGood' <=> PriceGood
    BY <1>3, <2>1 DEF PriceGood
  <2> QED
    BY <1>1, <1>3, <2>2, <2>3, <2>4, <2>5 DEF PricingHeld
<1>10. StockHeld'
  BY <1>1, <1>3, <1>6, StockCalm DEF SumsStock
<1>11. CoverHeld'
  BY <1>1, <1>3, <1>6, CoverCalm
<1> QED
  BY <1>8, <1>9, <1>10, <1>11 DEF CatalogueInv

LEMMA SaveSnapshotHolds ==
  ASSUME CatalogueInv, NEW m \in Editors, SaveSnapshot(m)
  PROVE  CatalogueInv'
<1>1. CatalogueTyped /\ PricingHeld /\ StockHeld /\ CoverHeld
  BY DEF CatalogueInv
<1>2. edit[m].step = "snapshot" /\ Turns(m, NoEdit) /\ Writes(m, NoEdit)
      /\ UNCHANGED <<area, costRow, variant, medium>>
  BY DEF SaveSnapshot, Turns
<1>3. /\ blurred' = IF edit[m].clean THEN blurred \ {"pricing"} ELSE blurred \cup {"pricing"}
      /\ typed' = typed \ {"pricing"}
  BY DEF SaveSnapshot, Refreshes
<1>4. edit[m] \in Edits /\ edit[m].price \in Amounts /\ product \in Products
  BY <1>1, <1>2 DEF CatalogueTyped, EditsSuit, Suits
<1>5. edit[m].cost \in Whole /\ <<edit[m].price, edit[m].cost>> \in Amounts \X Whole
  BY <1>4 DEF Edits
<1>6. product' = [product EXCEPT !.cost = edit[m].cost,
                                 !.margin = <<edit[m].price, edit[m].cost>>]
  BY DEF SaveSnapshot
<1>7. /\ product'.price = product.price /\ product'.cost = edit[m].cost
      /\ product'.margin = <<edit[m].price, edit[m].cost>>
      /\ product'.stock = product.stock /\ product'.cover = product.cover
      /\ product' \in Products
  BY <1>4, <1>5, <1>6 DEF Products
<1>8. CatalogueTyped'
  BY <1>1, <1>2, <1>3, <1>7, NoEditSuits, TurnSuits DEF CatalogueTyped, Copies
<1>9. PricingHeld'
  <2>1. \A n \in Editors : PriceKnown(edit[n])'
    BY <1>1, <1>2, PriceOthers, TurnKeeps DEF PriceKnown, NoEdit
  <2>2. ASSUME edit[m].clean PROVE PriceGood'
    <3>1. edit[m].price = product.price /\ edit[m].cost \in Current
      BY <1>1, <1>2, <2>2 DEF PricingHeld, PriceKnown
    <3>2. Current' = Current
      BY <1>2 DEF Current, Stored, Latest
    <3> QED
      BY <1>7, <3>1, <3>2 DEF PriceGood
  <2> QED
    BY <1>3, <2>1, <2>2 DEF PricingHeld
<1>10. StockHeld'
  BY <1>1, <1>2, <1>3, <1>7, StockCalm DEF SumsStock, NoEdit
<1>11. CoverHeld'
  BY <1>1, <1>2, <1>3, <1>7, CoverCalm DEF NoEdit
<1> QED
  BY <1>8, <1>9, <1>10, <1>11 DEF CatalogueInv

-----------------------------------------------------------------------------
(* Every step keeps the invariant: stock.                                    *)
Variants == [Items -> [is : BOOLEAN, stock : Nat, active : BOOLEAN]]

(* A write of the variants that leaves the call to sum them.                 *)
LEMMA VariantsHold ==
  ASSUME CatalogueInv, NEW m \in Editors, "stock" \in area,
         edit[m].step \in {"idle", "vary", "unvary"},
         Writes(m, [NoEdit EXCEPT !.step = "list"]),
         variant' \in Variants, \A i \in Items : ~variant'[i].is => variant'[i] = NoVariant,
         UNCHANGED <<area, product, costRow, medium, blurred, typed>>
  PROVE  CatalogueInv'
<1> DEFINE e == [NoEdit EXCEPT !.step = "list"]
<1>1. CatalogueTyped /\ PricingHeld /\ StockHeld /\ CoverHeld
  BY DEF CatalogueInv
<1>2. Turns(m, e) /\ Writes(m, e)
  BY DEF Turns
<1>3. e \in Edits /\ e.step = "list"
  BY NoEditSuits DEF NoEdit, Edits, EditSteps, Unread
<1> HIDE DEF e
<1>4. Suits(e)
  BY <1>3 DEF Suits
<1>5. CatalogueTyped'
  BY <1>1, <1>2, <1>3, <1>4, TurnSuits DEF CatalogueTyped, Variants
<1>6. PricingHeld'
  BY <1>1, <1>2, <1>3, PricingCalm DEF Recalculates
<1>7. StockHeld'
  BY <1>1, <1>2, <1>3, StockOthers, TurnKeeps DEF StockHeld, StockKnown, SumsStock
<1>8. CoverHeld'
  BY <1>1, <1>2, <1>3, CoverCalm
<1> QED
  BY <1>5, <1>6, <1>7, <1>8 DEF CatalogueInv

LEMMA VariantsTyped ==
  ASSUME CatalogueInv
  PROVE  variant \in Variants /\ \A i \in Items : ~variant[i].is => variant[i] = NoVariant
BY DEF CatalogueInv, CatalogueTyped, Variants

LEMMA AddVariantHolds ==
  ASSUME CatalogueInv, NEW m \in Editors, NEW i \in Items, NEW s \in Amounts,
         NEW a \in BOOLEAN, AddVariant(m, i, s, a)
  PROVE  CatalogueInv'
<1>1. variant' \in Variants
  BY VariantsTyped, CatalogueAssumption DEF AddVariant, Variants, CatalogueAssumption
<1>2. \A j \in Items : ~variant'[j].is => variant'[j] = NoVariant
  BY VariantsTyped DEF AddVariant, Variants
<1> QED
  BY <1>1, <1>2, VariantsHold DEF AddVariant

LEMMA FindVariantHolds ==
  ASSUME CatalogueInv, NEW m \in Editors, NEW i \in Items, NEW s \in {"vary", "unvary"},
         NEW w \in Amounts \cup {0}, s = "vary" => w \in Amounts, FindVariant(m, i, s, w)
  PROVE  CatalogueInv'
BY FindHolds DEF FindVariant, Starts, Reads

LEMMA UpdateVariantHolds ==
  ASSUME CatalogueInv, NEW m \in Editors, NEW a \in BOOLEAN, UpdateVariant(m, a)
  PROVE  CatalogueInv'
<1>1. CatalogueTyped /\ PricingHeld /\ StockHeld /\ CoverHeld
  BY DEF CatalogueInv
<1>2. edit[m].step = "vary" /\ UNCHANGED <<area, product, costRow, medium, blurred, typed>>
  BY DEF UpdateVariant
<1>3. PICK i \in edit[m].item :
        IF Matches(i)
        THEN /\ variant' = [variant EXCEPT ![i].stock = edit[m].want, ![i].active = a]
             /\ Writes(m, [NoEdit EXCEPT !.step = "list"])
        ELSE Reads(m, NoEdit) /\ UNCHANGED variant
  BY DEF UpdateVariant
<1>4. edit[m] \in Edits /\ Suits(edit[m])
  BY <1>1 DEF CatalogueTyped, EditsSuit
<1>5. i \in Items /\ edit[m].want \in Nat
  BY <1>3, <1>4 DEF Edits, Held
<1>6. CASE variant[i].is
  <2>1. variant' = [variant EXCEPT ![i].stock = edit[m].want, ![i].active = a]
        /\ Writes(m, [NoEdit EXCEPT !.step = "list"])
    BY <1>3, <1>6 DEF Matches
  <2>2. variant' \in Variants /\ variant'[i].is
        /\ \A j \in Items \ {i} : variant'[j] = variant[j]
    BY <1>5, <1>6, <2>1, VariantsTyped DEF Variants
  <2> QED
    BY <1>2, <1>4, <2>1, <2>2, VariantsTyped, VariantsHold DEF Suits
<1>7. CASE ~variant[i].is
  <2>1. Turns(m, NoEdit) /\ variant' = variant
    BY <1>3, <1>7 DEF Matches, Turns
  <2>2. CatalogueTyped'
    BY <1>1, <1>2, <2>1, NoEditSuits, TurnSuits DEF CatalogueTyped
  <2>3. PricingHeld'
    BY <1>1, <1>2, <2>1, PricingCalm DEF Recalculates, NoEdit
  <2>4. StockHeld'
    BY <1>1, <1>2, <2>1, StockCalm DEF SumsStock, NoEdit
  <2>5. CoverHeld'
    BY <1>1, <1>2, <2>1, CoverCalm DEF NoEdit
  <2> QED
    BY <2>2, <2>3, <2>4, <2>5 DEF CatalogueInv
<1> QED
  BY <1>6, <1>7

LEMMA DeleteVariantHolds ==
  ASSUME CatalogueInv, NEW m \in Editors, DeleteVariant(m)
  PROVE  CatalogueInv'
<1>1. variant' \in Variants
  BY VariantsTyped DEF DeleteVariant, Variants, NoVariant
<1>2. \A j \in Items : ~variant'[j].is => variant'[j] = NoVariant
  BY VariantsTyped DEF DeleteVariant, Variants
<1>3. "stock" \in area
  BY DEF CatalogueInv, CatalogueTyped, EditsSuit, Suits, DeleteVariant
<1> QED
  BY <1>1, <1>2, <1>3, VariantsHold DEF DeleteVariant

LEMMA TotalTyped ==
  ASSUME CatalogueTyped
  PROVE  Total \in Nat
<1> DEFINE S == {i \in Stored(variant) : variant[i].active}
<1>1. IsFiniteSet(S)
  BY CatalogueAssumption, FS_Subset DEF CatalogueAssumption, Stored
<1>2. \A i \in S : Stocks[i] \in Int /\ Stocks[i] >= 0
  BY DEF Stored, Stocks, CatalogueTyped
<1>3. SumFunctionOnSet(Stocks, S) \in Int /\ SumFunctionOnSet(Stocks, S) >= 0
  BY <1>1, <1>2, SumType
<1> QED
  BY <1>3 DEF Total

LEMMA ListVariantsHolds ==
  ASSUME CatalogueInv, NEW m \in Editors, ListVariants(m)
  PROVE  CatalogueInv'
<1> DEFINE e == IF Stored(variant) = {} THEN NoEdit
                ELSE [NoEdit EXCEPT !.step = "store", !.want = Total]
<1>1. CatalogueTyped /\ PricingHeld /\ StockHeld /\ CoverHeld
  BY DEF CatalogueInv
<1>2. edit[m].step = "list" /\ Turns(m, e)
      /\ UNCHANGED <<area, product, costRow, variant, medium, blurred, typed>>
  BY DEF ListVariants, Turns, Summed, Total
<1>3. Suits(edit[m])
  BY <1>1 DEF CatalogueTyped, EditsSuit
<1>4. e \in Edits
  BY <1>1, TotalTyped, NoEditSuits DEF Edits, EditSteps
<1>5. /\ Stored(variant) = {} => e.step = "idle"
      /\ Stored(variant) # {} => e.step = "store" /\ e.want = Total
  BY NoEditSuits DEF NoEdit, Edits
<1> HIDE DEF e
<1>6. Suits(e)
  BY <1>2, <1>3, <1>5 DEF Suits
<1>7. CatalogueTyped'
  BY <1>1, <1>2, <1>4, <1>6, TurnSuits DEF CatalogueTyped
<1>8. PricingHeld'
  BY <1>1, <1>2, <1>5, PricingCalm DEF Recalculates
<1>9. StockHeld'
  <2>1. Total' = Total /\ Stored(variant)' = Stored(variant)
    BY <1>2 DEF Total, Stored, Stocks
  <2>2. \A n \in Editors : StockKnown(edit[n])'
    BY <1>1, <1>2, <1>5, <2>1, StockOthers, TurnKeeps DEF StockKnown
  <2>3. StockGood' \/ SumsStock(edit[m])'
    BY <1>1, <1>2, <1>5, <2>1, TurnKeeps DEF StockGood, SumsStock
  <2> QED
    BY <2>2, <2>3 DEF StockHeld
<1>10. CoverHeld'
  BY <1>1, <1>2, <1>5, CoverCalm
<1> QED
  BY <1>7, <1>8, <1>9, <1>10 DEF CatalogueInv

LEMMA StoreStockHolds ==
  ASSUME CatalogueInv, NEW m \in Editors, StoreStock(m)
  PROVE  CatalogueInv'
<1>1. CatalogueTyped /\ PricingHeld /\ StockHeld /\ CoverHeld
  BY DEF CatalogueInv
<1>2. edit[m].step = "store" /\ Turns(m, NoEdit) /\ Writes(m, NoEdit)
      /\ UNCHANGED <<area, costRow, variant, medium>>
  BY DEF StoreStock, Turns
<1>3. /\ blurred' = IF edit[m].clean THEN blurred \ {"stock"} ELSE blurred \cup {"stock"}
      /\ typed' = typed \ {"stock"}
  BY DEF StoreStock, Refreshes
<1>4. edit[m].want \in Nat /\ product \in Products
  BY <1>1 DEF CatalogueTyped, EditsSuit, Edits
<1>5. product' = [product EXCEPT !.stock = edit[m].want]
  BY DEF StoreStock
<1>6. /\ product'.price = product.price /\ product'.cost = product.cost
      /\ product'.margin = product.margin /\ product'.stock = edit[m].want
      /\ product'.cover = product.cover /\ product' \in Products
  BY <1>4, <1>5 DEF Products
<1>7. CatalogueTyped'
  BY <1>1, <1>2, <1>3, <1>6, NoEditSuits, TurnSuits DEF CatalogueTyped, Copies
<1>8. PricingHeld'
  BY <1>1, <1>2, <1>3, <1>6, PricingCalm DEF Recalculates, NoEdit
<1>9. StockHeld'
  <2>1. \A n \in Editors : StockKnown(edit[n])'
    BY <1>1, <1>2, StockOthers, TurnKeeps DEF StockKnown, NoEdit
  <2>2. ASSUME edit[m].clean PROVE StockGood'
    <3>1. edit[m].want = Total
      BY <1>1, <1>2, <2>2 DEF StockHeld, StockKnown
    <3>2. Total' = Total
      BY <1>2 DEF Total, Stored, Stocks
    <3> QED
      BY <1>6, <3>1, <3>2 DEF StockGood
  <2> QED
    BY <1>3, <2>1, <2>2 DEF StockHeld
<1>10. CoverHeld'
  BY <1>1, <1>2, <1>3, <1>6, CoverCalm DEF NoEdit
<1> QED
  BY <1>7, <1>8, <1>9, <1>10 DEF CatalogueInv

-----------------------------------------------------------------------------
(* Every step keeps the invariant: the cover.                                *)
Media == [Items -> [is : BOOLEAN, primary : BOOLEAN]]
MediaKept == \A i \in Items : ~medium[i].is => medium[i] = NoMedium

(* What a step of a cover call leaves: all but media, cover and its flags.   *)
LEMMA CoverStep ==
  ASSUME CatalogueInv, NEW m \in Editors, NEW e \in Edits, Turns(m, e), Suits(e),
         edit[m].step \in {"idle", "clear", "choose", "attach", "mark", "show", "detach",
                           "check", "remaining"},
         e.step \in {"idle", "clear", "attach", "mark", "show", "check", "remaining"},
         product' \in Products, product'.price = product.price,
         product'.cost = product.cost, product'.margin = product.margin,
         product'.stock = product.stock, medium' \in Media, MediaKept',
         blurred' \in SUBSET Copies, blurred' \ {"cover"} = blurred \ {"cover"},
         typed' \in SUBSET Copies, typed' \ {"cover"} = typed \ {"cover"},
         UNCHANGED <<area, costRow, variant>>, CoverHeld'
  PROVE  CatalogueInv'
<1>1. CatalogueTyped /\ PricingHeld /\ StockHeld
  BY DEF CatalogueInv
<1>2. CatalogueTyped'
  BY <1>1, TurnSuits DEF CatalogueTyped, Media, MediaKept
<1>3. PricingHeld'
  BY <1>1, PricingCalm DEF Recalculates
<1>4. StockHeld'
  BY <1>1, StockCalm DEF SumsStock
<1> QED
  BY <1>2, <1>3, <1>4 DEF CatalogueInv

LEMMA CoverTyped ==
  ASSUME CatalogueInv
  PROVE  /\ CatalogueTyped /\ CoverHeld
         /\ product \in Products /\ medium \in Media /\ MediaKept
         /\ blurred \in SUBSET Copies /\ typed \in SUBSET Copies
         /\ \A m \in Editors : edit[m] \in Edits /\ Suits(edit[m])
BY DEF CatalogueInv, CatalogueTyped, Media, MediaKept, EditsSuit

LEMMA ReadForMediumHolds ==
  ASSUME CatalogueInv, NEW m \in Editors, NEW i \in Items, NEW primary \in BOOLEAN,
         ReadForMedium(m, i, primary)
  PROVE  CatalogueInv'
<1> DEFINE s == IF primary THEN "clear" ELSE "attach"
           e == [NoEdit EXCEPT !.step = s, !.item = {i}, !.primary = primary,
                               !.cover = product.cover]
<1>1. edit[m].step = "idle" /\ Turns(m, e) /\ "cover" \in area
      /\ UNCHANGED <<area, product, costRow, variant, medium, blurred, typed>>
  BY DEF ReadForMedium, Starts, Turns, Reads
<1>2. e \in Edits /\ e.step = s /\ e.item = {i} /\ e.primary = primary
      /\ e.cover = product.cover
  <2>1. {i} \in Held /\ product.cover \in Images /\ s \in EditSteps
    BY CoverTyped DEF Held, Products, EditSteps
  <2> QED
    BY <2>1, NoEditSuits DEF Edits
<1> HIDE DEF e
<1>3. Suits(e)
  BY <1>1, <1>2 DEF Suits
<1>4. \A n \in Editors : CoverKnown(n)'
  <2>1. \A n \in Editors \ {m} : CoverKnown(n)'
    BY <1>1, CoverTyped, CoverOthers
  <2>2. edit'[m] = e
    BY <1>1, CoverTyped, TurnKeeps
  <2> QED
    BY <1>1, <1>2, <2>1, <2>2 DEF CoverKnown
<1>5. CoverHeld'
  BY <1>1, <1>4, CoverTyped, TurnKeeps DEF CoverHeld, Showing, AtMostOne, Primary
<1> QED
  BY <1>1, <1>2, <1>3, <1>5, CoverTyped, CoverStep DEF MediaKept

LEMMA FindMediumHolds ==
  ASSUME CatalogueInv, NEW m \in Editors, NEW i \in Items, NEW s \in {"choose", "detach"},
         FindMedium(m, i, s)
  PROVE  CatalogueInv'
<1>1. [NoEdit EXCEPT !.step = s, !.item = {i}]
        = [NoEdit EXCEPT !.step = s, !.item = {i}, !.want = 0]
  <2> DEFINE a == [NoEdit EXCEPT !.step = s, !.item = {i}]
  <2>1. a.want = 0 /\ a = [f \in DOMAIN a |-> a[f]]
    BY DEF NoEdit
  <2>2. [NoEdit EXCEPT !.step = s, !.item = {i}, !.want = 0] = [a EXCEPT !.want = 0]
    OBVIOUS
  <2> HIDE DEF a
  <2>3. a = [a EXCEPT !.want = 0]
    BY <2>1
  <2> QED
    BY <2>2, <2>3 DEF a
<1> QED
  BY <1>1, FindHolds DEF FindMedium, Starts, Reads

LEMMA ClearPrimaryHolds ==
  ASSUME CatalogueInv, NEW m \in Editors, ClearPrimary(m)
  PROVE  CatalogueInv'
<1> DEFINE s == IF edit[m].step = "clear" THEN "attach" ELSE "mark"
           e == [edit[m] EXCEPT !.step = s]
<1>1. edit[m].step \in {"clear", "choose"} /\ Turns(m, e) /\ Writes(m, e)
      /\ medium' = Unmarked /\ UNCHANGED <<area, product, costRow, variant, blurred, typed>>
  BY DEF ClearPrimary, Turns
<1>2. /\ e \in Edits /\ e.step = s /\ e.item = edit[m].item /\ e.primary = edit[m].primary
  BY CoverTyped DEF Edits, EditSteps
<1>3. Suits(e)
  BY <1>1, <1>2, CoverTyped DEF Suits
<1> HIDE DEF e
<1>4. medium' \in Media /\ MediaKept' /\ Primary' = {}
  BY <1>1, CoverTyped DEF Unmarked, Media, MediaKept, NoMedium, Primary
<1>5. \A n \in Editors : CoverKnown(n)'
  <2>1. \A n \in Editors \ {m} : CoverKnown(n)'
    BY <1>1, CoverTyped, CoverOthers
  <2>2. edit'[m] = e
    BY <1>1, CoverTyped, TurnKeeps
  <2>3. s = "attach" => edit[m].primary
    BY <1>1, CoverTyped DEF Suits
  <2> QED
    BY <1>1, <1>2, <1>4, <2>1, <2>2, <2>3 DEF CoverKnown
<1>6. CoverHeld'
  BY <1>4, <1>5 DEF CoverHeld, Showing, AtMostOne
<1> QED
  BY <1>1, <1>2, <1>3, <1>4, <1>6, CoverTyped, CoverStep

(* Media that lose their mark or their place leave a cover in step.          *)
LEMMA FewerPrimary ==
  ASSUME NEW c, Showing(c), Primary' \subseteq Primary,
         "cover" \in typed' <=> "cover" \in typed
  PROVE  AtMostOne' /\ ("cover" \notin typed' => \A i \in Primary' : c = {i})
BY DEF Showing, AtMostOne

LEMMA CreateMediumHolds ==
  ASSUME CatalogueInv, NEW m \in Editors, CreateMedium(m)
  PROVE  CatalogueInv'
<1> DEFINE e == IF edit[m].primary \/ edit[m].cover = {}
                THEN [edit[m] EXCEPT !.step = "show"] ELSE NoEdit
<1>1. edit[m].step = "attach" /\ Turns(m, e) /\ Writes(m, e)
      /\ UNCHANGED <<area, product, costRow, variant, typed>>
  BY DEF CreateMedium, Turns
<1>2. /\ medium' = [i \in Items |-> IF i \in edit[m].item
                                    THEN [is |-> TRUE, primary |-> edit[m].primary]
                                    ELSE medium[i]]
      /\ blurred' = IF edit[m].clean THEN blurred ELSE blurred \cup {"cover"}
  BY DEF CreateMedium
<1>3. edit[m] \in Edits /\ Suits(edit[m]) /\ CoverKnown(m)
  BY CoverTyped DEF CoverHeld
<1>4. /\ e \in Edits /\ e.step \in {"idle", "show"}
      /\ edit[m].primary \/ edit[m].cover = {} =>
           /\ e.step = "show" /\ e.item = edit[m].item /\ e.primary = edit[m].primary
           /\ e.clean = edit[m].clean
      /\ edit[m].primary \/ edit[m].cover = {} \/ e.step = "idle"
  BY <1>3, NoEditSuits DEF Edits, EditSteps, NoEdit
<1>5. Suits(e)
  BY <1>1, <1>3, <1>4, NoEditSuits DEF Suits
<1> HIDE DEF e
<1>6. medium' \in Media /\ MediaKept'
  BY <1>2, <1>3, CoverTyped DEF Edits, Media, MediaKept, NoMedium
<1>7. /\ edit[m].primary => Primary' \subseteq Primary \cup edit[m].item
      /\ ~edit[m].primary => Primary' \subseteq Primary
  BY <1>2, <1>3, CoverTyped DEF Edits, Media, Primary
<1>8. /\ \A n \in Editors \ {m} : CoverKnown(n)'
      /\ edit'[m] = e /\ \A n \in Editors \ {m} : edit'[n].step = edit[n].step
  BY <1>1, CoverTyped, CoverOthers, TurnKeeps
<1>9. \A i, j \in edit[m].item : i = j
  BY <1>3 DEF Edits, Held
<1>10. ASSUME edit[m].clean, edit[m].primary PROVE CoverHeld'
  <2>1. Primary' \subseteq edit[m].item
    BY <1>1, <1>3, <1>7, <1>10 DEF CoverKnown
  <2>2. \A i \in Primary' : edit[m].item = {i}
    BY <1>9, <2>1
  <2> QED
    BY <1>4, <1>8, <1>10, <2>2 DEF CoverHeld, CoverKnown
<1>11. ASSUME edit[m].clean, ~edit[m].primary PROVE CoverHeld'
  <2>1. Primary' \subseteq Primary /\ blurred' = blurred /\ edit[m].cover = product.cover
    BY <1>1, <1>2, <1>3, <1>7, <1>11 DEF CoverKnown
  <2>2. ASSUME NEW n \in Editors, edit[n].step = "show"
        PROVE  n \in Editors \ {m} /\ edit'[n].step = "show"
    BY <1>1, <1>8, <2>2
  <2>3. ASSUME "cover" \notin blurred
        PROVE  \/ Showing(product.cover)
               \/ \E n \in Editors : edit[n].step = "show"
    BY <2>3, CoverTyped DEF CoverHeld
  <2>4. Showing(product.cover) => Showing(product.cover)'
    BY <1>1, <2>1, FewerPrimary DEF Showing
  <2>5. CASE edit[m].cover = {}
    <3>1. e.step = "show" /\ ~e.primary
      BY <1>4, <1>11, <2>5
    <3>2. Showing(product.cover) => Showing(edit[m].item)'
      <4>1. ASSUME Showing(product.cover), "cover" \notin typed PROVE Primary' = {}
        <5>1. \A i \in Primary : {} = {i}
          BY <2>1, <2>5, <4>1 DEF Showing
        <5> QED
          BY <2>1, <5>1
      <4> QED
        BY <1>1, <2>1, <4>1, FewerPrimary DEF Showing
    <3>3. CoverKnown(m)'
      BY <1>8, <2>1, <2>2, <2>3, <3>1, <3>2 DEF CoverKnown
    <3> QED
      BY <1>8, <3>1, <3>3 DEF CoverHeld
  <2>6. CASE edit[m].cover # {}
    <3>1. e.step = "idle"
      BY <1>4, <1>11, <2>6
    <3>2. CoverKnown(m)'
      BY <1>8, <3>1 DEF CoverKnown
    <3> QED
      BY <1>8, <2>1, <2>2, <2>3, <2>4, <3>2 DEF CoverHeld
  <2> QED
    BY <2>5, <2>6
<1>12. ASSUME ~edit[m].clean PROVE CoverHeld'
  <2>1. "cover" \in blurred'
    BY <1>2, <1>12
  <2>2. CoverKnown(m)'
    BY <1>3, <1>4, <1>8, <1>12, <2>1 DEF CoverKnown, Edits
  <2> QED
    BY <1>8, <2>1, <2>2 DEF CoverHeld
<1>13. CoverHeld'
  BY <1>3, <1>10, <1>11, <1>12 DEF Edits
<1> QED
  BY <1>1, <1>2, <1>4, <1>5, <1>6, <1>13, CoverTyped, CoverStep DEF Copies

LEMMA MarkPrimaryHolds ==
  ASSUME CatalogueInv, NEW m \in Editors, MarkPrimary(m)
  PROVE  CatalogueInv'
<1> DEFINE e == [edit[m] EXCEPT !.step = "show", !.primary = TRUE]
<1>1. edit[m].step = "mark" /\ Turns(m, e) /\ Writes(m, e)
      /\ UNCHANGED <<area, product, costRow, variant, blurred, typed>>
  BY DEF MarkPrimary, Turns
<1>2. medium' = [i \in Items |-> IF i \in edit[m].item /\ medium[i].is
                                 THEN [medium[i] EXCEPT !.primary = TRUE] ELSE medium[i]]
  BY DEF MarkPrimary
<1>3. edit[m] \in Edits /\ Suits(edit[m]) /\ CoverKnown(m)
  BY CoverTyped DEF CoverHeld
<1>4. e \in Edits /\ e.step = "show" /\ e.item = edit[m].item /\ e.primary
      /\ e.clean = edit[m].clean
  BY <1>3 DEF Edits, EditSteps
<1> HIDE DEF e
<1>5. Suits(e)
  BY <1>1, <1>3, <1>4 DEF Suits
<1>6. medium' \in Media /\ MediaKept' /\ Primary' \subseteq Primary \cup edit[m].item
  BY <1>2, <1>3, CoverTyped DEF Media, MediaKept, Primary
<1>7. /\ \A n \in Editors \ {m} : CoverKnown(n)'
      /\ edit'[m] = e /\ \A n \in Editors \ {m} : edit'[n].step = edit[n].step
  BY <1>1, CoverTyped, CoverOthers, TurnKeeps
<1>8. ASSUME edit[m].clean PROVE \A i \in Primary' : edit[m].item = {i}
  <2>1. Primary' \subseteq edit[m].item
    BY <1>1, <1>3, <1>6, <1>8 DEF CoverKnown
  <2> QED
    BY <1>3, <2>1 DEF Edits, Held
<1>9. CoverHeld'
  BY <1>4, <1>7, <1>8 DEF CoverHeld, CoverKnown
<1> QED
  BY <1>1, <1>4, <1>5, <1>6, <1>9, CoverTyped, CoverStep

LEMMA DeleteMediumHolds ==
  ASSUME CatalogueInv, NEW m \in Editors, DeleteMedium(m)
  PROVE  CatalogueInv'
<1> DEFINE e == [edit[m] EXCEPT !.step = "check"]
<1>1. edit[m].step = "detach" /\ Turns(m, e) /\ Writes(m, e)
      /\ UNCHANGED <<area, product, costRow, variant, blurred, typed>>
  BY DEF DeleteMedium, Turns
<1>2. medium' = [i \in Items |-> IF i \in edit[m].item THEN NoMedium ELSE medium[i]]
  BY DEF DeleteMedium
<1>3. e \in Edits /\ e.step = "check" /\ e.primary = edit[m].primary
  BY CoverTyped DEF Edits, EditSteps
<1> HIDE DEF e
<1>4. Suits(e)
  BY <1>1, <1>3, CoverTyped DEF Suits
<1>5. medium' \in Media /\ MediaKept' /\ Primary' \subseteq Primary
  BY <1>2, CoverTyped DEF Media, MediaKept, Primary, NoMedium
<1>6. /\ \A n \in Editors \ {m} : CoverKnown(n)'
      /\ edit'[m] = e /\ \A n \in Editors \ {m} : edit'[n].step = edit[n].step
  BY <1>1, CoverTyped, CoverOthers, TurnKeeps
<1>7. Showing(product.cover) => Showing(product.cover)'
  BY <1>1, <1>5, FewerPrimary DEF Showing
<1>8. CoverKnown(m)'
  BY <1>3, <1>6 DEF CoverKnown
<1>9. ASSUME NEW n \in Editors, edit[n].step = "show" PROVE edit'[n].step = "show"
  BY <1>1, <1>6, <1>9
<1>10. CoverHeld'
  BY <1>1, <1>6, <1>7, <1>8, <1>9, CoverTyped DEF CoverHeld
<1> QED
  BY <1>1, <1>3, <1>4, <1>5, <1>10, CoverTyped, CoverStep

LEMMA ReadCoverHolds ==
  ASSUME CatalogueInv, NEW m \in Editors, ReadCover(m)
  PROVE  CatalogueInv'
<1> DEFINE e == IF product.cover = edit[m].item THEN [edit[m] EXCEPT !.step = "remaining"]
                ELSE NoEdit
<1>1. edit[m].step = "check" /\ Turns(m, e)
      /\ UNCHANGED <<area, product, costRow, variant, medium, blurred, typed>>
  BY DEF ReadCover, Turns
<1>2. /\ e \in Edits /\ e.step \in {"idle", "remaining"}
      /\ e.step = "idle" \/ e.primary = edit[m].primary
  BY CoverTyped, NoEditSuits DEF Edits, EditSteps, NoEdit
<1> HIDE DEF e
<1>3. Suits(e)
  BY <1>1, <1>2, CoverTyped DEF Suits
<1>4. CoverHeld'
  BY <1>1, <1>2, CoverTyped, CoverCalm
<1>5. medium' \in Media /\ MediaKept'
  BY <1>1, CoverTyped DEF MediaKept
<1> QED
  BY <1>1, <1>2, <1>3, <1>4, <1>5, CoverTyped, CoverStep

LEMMA ListMediaHolds ==
  ASSUME CatalogueInv, NEW m \in Editors, ListMedia(m)
  PROVE  CatalogueInv'
<1> DEFINE first == {i \in Stored(medium) :
                       medium[i].primary \/ \A j \in Stored(medium) : ~medium[j].primary}
<1>1. edit[m].step = "remaining"
      /\ UNCHANGED <<area, product, costRow, variant, medium, blurred, typed>>
  BY DEF ListMedia
<1>2. PICK c \in Held : /\ Reads(m, [edit[m] EXCEPT !.step = "show", !.item = c])
                        /\ \/ first = {} /\ c = {}
                           \/ \E i \in first : c = {i}
  BY DEF ListMedia, Held, Stored
<1> DEFINE e == [edit[m] EXCEPT !.step = "show", !.item = c]
<1>3. Turns(m, e)
  BY <1>2 DEF Turns
<1>4. e \in Edits /\ e.step = "show" /\ e.item = c /\ e.primary = edit[m].primary
  BY CoverTyped DEF Edits, EditSteps
<1> HIDE DEF e
<1>5. ~edit[m].primary /\ Suits(e)
  BY <1>1, <1>4, CoverTyped DEF Suits
<1>6. AtMostOne => \A i \in Primary : c = {i}
  <2>1. Primary \subseteq Stored(medium)
    BY CoverTyped DEF Primary, Stored, MediaKept, NoMedium
  <2>2. Primary # {} => first = Primary
    BY <2>1 DEF Primary, Stored
  <2> QED
    BY <1>2, <2>2 DEF AtMostOne
<1>7. /\ \A n \in Editors \ {m} : CoverKnown(n)'
      /\ edit'[m] = e /\ \A n \in Editors \ {m} : edit'[n].step = edit[n].step
  BY <1>1, <1>3, CoverTyped, CoverOthers, TurnKeeps
<1>8. CoverKnown(m)'
  <2>1. AtMostOne' = AtMostOne /\ Primary' = Primary
    BY <1>1 DEF AtMostOne, Primary
  <2>2. AtMostOne => Showing(edit[m].item)'
    BY <1>4, <1>6, <1>7, <2>1 DEF Showing
  <2>3. ASSUME NEW n \in Editors, edit[n].step = "show"
        PROVE  n \in Editors \ {m} /\ edit'[n].step = "show"
    BY <1>1, <1>7, <2>3
  <2> QED
    BY <1>1, <1>4, <1>5, <1>7, <2>2, <2>3, CoverTyped DEF CoverKnown, CoverHeld,
      Showing, AtMostOne
<1>9. CoverHeld'
  BY <1>4, <1>7, <1>8 DEF CoverHeld
<1>10. medium' \in Media /\ MediaKept'
  BY <1>1, CoverTyped DEF MediaKept
<1> QED
  BY <1>1, <1>3, <1>4, <1>5, <1>9, <1>10, CoverTyped, CoverStep

LEMMA ShowCoverHolds ==
  ASSUME CatalogueInv, NEW m \in Editors, ShowCover(m)
  PROVE  CatalogueInv'
<1>1. edit[m].step = "show" /\ Turns(m, NoEdit) /\ Writes(m, NoEdit)
      /\ UNCHANGED <<area, costRow, variant, medium>>
  BY DEF ShowCover, Turns
<1>2. product' = [product EXCEPT !.cover = edit[m].item]
  BY DEF ShowCover
<1>3. /\ edit[m].primary =>
           /\ blurred' = IF edit[m].clean THEN blurred \ {"cover"} ELSE blurred \cup {"cover"}
           /\ typed' = typed \ {"cover"}
      /\ ~edit[m].primary =>
           /\ blurred' = IF edit[m].clean THEN blurred ELSE blurred \cup {"cover"}
           /\ typed' = typed
  BY DEF ShowCover, Refreshes
<1>4. edit[m] \in Edits /\ Suits(edit[m]) /\ CoverKnown(m) /\ product \in Products
  BY CoverTyped DEF CoverHeld
<1>5. edit[m].item \in Images
  BY <1>4 DEF Edits, Held, Images
<1>6. /\ product'.price = product.price /\ product'.cost = product.cost
      /\ product'.margin = product.margin /\ product'.stock = product.stock
      /\ product'.cover = edit[m].item /\ product' \in Products
  BY <1>2, <1>4, <1>5 DEF Products
<1>7. /\ \A n \in Editors \ {m} : CoverKnown(n)'
      /\ edit'[m] = NoEdit /\ \A n \in Editors \ {m} : edit'[n].step = edit[n].step
  BY <1>1, CoverTyped, CoverOthers, TurnKeeps
<1>8. CoverKnown(m)'
  BY <1>7 DEF CoverKnown, NoEdit
<1>9. Primary' = Primary /\ (AtMostOne' <=> AtMostOne)
  BY <1>1 DEF Primary, AtMostOne
<1>10. ASSUME "cover" \notin blurred'
       PROVE  Showing(product.cover)' \/ \E n \in Editors : edit'[n].step = "show"
  <2>1. edit[m].clean
    BY <1>3, <1>4, <1>10 DEF Edits
  <2>2. CASE edit[m].primary
    <3>1. \A i \in Primary : edit[m].item = {i}
      BY <1>1, <1>4, <2>1, <2>2 DEF CoverKnown
    <3>2. AtMostOne
      BY <3>1 DEF AtMostOne
    <3> QED
      BY <1>6, <1>9, <3>1, <3>2 DEF Showing
  <2>3. CASE ~edit[m].primary
    <3>1. typed' = typed /\ "cover" \notin blurred
      BY <1>3, <1>10, <2>1, <2>3
    <3>2. Showing(edit[m].item) \/ \E n \in Editors \ {m} : edit[n].step = "show"
      BY <1>1, <1>4, <2>1, <2>3, <3>1 DEF CoverKnown
    <3> QED
      BY <1>6, <1>7, <1>9, <3>1, <3>2 DEF Showing
  <2> QED
    BY <1>4, <2>2, <2>3 DEF Edits
<1>11. CoverHeld'
  BY <1>7, <1>8, <1>10 DEF CoverHeld
<1>12. medium' \in Media /\ MediaKept'
  BY <1>1, CoverTyped DEF MediaKept
<1>13. /\ blurred' \in SUBSET Copies /\ blurred' \ {"cover"} = blurred \ {"cover"}
       /\ typed' \in SUBSET Copies /\ typed' \ {"cover"} = typed \ {"cover"}
  BY <1>3, CoverTyped DEF Copies
<1>14. NoEdit.step = "idle"
  BY DEF NoEdit
<1> QED
  BY <1>1, <1>6, <1>11, <1>12, <1>13, <1>14, CoverTyped, NoEditSuits, CoverStep

-----------------------------------------------------------------------------
(* Every step keeps the invariant: edits of the copies, and calls that die.  *)
LEMMA OvertakenKeeps ==
  ASSUME CatalogueInv, Overtaken, area' = area
  PROVE  /\ EditsSuit'
         /\ \A n \in Editors : edit'[n].step = edit[n].step /\ ~Aware(edit'[n])
<1>1. \A n \in Editors : edit[n] \in Edits /\ Suits(edit[n])
  BY CoverTyped
<1>2. edit' = [n \in Editors |-> Behind(edit[n])]
  BY DEF Overtaken
<1>3. \A n \in Editors : Behind(edit[n]) \in Edits /\ Suits(Behind(edit[n]))
  BY <1>1, BehindTyped, BehindSuits
<1>4. \A n \in Editors : Suits(edit[n])' <=> Suits(Behind(edit[n]))
  BY <1>2 DEF Suits
<1>5. EditsSuit'
  BY <1>2, <1>3, <1>4 DEF EditsSuit
<1> QED
  BY <1>1, <1>2, <1>5, BehindTyped

(* A write of the product by hand or by the import: the copies it writes are *)
(* typed, and the others stay.                                               *)
LEMMA TypedHolds ==
  ASSUME CatalogueInv, Overtaken, NEW c \in SUBSET Copies, typed' = typed \cup c,
         product' \in Products,
         "pricing" \in c \/ (product'.price = product.price /\ product'.cost = product.cost
                             /\ product'.margin = product.margin),
         "stock" \in c \/ product'.stock = product.stock,
         "cover" \in c \/ product'.cover = product.cover,
         UNCHANGED <<area, costRow, variant, medium, blurred>>
  PROVE  CatalogueInv'
<1>1. CatalogueTyped /\ PricingHeld /\ StockHeld /\ CoverHeld
  BY DEF CatalogueInv
<1>2. EditsSuit' /\ \A n \in Editors : edit'[n].step = edit[n].step /\ ~Aware(edit'[n])
  BY OvertakenKeeps
<1>3. CatalogueTyped'
  BY <1>1, <1>2 DEF CatalogueTyped
<1>4. PricingHeld'
  <2>1. \A n \in Editors : PriceKnown(edit[n])'
    BY <1>2 DEF PriceKnown, Aware, Unread
  <2>2. \A n \in Editors : Recalculates(edit[n]) => Recalculates(edit[n])'
    BY <1>2 DEF Recalculates
  <2>3. Current' = Current
    BY DEF Current, Stored, Latest
  <2> QED
    BY <1>1, <2>1, <2>2, <2>3 DEF PricingHeld, PriceGood
<1>5. StockHeld'
  <2>1. \A n \in Editors : StockKnown(edit[n])'
    BY <1>2 DEF StockKnown, Aware, Unread
  <2>2. \A n \in Editors : SumsStock(edit[n]) => SumsStock(edit[n])'
    BY <1>2 DEF SumsStock
  <2>3. Total' = Total /\ Stored(variant)' = Stored(variant)
    BY DEF Total, Stored, Stocks
  <2> QED
    BY <1>1, <2>1, <2>2, <2>3 DEF StockHeld, StockGood
<1>6. CoverHeld'
  <2>1. \A n \in Editors : CoverKnown(n)'
    BY <1>2 DEF CoverKnown, Aware, Unread
  <2>2. Primary' = Primary /\ (AtMostOne' <=> AtMostOne)
    BY DEF Primary, AtMostOne
  <2>3. Showing(product.cover) => Showing(product.cover)'
    BY <2>2 DEF Showing
  <2> QED
    BY <1>1, <1>2, <2>1, <2>3 DEF CoverHeld
<1> QED
  BY <1>3, <1>4, <1>5, <1>6 DEF CatalogueInv

LEMMA EditStockHolds ==
  ASSUME CatalogueInv, NEW s \in Amounts, EditStock(s)
  PROVE  CatalogueInv'
<1>1. s \in Nat /\ product \in Products /\ product' = [product EXCEPT !.stock = s]
  BY CoverTyped, CatalogueAssumption DEF EditStock, CatalogueAssumption
<1>2. /\ product'.price = product.price /\ product'.cost = product.cost
      /\ product'.margin = product.margin /\ product'.cover = product.cover
      /\ product' \in Products
  BY <1>1 DEF Products
<1> QED
  BY <1>2, TypedHolds DEF EditStock, Copies

LEMMA EditImageHolds ==
  ASSUME CatalogueInv, EditImage
  PROVE  CatalogueInv'
<1>1. /\ {Elsewhere} \in Images /\ product \in Products
      /\ product' = [product EXCEPT !.cover = {Elsewhere}]
  BY CoverTyped DEF EditImage, Images
<1>2. /\ product'.price = product.price /\ product'.cost = product.cost
      /\ product'.margin = product.margin /\ product'.stock = product.stock
      /\ product' \in Products
  BY <1>1 DEF Products
<1> QED
  BY <1>2, TypedHolds DEF EditImage, Copies

LEMMA ImportProductHolds ==
  ASSUME CatalogueInv, NEW p \in Amounts, NEW s \in Amounts,
         NEW c \in {{}, {Elsewhere}}, ImportProduct(p, s, c)
  PROVE  CatalogueInv'
<1>1. s \in Nat /\ c \in Images /\ product \in Products
  BY CoverTyped, CatalogueAssumption DEF CatalogueAssumption, Images
<1>2. area \in SUBSET Copies
  BY CoverTyped, CatalogueAssumption DEF CatalogueTyped, CatalogueAssumption, Copies
<1> DEFINE price == IF "pricing" \in area THEN p ELSE product.price
           stock == IF "stock" \in area THEN s ELSE product.stock
           cover == IF "cover" \in area THEN c ELSE product.cover
<1>3. product' = [product EXCEPT !.price = price, !.stock = stock, !.cover = cover]
  BY DEF ImportProduct
<1>4. price \in Amounts /\ stock \in Nat /\ cover \in Images
  BY <1>1 DEF Products
<1> HIDE DEF price, stock, cover
<1>5. /\ product'.price = price /\ product'.cost = product.cost
      /\ product'.margin = product.margin /\ product'.stock = stock
      /\ product'.cover = cover /\ product' \in Products
  BY <1>1, <1>3, <1>4 DEF Products
<1> QED
  BY <1>2, <1>5, TypedHolds DEF ImportProduct, price, stock, cover

LEMMA EditDiesHolds ==
  ASSUME CatalogueInv, NEW m \in Editors, EditDies(m)
  PROVE  CatalogueInv'
<1>1. CatalogueTyped /\ PricingHeld /\ StockHeld /\ CoverHeld
  BY DEF CatalogueInv
<1>2. /\ Turns(m, NoEdit) /\ UNCHANGED <<area, product, costRow, variant, medium, typed>>
      /\ blurred' = IF edit[m].step \in Underway THEN blurred \cup area ELSE blurred
  BY DEF EditDies, Turns
<1>3. Suits(edit[m])
  BY CoverTyped
<1>4. area \in SUBSET Copies
  BY <1>1, CatalogueAssumption DEF CatalogueTyped, CatalogueAssumption, Copies
<1>5. CatalogueTyped'
  BY <1>1, <1>2, <1>4, NoEditSuits, TurnSuits DEF CatalogueTyped
<1>6. PricingHeld'
  <2>1. CASE Recalculates(edit[m])
    <3>1. "pricing" \in blurred'
      BY <1>2, <1>3, <2>1 DEF Suits, Recalculates, Underway
    <3>2. \A n \in Editors : PriceKnown(edit[n])'
      BY <1>1, <1>2, PriceOthers, TurnKeeps DEF PriceKnown, NoEdit
    <3> QED
      BY <3>1, <3>2 DEF PricingHeld
  <2>2. CASE ~Recalculates(edit[m])
    BY <1>1, <1>2, <2>2, PricingCalm DEF NoEdit
  <2> QED
    BY <2>1, <2>2
<1>7. StockHeld'
  <2>1. CASE SumsStock(edit[m])
    <3>1. "stock" \in blurred'
      BY <1>2, <1>3, <2>1 DEF Suits, SumsStock, Underway
    <3>2. \A n \in Editors : StockKnown(edit[n])'
      BY <1>1, <1>2, StockOthers, TurnKeeps DEF StockKnown, NoEdit
    <3> QED
      BY <3>1, <3>2 DEF StockHeld
  <2>2. CASE ~SumsStock(edit[m])
    BY <1>1, <1>2, <2>2, StockCalm DEF NoEdit
  <2> QED
    BY <2>1, <2>2
<1>8. CoverHeld'
  <2>1. edit[m].step = "show" => "cover" \in blurred'
    BY <1>2, <1>3 DEF Suits, Underway
  <2>2. \A n \in Editors : CoverKnown(n)'
    BY <1>1, <1>2, <2>1, CoverOthers, TurnKeeps DEF CoverKnown, NoEdit
  <2>3. CASE "cover" \in blurred'
    BY <2>2, <2>3 DEF CoverHeld
  <2>4. CASE "cover" \notin blurred'
    <3>1. edit[m].step # "show" /\ "cover" \notin blurred
      BY <1>2, <2>1, <2>4
    <3> QED
      BY <1>1, <1>2, <2>4, <3>1, CoverCalm DEF NoEdit
  <2> QED
    BY <2>3, <2>4
<1> QED
  BY <1>5, <1>6, <1>7, <1>8 DEF CatalogueInv

-----------------------------------------------------------------------------
LEMMA CatalogueStarts ==
  ASSUME CatalogueInit
  PROVE  CatalogueInv
<1>1. PICK p \in Amounts : product = [price |-> p, cost |-> 0, margin |-> <<p, 0>>,
                                      stock |-> 0, cover |-> {}]
  BY DEF CatalogueInit
<1>2. /\ area \in Areas /\ costRow = [i \in Items |-> NoCost]
      /\ variant = [i \in Items |-> NoVariant] /\ medium = [i \in Items |-> NoMedium]
      /\ edit = [m \in Editors |-> NoEdit] /\ blurred = {} /\ typed = {}
  BY DEF CatalogueInit
<1>3. product \in Products
  BY <1>1 DEF Products, Whole, Images
<1>4. CatalogueTyped
  <2>1. EditsSuit
    BY <1>2, NoEditSuits DEF EditsSuit
  <2>2. NoCost \in [is : BOOLEAN, total : Whole, from : Whole]
    BY DEF NoCost, Whole
  <2>3. NoVariant \in [is : BOOLEAN, stock : Nat, active : BOOLEAN]
        /\ NoMedium \in [is : BOOLEAN, primary : BOOLEAN]
    BY DEF NoVariant, NoMedium
  <2> QED
    BY <1>2, <1>3, <2>1, <2>2, <2>3 DEF CatalogueTyped
<1>5. Stored(costRow) = {} /\ Stored(variant) = {} /\ Primary = {}
  BY <1>2 DEF Stored, NoCost, NoVariant, NoMedium, Primary
<1>6. PricingHeld /\ StockHeld /\ CoverHeld
  BY <1>1, <1>2, <1>5 DEF PricingHeld, PriceGood, PriceKnown, Current, StockHeld,
    StockGood,
                         StockKnown, CoverHeld, CoverKnown, Showing, AtMostOne, NoEdit
<1> QED
  BY <1>4, <1>6 DEF CatalogueInv

LEMMA CatalogueStep ==
  ASSUME CatalogueInv, [CatalogueNext]_catalogueVars
  PROVE  CatalogueInv'
<1>1. ASSUME NEW m \in Editors, PricingNext(m) PROVE CatalogueInv'
  BY <1>1, ReadForUpdateHolds, UpdatePriceHolds, FindCostHolds, AddCostHolds,
     DeleteCostHolds, ReadProductHolds, ReadCurrentHolds, SaveSnapshotHolds DEF PricingNext
<1>2. ASSUME NEW m \in Editors, StockNext(m) PROVE CatalogueInv'
  BY <1>2, AddVariantHolds, FindVariantHolds, UpdateVariantHolds, DeleteVariantHolds,
     ListVariantsHolds, StoreStockHolds DEF StockNext
<1>3. ASSUME NEW m \in Editors, CoverNext(m) PROVE CatalogueInv'
  BY <1>3, ReadForMediumHolds, FindMediumHolds, ClearPrimaryHolds, CreateMediumHolds,
     MarkPrimaryHolds, DeleteMediumHolds, ReadCoverHolds, ListMediaHolds, ShowCoverHolds
     DEF CoverNext
<1>4. ASSUME UNCHANGED catalogueVars PROVE CatalogueInv'
  <2>1. UNCHANGED <<area, product, costRow, variant, medium, edit, blurred, typed>>
    BY <1>4 DEF catalogueVars
  <2>2. CatalogueTyped'
    BY <2>1 DEF CatalogueInv, CatalogueTyped, EditsSuit, Suits
  <2>3. PricingHeld'
    BY <2>1 DEF CatalogueInv, PricingHeld, PriceGood, PriceKnown, Repriced,
      Recalculates,
                Current, Latest, Stored
  <2>4. Total' = Total /\ Stored(variant)' = Stored(variant)
    BY <2>1 DEF Total, Stocks, Stored
  <2>5. StockHeld'
    BY <2>1, <2>4 DEF CatalogueInv, StockHeld, StockGood, StockKnown, SumsStock
  <2>6. CoverHeld'
    BY <2>1 DEF CatalogueInv, CoverHeld, CoverKnown, Showing, AtMostOne, Primary
  <2> QED
    BY <2>2, <2>3, <2>5, <2>6 DEF CatalogueInv
<1> QED
  BY <1>1, <1>2, <1>3, <1>4, EditDiesHolds, EditStockHolds, EditImageHolds,
     ImportProductHolds DEF CatalogueNext

(* A set of at most one element has at most one.                             *)
LEMMA CopiesFollow ==
  ASSUME CatalogueInv
  PROVE  CopiesInStep
<1>1. CatalogueTyped /\ PricingHeld /\ StockHeld /\ CoverHeld
  BY DEF CatalogueInv
<1>2. Cardinality({}) = 0 /\ \A x : Cardinality({x}) = 1
  BY FS_EmptySet, FS_Singleton
<1>3. CatalogueTypeOK
  <2>1. product.cover \subseteq Items \cup {Elsewhere} /\ Cardinality(product.cover) <= 1
    <3>1. product.cover \in Images
      BY <1>1 DEF CatalogueTyped, Products
    <3>2. CASE product.cover = {}
      BY <1>2, <3>2
    <3>3. ASSUME NEW x \in Items \cup {Elsewhere}, product.cover = {x}
          PROVE  product.cover \subseteq Items \cup {Elsewhere} /\ Cardinality(product.cover) <= 1
      BY <1>2, <3>3
    <3> QED
      BY <3>1, <3>2, <3>3 DEF Images
  <2>2. /\ product.price \in Amounts /\ product.cost \in Whole
        /\ product.margin \in Amounts \X Whole /\ product.stock \in Nat
    BY <1>1 DEF CatalogueTyped, Products
  <2>3. \A m \in Editors : edit[m].clean \in BOOLEAN
    BY CoverTyped DEF Edits
  <2> QED
    BY <1>1, <2>1, <2>2, <2>3 DEF CatalogueTypeOK, CatalogueTyped, Whole, Copies
<1>4. PricingInStep
  BY <1>1 DEF PricingInStep, PricingHeld, PriceGood, Recalculates, Quiet, Underway
<1>5. StockInStep
  BY <1>1 DEF StockInStep, StockHeld, StockGood, SumsStock, Quiet, Underway
<1>6. CoverInStep
  <2>1. SUFFICES ASSUME Quiet, "cover" \notin blurred
                 PROVE  /\ Cardinality(Primary) <= 1
                        /\ "cover" \notin typed => \A i \in Primary : product.cover = {i}
    BY DEF CoverInStep, Primary
  <2>2. Showing(product.cover)
    BY <1>1, <2>1 DEF CoverHeld, Quiet, Underway
  <2>3. CASE Primary = {}
    BY <1>2, <2>3
  <2>4. ASSUME NEW i \in Primary PROVE Cardinality(Primary) <= 1
    <3>1. Primary = {i}
      BY <2>2, <2>4 DEF Showing, AtMostOne
    <3> QED
      BY <1>2, <3>1
  <2> QED
    BY <2>2, <2>3, <2>4 DEF Showing
<1> QED
  BY <1>3, <1>4, <1>5, <1>6 DEF CopiesInStep

(* Whatever a product copies from its costs, its variants and its media is   *)
(* in step with them once no call that refreshes it is underway, overlapped  *)
(* a write or died.                                                          *)
THEOREM CopiesSafe == CatalogueSpec => []CopiesInStep
<1>1. CatalogueInit => CatalogueInv
  BY CatalogueStarts
<1>2. CatalogueInv /\ [CatalogueNext]_catalogueVars => CatalogueInv'
  BY CatalogueStep
<1>3. CatalogueInv => CopiesInStep
  BY CopiesFollow
<1> QED
  BY <1>1, <1>2, <1>3, PTL DEF CatalogueSpec
=============================================================================
