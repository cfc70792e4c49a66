------------------------ MODULE LinkedAccounts_proofs ------------------------
(***************************************************************************)
(* TLAPS proofs about LinkedAccounts, for every channel, every number of   *)
(* sessions and OAuth states and every number of tokens given out.         *)
(***************************************************************************)
EXTENDS LinkedAccounts, TLAPS

Steps == {"ask", "save", "expire", "ready", "mark", "idle", "consume", "exchange", "store",
          "refresh", "reread", "mirror", "copy"}
Work == {"none", "sync", "fetch", "send"}
Requests == [step : Steps, task : Work, token : Tokens, next : Tokens,
             shake : SUBSET Handshakes]

AccountTyped ==
  /\ account \in [status : {"ABSENT", "CONNECTED", "EXPIRED", "DISCONNECTED"},
                  token : Tokens, due : BOOLEAN]
  /\ account.status \in {"ABSENT", "DISCONNECTED"} => account.token = 0
  /\ granted \in Tokens /\ accepted \subseteq 1..granted
  /\ session \in [Sessions -> Requests]
  /\ stale \subseteq Sessions /\ revived \in BOOLEAN /\ lost \in BOOLEAN

(* A state that was redeemed is gone for good. *)
StatesSpent ==
  \A h \in Handshakes : redeemed[h] = 0 \/ (redeemed[h] = 1 /\ handshake[h] = "gone")

(* A token on its way into the row is good, and nobody else knows it. *)
Carries(s) == Step(s) \in {"save", "store"}
NewTokens ==
  \A s \in Sessions : Carries(s) =>
    /\ session[s].next \in accepted /\ session[s].next # account.token
    /\ \A d \in Sessions :
         /\ session[d].token # session[s].next
         /\ d # s /\ Carries(d) => session[d].next # session[s].next

Equipped == \A s \in Sessions : Step(s) \in {"ready", "mark"} => session[s].token # 0

(* No token is in the row or in hand that was not given out. *)
Known == account.token \in 0..granted /\ \A s \in Sessions : session[s].token \in 0..granted

TokensInv == NewTokens /\ Known /\ Equipped /\ TokenInUse /\ StoredTokenLive

AccountInv == AccountTyped /\ TokensInv /\ ConnectedHasToken

(* What an action of session s does to the sessions. *)
Sets(s, step, token, next) ==
  /\ session' \in [Sessions -> Requests]
  /\ \A d \in Sessions \ {s} : session'[d] = session[d]
  /\ session'[s].step = step /\ session'[s].token = token /\ session'[s].next = next

-----------------------------------------------------------------------------
(* The forms in which the actions write a session. *)

LEMMA FreeTyped == Free \in Requests /\ Free.step = "idle" /\ Free.token = 0 /\ Free.next = 0
BY LinkedAssumption DEF Free, Requests, Steps, Work, Tokens, LinkedAssumption

LEMMA WriteRow ==
  ASSUME AccountTyped, NEW s \in Sessions, NEW r \in Requests,
         session' = [session EXCEPT ![s] = r]
  PROVE  Sets(s, r.step, r.token, r.next)
BY DEF AccountTyped, Sets

LEMMA WriteFree ==
  ASSUME AccountTyped, NEW s \in Sessions, Done(s)
  PROVE  Sets(s, "idle", 0, 0)
BY FreeTyped, WriteRow DEF Done

LEMMA WriteFrom ==
  ASSUME AccountTyped, NEW s \in Sessions, NEW step \in Steps, NEW token \in Tokens,
         NEW task \in Work, NEW shake \in SUBSET Handshakes,
         session' = [session EXCEPT ![s] = [step |-> step, task |-> task, token |-> token,
                                            next |-> 0, shake |-> shake]]
  PROVE  Sets(s, step, token, 0)
<1>1. [step |-> step, task |-> task, token |-> token, next |-> 0, shake |-> shake] \in Requests
  BY LinkedAssumption DEF Requests, Tokens, LinkedAssumption
<1> QED
  BY <1>1, WriteRow

LEMMA WriteStep ==
  ASSUME AccountTyped, NEW s \in Sessions, NEW step \in Steps, GoesOn(s, step)
  PROVE  Sets(s, step, session[s].token, session[s].next)
BY DEF AccountTyped, GoesOn, Sets, Requests

(* A request's row with one field written. *)
LEMMA RowStep ==
  ASSUME NEW r \in Requests, NEW step \in Steps
  PROVE  /\ [r EXCEPT !.step = step] \in Requests
         /\ [r EXCEPT !.step = step].step = step
         /\ [r EXCEPT !.step = step].token = r.token
         /\ [r EXCEPT !.step = step].next = r.next
BY DEF Requests

LEMMA RowToken ==
  ASSUME NEW r \in Requests, NEW token \in Tokens
  PROVE  /\ [r EXCEPT !.token = token] \in Requests
         /\ [r EXCEPT !.token = token].step = r.step
         /\ [r EXCEPT !.token = token].token = token
         /\ [r EXCEPT !.token = token].next = r.next
BY DEF Requests

LEMMA RowNext ==
  ASSUME NEW r \in Requests, NEW next \in Tokens
  PROVE  /\ [r EXCEPT !.next = next] \in Requests
         /\ [r EXCEPT !.next = next].step = r.step
         /\ [r EXCEPT !.next = next].token = r.token
         /\ [r EXCEPT !.next = next].next = next
BY DEF Requests

LEMMA WriteToken ==
  ASSUME AccountTyped, NEW s \in Sessions, NEW step \in Steps, NEW token \in Tokens,
         session' = [session EXCEPT ![s].step = step, ![s].token = token]
  PROVE  Sets(s, step, token, session[s].next)
<1> DEFINE f == [session EXCEPT ![s].step = step]
           g == [f EXCEPT ![s].token = token]
<1>1. session \in [Sessions -> Requests]
  BY DEF AccountTyped
<1> DEFINE r == [session[s] EXCEPT !.step = step]
<1>2. /\ r \in Requests /\ r.step = step
      /\ r.token = session[s].token /\ r.next = session[s].next
  BY <1>1, RowStep
<1> HIDE DEF r
<1>3. f = [session EXCEPT ![s] = r] /\ f[s] = r
  BY <1>1 DEF r
<1>4. f \in [Sessions -> Requests] /\ \A d \in Sessions \ {s} : f[d] = session[d]
  BY <1>1, <1>2, <1>3
<1> DEFINE q == [r EXCEPT !.token = token]
<1>6. /\ q \in Requests /\ q.step = step
      /\ q.token = token /\ q.next = session[s].next
  BY <1>2, RowToken
<1> HIDE DEF q
<1>7. g = [f EXCEPT ![s] = q]
  BY <1>3, <1>4 DEF q
<1>5. session' = g
  OBVIOUS
<1>8. session' = [f EXCEPT ![s] = q]
  BY <1>5, <1>7
<1> HIDE DEF f, g
<1>9. session' \in [Sessions -> Requests]
  BY <1>4, <1>6, <1>8
<1>10. session'[s] = q /\ \A d \in Sessions \ {s} : session'[d] = session[d]
  BY <1>4, <1>8
<1> QED
  BY <1>6, <1>9, <1>10 DEF Sets

LEMMA WriteNext ==
  ASSUME AccountTyped, NEW s \in Sessions, NEW step \in Steps, NEW next \in Tokens,
         session' = [session EXCEPT ![s].step = step, ![s].next = next]
  PROVE  Sets(s, step, session[s].token, next)
<1> DEFINE f == [session EXCEPT ![s].step = step]
           g == [f EXCEPT ![s].next = next]
<1>1. session \in [Sessions -> Requests]
  BY DEF AccountTyped
<1> DEFINE r == [session[s] EXCEPT !.step = step]
<1>2. /\ r \in Requests /\ r.step = step
      /\ r.token = session[s].token /\ r.next = session[s].next
  BY <1>1, RowStep
<1> HIDE DEF r
<1>3. f = [session EXCEPT ![s] = r] /\ f[s] = r
  BY <1>1 DEF r
<1>4. f \in [Sessions -> Requests] /\ \A d \in Sessions \ {s} : f[d] = session[d]
  BY <1>1, <1>2, <1>3
<1> DEFINE q == [r EXCEPT !.next = next]
<1>6. /\ q \in Requests /\ q.step = step
      /\ q.token = session[s].token /\ q.next = next
  BY <1>2, RowNext
<1> HIDE DEF q
<1>7. g = [f EXCEPT ![s] = q]
  BY <1>3, <1>4 DEF q
<1>5. session' = g
  OBVIOUS
<1>8. session' = [f EXCEPT ![s] = q]
  BY <1>5, <1>7
<1> HIDE DEF f, g
<1>9. session' \in [Sessions -> Requests]
  BY <1>4, <1>6, <1>8
<1>10. session'[s] = q /\ \A d \in Sessions \ {s} : session'[d] = session[d]
  BY <1>4, <1>8
<1> QED
  BY <1>6, <1>9, <1>10 DEF Sets

-----------------------------------------------------------------------------
(* Tokens. *)

(* A step of s after which s carries no new token, the row has the token it *)
(* had and the provider accepts what it accepted.                           *)
LEMMA TokensStay ==
  ASSUME AccountTyped, TokensInv, NEW s \in Sessions, NEW step, NEW token, NEW next,
         Sets(s, step, token, next), step \notin {"save", "store"},
         account'.token = account.token, UNCHANGED <<accepted, granted>>,
         token \in {0, session[s].token, account.token},
         step \in {"ready", "mark"} => token # 0 /\ (token = account.token \/ s \in stale'),
         stale \ {s} \subseteq stale', lost => lost', Step(s) = "save" => lost'
  PROVE  TokensInv'
<1>1. \A t \in accepted : t # 0
  BY DEF AccountTyped
<1>2. NewTokens'
  BY <1>1 DEF TokensInv, NewTokens, Carries, Step, Sets
<1>3. Equipped' /\ TokenInUse'
  BY DEF TokensInv, Equipped, TokenInUse, Step, Sets
<1>4. StoredTokenLive'
  BY DEF TokensInv, StoredTokenLive, Step, Sets
<1>5. Known'
  <2>1. 0 \in 0..granted
    BY LinkedAssumption DEF AccountTyped, Tokens, LinkedAssumption
  <2> QED
    BY <2>1 DEF TokensInv, Known, Sets
<1> QED
  BY <1>2, <1>3, <1>4, <1>5 DEF TokensInv

(* The provider gives s a new token, for a code or for the token in hand.   *)
LEMMA TokensMinted ==
  ASSUME AccountTyped, TokensInv, NEW s \in Sessions, NEW step \in {"save", "store", "expire"},
         NEW next,
         Sets(s, step, session[s].token, next), step # "expire" => next = granted + 1,
         ~Carries(s), granted' = granted + 1, granted \in Nat,
         \/ accepted' = accepted \cup {granted + 1}
         \/ /\ accepted' = (accepted \ {session[s].token}) \cup {granted + 1}
            /\ step = "save" \/ lost',
         UNCHANGED <<account, stale>>, lost => lost'
  PROVE  TokensInv'
<1>1. /\ account.token \in 0..granted /\ accepted \subseteq 1..granted
      /\ \A d \in Sessions : session[d].token \in 0..granted
      /\ \A d \in Sessions : session'[d].token = session[d].token
  BY DEF AccountTyped, TokensInv, Known, Sets
<1>2. granted + 1 \in accepted' /\ granted + 1 \notin 0..granted
  BY <1>1
<1>3. \A d \in Sessions : Carries(d) =>
        /\ d # s /\ session'[d] = session[d]
        /\ session[d].next \in accepted /\ session[d].next \in accepted'
  BY DEF TokensInv, NewTokens, Sets
<1>4. \A d \in Sessions : Carries(d)' =>
        \/ d = s /\ session'[d].next = granted + 1
        \/ d # s /\ Carries(d) /\ session'[d].next = session[d].next
  BY DEF Carries, Step, Sets
<1>5. NewTokens'
  <2>1. ASSUME NEW d \in Sessions, Carries(d)'
        PROVE  /\ session'[d].next \in accepted' /\ session'[d].next # account'.token
               /\ \A e \in Sessions :
                    /\ session'[e].token # session'[d].next
                    /\ e # d /\ Carries(e)' => session'[e].next # session'[d].next
    <3>1. CASE d = s
      BY <1>1, <1>2, <1>3, <1>4, <2>1, <3>1
    <3>2. CASE d # s
      BY <1>1, <1>2, <1>3, <1>4, <2>1, <3>2 DEF TokensInv, NewTokens
    <3> QED
      BY <3>1, <3>2
  <2> QED
    BY <2>1 DEF NewTokens
<1>6. Known'
  BY <1>1 DEF Known
<1>7. Equipped' /\ TokenInUse'
  BY <1>1 DEF TokensInv, Equipped, TokenInUse, Step, Sets
<1>8. StoredTokenLive'
  <2>1. CASE accepted' = accepted \cup {granted + 1}
    BY <2>1 DEF TokensInv, StoredTokenLive, Carries, Step, Sets
  <2>2. CASE /\ accepted' = (accepted \ {session[s].token}) \cup {granted + 1}
             /\ step = "save" \/ lost'
    BY <2>2 DEF TokensInv, StoredTokenLive, Carries, Step, Sets
  <2> QED
    BY <2>1, <2>2
<1> QED
  BY <1>5, <1>6, <1>7, <1>8 DEF TokensInv

(* The new token that s carries goes into the row.                          *)
LEMMA TokensStored ==
  ASSUME AccountTyped, TokensInv, NEW s \in Sessions, NEW step, NEW token, NEW next,
         Sets(s, step, token, next), step \in {"idle", "mirror", "ready", "reread"},
         token \in {0, session[s].token, session[s].next},
         step = "ready" => token = session[s].next,
         Carries(s), account'.token = session[s].next, UNCHANGED <<accepted, granted>>,
         Outdates(s)
  PROVE  TokensInv'
<1>0. /\ granted \in Nat /\ accepted \subseteq 1..granted
      /\ session[s].next \in accepted
  BY LinkedAssumption DEF TokensInv, NewTokens, AccountTyped, Tokens, LinkedAssumption
<1>1. /\ session[s].next \in accepted /\ session[s].next \in 1..granted
      /\ 0 \in 0..granted /\ \A t \in accepted : t # 0
  <2>1. session[s].next \in 1..granted
    BY <1>0
  <2>2. 0 \in 0..granted
    BY <1>0
  <2>3. \A t \in accepted : t # 0
    BY <1>0
  <2> QED
    BY <1>0, <2>1, <2>2, <2>3
<1>2. NewTokens'
  BY <1>1 DEF TokensInv, NewTokens, Carries, Step, Sets
<1>3. Known'
  BY <1>1 DEF TokensInv, Known, Sets
<1>4. Equipped'
  BY <1>1 DEF TokensInv, Equipped, Step, Sets
<1>5. TokenInUse'
  BY DEF TokenInUse, Outdates, Holding, Step, Sets
<1>6. StoredTokenLive'
  BY <1>1 DEF StoredTokenLive
<1> QED
  BY <1>2, <1>3, <1>4, <1>5, <1>6 DEF TokensInv

-----------------------------------------------------------------------------
(* The actions that neither bring nor store a token, nor change the row.    *)

LEMMA Typed ==
  ASSUME AccountTyped, NEW s \in Sessions
  PROVE  /\ session[s].token \in Tokens /\ session[s].next \in Tokens
         /\ account.token \in Tokens /\ 0 \in Tokens
         /\ Step(s) \in Steps
BY LinkedAssumption DEF AccountTyped, Requests, Tokens, LinkedAssumption, Step

(* TokensStay, for an action that leaves the row alone.                     *)
LEMMA Kept ==
  ASSUME AccountInv, NEW s \in Sessions, NEW step, NEW token, NEW next,
         Sets(s, step, token, next), step \notin {"save", "store"},
         UNCHANGED <<account, accepted, granted, revived>>,
         token \in {0, session[s].token, account.token},
         step \in {"ready", "mark"} => token # 0 /\ (token = account.token \/ s \in stale'),
         stale' \in {stale, stale \ {s}},
         lost' \in BOOLEAN, lost => lost', Step(s) = "save" => lost'
  PROVE  AccountInv'
<1>1. TokensInv'
  BY TokensStay DEF AccountInv
<1>2. AccountTyped'
  BY DEF AccountInv, AccountTyped, Sets
<1>3. ConnectedHasToken'
  BY DEF AccountInv, ConnectedHasToken
<1> QED
  BY <1>1, <1>2, <1>3 DEF AccountInv

LEMMA KeepsFindHandshake ==
  ASSUME AccountInv, NEW s \in Sessions, NEW h \in Handshakes, FindHandshake(s, h)
  PROVE  AccountInv'
<1>1. AccountTyped /\ UNCHANGED <<account, granted, accepted, stale, revived, lost>>
  BY DEF AccountInv, FindHandshake
<1>2. Step(s) = "idle" /\ lost \in BOOLEAN /\ 0 \in Tokens
  BY <1>1, Typed DEF AccountTyped, FindHandshake
<1>3. CASE session' = [session EXCEPT ![s] =
             [step |-> "consume", task |-> "none", token |-> 0, next |-> 0, shake |-> {h}]]
  <2>1. Sets(s, "consume", 0, 0)
    BY <1>1, <1>2, <1>3, WriteFrom DEF Steps, Work
  <2> QED
    BY <1>1, <1>2, <2>1, Kept
<1>4. CASE UNCHANGED session
  <2>1. Sets(s, "idle", session[s].token, session[s].next)
    BY <1>1, <1>2, <1>4 DEF AccountTyped, Step, Sets
  <2> QED
    BY <1>1, <1>2, <2>1, Kept
<1> QED
  BY <1>3, <1>4 DEF FindHandshake, Free

LEMMA KeepsConsumeHandshake ==
  ASSUME AccountInv, NEW s \in Sessions, ConsumeHandshake(s)
  PROVE  AccountInv'
<1>1. AccountTyped /\ UNCHANGED <<account, granted, accepted, stale, revived, lost>>
  BY DEF AccountInv, ConsumeHandshake
<1>2. Step(s) = "consume" /\ lost \in BOOLEAN
  BY <1>1 DEF AccountTyped, ConsumeHandshake
<1>3. CASE GoesOn(s, "exchange")
  <2>1. Sets(s, "exchange", session[s].token, session[s].next)
    BY <1>1, <1>3, WriteStep DEF Steps
  <2> QED
    BY <1>1, <1>2, <2>1, Kept
<1>4. CASE Done(s)
  BY <1>1, <1>2, <1>4, WriteFree, Kept
<1> QED
  BY <1>3, <1>4 DEF ConsumeHandshake

LEMMA KeepsExchangeFails ==
  ASSUME AccountInv, NEW s \in Sessions, ExchangeFails(s)
  PROVE  AccountInv'
<1>1. AccountTyped /\ UNCHANGED <<account, granted, accepted, stale, revived, lost>>
  BY DEF AccountInv, ExchangeFails
<1>2. Step(s) = "exchange" /\ lost \in BOOLEAN /\ Done(s)
  BY <1>1 DEF AccountTyped, ExchangeFails
<1> QED
  BY <1>1, <1>2, WriteFree, Kept

LEMMA KeepsFindAccount ==
  ASSUME AccountInv, NEW s \in Sessions, NEW task \in Work, FindAccount(s, task)
  PROVE  AccountInv'
<1>1. AccountTyped /\ UNCHANGED <<account, granted, accepted, stale, revived, lost>>
  BY DEF AccountInv, FindAccount
<1>2. Step(s) = "idle" /\ lost \in BOOLEAN /\ account.token \in Tokens
  BY <1>1, Typed DEF AccountTyped, FindAccount
<1> DEFINE From(step) == [step |-> step, task |-> task, token |-> account.token,
                          next |-> 0, shake |-> {}]
<1>0. \A step \in {"refresh", "ready"} :
        [Free EXCEPT !.task = task, !.token = account.token, !.step = step] = From(step)
  <2> TAKE step \in {"refresh", "ready"}
  <2> DEFINE F == [Free EXCEPT !.task = task]
  <2>1. F = [step |-> "idle", task |-> task, token |-> 0, next |-> 0, shake |-> {}]
    BY DEF Free
  <2> HIDE DEF F
  <2> DEFINE G == [F EXCEPT !.token = account.token]
  <2>2. G = [step |-> "idle", task |-> task, token |-> account.token, next |-> 0,
             shake |-> {}]
    BY <2>1
  <2> HIDE DEF G
  <2>3. [G EXCEPT !.step = step] = From(step)
    BY <2>2
  <2>4. [Free EXCEPT !.task = task, !.token = account.token, !.step = step]
          = [G EXCEPT !.step = step]
    BY DEF F, G
  <2> QED
    BY <2>3, <2>4
<1>3. PICK step \in {"refresh", "ready"} :
        /\ session' = [session EXCEPT ![s] = From(step)]
        /\ step = "ready" => account.token # 0
  <2>1. CASE task # "send" /\ (account.due \/ account.token = 0)
    <3>1. session' = [session EXCEPT ![s] =
            [Free EXCEPT !.task = task, !.token = account.token, !.step = "refresh"]]
      BY <2>1 DEF FindAccount
    <3> QED
      BY <1>0, <3>1
  <2>2. CASE ~(task # "send" /\ (account.due \/ account.token = 0))
    <3>1. session' = [session EXCEPT ![s] =
            [Free EXCEPT !.task = task, !.token = account.token, !.step = "ready"]]
      BY <2>2 DEF FindAccount
    <3>2. account.token # 0
      BY <2>2, LinkedAssumption DEF FindAccount, Tasks, LinkedAssumption
    <3> QED
      BY <1>0, <3>1, <3>2
  <2> QED
    BY <2>1, <2>2
<1>4. Sets(s, step, account.token, 0)
  <2>1. step \in Steps /\ {} \in SUBSET Handshakes
    BY DEF Steps
  <2> QED
    BY <1>1, <1>2, <1>3, <2>1, WriteFrom
<1> QED
  BY <1>1, <1>2, <1>3, <1>4, Kept

LEMMA KeepsReadForRefresh ==
  ASSUME AccountInv, NEW s \in Sessions, ReadForRefresh(s)
  PROVE  AccountInv'
<1>1. AccountTyped /\ UNCHANGED <<account, granted, accepted, stale, revived, lost>>
  BY DEF AccountInv, ReadForRefresh
<1>2. Step(s) = "refresh" /\ lost \in BOOLEAN /\ account.token \in Tokens
  BY <1>1, Typed DEF AccountTyped, ReadForRefresh
<1>3. CASE Done(s)
  BY <1>1, <1>2, <1>3, WriteFree, Kept
<1>4. CASE session' = [session EXCEPT ![s].step = "ask", ![s].token = account.token]
  <2>1. Sets(s, "ask", account.token, session[s].next)
    BY <1>1, <1>2, <1>4, WriteToken DEF Steps
  <2> QED
    BY <1>1, <1>2, <2>1, Kept
<1> QED
  BY <1>3, <1>4 DEF ReadForRefresh

LEMMA KeepsRefreshFails ==
  ASSUME AccountInv, NEW s \in Sessions, RefreshFails(s)
  PROVE  AccountInv'
<1>1. AccountTyped /\ UNCHANGED <<account, granted, accepted, stale, revived>>
  BY DEF AccountInv, RefreshFails
<1>2. lost' = (lost \/ Step(s) = "save") /\ lost \in BOOLEAN /\ GoesOn(s, "expire")
  BY <1>1 DEF AccountTyped, RefreshFails
<1>3. Sets(s, "expire", session[s].token, session[s].next)
  BY <1>1, <1>2, WriteStep DEF Steps
<1>4. lost' \in BOOLEAN /\ (lost => lost') /\ (Step(s) = "save" => lost')
  BY <1>2
<1> QED
  BY <1>1, <1>3, <1>4, Kept

LEMMA KeepsReadRenewed ==
  ASSUME AccountInv, NEW s \in Sessions, ReadRenewed(s)
  PROVE  AccountInv'
<1>1. AccountTyped /\ UNCHANGED <<account, granted, accepted, stale, revived, lost>>
  BY DEF AccountInv, ReadRenewed
<1>2. Step(s) = "reread" /\ lost \in BOOLEAN /\ account.token \in Tokens
  BY <1>1, Typed DEF AccountTyped, ReadRenewed
<1>3. CASE Done(s)
  BY <1>1, <1>2, <1>3, WriteFree, Kept
<1>4. CASE /\ account.token # 0
           /\ session' = [session EXCEPT ![s].step = "ready", ![s].token = account.token]
  <2>1. Sets(s, "ready", account.token, session[s].next)
    BY <1>1, <1>2, <1>4, WriteToken DEF Steps
  <2> QED
    BY <1>1, <1>2, <1>4, <2>1, Kept
<1> QED
  BY <1>3, <1>4 DEF ReadRenewed, Reread

LEMMA KeepsCallProvider ==
  ASSUME AccountInv, NEW s \in Sessions, CallProvider(s)
  PROVE  AccountInv'
<1>1. AccountTyped /\ UNCHANGED <<account, granted, accepted, revived, lost>>
  BY DEF AccountInv, CallProvider
<1>2. Step(s) = "ready" /\ lost \in BOOLEAN
  BY <1>1 DEF AccountTyped, CallProvider
<1>3. CASE GoesOn(s, "mark") /\ UNCHANGED stale
  <2>1. Sets(s, "mark", session[s].token, session[s].next)
    BY <1>1, <1>3, WriteStep DEF Steps
  <2>2. session[s].token # 0 /\ (session[s].token = account.token \/ s \in stale)
    BY <1>2 DEF AccountInv, TokensInv, Equipped, TokenInUse
  <2> QED
    BY <1>1, <1>2, <1>3, <2>1, <2>2, Kept
<1>4. CASE Done(s) /\ Forgets(s)
  <2>1. stale' \in {stale, stale \ {s}}
    BY <1>4 DEF Forgets
  <2> QED
    BY <1>1, <1>2, <1>4, <2>1, WriteFree, Kept
<1> QED
  BY <1>3, <1>4 DEF CallProvider

LEMMA KeepsListConnectorCards ==
  ASSUME AccountInv, NEW s \in Sessions, ListConnectorCards(s)
  PROVE  AccountInv'
<1>1. AccountTyped /\ UNCHANGED <<account, granted, accepted, stale, revived, lost>>
  BY DEF AccountInv, ListConnectorCards
<1>2. Step(s) = "idle" /\ lost \in BOOLEAN /\ GoesOn(s, "mirror")
  BY <1>1 DEF AccountTyped, ListConnectorCards, GoesOn
<1>3. Sets(s, "mirror", session[s].token, session[s].next)
  BY <1>1, <1>2, WriteStep DEF Steps
<1> QED
  BY <1>1, <1>2, <1>3, Kept

LEMMA KeepsReadMirror ==
  ASSUME AccountInv, NEW s \in Sessions, ReadMirror(s)
  PROVE  AccountInv'
<1>1. AccountTyped /\ UNCHANGED <<account, granted, accepted, stale, revived, lost>>
  BY DEF AccountInv, ReadMirror
<1>2. Step(s) = "mirror" /\ lost \in BOOLEAN /\ account.token \in Tokens
  BY <1>1, Typed DEF AccountTyped, ReadMirror
<1>3. CASE Done(s)
  BY <1>1, <1>2, <1>3, WriteFree, Kept
<1>4. CASE session' = [session EXCEPT ![s].step = "copy", ![s].token = account.token]
  <2>1. Sets(s, "copy", account.token, session[s].next)
    BY <1>1, <1>2, <1>4, WriteToken DEF Steps
  <2> QED
    BY <1>1, <1>2, <2>1, Kept
<1> QED
  BY <1>3, <1>4 DEF ReadMirror

LEMMA KeepsWriteMirror ==
  ASSUME AccountInv, NEW s \in Sessions, WriteMirror(s)
  PROVE  AccountInv'
<1>1. AccountTyped /\ UNCHANGED <<account, granted, accepted, stale, revived, lost>>
  BY DEF AccountInv, WriteMirror
<1>2. Step(s) = "copy" /\ lost \in BOOLEAN /\ Done(s)
  BY <1>1 DEF AccountTyped, WriteMirror
<1> QED
  BY <1>1, <1>2, WriteFree, Kept

LEMMA KeepsSessionDies ==
  ASSUME AccountInv, NEW s \in Sessions, SessionDies(s)
  PROVE  AccountInv'
<1>1. AccountTyped /\ UNCHANGED <<account, granted, accepted, revived>>
  BY DEF AccountInv, SessionDies
<1>2. /\ lost' = (lost \/ Step(s) = "save") /\ lost \in BOOLEAN /\ Done(s)
      /\ stale' \in {stale, stale \ {s}}
  BY <1>1 DEF AccountTyped, SessionDies, Forgets
<1>3. lost' \in BOOLEAN /\ (lost => lost') /\ (Step(s) = "save" => lost')
  BY <1>2
<1> QED
  BY <1>1, <1>2, <1>3, WriteFree, Kept

-----------------------------------------------------------------------------
(* The actions that bring or store a token, or change the row.              *)

LEMMA KeepsExchangeCode ==
  ASSUME AccountInv, NEW s \in Sessions, ExchangeCode(s)
  PROVE  AccountInv'
<1>1. AccountTyped /\ TokensInv /\ UNCHANGED <<account, stale, revived, lost>>
  BY DEF AccountInv, ExchangeCode
<1>2. granted \in Nat /\ granted + 1 \in Tokens /\ granted' = granted + 1
  BY <1>1, LinkedAssumption DEF AccountTyped, Tokens, ExchangeCode, LinkedAssumption
<1>3. Sets(s, "store", session[s].token, granted + 1)
  BY <1>1, <1>2, WriteNext DEF ExchangeCode, Steps
<1>4. TokensInv'
  BY <1>1, <1>2, <1>3, TokensMinted DEF ExchangeCode, Carries
<1>5. AccountTyped'
  BY <1>1, <1>2, <1>3 DEF AccountTyped, ExchangeCode, Sets
<1> QED
  BY <1>1, <1>4, <1>5 DEF AccountInv, ConnectedHasToken

LEMMA KeepsAskProvider ==
  ASSUME AccountInv, NEW s \in Sessions, AskProvider(s)
  PROVE  AccountInv'
<1>1. /\ AccountTyped /\ TokensInv /\ UNCHANGED <<account, stale, revived>>
      /\ Step(s) = "ask" /\ lost \in BOOLEAN
  BY DEF AccountInv, AskProvider, AccountTyped
<1>2. granted \in Nat /\ granted + 1 \in Tokens /\ granted' = granted + 1
  BY <1>1, LinkedAssumption DEF AccountTyped, Tokens, AskProvider, LinkedAssumption
<1>3. \/ accepted' = accepted \cup {granted + 1}
      \/ accepted' = (accepted \ {session[s].token}) \cup {granted + 1}
  BY DEF AskProvider
<1>4. CASE /\ session' = [session EXCEPT ![s].step = "save", ![s].next = granted + 1]
           /\ lost' = lost
  <2>1. Sets(s, "save", session[s].token, granted + 1)
    BY <1>1, <1>2, <1>4, WriteNext DEF Steps
  <2>2. TokensInv'
    BY <1>1, <1>2, <1>3, <1>4, <2>1, TokensMinted DEF Carries
  <2>3. AccountTyped'
    BY <1>1, <1>2, <1>3, <1>4, <2>1 DEF AccountTyped, Sets
  <2> QED
    BY <1>1, <2>2, <2>3 DEF AccountInv, ConnectedHasToken
<1>5. CASE GoesOn(s, "expire") /\ lost' = TRUE
  <2>1. Sets(s, "expire", session[s].token, session[s].next)
    BY <1>1, <1>5, WriteStep DEF Steps
  <2>2. TokensInv'
    BY <1>1, <1>2, <1>3, <1>5, <2>1, TokensMinted DEF Carries
  <2>3. AccountTyped'
    <3>1. lost' \in BOOLEAN
      BY <1>5
    <3>2. granted' \in Tokens /\ accepted' \subseteq 1..granted'
      <4>1. accepted \subseteq 1..granted
        BY <1>1 DEF AccountTyped
      <4>2. granted + 1 \in 1..granted + 1 /\ \A t \in 1..granted : t \in 1..granted + 1
        BY <1>2
      <4>3. accepted' \subseteq 1..granted + 1
        BY <1>3, <4>1, <4>2
      <4> QED
        BY <1>2, <4>3
    <3>3. UNCHANGED <<account, stale, revived>> /\ session' \in [Sessions -> Requests]
      BY <1>1, <2>1 DEF Sets
    <3> QED
      BY <1>1, <3>1, <3>2, <3>3 DEF AccountTyped
  <2> QED
    BY <1>1, <2>2, <2>3 DEF AccountInv, ConnectedHasToken
<1> QED
  BY <1>4, <1>5 DEF AskProvider

LEMMA KeepsStoreAccount ==
  ASSUME AccountInv, NEW s \in Sessions, StoreAccount(s)
  PROVE  AccountInv'
<1>1. /\ AccountTyped /\ TokensInv /\ UNCHANGED <<granted, accepted, lost>>
      /\ Step(s) = "store" /\ Outdates(s) /\ revived' = FALSE
      /\ account' = [status |-> "CONNECTED", token |-> session[s].next, due |-> FALSE]
  BY DEF AccountInv, StoreAccount
<1>2. session[s].next \in Tokens /\ 0 \in Tokens
  BY <1>1, Typed
<1>3. session[s].next # 0
  BY <1>1 DEF TokensInv, NewTokens, Carries, AccountTyped
<1>4. PICK step \in {"idle", "mirror"} : Sets(s, step, 0, 0)
  <2>1. CASE Done(s)
    BY <1>1, <2>1, WriteFree
  <2>2. CASE session' = [session EXCEPT ![s] =
               [step |-> "mirror", task |-> "none", token |-> 0, next |-> 0, shake |-> {}]]
    <3>1. "mirror" \in Steps /\ "none" \in Work /\ {} \in SUBSET Handshakes
      BY DEF Steps, Work
    <3>2. Sets(s, "mirror", 0, 0)
      BY <1>1, <1>2, <2>2, <3>1, WriteFrom
    <3> QED
      BY <3>2
  <2> QED
    BY <2>1, <2>2 DEF StoreAccount, Free
<1>5. TokensInv'
  BY <1>1, <1>4, TokensStored DEF Carries
<1>6. AccountTyped'
  BY <1>1, <1>2, <1>4 DEF AccountTyped, Outdates, Sets
<1> QED
  BY <1>1, <1>3, <1>5, <1>6 DEF AccountInv, ConnectedHasToken

LEMMA KeepsSaveTokens ==
  ASSUME AccountInv, NEW s \in Sessions, SaveTokens(s)
  PROVE  AccountInv'
<1>1. /\ AccountTyped /\ TokensInv /\ UNCHANGED <<granted, accepted, lost, revived>>
      /\ Step(s) = "save" /\ Outdates(s)
      /\ account' = [status |-> "CONNECTED", token |-> session[s].next, due |-> FALSE]
  BY DEF AccountInv, SaveTokens, Renewed
<1>2. session[s].next \in Tokens /\ session[s].token \in Tokens
  BY <1>1, Typed
<1>3. session[s].next # 0
  BY <1>1 DEF TokensInv, NewTokens, Carries, AccountTyped
<1>4. PICK step \in {"ready", "reread"}, token \in {session[s].token, session[s].next} :
        Sets(s, step, token, session[s].next) /\ (step = "ready" => token = session[s].next)
  <2>1. CASE channel = "TIKTOK"
    <3>1. session' = [session EXCEPT ![s].step = "ready", ![s].token = session[s].next]
      BY <2>1 DEF SaveTokens
    <3>2. Sets(s, "ready", session[s].next, session[s].next)
      BY <1>1, <1>2, <3>1, WriteToken DEF Steps
    <3> QED
      BY <3>2
  <2>2. CASE channel # "TIKTOK"
    <3>1. session' = [session EXCEPT ![s].step = "reread", ![s].token = @]
      BY <2>2 DEF SaveTokens
    <3>2. session' = [session EXCEPT ![s].step = "reread", ![s].token = session[s].token]
      BY <1>1, <3>1 DEF AccountTyped, Requests
    <3>3. Sets(s, "reread", session[s].token, session[s].next)
      BY <1>1, <1>2, <3>2, WriteToken DEF Steps
    <3> QED
      BY <3>3
  <2> QED
    BY <2>1, <2>2
<1>5. TokensInv'
  BY <1>1, <1>4, TokensStored DEF Carries
<1>6. AccountTyped'
  BY <1>1, <1>2, <1>4 DEF AccountTyped, Outdates, Sets
<1> QED
  BY <1>1, <1>3, <1>5, <1>6 DEF AccountInv, ConnectedHasToken

(* A step that changes the status alone.                                    *)
LEMMA Restated ==
  ASSUME AccountTyped, NEW status \in {"CONNECTED", "EXPIRED"},
         account' = [account EXCEPT !.status = status]
  PROVE  /\ account'.status = status /\ account'.token = account.token
         /\ account' \in [status : {"ABSENT", "CONNECTED", "EXPIRED", "DISCONNECTED"},
                          token : Tokens, due : BOOLEAN]
BY DEF AccountTyped

LEMMA KeepsMarkExpired ==
  ASSUME AccountInv, NEW s \in Sessions, MarkExpired(s)
  PROVE  AccountInv'
<1>1. /\ AccountTyped /\ TokensInv /\ UNCHANGED <<granted, accepted, lost, revived>>
      /\ Step(s) = "expire" /\ stale' = stale \ {s}
  BY DEF AccountInv, MarkExpired, Forgets
<1>2. Sets(s, "idle", 0, 0)
  BY <1>1, WriteFree DEF MarkExpired
<1>3. /\ account'.status = "EXPIRED" /\ account'.token = account.token
      /\ account' \in [status : {"ABSENT", "CONNECTED", "EXPIRED", "DISCONNECTED"},
                       token : Tokens, due : BOOLEAN]
  BY <1>1, Restated DEF MarkExpired
<1>4. TokensInv'
  BY <1>1, <1>2, <1>3, TokensStay
<1>5. AccountTyped'
  BY <1>1, <1>2, <1>3 DEF AccountTyped, Sets
<1> QED
  BY <1>3, <1>4, <1>5 DEF AccountInv, ConnectedHasToken

LEMMA KeepsMarkSynced ==
  ASSUME AccountInv, NEW s \in Sessions, MarkSynced(s)
  PROVE  AccountInv'
<1>1. /\ AccountTyped /\ TokensInv /\ UNCHANGED <<granted, accepted, lost>>
      /\ Step(s) = "mark" /\ stale' = stale \ {s}
      /\ revived' = (revived \/ (account.token = 0 /\ s \in stale)) /\ revived' \in BOOLEAN
  BY DEF AccountInv, MarkSynced, Forgets, AccountTyped
<1>2. Sets(s, "idle", 0, 0)
  BY <1>1, WriteFree DEF MarkSynced
<1>3. /\ account'.status = "CONNECTED" /\ account'.token = account.token
      /\ account' \in [status : {"ABSENT", "CONNECTED", "EXPIRED", "DISCONNECTED"},
                       token : Tokens, due : BOOLEAN]
  BY <1>1, Restated DEF MarkSynced
<1>4. TokensInv'
  BY <1>1, <1>2, <1>3, TokensStay
<1>5. AccountTyped'
  BY <1>1, <1>2, <1>3 DEF AccountTyped, Sets
<1>6. account.token = 0 => s \in stale
  BY <1>1 DEF TokensInv, Equipped, TokenInUse
<1>7. ConnectedHasToken'
  BY <1>1, <1>3, <1>6 DEF ConnectedHasToken
<1> QED
  BY <1>4, <1>5, <1>7 DEF AccountInv

LEMMA KeepsTokenNearsExpiry ==
  ASSUME AccountInv, TokenNearsExpiry
  PROVE  AccountInv'
<1>1. UNCHANGED <<granted, accepted, session, stale, revived, lost>>
  BY DEF TokenNearsExpiry
<1>2. /\ account'.status = account.status /\ account'.token = account.token
      /\ account' \in [status : {"ABSENT", "CONNECTED", "EXPIRED", "DISCONNECTED"},
                       token : Tokens, due : BOOLEAN]
  BY DEF AccountInv, AccountTyped, TokenNearsExpiry
<1>3. AccountTyped'
  BY <1>1, <1>2 DEF AccountInv, AccountTyped
<1>4. TokensInv'
  BY <1>1, <1>2 DEF AccountInv, TokensInv, NewTokens, Carries, Known, Equipped, TokenInUse,
     StoredTokenLive, Step
<1> QED
  BY <1>1, <1>2, <1>3, <1>4 DEF AccountInv, ConnectedHasToken

LEMMA KeepsDisconnect ==
  ASSUME AccountInv, Disconnect
  PROVE  AccountInv'
<1>1. /\ UNCHANGED <<granted, accepted, session, lost>> /\ revived' = FALSE
      /\ account' = [status |-> "DISCONNECTED", token |-> 0, due |-> FALSE]
      /\ stale' = stale \cup {s \in Sessions : Step(s) \in Holding}
  BY DEF Disconnect, Disconnected
<1>2. 0 \in 0..granted /\ 0 \in Tokens /\ \A t \in accepted : t # 0
  BY LinkedAssumption DEF AccountInv, AccountTyped, Tokens, LinkedAssumption
<1>3. AccountTyped'
  BY <1>1, <1>2 DEF AccountInv, AccountTyped
<1>4. NewTokens'
  BY <1>1, <1>2 DEF AccountInv, TokensInv, NewTokens, Carries, Step
<1>5. Known'
  BY <1>1, <1>2 DEF AccountInv, TokensInv, Known
<1>6. Equipped' /\ TokenInUse' /\ StoredTokenLive'
  BY <1>1 DEF AccountInv, TokensInv, Equipped, TokenInUse, StoredTokenLive, Holding, Step
<1> QED
  BY <1>1, <1>3, <1>4, <1>5, <1>6 DEF AccountInv, TokensInv, ConnectedHasToken

(* What changes none of these rows keeps the invariant. *)
LEMMA KeepsElsewhere ==
  ASSUME AccountInv,
         UNCHANGED <<account, granted, accepted, session, stale, revived, lost>>
  PROVE  AccountInv'
BY DEF AccountInv, AccountTyped, TokensInv, NewTokens, Carries, Known, Equipped, TokenInUse,
   StoredTokenLive, ConnectedHasToken, Step

LEMMA AccountStep ==
  ASSUME AccountInv, [LinkedNext]_linkedVars
  PROVE  AccountInv'
<1>1. CASE \/ \E h \in Handshakes : Connect(h) \/ HandshakeExpires(h)
           \/ ClearConnector \/ UNCHANGED linkedVars
  <2>1. UNCHANGED <<account, granted, accepted, session, stale, revived, lost>>
    BY <1>1 DEF Connect, HandshakeExpires, ClearConnector, linkedVars
  <2> QED
    BY <2>1, KeepsElsewhere
<1>2. CASE TokenNearsExpiry
  BY <1>2, KeepsTokenNearsExpiry
<1>3. CASE Disconnect
  BY <1>3, KeepsDisconnect
<1>4. ASSUME NEW s \in Sessions,
             \/ \E h \in Handshakes : FindHandshake(s, h)
             \/ ConsumeHandshake(s) \/ ExchangeCode(s) \/ ExchangeFails(s) \/ StoreAccount(s)
             \/ \E task \in {"sync", "fetch", "send"} : FindAccount(s, task)
             \/ ReadForRefresh(s) \/ AskProvider(s) \/ RefreshFails(s) \/ MarkExpired(s)
             \/ SaveTokens(s) \/ ReadRenewed(s) \/ CallProvider(s) \/ MarkSynced(s)
             \/ ListConnectorCards(s) \/ ReadMirror(s) \/ WriteMirror(s) \/ SessionDies(s)
      PROVE  AccountInv'
  <2>1. CASE \E h \in Handshakes : FindHandshake(s, h)
    BY <2>1, KeepsFindHandshake
  <2>2. CASE \E task \in {"sync", "fetch", "send"} : FindAccount(s, task)
    BY <2>2, KeepsFindAccount DEF Work
  <2>3. CASE ConsumeHandshake(s) \/ ExchangeCode(s) \/ ExchangeFails(s) \/ StoreAccount(s)
    BY <2>3, KeepsConsumeHandshake, KeepsExchangeCode, KeepsExchangeFails, KeepsStoreAccount
  <2>4. CASE ReadForRefresh(s) \/ AskProvider(s) \/ RefreshFails(s) \/ MarkExpired(s)
    BY <2>4, KeepsReadForRefresh, KeepsAskProvider, KeepsRefreshFails, KeepsMarkExpired
  <2>5. CASE SaveTokens(s) \/ ReadRenewed(s) \/ CallProvider(s) \/ MarkSynced(s)
    BY <2>5, KeepsSaveTokens, KeepsReadRenewed, KeepsCallProvider, KeepsMarkSynced
  <2>6. CASE ListConnectorCards(s) \/ ReadMirror(s) \/ WriteMirror(s) \/ SessionDies(s)
    BY <2>6, KeepsListConnectorCards, KeepsReadMirror, KeepsWriteMirror, KeepsSessionDies
  <2> QED
    BY <1>4, <2>1, <2>2, <2>3, <2>4, <2>5, <2>6
<1> QED
  BY <1>1, <1>2, <1>3, <1>4 DEF LinkedNext

-----------------------------------------------------------------------------
(* The states of the OAuth flow. *)

ShakeInv ==
  /\ handshake \in [Handshakes -> {"none", "open", "expired", "gone"}]
  /\ redeemed \in [Handshakes -> Nat]
  /\ StatesSpent

LEMMA ShakeStep ==
  ASSUME ShakeInv, [LinkedNext]_linkedVars
  PROVE  ShakeInv'
<1>1. CASE UNCHANGED <<handshake, redeemed>>
  BY <1>1 DEF ShakeInv, StatesSpent
<1>2. ASSUME NEW h \in Handshakes, Connect(h)
      PROVE  ShakeInv'
  BY <1>2 DEF ShakeInv, StatesSpent, Connect
<1>3. ASSUME NEW h \in Handshakes, HandshakeExpires(h)
      PROVE  ShakeInv'
  BY <1>3 DEF ShakeInv, StatesSpent, HandshakeExpires
<1>4. ASSUME NEW s \in Sessions, NEW h \in Handshakes, FindHandshake(s, h)
      PROVE  ShakeInv'
  BY <1>4 DEF ShakeInv, StatesSpent, FindHandshake
<1>5. ASSUME NEW s \in Sessions, ConsumeHandshake(s)
      PROVE  ShakeInv'
  <2>1. CASE UNCHANGED <<handshake, redeemed>>
    BY <1>1, <2>1
  <2>2. ASSUME NEW h \in session[s].shake, Consumable(h),
               handshake' = [handshake EXCEPT ![h] = "gone"],
               redeemed' = [redeemed EXCEPT ![h] = @ + 1]
        PROVE  ShakeInv'
    <3>1. CASE h \in Handshakes
      BY <2>2, <3>1 DEF ShakeInv, StatesSpent, Consumable
    <3>2. CASE h \notin Handshakes
      BY <2>2, <3>2 DEF ShakeInv, StatesSpent
    <3> QED
      BY <3>1, <3>2
  <2> QED
    BY <1>5, <2>1, <2>2 DEF ConsumeHandshake
<1>6. CASE \E s \in Sessions :
             \/ ExchangeCode(s) \/ ExchangeFails(s) \/ StoreAccount(s)
             \/ \E task \in {"sync", "fetch", "send"} : FindAccount(s, task)
             \/ ReadForRefresh(s) \/ AskProvider(s) \/ RefreshFails(s) \/ MarkExpired(s)
             \/ SaveTokens(s) \/ ReadRenewed(s) \/ CallProvider(s) \/ MarkSynced(s)
             \/ ListConnectorCards(s) \/ ReadMirror(s) \/ WriteMirror(s) \/ SessionDies(s)
  BY <1>1, <1>6 DEF ExchangeCode, ExchangeFails, StoreAccount, FindAccount, ReadForRefresh,
     AskProvider, RefreshFails, MarkExpired, SaveTokens, ReadRenewed, CallProvider, MarkSynced,
     ListConnectorCards, ReadMirror, WriteMirror, SessionDies
<1>7. CASE TokenNearsExpiry \/ Disconnect \/ ClearConnector \/ UNCHANGED linkedVars
  BY <1>1, <1>7 DEF TokenNearsExpiry, Disconnect, ClearConnector, linkedVars
<1> QED
  BY <1>2, <1>3, <1>4, <1>5, <1>6, <1>7 DEF LinkedNext

-----------------------------------------------------------------------------
(* The unified row holds a token that some session has read.               *)
UnifiedTyped ==
  /\ channel \in Channels /\ severed \in BOOLEAN
  /\ connector \in [status : {"ABSENT", "CONNECTED", "DISCONNECTED", "PENDING_APPROVAL"},
                    token : Tokens]

LEMMA UnifiedStep ==
  ASSUME UnifiedTyped, AccountInv, [LinkedNext]_linkedVars
  PROVE  UnifiedTyped'
<1> DEFINE Unified == [status : {"ABSENT", "CONNECTED", "DISCONNECTED", "PENDING_APPROVAL"},
                       token : Tokens]
<1>1. ASSUME NEW s \in Sessions, WriteMirror(s)
      PROVE  UnifiedTyped'
  <2>1. session[s].token \in Tokens
    BY DEF AccountInv, AccountTyped, Requests
  <2>2. [status |-> "CONNECTED", token |-> session[s].token] \in Unified
    BY <2>1
  <2> QED
    BY <1>1, <2>2 DEF WriteMirror, UnifiedTyped
<1>2. CASE ClearConnector
  <2>1. [status |-> "DISCONNECTED", token |-> 0] \in Unified
    BY LinkedAssumption DEF Tokens, LinkedAssumption
  <2> QED
    BY <1>2, <2>1 DEF ClearConnector, UnifiedTyped
<1>3. ASSUME NEW s \in Sessions, ExchangeFails(s)
      PROVE  UnifiedTyped'
  <2>1. [connector EXCEPT !.status = "PENDING_APPROVAL"] \in Unified
    BY DEF UnifiedTyped
  <2>2. connector' = connector \/ connector' = [connector EXCEPT !.status = "PENDING_APPROVAL"]
    BY <1>3 DEF ExchangeFails
  <2>3. connector' \in Unified
    BY <2>1, <2>2 DEF UnifiedTyped
  <2> QED
    BY <1>3, <2>3 DEF ExchangeFails, UnifiedTyped
<1>4. CASE UNCHANGED <<channel, severed, connector>>
  BY <1>4 DEF UnifiedTyped
<1>8. ASSUME NEW s \in Sessions, StoreAccount(s)
      PROVE  UnifiedTyped'
  BY <1>8 DEF StoreAccount, UnifiedTyped
<1>5. CASE \E h \in Handshakes : Connect(h) \/ HandshakeExpires(h)
                                 \/ \E s \in Sessions : FindHandshake(s, h)
  BY <1>4, <1>5 DEF Connect, HandshakeExpires, FindHandshake
<1>6. CASE \E s \in Sessions :
             \/ ConsumeHandshake(s) \/ ExchangeCode(s)
             \/ \E task \in {"sync", "fetch", "send"} : FindAccount(s, task)
             \/ ReadForRefresh(s) \/ AskProvider(s) \/ RefreshFails(s) \/ MarkExpired(s)
             \/ SaveTokens(s) \/ ReadRenewed(s) \/ CallProvider(s) \/ MarkSynced(s)
             \/ ListConnectorCards(s) \/ ReadMirror(s) \/ SessionDies(s)
  BY <1>4, <1>6 DEF ConsumeHandshake, ExchangeCode, FindAccount, ReadForRefresh,
     AskProvider, RefreshFails, MarkExpired, SaveTokens, ReadRenewed, CallProvider, MarkSynced,
     ListConnectorCards, ReadMirror, SessionDies
<1>7. CASE TokenNearsExpiry \/ Disconnect \/ UNCHANGED linkedVars
  BY <1>4, <1>7 DEF TokenNearsExpiry, Disconnect, linkedVars
<1> QED
  BY <1>1, <1>2, <1>3, <1>5, <1>6, <1>7, <1>8 DEF LinkedNext

-----------------------------------------------------------------------------

LEMMA Begins ==
  ASSUME LinkedInit
  PROVE  AccountInv /\ ShakeInv
<1>1. /\ account = [status |-> "ABSENT", token |-> 0, due |-> FALSE]
      /\ granted = 0 /\ accepted = {} /\ session = [s \in Sessions |-> Free]
      /\ stale = {} /\ revived = FALSE /\ lost = FALSE
  BY DEF LinkedInit
<1>2. /\ session \in [Sessions -> Requests]
      /\ \A s \in Sessions : session[s].step = "idle" /\ session[s].token = 0
  BY <1>1, FreeTyped
<1>3. 0 \in Tokens /\ 0 \in 0..granted
  BY <1>1, LinkedAssumption DEF Tokens, LinkedAssumption
<1>4. AccountTyped
  BY <1>1, <1>2, <1>3 DEF AccountTyped
<1>5. TokensInv /\ ConnectedHasToken
  BY <1>1, <1>2, <1>3 DEF TokensInv, NewTokens, Carries, Known, Equipped, TokenInUse,
     StoredTokenLive, ConnectedHasToken, Step
<1>6. ShakeInv
  BY DEF LinkedInit, ShakeInv, StatesSpent
<1> QED
  BY <1>4, <1>5, <1>6 DEF AccountInv

LEMMA Reachable == LinkedSpec => [](AccountInv /\ ShakeInv)
<1>1. LinkedInit => AccountInv /\ ShakeInv
  BY Begins
<1>2. (AccountInv /\ ShakeInv) /\ [LinkedNext]_linkedVars => (AccountInv /\ ShakeInv)'
  BY AccountStep, ShakeStep
<1> QED
  BY <1>1, <1>2, PTL DEF LinkedSpec

LEMMA ReachableUnified == LinkedSpec => []UnifiedTyped
<1>1. LinkedInit => UnifiedTyped
  <2>1. 0 \in Tokens
    BY LinkedAssumption DEF Tokens, LinkedAssumption
  <2>2. [status |-> "ABSENT", token |-> 0]
          \in [status : {"ABSENT", "CONNECTED", "DISCONNECTED", "PENDING_APPROVAL"},
               token : Tokens]
    BY <2>1
  <2> QED
    BY <2>2 DEF LinkedInit, UnifiedTyped
<1>2. UnifiedTyped /\ (AccountInv /\ ShakeInv) /\ [LinkedNext]_linkedVars => UnifiedTyped'
  BY UnifiedStep
<1> QED
  BY <1>1, <1>2, Reachable, PTL DEF LinkedSpec

(* A refresh rotates the token that it was given and hands out the one it   *)
(* stores: the account keeps a token that the provider will refresh, or the *)
(* session with its successor is about to save it (refreshAccessToken,      *)
(* saveRefreshedTokens).                                                    *)
THEOREM TokenSafe == LinkedSpec => []StoredTokenLive
<1>1. AccountInv /\ ShakeInv => StoredTokenLive
  BY DEF AccountInv, TokensInv
<1> QED
  BY <1>1, Reachable, PTL

(* A session calls the provider with the token of the row, or with one that *)
(* the row lost under it (getValidAccessToken and the requests after it).   *)
THEOREM UseSafe == LinkedSpec => []TokenInUse
<1>1. AccountInv /\ ShakeInv => TokenInUse
  BY DEF AccountInv, TokensInv
<1> QED
  BY <1>1, Reachable, PTL

(* CONNECTED without a token comes from a synchronization that outlived a   *)
(* disconnect, and from nothing else (markSynced, revokeConnection).        *)
THEOREM ConnectedSafe == LinkedSpec => []ConnectedHasToken
<1>1. AccountInv /\ ShakeInv => ConnectedHasToken
  BY DEF AccountInv
<1> QED
  BY <1>1, Reachable, PTL

(* Two callbacks with one state, however they overlap with each other and   *)
(* with its expiry: at most one exchanges its code (consumeOAuthState).     *)
THEOREM HandshakesSafe == LinkedSpec => []HandshakeOnce
<1>1. AccountInv /\ ShakeInv => HandshakeOnce
  BY DEF ShakeInv, StatesSpent, HandshakeOnce
<1> QED
  BY <1>1, Reachable, PTL

(* The account, its unified copy and the sessions that use it agree: the    *)
(* types, the token, its use, the status and the states together.           *)
THEOREM LinkedCorrect == LinkedSpec => []LinkedSafe
<1>1. AccountInv /\ ShakeInv /\ UnifiedTyped => LinkedTypeOK
  <2>1. Steps = Holding \cup {"idle", "consume", "exchange", "store", "refresh", "reread",
                              "mirror", "copy"}
    BY DEF Steps, Holding
  <2>2. Requests = [step : Holding \cup {"idle", "consume", "exchange", "store", "refresh",
                                         "reread", "mirror", "copy"},
                    task : {"none", "sync", "fetch", "send"}, token : Tokens, next : Tokens,
                    shake : SUBSET Handshakes]
    BY <2>1 DEF Requests, Work
  <2> QED
    BY <2>2 DEF AccountInv, ShakeInv, UnifiedTyped, AccountTyped, LinkedTypeOK
<1>2. AccountInv /\ ShakeInv /\ UnifiedTyped => LinkedSafe
  BY <1>1 DEF AccountInv, TokensInv, ShakeInv, StatesSpent, HandshakeOnce, LinkedSafe
<1> QED
  BY <1>2, Reachable, ReachableUnified, PTL
=============================================================================
