------------------------ MODULE ConnectorSync_proofs ------------------------
(***************************************************************************)
(* TLAPS proofs about ConnectorSync, for every set of callers, requests,   *)
(* states, shops and items, every scenario and every bound.                *)
(***************************************************************************)
EXTENDS ConnectorSync, SumTheorems, TLAPS

-----------------------------------------------------------------------------
(* The type invariant in parts. *)

Steps == {"idle", "read", "park", "refresh", "save", "expire", "fetch", "items",
          "write", "record", "error", "failed"}
Verdicts == {"EXPIRED", "ERROR", "REAUTH_REQUIRED"}
ToggleStates == {"IDLE", "ACTIVE", "ERROR", "DISABLED"}

Rows == [status : Statuses, token : OwnTokens, readable : BOOLEAN, shop : Shops \cup {NoShop}]
Reqs == [step : {"idle", "consume", "exchange", "store"}, state : SUBSET States,
         shop : Shops \cup {NoShop}, token : OwnTokens]
Calls == [step : Steps, kind : Kinds, token : OwnTokens, shop : Shops \cup {NoShop},
          next : OwnTokens, verdict : Verdicts]
Batches == [todo : SUBSET Items, item : SUBSET Items, imported : Nat, known : Nat,
            failed : Nat]

ProviderTyped ==
  /\ issued \in 0..MaxTokens
  /\ owner \in [Tokens -> Shops \cup {NoShop}]
  /\ grants \subseteq 1..issued /\ aged \subseteq 1..issued
  /\ revoked \subseteq 1..issued /\ lost \subseteq 1..issued

RowTyped == row \in Rows

ReqTyped ==
  /\ oauth \in [States -> {"none", "live", "stale", "gone"}]
  /\ req \in [Requests -> Reqs]

CallTyped == call \in [Callers -> Calls]

ImportTyped ==
  /\ batch \in [Callers -> Batches]
  /\ content \in [Items -> {"none", "IMPORTED", "FAILED"}]
  /\ unified \in Nat
  /\ framework \in [state : ToggleStates, enabled : BOOLEAN, imported : Nat]
  /\ toggle \in [pending : BOOLEAN, enabled : BOOLEAN, overtaken : BOOLEAN,
                 state : ToggleStates]
  /\ dropped \in BOOLEAN

HistoryTyped ==
  /\ cap \in Scenarios /\ active \in BOOLEAN
  /\ crossed \in [tokens : BOOLEAN, status : BOOLEAN]
  /\ redeemed \in [States -> Nat] /\ mishaps \in Nat /\ keys \in Nat

Typed == ProviderTyped /\ RowTyped /\ ReqTyped /\ CallTyped /\ ImportTyped /\ HistoryTyped

LEMMA TypeParts == TypeOK <=> Typed
BY DEF TypeOK, Typed, ProviderTyped, RowTyped, ReqTyped, CallTyped, ImportTyped,
       HistoryTyped, Rows, Reqs, Calls, Batches, Steps, Verdicts, ToggleStates

-----------------------------------------------------------------------------
(* What the statements write. *)

LEMMA Empty ==
  ASSUME ProviderTyped
  PROVE  NoCall \in Calls /\ NoReq \in Reqs /\ NoBatch \in Batches
BY ConstantsAssumption
   DEF ProviderTyped, NoCall, Calls, NoReq, Reqs, NoBatch, Batches, Steps, Kinds,
     Verdicts,
       OwnTokens, ConstantsAssumption

LEMMA CallSet ==
  ASSUME CallTyped, NEW c \in Callers, NEW r \in Calls, call' = [call EXCEPT ![c] = r]
  PROVE  /\ call' \in [Callers -> Calls]
         /\ \A d \in Callers : call'[d] = IF d = c THEN r ELSE call[d]
BY DEF CallTyped

LEMMA CallGoes ==
  ASSUME CallTyped, NEW c \in Callers, NEW step \in Steps, Goes(c, step)
  PROVE  /\ call' \in [Callers -> Calls]
         /\ \A d \in Callers \ {c} : call'[d] = call[d]
         /\ call'[c] = [call[c] EXCEPT !.step = step]
         /\ call'[c].step = step /\ call'[c].kind = call[c].kind
         /\ call'[c].token = call[c].token /\ call'[c].next = call[c].next
         /\ call'[c].verdict = call[c].verdict
<1>1. call[c] \in Calls /\ call \in [Callers -> Calls]
  BY DEF CallTyped
<1>2. call' = [call EXCEPT ![c] = [call[c] EXCEPT !.step = step]]
  BY <1>1 DEF Goes
<1>3. [call[c] EXCEPT !.step = step] \in Calls
  BY <1>1 DEF Calls
<1> HIDE DEF Calls
<1>4. call' \in [Callers -> Calls] /\ \A d \in Callers \ {c} : call'[d] = call[d]
  BY <1>1, <1>2, <1>3
<1>5. call'[c] = [call[c] EXCEPT !.step = step]
  BY <1>1, <1>2
<1> QED
  BY <1>1, <1>4, <1>5 DEF Calls

LEMMA CallFails ==
  ASSUME ProviderTyped, CallTyped, NEW c \in Callers, NEW v \in Verdicts, Fails(c, v)
  PROVE  /\ call' \in [Callers -> Calls]
         /\ \A d \in Callers \ {c} : call'[d] = call[d]
         /\ call'[c].step \in {"idle", "error"} /\ call'[c].token = 0
         /\ call'[c].step = "error" => call'[c].kind = call[c].kind /\ call'[c].verdict = v
<1> DEFINE r == IF call[c].kind = "worker" THEN NoCall
                ELSE [NoCall EXCEPT !.step = "error", !.kind = call[c].kind, !.verdict = v]
<1>1. call[c] \in Calls
  BY DEF CallTyped
<1>2. /\ r \in Calls
      /\ r.step \in {"idle", "error"} /\ r.token = 0
      /\ r.step = "error" => r.kind = call[c].kind /\ r.verdict = v
  BY <1>1, Empty DEF NoCall, Calls, Steps
<1>3. call' = [call EXCEPT ![c] = r]
  BY DEF Fails
<1> HIDE DEF r
<1> QED
  BY <1>2, <1>3, CallSet

LEMMA CallHolds ==
  ASSUME RowTyped, CallTyped, NEW c \in Callers, NEW step \in Steps, Holding(c, step)
  PROVE  /\ call' \in [Callers -> Calls]
         /\ \A d \in Callers \ {c} : call'[d] = call[d]
         /\ call'[c].step = step /\ call'[c].token = row.token
         /\ call'[c].kind = call[c].kind /\ call'[c].verdict = call[c].verdict
<1> DEFINE r == [step |-> step, kind |-> call[c].kind, token |-> row.token, shop |-> row.shop,
                 next |-> call[c].next, verdict |-> call[c].verdict]
<1>1. call[c] \in Calls /\ call \in [Callers -> Calls] /\ row \in Rows
  BY DEF CallTyped, RowTyped
<1>2. call' = [call EXCEPT ![c] = r]
  <2> DEFINE f == [call EXCEPT ![c].step = step]
             g == [f EXCEPT ![c].token = row.token]
             h == [g EXCEPT ![c].shop = row.shop]
  <2>1. /\ f \in [Callers -> Calls]
        /\ \A d \in Callers : f[d] = IF d = c THEN [call[c] EXCEPT !.step = step] ELSE call[d]
    BY <1>1 DEF Calls
  <2>2. /\ g \in [Callers -> Calls]
        /\ \A d \in Callers : g[d] = IF d = c THEN [f[c] EXCEPT !.token = row.token] ELSE f[d]
    BY <1>1, <2>1 DEF Calls, Rows
  <2>3. /\ h \in [Callers -> Calls]
        /\ \A d \in Callers : h[d] = IF d = c THEN [g[c] EXCEPT !.shop = row.shop] ELSE g[d]
    BY <1>1, <2>2 DEF Calls, Rows
  <2>4. h[c] = r
    BY <1>1, <2>1, <2>2, <2>3 DEF Calls
  <2>5. call' = h
    BY DEF Holding
  <2> HIDE DEF f, g, h
  <2> QED
    BY <1>1, <2>1, <2>2, <2>3, <2>4, <2>5
<1>3. r \in Calls
  BY <1>1 DEF Calls, Rows
<1>4. /\ r.step = step /\ r.token = row.token
      /\ r.kind = call[c].kind /\ r.verdict = call[c].verdict
  OBVIOUS
<1> HIDE DEF r
<1> QED
  BY <1>2, <1>3, <1>4, CallSet

LEMMA Issued ==
  ASSUME ProviderTyped, NEW shop \in Shops \cup {NoShop}, Issues(shop)
  PROVE  /\ issued' = issued + 1 /\ issued' \in 1..MaxTokens
         /\ owner' \in [Tokens -> Shops \cup {NoShop}]
         /\ owner'[issued'] = shop
         /\ \A t \in 1..issued : owner'[t] = owner[t]
         /\ OwnTokens \subseteq OwnTokens'
         /\ Reqs \subseteq Reqs' /\ Calls \subseteq Calls' /\ Rows \subseteq Rows'
<1>1. issued \in Nat /\ issued + 1 \in 1..MaxTokens /\ issued' = issued + 1
  BY ConstantsAssumption DEF ProviderTyped, Issues, ConstantsAssumption
<1>2. issued + 1 \in Tokens /\ 1..issued \subseteq Tokens
  BY <1>1, ConstantsAssumption DEF Tokens, ConstantsAssumption
<1>3. owner' = [owner EXCEPT ![issued + 1] = shop]
  BY DEF Issues
<1>4. /\ owner' \in [Tokens -> Shops \cup {NoShop}]
      /\ owner'[issued'] = shop
      /\ \A t \in 1..issued : owner'[t] = owner[t]
  BY <1>1, <1>2, <1>3 DEF ProviderTyped
<1>5. OwnTokens \subseteq OwnTokens'
  BY <1>1 DEF OwnTokens
<1>6. Reqs \subseteq Reqs' /\ Calls \subseteq Calls' /\ Rows \subseteq Rows'
  BY <1>5 DEF Reqs, Calls, Rows
<1> QED
  BY <1>1, <1>4, <1>5, <1>6

LEMMA Tally ==
  ASSUME ImportTyped, NEW c \in Callers, NEW i \in Items,
         NEW field \in {"imported", "known", "failed"}, Tallied(c, i, field)
  PROVE  /\ batch' \in [Callers -> Batches]
         /\ \A d \in Callers \ {c} : batch'[d] = batch[d]
         /\ batch'[c].todo \subseteq batch[c].todo
         /\ batch'[c].imported = IF field = "imported" THEN batch[c].imported + 1
                                 ELSE batch[c].imported
<1>1. batch \in [Callers -> Batches] /\ batch[c] \in Batches
  BY DEF ImportTyped
<1> DEFINE b == [[batch[c] EXCEPT ![field] = @ + 1]
                   EXCEPT !.todo = @ \ {i}, !.item = {}]
<1>2. batch' = [batch EXCEPT ![c] = b]
  BY <1>1 DEF Tallied
<1> DEFINE a == [batch[c] EXCEPT ![field] = @ + 1]
<1>3. /\ a \in Batches /\ a.todo = batch[c].todo
      /\ a.imported = IF field = "imported" THEN batch[c].imported + 1 ELSE batch[c].imported
  <2>1. CASE field = "imported"
    BY <1>1, <2>1 DEF Batches
  <2>2. CASE field = "known"
    BY <1>1, <2>2 DEF Batches
  <2>3. CASE field = "failed"
    BY <1>1, <2>3 DEF Batches
  <2> QED
    BY <2>1, <2>2, <2>3
<1>4. b = [a EXCEPT !.todo = @ \ {i}, !.item = {}]
  OBVIOUS
<1> HIDE DEF a
<1>5. b \in Batches /\ b.todo = a.todo \ {i} /\ b.imported = a.imported
  BY <1>3, <1>4 DEF Batches
<1> HIDE DEF b
<1> QED
  BY <1>1, <1>2, <1>3, <1>5

LEMMA Record ==
  ASSUME ImportTyped, NEW state \in {"ACTIVE", "ERROR"}, NEW n \in Nat, Recorded(state, n)
  PROVE  /\ framework' \in [state : ToggleStates, enabled : BOOLEAN, imported : Nat]
         /\ framework'.state = state /\ framework'.imported = framework.imported + n
         /\ toggle' \in [pending : BOOLEAN, enabled : BOOLEAN, overtaken : BOOLEAN,
                         state : ToggleStates]
         /\ toggle'.pending = toggle.pending
         /\ toggle'.overtaken = (toggle.overtaken \/ toggle.pending)
<1>1. /\ framework' = [framework EXCEPT !.state = state, !.imported = @ + n]
      /\ framework \in [state : ToggleStates, enabled : BOOLEAN, imported : Nat]
  BY DEF ImportTyped, Recorded
<1>2. /\ framework' \in [state : ToggleStates, enabled : BOOLEAN, imported : Nat]
      /\ framework'.state = state /\ framework'.imported = framework.imported + n
  <2> DEFINE f == [framework EXCEPT !.state = state]
  <2>1. f \in [state : ToggleStates, enabled : BOOLEAN, imported : Nat] /\ f.state = state
        /\ f.imported = framework.imported
    BY <1>1 DEF ToggleStates
  <2>2. framework' = [f EXCEPT !.imported = f.imported + n]
    BY <1>1
  <2> HIDE DEF f
  <2> QED
    BY <2>1, <2>2
<1>3. /\ toggle' = [toggle EXCEPT !.overtaken = toggle.overtaken \/ toggle.pending]
      /\ toggle \in [pending : BOOLEAN, enabled : BOOLEAN, overtaken : BOOLEAN,
                     state : ToggleStates]
  BY DEF ImportTyped, Recorded
<1>4. /\ toggle' \in [pending : BOOLEAN, enabled : BOOLEAN, overtaken : BOOLEAN,
                      state : ToggleStates]
      /\ toggle'.pending = toggle.pending
      /\ toggle'.overtaken = (toggle.overtaken \/ toggle.pending)
  BY <1>3
<1> QED
  BY <1>2, <1>4

LEMMA RowStatus ==
  ASSUME RowTyped, NEW status \in Statuses, row' = StatusSet(status)
  PROVE  /\ row' \in Rows
         /\ row'.token = row.token /\ row'.shop = row.shop /\ row'.readable = row.readable
         /\ row'.status = IF Exists THEN status ELSE row.status
BY DEF RowTyped, Rows, StatusSet, Exists


-----------------------------------------------------------------------------
(* A call that moves on, and is not about to save a pair afterwards, leaves *)
(* what is known of tokens in place; a pair it drops is recorded as lost.   *)
LEMMA CallerMoves ==
  ASSUME IInv, NEW c \in Callers,
         UNCHANGED <<issued, owner, grants, revoked, req, active, crossed>>,
         lost \subseteq lost', row'.token = row.token, row'.shop = row.shop,
         \A d \in Callers \ {c} : call'[d] = call[d],
         call[c].step = "save" => call[c].token \in lost',
         call'[c].step # "save",
         call'[c].token \in {call[c].token, row.token, 0}
  PROVE  /\ NewPairs' /\ RefreshTokenLive' /\ TokenFollowsAccount'
         /\ call'[c].step # "refresh" => RefreshesOwn'
<1>1. \A t \in grants \cup revoked : t # 0
  BY TypeParts DEF IInv, Typed, ProviderTyped
<1>2. NewPairs'
  BY <1>1 DEF IInv, NewPairs, At
<1>3. RefreshTokenLive'
  BY DEF IInv, RefreshTokenLive, At
<1>4. TokenFollowsAccount'
  BY DEF IInv, TokenFollowsAccount
<1>5. ASSUME call'[c].step # "refresh"
      PROVE  RefreshesOwn'
  BY <1>5 DEF IInv, RefreshesOwn, At
<1> QED
  BY <1>2, <1>3, <1>4, <1>5

(* The statuses of a step that leaves the row and what crossed it alone.    *)
LEMMA CallerRests ==
  ASSUME IInv, NEW c \in Callers, UNCHANGED <<cap, row, crossed>>,
         \A d \in Callers \ {c} : call'[d] = call[d],
         call'[c].step = "idle" \/ (call[c].step # "idle" /\ call'[c].kind = call[c].kind)
  PROVE  MarketsUsable' /\ StatusFollowsToken'
BY DEF IInv, MarketsUsable, StatusFollowsToken, Credential, At


-----------------------------------------------------------------------------
(* A call of the provider that rotates a pair. *)
Rotates(c) ==
  /\ call[c].token \in grants
  /\ Issues(owner[call[c].token])
  /\ grants' = (grants \ {call[c].token}) \cup {issued + 1}

LEMMA CallTwo ==
  ASSUME CallTyped, NEW c \in Callers, NEW step \in Steps, NEW next,
         call' = [call EXCEPT ![c].step = step, ![c].next = next]
  PROVE  call' = [call EXCEPT ![c] =
                    [step |-> step, kind |-> call[c].kind, token |-> call[c].token,
                     shop |-> call[c].shop, next |-> next, verdict |-> call[c].verdict]]
<1> DEFINE r == [step |-> step, kind |-> call[c].kind, token |-> call[c].token,
                 shop |-> call[c].shop, next |-> next, verdict |-> call[c].verdict]
           f == [call EXCEPT ![c].step = step]
           g == [f EXCEPT ![c].next = next]
<1>1. call[c] \in Calls /\ call \in [Callers -> Calls]
  BY DEF CallTyped
<1>2. /\ f \in [Callers -> Calls]
      /\ \A d \in Callers : f[d] = IF d = c THEN [call[c] EXCEPT !.step = step] ELSE call[d]
  BY <1>1 DEF Calls
<1>3. /\ DOMAIN g = Callers /\ g \in [Callers -> {g[d] : d \in Callers}]
      /\ \A d \in Callers : g[d] = IF d = c THEN [f[c] EXCEPT !.next = next] ELSE f[d]
  BY <1>2 DEF Calls
<1>4. g[c] = r
  BY <1>1, <1>2, <1>3 DEF Calls
<1>5. call' = g
  OBVIOUS
<1> HIDE DEF f, g, r
<1>6. call' = [call EXCEPT ![c] = r]
  BY <1>1, <1>2, <1>3, <1>4, <1>5
<1> QED
  BY <1>6 DEF r

LEMMA Rotated ==
  ASSUME ProviderTyped, NEW c \in Callers, Rotates(c)
  PROVE  /\ issued' = issued + 1 /\ issued' \in 1..MaxTokens /\ issued \in Nat
         /\ owner' \in [Tokens -> Shops \cup {NoShop}]
         /\ owner'[issued'] = owner[call[c].token]
         /\ \A t \in 1..issued : owner'[t] = owner[t]
         /\ Reqs \subseteq Reqs' /\ Calls \subseteq Calls' /\ Rows \subseteq Rows'
         /\ grants' = (grants \ {call[c].token}) \cup {issued'}
         /\ call[c].token \in 1..issued
<1>1. call[c].token \in 1..issued /\ issued \in Nat
  <2>1. call[c].token \in grants
    BY DEF Rotates
  <2>2. grants \subseteq 1..issued /\ issued \in 0..MaxTokens /\ MaxTokens \in Nat
    BY ConstantsAssumption DEF ProviderTyped, ConstantsAssumption
  <2>3. \A t \in grants : t \in 1..issued
    BY <2>2
  <2>4. issued \in Nat
    BY <2>2
  <2> QED
    BY <2>1, <2>3, <2>4
<1>2. call[c].token \in Tokens
  BY <1>1, ConstantsAssumption DEF ProviderTyped, Tokens, ConstantsAssumption
<1>3. owner[call[c].token] \in Shops \cup {NoShop}
  BY <1>2 DEF ProviderTyped
<1>4. /\ Issues(owner[call[c].token])
      /\ grants' = (grants \ {call[c].token}) \cup {issued + 1}
  BY DEF Rotates
<1> QED
  BY <1>1, <1>3, <1>4, Issued

(* The call that rotated a pair holds the only copy of the new one, or has  *)
(* lost it.                                                                 *)
LEMMA CallerRotates ==
  ASSUME IInv, NEW c \in Callers, Rotates(c), call[c].step = "refresh",
         UNCHANGED <<row, revoked, req, active, crossed>>,
         \A d \in Callers \ {c} : call'[d] = call[d],
         call'[c].token = call[c].token,
         \/ call'[c].step = "save" /\ call'[c].next = issued + 1 /\ lost' = lost
         \/ call'[c].step = "expire" /\ lost' = lost \cup {call[c].token}
  PROVE  NewPairs' /\ RefreshTokenLive' /\ TokenFollowsAccount' /\ RefreshesOwn'
<1>1. /\ ProviderTyped /\ row.token \in 0..issued /\ grants \cup revoked \subseteq 1..issued
      /\ \A d \in Callers : call[d].token \in 0..issued
      /\ \A q \in Requests : req[q].token \in 0..issued
  BY TypeParts DEF IInv, Typed, ProviderTyped, RowTyped, ReqTyped, CallTyped, Rows,
    Reqs,
       Calls, OwnTokens
<1>2. /\ issued' = issued + 1 /\ issued \in Nat /\ owner'[issued'] = owner[call[c].token]
      /\ \A t \in 1..issued : owner'[t] = owner[t]
      /\ grants' = (grants \ {call[c].token}) \cup {issued'}
      /\ call[c].token \in 1..issued
  BY <1>1, Rotated
<1>3. \A d \in Callers : At(d, "save") =>
        d # c /\ call[d].next \in 1..issued /\ call[d].next \in grants' \cup revoked
  BY <1>1, <1>2 DEF IInv, NewPairs, At
<1>4. \A d \in Callers : At(d, "save")' =>
        \/ d = c /\ call'[d].next = issued' /\ lost' = lost
        \/ d # c /\ At(d, "save") /\ call'[d].next = call[d].next
  BY <1>2 DEF At
<1>5. \A d \in Callers : call'[d].token = call[d].token
  OBVIOUS
<1>6. \A q \in Requests : req[q].step = "store" =>
        /\ req[q].token \in grants' \cup revoked /\ req[q].token \in 1..issued
  BY <1>1, <1>2 DEF IInv, NewPairs
<1>7. NewPairs'
  <2>1. ASSUME NEW d \in Callers, At(d, "save")'
        PROVE  /\ call'[d].next \in grants' \cup revoked' /\ call'[d].next # row'.token
               /\ \A e \in Callers :
                    /\ call'[e].token # call'[d].next
                    /\ e # d /\ At(e, "save")' => call'[e].next # call'[d].next
               /\ \A q \in Requests : req'[q].step = "store" => req'[q].token # call'[d].next
    <3>1. CASE d = c
      BY <1>1, <1>2, <1>3, <1>4, <1>5, <2>1, <3>1 DEF At
    <3>2. CASE d # c
      BY <1>1, <1>2, <1>3, <1>4, <1>5, <2>1, <3>2 DEF IInv, NewPairs
    <3> QED
      BY <3>1, <3>2
  <2>2. ASSUME NEW q \in Requests, req'[q].step = "store"
        PROVE  /\ req'[q].token \in grants' \cup revoked' /\ req'[q].token # row'.token
               /\ owner'[req'[q].token] = req'[q].shop
               /\ \A d \in Callers : call'[d].token # req'[q].token
               /\ \A u \in Requests :
                    u # q /\ req'[u].step = "store" => req'[u].token # req'[q].token
    BY <1>2, <1>5, <1>6, <2>2 DEF IInv, NewPairs
  <2> QED
    BY <2>1, <2>2 DEF NewPairs
<1>8. RefreshTokenLive'
  <2>1. CASE row.token = call[c].token
    BY <2>1 DEF RefreshTokenLive, At
  <2>2. CASE row.token # call[c].token
    BY <1>2, <2>2 DEF IInv, RefreshTokenLive, At
  <2> QED
    BY <2>1, <2>2
<1>9. TokenFollowsAccount'
  BY <1>1, <1>2 DEF IInv, TokenFollowsAccount
<1>10. RefreshesOwn'
  <2>1. ASSUME NEW d \in Callers, call'[d].step \in {"refresh", "save"}
        PROVE  /\ call'[d].token # 0
               /\ ~crossed'.tokens =>
                    /\ active' /\ row'.shop = owner'[call'[d].token]
                    /\ At(d, "save")' => owner'[call'[d].next] = owner'[call'[d].token]
    <3>1. CASE d = c
      BY <1>2, <1>5, <2>1, <3>1 DEF IInv, RefreshesOwn, At
    <3>2. CASE d # c
      <4>1. call[d].token \in 1..issued /\ (At(d, "save") => call[d].next \in 1..issued)
        BY <1>1, <1>3, <2>1, <3>2 DEF IInv, RefreshesOwn
      <4> QED
        BY <1>2, <1>4, <2>1, <3>2, <4>1 DEF IInv, RefreshesOwn, At
    <3> QED
      BY <3>1, <3>2
  <2> QED
    BY <2>1 DEF RefreshesOwn
<1> QED
  BY <1>7, <1>8, <1>9, <1>10


LEMMA TypeNext == Typed' => TypeOK'
BY DEF TypeOK, Typed, ProviderTyped, RowTyped, ReqTyped, CallTyped, ImportTyped,
       HistoryTyped, Rows, Reqs, Calls, Batches, Steps, Verdicts, ToggleStates

LEMMA InvIssue ==
  ASSUME IInv, NEW s \in States, Issue(s)
  PROVE  IInv'
<1>1. Typed
  BY TypeParts DEF IInv
<1>2. ProviderTyped'
  BY <1>1 DEF Typed, ProviderTyped, provider, imports, Issue
<1>3. RowTyped'
  BY <1>1 DEF Typed, RowTyped, provider, imports, Issue, Rows, OwnTokens
<1>4. ReqTyped'
  BY <1>1 DEF Typed, ReqTyped, provider, imports, Issue, Reqs, OwnTokens
<1>5. CallTyped'
  BY <1>1 DEF Typed, CallTyped, provider, imports, Issue, Calls, OwnTokens
<1>6. ImportTyped'
  BY <1>1 DEF Typed, ImportTyped, provider, imports, Issue
<1>7. HistoryTyped'
  BY <1>1 DEF Typed, HistoryTyped, provider, imports, Issue
<1>8. TypeOK'
  BY <1>2, <1>3, <1>4, <1>5, <1>6, <1>7, TypeNext DEF Typed
<1>9. SpentStates'
  BY <1>1 DEF IInv, SpentStates, provider, imports, Issue
<1>10. NewPairs'
  BY <1>1 DEF IInv, NewPairs, provider, imports, Issue, At
<1>11. RefreshTokenLive'
  BY <1>1 DEF IInv, RefreshTokenLive, provider, imports, Issue, At
<1>12. TokenFollowsAccount'
  BY <1>1 DEF IInv, TokenFollowsAccount, provider, imports, Issue
<1>13. RefreshesOwn'
  BY <1>1 DEF IInv, RefreshesOwn, provider, imports, Issue, At
<1>14. StatusFollowsToken'
  BY <1>1
     DEF IInv, StatusFollowsToken, provider, imports, Issue, Credential,
         MarketsUsable
<1>15. MarketsUsable'
  BY <1>1 DEF IInv, MarketsUsable, provider, imports, Issue, Credential, At
<1>16. KeysHold'
  BY <1>1 DEF IInv, KeysHold, provider, imports, Issue, At
<1>17. TogglesSeen'
  BY <1>1 DEF IInv, TogglesSeen, provider, imports, Issue
<1> QED
  BY <1>8, <1>9, <1>10, <1>11, <1>12, <1>13, <1>14, <1>15, <1>16, <1>17 DEF IInv

LEMMA InvStateExpires ==
  ASSUME IInv, NEW s \in States, StateExpires(s)
  PROVE  IInv'
<1>1. Typed
  BY TypeParts DEF IInv
<1>2. ProviderTyped'
  BY <1>1 DEF Typed, ProviderTyped, provider, imports, StateExpires
<1>3. RowTyped'
  BY <1>1 DEF Typed, RowTyped, provider, imports, StateExpires, Rows, OwnTokens
<1>4. ReqTyped'
  BY <1>1 DEF Typed, ReqTyped, provider, imports, StateExpires, Reqs, OwnTokens
<1>5. CallTyped'
  BY <1>1 DEF Typed, CallTyped, provider, imports, StateExpires, Calls, OwnTokens
<1>6. ImportTyped'
  BY <1>1 DEF Typed, ImportTyped, provider, imports, StateExpires
<1>7. HistoryTyped'
  BY <1>1 DEF Typed, HistoryTyped, provider, imports, StateExpires
<1>8. TypeOK'
  BY <1>2, <1>3, <1>4, <1>5, <1>6, <1>7, TypeNext DEF Typed
<1>9. SpentStates'
  BY <1>1
     DEF IInv, SpentStates, provider, imports, StateExpires, At, Typed,
         ProviderTyped, RowTyped, ReqTyped, CallTyped, HistoryTyped, Rows, Reqs,
         Calls, OwnTokens
<1>10. NewPairs'
  BY <1>1 DEF IInv, NewPairs, provider, imports, StateExpires, At
<1>11. RefreshTokenLive'
  BY <1>1 DEF IInv, RefreshTokenLive, provider, imports, StateExpires, At
<1>12. TokenFollowsAccount'
  BY <1>1 DEF IInv, TokenFollowsAccount, provider, imports, StateExpires
<1>13. RefreshesOwn'
  BY <1>1 DEF IInv, RefreshesOwn, provider, imports, StateExpires, At
<1>14. StatusFollowsToken'
  BY <1>1
     DEF IInv, StatusFollowsToken, provider, imports, StateExpires, Credential,
         MarketsUsable
<1>15. MarketsUsable'
  BY <1>1 DEF IInv, MarketsUsable, provider, imports, StateExpires, Credential, At
<1>16. KeysHold'
  BY <1>1 DEF IInv, KeysHold, provider, imports, StateExpires, At
<1>17. TogglesSeen'
  BY <1>1 DEF IInv, TogglesSeen, provider, imports, StateExpires
<1> QED
  BY <1>8, <1>9, <1>10, <1>11, <1>12, <1>13, <1>14, <1>15, <1>16, <1>17 DEF IInv

LEMMA InvFindState ==
  ASSUME IInv, NEW q \in Requests, NEW s \in States, FindState(q, s)
  PROVE  IInv'
<1>1. Typed
  BY TypeParts DEF IInv
<1>2. ProviderTyped'
  BY <1>1 DEF Typed, ProviderTyped, provider, imports, FindState
<1>3. RowTyped'
  BY <1>1 DEF Typed, RowTyped, provider, imports, FindState, Rows, OwnTokens
<1>4. ReqTyped'
  BY <1>1 DEF Typed, ReqTyped, provider, imports, FindState, Reqs, OwnTokens
<1>5. CallTyped'
  BY <1>1 DEF Typed, CallTyped, provider, imports, FindState, Calls, OwnTokens
<1>6. ImportTyped'
  BY <1>1 DEF Typed, ImportTyped, provider, imports, FindState
<1>7. HistoryTyped'
  BY <1>1 DEF Typed, HistoryTyped, provider, imports, FindState
<1>8. TypeOK'
  BY <1>2, <1>3, <1>4, <1>5, <1>6, <1>7, TypeNext DEF Typed
<1>9. SpentStates'
  BY <1>1
     DEF IInv, SpentStates, provider, imports, FindState, At, Typed,
         ProviderTyped, RowTyped, ReqTyped, CallTyped, HistoryTyped, Rows, Reqs,
         Calls, OwnTokens
<1>10. NewPairs'
  <2>1. /\ req' \in [Requests -> Reqs]
        /\ \A r \in Requests : req'[r] = req[r] \/ req'[r].step = "consume"
    BY <1>1 DEF Typed, ReqTyped, Reqs, FindState
  <2> QED
    BY <2>1 DEF IInv, NewPairs, FindState, provider, At
<1>11. RefreshTokenLive'
  BY <1>1 DEF IInv, RefreshTokenLive, provider, imports, FindState, At
<1>12. TokenFollowsAccount'
  BY <1>1 DEF IInv, TokenFollowsAccount, provider, imports, FindState
<1>13. RefreshesOwn'
  BY <1>1 DEF IInv, RefreshesOwn, provider, imports, FindState, At
<1>14. StatusFollowsToken'
  BY <1>1
     DEF IInv, StatusFollowsToken, provider, imports, FindState, Credential,
         MarketsUsable
<1>15. MarketsUsable'
  BY <1>1 DEF IInv, MarketsUsable, provider, imports, FindState, Credential, At
<1>16. KeysHold'
  BY <1>1 DEF IInv, KeysHold, provider, imports, FindState, At
<1>17. TogglesSeen'
  BY <1>1 DEF IInv, TogglesSeen, provider, imports, FindState
<1> QED
  BY <1>8, <1>9, <1>10, <1>11, <1>12, <1>13, <1>14, <1>15, <1>16, <1>17 DEF IInv

LEMMA InvConsumeState ==
  ASSUME IInv, NEW q \in Requests, ConsumeState(q)
  PROVE  IInv'
<1>1. Typed
  BY TypeParts DEF IInv
<1>2. /\ req' \in [Requests -> Reqs]
      /\ \A r \in Requests \ {q} : req'[r] = req[r]
      /\ req'[q].step \in {"idle", "exchange"}
  <2>1. NoReq \in Reqs /\ NoReq.step = "idle" /\ [NoReq EXCEPT !.step = "exchange"] \in Reqs
    BY <1>1, Empty DEF Typed, NoReq, Reqs
  <2>2. [NoReq EXCEPT !.step = "exchange"].step = "exchange"
    BY DEF NoReq
  <2>3. PICK r \in {NoReq, [NoReq EXCEPT !.step = "exchange"]} :
             req' = [req EXCEPT ![q] = r]
    BY <1>1 DEF Typed, ReqTyped, Reqs, ConsumeState
  <2>4. r \in Reqs /\ r.step \in {"idle", "exchange"}
    BY <2>1, <2>2
  <2>5. req \in [Requests -> Reqs]
    BY <1>1 DEF Typed, ReqTyped
  <2> HIDE DEF NoReq
  <2> QED
    BY <2>3, <2>4, <2>5
<1>3. ProviderTyped'
  BY <1>1 DEF Typed, ProviderTyped, provider, imports, ConsumeState, Consumable, NoReq
<1>4. RowTyped'
  BY <1>1
     DEF Typed, RowTyped, provider, imports, ConsumeState, Consumable, NoReq,
         Rows, OwnTokens
<1>5. ReqTyped'
  <2>1. oauth' \in [States -> {"none", "live", "stale", "gone"}]
    BY <1>1 DEF Typed, ReqTyped, Reqs, ConsumeState
  <2> QED
    BY <1>2, <2>1 DEF ReqTyped, Reqs, OwnTokens, ConsumeState, provider
<1>6. CallTyped'
  BY <1>1
     DEF Typed, CallTyped, provider, imports, ConsumeState, Consumable, NoReq,
         Calls, OwnTokens
<1>7. ImportTyped'
  BY <1>1 DEF Typed, ImportTyped, provider, imports, ConsumeState, Consumable, NoReq
<1>8. HistoryTyped'
  BY <1>1 DEF Typed, HistoryTyped, provider, imports, ConsumeState, Consumable, NoReq
<1>9. TypeOK'
  BY <1>3, <1>4, <1>5, <1>6, <1>7, <1>8, TypeNext DEF Typed
<1>10. SpentStates'
  <2>1. PICK s \in States : \/ UNCHANGED <<oauth, redeemed>>
                            \/ /\ oauth[s] \in {"live", "stale"}
                               /\ oauth' = [oauth EXCEPT ![s] = "gone"]
                               /\ redeemed' = [redeemed EXCEPT ![s] = @ + 1]
    BY <1>1 DEF Typed, ReqTyped, Reqs, ConsumeState, Consumable
  <2> QED
    BY <1>1, <2>1 DEF IInv, SpentStates, Typed, ReqTyped, HistoryTyped
<1>11. NewPairs'
  BY <1>2 DEF IInv, NewPairs, ConsumeState, provider, At
<1>12. RefreshTokenLive'
  BY <1>1
     DEF IInv, RefreshTokenLive, provider, imports, ConsumeState, Consumable,
         NoReq, At
<1>13. TokenFollowsAccount'
  BY <1>1
     DEF IInv, TokenFollowsAccount, provider, imports, ConsumeState, Consumable,
         NoReq
<1>14. RefreshesOwn'
  BY DEF IInv, RefreshesOwn, ConsumeState, provider, At
<1>15. StatusFollowsToken'
  BY <1>1
     DEF IInv, StatusFollowsToken, provider, imports, ConsumeState, Consumable,
         NoReq, Credential, MarketsUsable
<1>16. MarketsUsable'
  BY <1>1
     DEF IInv, MarketsUsable, provider, imports, ConsumeState, Consumable,
         NoReq, Credential, At
<1>17. KeysHold'
  BY <1>1 DEF IInv, KeysHold, provider, imports, ConsumeState, Consumable, NoReq, At
<1>18. TogglesSeen'
  BY <1>1 DEF IInv, TogglesSeen, provider, imports, ConsumeState, Consumable, NoReq
<1> QED
  BY <1>9, <1>10, <1>11, <1>12, <1>13, <1>14, <1>15, <1>16, <1>17, <1>18 DEF IInv

LEMMA InvSessionConnect ==
  ASSUME IInv, NEW q \in Requests, SessionConnect(q)
  PROVE  IInv'
<1>1. Typed
  BY TypeParts DEF IInv
<1>2. ProviderTyped'
  BY <1>1 DEF Typed, ProviderTyped, provider, imports, SessionConnect
<1>3. RowTyped'
  BY <1>1 DEF Typed, RowTyped, provider, imports, SessionConnect, Rows, OwnTokens
<1>4. ReqTyped'
  BY <1>1 DEF Typed, ReqTyped, provider, imports, SessionConnect, Reqs, OwnTokens
<1>5. CallTyped'
  BY <1>1 DEF Typed, CallTyped, provider, imports, SessionConnect, Calls, OwnTokens
<1>6. ImportTyped'
  BY <1>1 DEF Typed, ImportTyped, provider, imports, SessionConnect
<1>7. HistoryTyped'
  BY <1>1 DEF Typed, HistoryTyped, provider, imports, SessionConnect
<1>8. TypeOK'
  BY <1>2, <1>3, <1>4, <1>5, <1>6, <1>7, TypeNext DEF Typed
<1>9. SpentStates'
  BY <1>1 DEF IInv, SpentStates, provider, imports, SessionConnect
<1>10. NewPairs'
  BY <1>1 DEF IInv, NewPairs, provider, imports, SessionConnect, At
<1>11. RefreshTokenLive'
  BY <1>1 DEF IInv, RefreshTokenLive, provider, imports, SessionConnect, At
<1>12. TokenFollowsAccount'
  BY <1>1 DEF IInv, TokenFollowsAccount, provider, imports, SessionConnect
<1>13. RefreshesOwn'
  BY <1>1 DEF IInv, RefreshesOwn, provider, imports, SessionConnect, At
<1>14. StatusFollowsToken'
  BY <1>1
     DEF IInv, StatusFollowsToken, provider, imports, SessionConnect,
         Credential, MarketsUsable
<1>15. MarketsUsable'
  BY <1>1 DEF IInv, MarketsUsable, provider, imports, SessionConnect, Credential, At
<1>16. KeysHold'
  BY <1>1 DEF IInv, KeysHold, provider, imports, SessionConnect, At
<1>17. TogglesSeen'
  BY <1>1 DEF IInv, TogglesSeen, provider, imports, SessionConnect
<1> QED
  BY <1>8, <1>9, <1>10, <1>11, <1>12, <1>13, <1>14, <1>15, <1>16, <1>17 DEF IInv

LEMMA InvExchange ==
  ASSUME IInv, NEW q \in Requests, NEW shop \in Shops, Exchange(q, shop)
  PROVE  IInv'
<1>1. Typed
  BY TypeParts DEF IInv
<1>2. /\ issued' = issued + 1 /\ issued' \in 1..MaxTokens
      /\ owner' \in [Tokens -> Shops \cup {NoShop}] /\ owner'[issued'] = shop
      /\ \A t \in 1..issued : owner'[t] = owner[t]
      /\ Reqs \subseteq Reqs' /\ Calls \subseteq Calls' /\ Rows \subseteq Rows'
      /\ issued \in Nat
  BY <1>1, Issued, ConstantsAssumption
     DEF Typed, ProviderTyped, Exchange, ConstantsAssumption
<1>3. /\ req' \in [Requests -> Reqs']
      /\ \A r \in Requests \ {q} : req'[r] = req[r]
      /\ req'[q].step = "store" /\ req'[q].shop = shop /\ req'[q].token = issued' 
  <2> DEFINE p == [NoReq EXCEPT !.step = "store", !.shop = shop, !.token = issued']
  <2>1. p \in Reqs' /\ p.step = "store" /\ p.shop = shop /\ p.token = issued'
    <3>1. issued' \in OwnTokens'
      BY <1>2 DEF OwnTokens
    <3> QED
      BY <3>1 DEF NoReq, Reqs
  <2>2. req' = [req EXCEPT ![q] = p]
    BY <1>2 DEF Exchange
  <2> HIDE DEF p
  <2>3. req \in [Requests -> Reqs']
    BY <1>1, <1>2 DEF Typed, ReqTyped
  <2> QED
    BY <2>1, <2>2, <2>3
<1>4. /\ grants' = grants \cup {issued'}
      /\ UNCHANGED <<cap, row, aged, revoked, oauth, call, imports, active, crossed, lost>>
  BY <1>2 DEF Exchange
<1>5. /\ row.token \in 0..issued /\ grants \cup revoked \subseteq 1..issued
      /\ \A d \in Callers : call[d].token \in 0..issued
      /\ \A r \in Requests : req[r].token \in 0..issued
  BY <1>1
     DEF Typed, ProviderTyped, RowTyped, ReqTyped, CallTyped, HistoryTyped,
         Rows, Reqs, Calls, OwnTokens
<1>6. ProviderTyped'
  BY <1>1, <1>2, <1>4 DEF Typed, ProviderTyped
<1>7. RowTyped'
  BY <1>1, <1>2, <1>4 DEF Typed, RowTyped
<1>8. ReqTyped'
  BY <1>1, <1>3, <1>4 DEF Typed, ReqTyped
<1>9. CallTyped'
  BY <1>1, <1>2, <1>4 DEF Typed, CallTyped
<1>10. ImportTyped'
  BY <1>1 DEF Typed, ImportTyped, provider, imports, Exchange, Issues, NoReq, Tokens
<1>11. HistoryTyped'
  BY <1>1 DEF Typed, HistoryTyped, provider, imports, Exchange, Issues, NoReq, Tokens
<1>12. TypeOK'
  BY <1>6, <1>7, <1>8, <1>9, <1>10, <1>11, TypeNext DEF Typed
<1>13. SpentStates'
  BY <1>1 DEF IInv, SpentStates, provider, imports, Exchange, Issues, NoReq, Tokens
<1>14. NewPairs'
  <2>1. ASSUME NEW c \in Callers, At(c, "save")'
        PROVE  /\ call'[c].next \in grants' \cup revoked' /\ call'[c].next # row'.token
               /\ call'[c].next \in 1..issued
               /\ \A d \in Callers :
                    /\ call'[d].token # call'[c].next
                    /\ d # c /\ At(d, "save")' => call'[d].next # call'[c].next
               /\ \A r \in Requests : req'[r].step = "store" => req'[r].token # call'[c].next
    BY <1>2, <1>3, <1>4, <1>5, <2>1 DEF IInv, NewPairs, At
  <2>2. ASSUME NEW r \in Requests, req'[r].step = "store"
        PROVE  /\ req'[r].token \in grants' \cup revoked' /\ req'[r].token # row'.token
               /\ owner'[req'[r].token] = req'[r].shop
               /\ \A d \in Callers : call'[d].token # req'[r].token
               /\ \A u \in Requests :
                    u # r /\ req'[u].step = "store" => req'[u].token # req'[r].token
    BY <1>2, <1>3, <1>4, <1>5, <2>2 DEF IInv, NewPairs
  <2> QED
    BY <2>1, <2>2 DEF NewPairs
<1>15. RefreshTokenLive'
  BY <1>4 DEF IInv, RefreshTokenLive, At
<1>16. TokenFollowsAccount'
  BY <1>2, <1>4, <1>5 DEF IInv, TokenFollowsAccount
<1>17. RefreshesOwn'
  <2>1. \A c \in Callers : At(c, "save") => call[c].next \in 1..issued
    BY <1>5 DEF IInv, NewPairs
  <2> QED
    BY <1>2, <1>4, <1>5, <2>1 DEF IInv, RefreshesOwn, At
<1>18. StatusFollowsToken'
  BY <1>1
     DEF IInv, StatusFollowsToken, provider, imports, Exchange, Issues, NoReq,
         Tokens, Credential, MarketsUsable
<1>19. MarketsUsable'
  BY <1>1
     DEF IInv, MarketsUsable, provider, imports, Exchange, Issues, NoReq,
         Tokens, Credential, At
<1>20. KeysHold'
  BY <1>1 DEF IInv, KeysHold, provider, imports, Exchange, Issues, NoReq, Tokens, At
<1>21. TogglesSeen'
  BY <1>1 DEF IInv, TogglesSeen, provider, imports, Exchange, Issues, NoReq, Tokens
<1> QED
  BY <1>12, <1>13, <1>14, <1>15, <1>16, <1>17, <1>18, <1>19, <1>20, <1>21 DEF IInv

LEMMA InvConnectFails ==
  ASSUME IInv, NEW q \in Requests, ConnectFails(q)
  PROVE  IInv'
<1>1. Typed
  BY TypeParts DEF IInv
<1>2. /\ req' \in [Requests -> Reqs] /\ req'[q].step = "idle"
      /\ \A r \in Requests \ {q} : req'[r] = req[r]
  BY <1>1, Empty DEF Typed, ReqTyped, NoReq, ConnectFails
<1>3. ProviderTyped'
  BY <1>1 DEF Typed, ProviderTyped, provider, imports, ConnectFails, NoReq, Mishap
<1>4. RowTyped'
  BY <1>1
     DEF Typed, RowTyped, provider, imports, ConnectFails, NoReq, Mishap, Rows,
         OwnTokens
<1>5. ReqTyped'
  BY <1>1, <1>2 DEF Typed, ReqTyped, Reqs, OwnTokens, ConnectFails, provider
<1>6. CallTyped'
  BY <1>1
     DEF Typed, CallTyped, provider, imports, ConnectFails, NoReq, Mishap,
         Calls, OwnTokens
<1>7. ImportTyped'
  BY <1>1 DEF Typed, ImportTyped, provider, imports, ConnectFails, NoReq, Mishap
<1>8. HistoryTyped'
  BY <1>1 DEF Typed, HistoryTyped, provider, imports, ConnectFails, NoReq, Mishap
<1>9. TypeOK'
  BY <1>3, <1>4, <1>5, <1>6, <1>7, <1>8, TypeNext DEF Typed
<1>10. SpentStates'
  BY <1>1 DEF IInv, SpentStates, provider, imports, ConnectFails, NoReq, Mishap
<1>11. NewPairs'
  BY <1>2 DEF IInv, NewPairs, ConnectFails, provider, At
<1>12. RefreshTokenLive'
  BY <1>1
     DEF IInv, RefreshTokenLive, provider, imports, ConnectFails, NoReq, Mishap,
         At
<1>13. TokenFollowsAccount'
  BY <1>1 DEF IInv, TokenFollowsAccount, provider, imports, ConnectFails, NoReq, Mishap
<1>14. RefreshesOwn'
  BY <1>1 DEF IInv, RefreshesOwn, provider, imports, ConnectFails, NoReq, Mishap, At
<1>15. StatusFollowsToken'
  BY <1>1
     DEF IInv, StatusFollowsToken, provider, imports, ConnectFails, NoReq,
         Mishap, Credential, MarketsUsable
<1>16. MarketsUsable'
  BY <1>1
     DEF IInv, MarketsUsable, provider, imports, ConnectFails, NoReq, Mishap,
         Credential, At
<1>17. KeysHold'
  BY <1>1 DEF IInv, KeysHold, provider, imports, ConnectFails, NoReq, Mishap, At
<1>18. TogglesSeen'
  BY <1>1 DEF IInv, TogglesSeen, provider, imports, ConnectFails, NoReq, Mishap
<1> QED
  BY <1>9, <1>10, <1>11, <1>12, <1>13, <1>14, <1>15, <1>16, <1>17, <1>18 DEF IInv

LEMMA InvStore ==
  ASSUME IInv, NEW q \in Requests, Store(q)
  PROVE  IInv'
<1>1. Typed
  BY TypeParts DEF IInv
<1>2. /\ req' \in [Requests -> Reqs] /\ req'[q].step = "idle"
      /\ \A r \in Requests \ {q} : req'[r] = req[r]
  BY <1>1, Empty DEF Typed, ReqTyped, NoReq, Store
<1>3. /\ row'.token = req[q].token /\ row'.shop = req[q].shop /\ row'.readable = TRUE
      /\ row'.status = "CONNECTED" /\ row' \in Rows /\ req[q].token # 0
      /\ req[q].token \in grants \cup revoked /\ owner[req[q].token] = req[q].shop
  <2>1. req[q] \in Reqs /\ req[q].step = "store"
    BY <1>1 DEF Typed, ReqTyped, Store
  <2>2. req[q].token \in grants \cup revoked /\ owner[req[q].token] = req[q].shop
    BY <2>1 DEF IInv, NewPairs
  <2>3. row' = Connection(req[q].token, req[q].shop)
    BY DEF Store
  <2> QED
    BY <1>1, <2>1, <2>2, <2>3 DEF Typed, ProviderTyped, Reqs, Rows, Connection, Statuses
<1>4. /\ crossed' = Crossing /\ active' = TRUE
      /\ ~crossed.tokens' => \A d \in Callers : call[d].step \notin {"refresh", "save"}
      /\ ~crossed.status' => \A d \in Callers : call[d].step = "idle"
  BY DEF Store, Crossing
<1>5. ProviderTyped'
  BY <1>1
     DEF Typed, ProviderTyped, provider, imports, Store, NoReq, Connection,
         Crossing
<1>6. RowTyped'
  BY <1>3 DEF RowTyped, Rows, OwnTokens, Store, provider
<1>7. ReqTyped'
  BY <1>1, <1>2 DEF Typed, ReqTyped, Reqs, OwnTokens, Store, provider
<1>8. CallTyped'
  BY <1>1
     DEF Typed, CallTyped, provider, imports, Store, NoReq, Connection,
         Crossing, Calls, OwnTokens
<1>9. ImportTyped'
  BY <1>1 DEF Typed, ImportTyped, provider, imports, Store, NoReq, Connection, Crossing
<1>10. HistoryTyped'
  BY <1>1 DEF Typed, HistoryTyped, Store, Crossing
<1>11. TypeOK'
  BY <1>5, <1>6, <1>7, <1>8, <1>9, <1>10, TypeNext DEF Typed
<1>12. SpentStates'
  BY <1>1 DEF IInv, SpentStates, provider, imports, Store, NoReq, Connection, Crossing
<1>13. NewPairs'
  <2>1. UNCHANGED <<call, grants, revoked, owner>>
    BY DEF Store, provider
  <2>2. req[q].step = "store"
    BY DEF Store
  <2> QED
    BY <1>2, <1>3, <2>1, <2>2 DEF IInv, NewPairs, At
<1>14. RefreshTokenLive'
  BY <1>3 DEF RefreshTokenLive, Store, provider
<1>15. TokenFollowsAccount'
  BY <1>3, <1>4 DEF TokenFollowsAccount, Store, provider
<1>16. RefreshesOwn'
  <2>1. UNCHANGED <<call, owner>>
    BY DEF Store, provider
  <2> QED
    BY <1>4, <2>1 DEF IInv, RefreshesOwn, At
<1>17. StatusFollowsToken'
  BY <1>3 DEF StatusFollowsToken
<1>18. MarketsUsable'
  <2>1. UNCHANGED call
    BY DEF Store
  <2> QED
    BY <1>4, <2>1 DEF MarketsUsable, At
<1>19. KeysHold'
  <2>1. UNCHANGED call
    BY DEF Store
  <2> QED
    BY <1>3, <1>4, <2>1 DEF KeysHold, At
<1>20. TogglesSeen'
  BY <1>1 DEF IInv, TogglesSeen, provider, imports, Store, NoReq, Connection, Crossing
<1> QED
  BY <1>11, <1>12, <1>13, <1>14, <1>15, <1>16, <1>17, <1>18, <1>19, <1>20 DEF IInv

LEMMA InvDisconnect ==
  ASSUME IInv, Disconnect
  PROVE  IInv'
<1>1. Typed
  BY TypeParts DEF IInv
<1>2. /\ row' \in Rows /\ row'.token = 0 /\ row'.readable = TRUE
      /\ row'.status = "DISCONNECTED" 
  <2>1. row \in Rows /\ 0 \in OwnTokens
    BY <1>1, ConstantsAssumption DEF Typed, ProviderTyped, RowTyped, OwnTokens,
      ConstantsAssumption
  <2>2. row' = [row EXCEPT !.status = "DISCONNECTED", !.token = 0, !.readable = TRUE,
                           !.shop = NoShop]
    BY DEF Disconnect, Cleared
  <2> QED
    BY <2>1, <2>2 DEF Rows, Statuses
<1>3. /\ crossed' = Crossing /\ active' = FALSE
      /\ ~crossed.tokens' => \A d \in Callers : call[d].step \notin {"refresh", "save"}
      /\ ~crossed.status' => \A d \in Callers : call[d].step = "idle"
  BY DEF Disconnect, Crossing
<1>4. ProviderTyped'
  BY <1>1
     DEF Typed, ProviderTyped, provider, imports, Disconnect, Cleared, Crossing,
         Exists
<1>5. RowTyped'
  BY <1>2 DEF RowTyped, Rows, OwnTokens, Disconnect, provider
<1>6. ReqTyped'
  BY <1>1
     DEF Typed, ReqTyped, provider, imports, Disconnect, Cleared, Crossing,
         Exists, Reqs, OwnTokens
<1>7. CallTyped'
  BY <1>1
     DEF Typed, CallTyped, provider, imports, Disconnect, Cleared, Crossing,
         Exists, Calls, OwnTokens
<1>8. ImportTyped'
  BY <1>1
     DEF Typed, ImportTyped, provider, imports, Disconnect, Cleared, Crossing,
         Exists
<1>9. HistoryTyped'
  BY <1>1 DEF Typed, HistoryTyped, Disconnect, Crossing
<1>10. TypeOK'
  BY <1>4, <1>5, <1>6, <1>7, <1>8, <1>9, TypeNext DEF Typed
<1>11. SpentStates'
  BY <1>1
     DEF IInv, SpentStates, provider, imports, Disconnect, Cleared, Crossing,
         Exists
<1>12. NewPairs'
  <2>1. UNCHANGED <<call, req, grants, revoked, owner>>
    BY DEF Disconnect, provider
  <2>2. \A t \in grants \cup revoked : t # 0
    BY <1>1 DEF Typed, ProviderTyped
  <2> QED
    BY <1>2, <2>1, <2>2 DEF IInv, NewPairs, At
<1>13. RefreshTokenLive'
  BY <1>2 DEF RefreshTokenLive
<1>14. TokenFollowsAccount'
  BY <1>2, <1>3 DEF TokenFollowsAccount
<1>15. RefreshesOwn'
  <2>1. UNCHANGED <<call, owner>>
    BY DEF Disconnect, provider
  <2> QED
    BY <1>3, <2>1 DEF IInv, RefreshesOwn, At
<1>16. StatusFollowsToken'
  BY <1>2 DEF StatusFollowsToken
<1>17. MarketsUsable'
  <2>1. UNCHANGED call
    BY DEF Disconnect
  <2> QED
    BY <1>2, <1>3, <2>1 DEF MarketsUsable, At
<1>18. KeysHold'
  <2>1. UNCHANGED call
    BY DEF Disconnect
  <2> QED
    BY <1>2, <1>3, <2>1 DEF KeysHold, At
<1>19. TogglesSeen'
  BY <1>1
     DEF IInv, TogglesSeen, provider, imports, Disconnect, Cleared, Crossing,
         Exists
<1> QED
  BY <1>10, <1>11, <1>12, <1>13, <1>14, <1>15, <1>16, <1>17, <1>18, <1>19 DEF IInv

LEMMA InvTokenAges ==
  ASSUME IInv, NEW t \in Tokens, TokenAges(t)
  PROVE  IInv'
<1>1. Typed
  BY TypeParts DEF IInv
<1>2. ProviderTyped'
  BY <1>1 DEF Typed, ProviderTyped, provider, imports, TokenAges, Tokens
<1>3. RowTyped'
  BY <1>1 DEF Typed, RowTyped, provider, imports, TokenAges, Tokens, Rows, OwnTokens
<1>4. ReqTyped'
  BY <1>1 DEF Typed, ReqTyped, provider, imports, TokenAges, Tokens, Reqs, OwnTokens
<1>5. CallTyped'
  BY <1>1 DEF Typed, CallTyped, provider, imports, TokenAges, Tokens, Calls, OwnTokens
<1>6. ImportTyped'
  BY <1>1 DEF Typed, ImportTyped, provider, imports, TokenAges, Tokens
<1>7. HistoryTyped'
  BY <1>1 DEF Typed, HistoryTyped, provider, imports, TokenAges, Tokens
<1>8. TypeOK'
  BY <1>2, <1>3, <1>4, <1>5, <1>6, <1>7, TypeNext DEF Typed
<1>9. SpentStates'
  BY <1>1 DEF IInv, SpentStates, provider, imports, TokenAges, Tokens
<1>10. NewPairs'
  BY <1>1 DEF IInv, NewPairs, provider, imports, TokenAges, Tokens, At
<1>11. RefreshTokenLive'
  BY <1>1 DEF IInv, RefreshTokenLive, provider, imports, TokenAges, Tokens, At
<1>12. TokenFollowsAccount'
  BY <1>1 DEF IInv, TokenFollowsAccount, provider, imports, TokenAges, Tokens
<1>13. RefreshesOwn'
  BY <1>1 DEF IInv, RefreshesOwn, provider, imports, TokenAges, Tokens, At
<1>14. StatusFollowsToken'
  BY <1>1
     DEF IInv, StatusFollowsToken, provider, imports, TokenAges, Tokens,
         Credential, MarketsUsable
<1>15. MarketsUsable'
  BY <1>1 DEF IInv, MarketsUsable, provider, imports, TokenAges, Tokens, Credential, At
<1>16. KeysHold'
  BY <1>1 DEF IInv, KeysHold, provider, imports, TokenAges, Tokens, At
<1>17. TogglesSeen'
  BY <1>1 DEF IInv, TogglesSeen, provider, imports, TokenAges, Tokens
<1> QED
  BY <1>8, <1>9, <1>10, <1>11, <1>12, <1>13, <1>14, <1>15, <1>16, <1>17 DEF IInv

LEMMA InvRevoke ==
  ASSUME IInv, NEW shop \in Shops, Revoke(shop)
  PROVE  IInv'
<1>1. Typed
  BY TypeParts DEF IInv
<1>2. ProviderTyped'
  BY <1>1 DEF Typed, ProviderTyped, provider, imports, Revoke, Mishap
<1>3. RowTyped'
  BY <1>1 DEF Typed, RowTyped, provider, imports, Revoke, Mishap, Rows, OwnTokens
<1>4. ReqTyped'
  BY <1>1 DEF Typed, ReqTyped, provider, imports, Revoke, Mishap, Reqs, OwnTokens
<1>5. CallTyped'
  BY <1>1 DEF Typed, CallTyped, provider, imports, Revoke, Mishap, Calls, OwnTokens
<1>6. ImportTyped'
  BY <1>1 DEF Typed, ImportTyped, provider, imports, Revoke, Mishap
<1>7. HistoryTyped'
  BY <1>1 DEF Typed, HistoryTyped, provider, imports, Revoke, Mishap
<1>8. TypeOK'
  BY <1>2, <1>3, <1>4, <1>5, <1>6, <1>7, TypeNext DEF Typed
<1>9. SpentStates'
  BY <1>1 DEF IInv, SpentStates, provider, imports, Revoke, Mishap
<1>10. NewPairs'
  <2>1. /\ UNCHANGED <<call, req, owner, row>>
        /\ grants \cup revoked \subseteq grants' \cup revoked'
    BY <1>1 DEF Typed, ProviderTyped, Revoke
  <2> QED
    BY <2>1 DEF IInv, NewPairs, At
<1>11. RefreshTokenLive'
  <2>1. /\ UNCHANGED <<call, row, lost>>
        /\ grants \cup revoked \subseteq grants' \cup revoked'
    BY <1>1 DEF Typed, ProviderTyped, Revoke
  <2> QED
    BY <2>1 DEF IInv, RefreshTokenLive, At
<1>12. TokenFollowsAccount'
  BY <1>1 DEF IInv, TokenFollowsAccount, provider, imports, Revoke, Mishap
<1>13. RefreshesOwn'
  BY <1>1 DEF IInv, RefreshesOwn, provider, imports, Revoke, Mishap, At
<1>14. StatusFollowsToken'
  BY <1>1
     DEF IInv, StatusFollowsToken, provider, imports, Revoke, Mishap,
         Credential, MarketsUsable
<1>15. MarketsUsable'
  BY <1>1 DEF IInv, MarketsUsable, provider, imports, Revoke, Mishap, Credential, At
<1>16. KeysHold'
  BY <1>1 DEF IInv, KeysHold, provider, imports, Revoke, Mishap, At
<1>17. TogglesSeen'
  BY <1>1 DEF IInv, TogglesSeen, provider, imports, Revoke, Mishap
<1> QED
  BY <1>8, <1>9, <1>10, <1>11, <1>12, <1>13, <1>14, <1>15, <1>16, <1>17 DEF IInv

LEMMA InvRotateKey ==
  ASSUME IInv, RotateKey
  PROVE  IInv'
<1>1. Typed
  BY TypeParts DEF IInv
<1>2. ProviderTyped'
  BY <1>1 DEF Typed, ProviderTyped, provider, imports, RotateKey
<1>3. RowTyped'
  BY <1>1 DEF Typed, RowTyped, provider, imports, RotateKey, Rows, OwnTokens
<1>4. ReqTyped'
  BY <1>1 DEF Typed, ReqTyped, provider, imports, RotateKey, Reqs, OwnTokens
<1>5. CallTyped'
  BY <1>1 DEF Typed, CallTyped, provider, imports, RotateKey, Calls, OwnTokens
<1>6. ImportTyped'
  BY <1>1 DEF Typed, ImportTyped, provider, imports, RotateKey
<1>7. HistoryTyped'
  BY <1>1 DEF Typed, HistoryTyped, provider, imports, RotateKey
<1>8. TypeOK'
  BY <1>2, <1>3, <1>4, <1>5, <1>6, <1>7, TypeNext DEF Typed
<1>9. SpentStates'
  BY <1>1 DEF IInv, SpentStates, provider, imports, RotateKey
<1>10. NewPairs'
  BY <1>1 DEF IInv, NewPairs, provider, imports, RotateKey, At
<1>11. RefreshTokenLive'
  BY <1>1 DEF IInv, RefreshTokenLive, provider, imports, RotateKey, At
<1>12. TokenFollowsAccount'
  BY <1>1 DEF IInv, TokenFollowsAccount, provider, imports, RotateKey
<1>13. RefreshesOwn'
  BY <1>1 DEF IInv, RefreshesOwn, provider, imports, RotateKey, At
<1>14. StatusFollowsToken'
  BY <1>1
     DEF IInv, StatusFollowsToken, provider, imports, RotateKey, Credential,
         MarketsUsable
<1>15. MarketsUsable'
  BY <1>1 DEF IInv, MarketsUsable, provider, imports, RotateKey, Credential, At
<1>16. KeysHold'
  BY <1>1 DEF IInv, KeysHold, provider, imports, RotateKey, At
<1>17. TogglesSeen'
  BY <1>1 DEF IInv, TogglesSeen, provider, imports, RotateKey
<1> QED
  BY <1>8, <1>9, <1>10, <1>11, <1>12, <1>13, <1>14, <1>15, <1>16, <1>17 DEF IInv

LEMMA InvStart ==
  ASSUME IInv, NEW c \in Callers, NEW kind \in Kinds, Start(c, kind)
  PROVE  IInv'
<1>1. Typed
  BY TypeParts DEF IInv
<1>2. /\ call' \in [Callers -> Calls]
      /\ \A d \in Callers \ {c} : call'[d] = call[d]
      /\ call'[c].step = "read" /\ call'[c].token = 0 /\ call'[c].kind = kind
  <2> DEFINE r == [NoCall EXCEPT !.step = "read", !.kind = kind]
  <2>1. r \in Calls /\ r.step = "read" /\ r.token = 0 /\ r.kind = kind
    BY <1>1, Empty DEF Typed, NoCall, Calls, Steps
  <2>2. call' = [call EXCEPT ![c] = r]
    BY DEF Start
  <2> HIDE DEF r
  <2> QED
    BY <1>1, <2>1, <2>2, CallSet DEF Typed
<1>3. ProviderTyped'
  BY <1>1 DEF Typed, ProviderTyped, provider, imports, Start, NoCall, Usable, Kinds
<1>4. RowTyped'
  BY <1>1
     DEF Typed, RowTyped, provider, imports, Start, NoCall, Usable, Kinds, Rows,
         OwnTokens
<1>5. ReqTyped'
  BY <1>1
     DEF Typed, ReqTyped, provider, imports, Start, NoCall, Usable, Kinds, Reqs,
         OwnTokens
<1>6. CallTyped'
  BY <1>1, <1>2 DEF Typed, CallTyped, Calls, OwnTokens, Start, provider
<1>7. ImportTyped'
  BY <1>1 DEF Typed, ImportTyped, provider, imports, Start, NoCall, Usable, Kinds
<1>8. HistoryTyped'
  BY <1>1 DEF Typed, HistoryTyped, provider, imports, Start, NoCall, Usable, Kinds
<1>9. TypeOK'
  BY <1>3, <1>4, <1>5, <1>6, <1>7, <1>8, TypeNext DEF Typed
<1>10. SpentStates'
  BY <1>1 DEF IInv, SpentStates, provider, imports, Start, NoCall, Usable, Kinds, At
<1>11. NewPairs'
  BY <1>2, CallerMoves DEF Start, provider, imports, At, Mishap
<1>12. RefreshTokenLive'
  BY <1>2, CallerMoves DEF Start, provider, imports, At, Mishap
<1>13. TokenFollowsAccount'
  BY <1>2, CallerMoves DEF Start, provider, imports, At, Mishap
<1>14. RefreshesOwn'
  BY <1>2, CallerMoves DEF Start, provider, imports, At, Mishap
<1>15. StatusFollowsToken'
  BY <1>2 DEF IInv, StatusFollowsToken, Credential, MarketsUsable, At, Start
<1>16. MarketsUsable'
  BY <1>2 DEF IInv, MarketsUsable, Credential, At, Start, Usable
<1>17. KeysHold'
  BY <1>2 DEF IInv, KeysHold, At, Start
<1>18. TogglesSeen'
  BY <1>1 DEF IInv, TogglesSeen, provider, imports, Start, NoCall, Usable, Kinds, At
<1> QED
  BY <1>9, <1>10, <1>11, <1>12, <1>13, <1>14, <1>15, <1>16, <1>17, <1>18 DEF IInv

LEMMA InvRead ==
  ASSUME IInv, NEW c \in Callers, Read(c)
  PROVE  IInv'
<1>1. Typed
  BY TypeParts DEF IInv
<1>2. /\ call' \in [Callers -> Calls]
      /\ \A d \in Callers \ {c} : call'[d] = call[d]
      /\ call[c].step = "read" /\ call'[c].token \in {0, row.token}
      /\ call'[c].step \in {"idle", "error", "fetch", "park", "expire", "refresh"}
      /\ call'[c].step # "idle" => call'[c].kind = call[c].kind
      /\ call'[c].step = "error" => call'[c].verdict = "EXPIRED" /\ row.token = 0
      /\ call'[c].step = "park" => ~row.readable
      /\ call'[c].step \in {"fetch", "expire", "refresh"} => row.readable \/ row.token = 0
      /\ call'[c].step = "refresh" => call'[c].token = row.token /\ row.token \in aged
  <2>1. ASSUME NEW step \in {"fetch", "park", "expire", "refresh"}, Holding(c, step)
        PROVE  /\ call' \in [Callers -> Calls]
               /\ \A d \in Callers \ {c} : call'[d] = call[d]
               /\ call'[c].step = step /\ call'[c].token = row.token
               /\ call'[c].kind = call[c].kind
    <3>1. step \in Steps
      BY DEF Steps
    <3> QED
      BY <1>1, <2>1, <3>1, CallHolds DEF Typed
  <2>2. CASE row.token = 0 /\ Fails(c, "EXPIRED")
    BY <1>1, <2>2, CallFails DEF Typed, Read, At, Verdicts
  <2>3. CASE row.token = 0 /\ Holding(c, "fetch")
    BY <2>1, <2>3 DEF Read, At
  <2>4. CASE ~row.readable /\ Holding(c, "park")
    BY <2>1, <2>4 DEF Read, At
  <2>5. CASE row.readable /\ Holding(c, "fetch")
    BY <2>1, <2>5 DEF Read, At
  <2>6. CASE row.readable /\ row.token \in aged /\ (Holding(c, "expire") \/ Holding(c, "refresh"))
    BY <2>1, <2>6 DEF Read, At
  <2> QED
    BY <2>2, <2>3, <2>4, <2>5, <2>6 DEF Read
<1>3. ProviderTyped'
  BY <1>1 DEF Typed, ProviderTyped, provider, imports, Read, NoCall, Holding, Fails
<1>4. RowTyped'
  BY <1>1
     DEF Typed, RowTyped, provider, imports, Read, NoCall, Holding, Fails, Rows,
         OwnTokens
<1>5. ReqTyped'
  BY <1>1
     DEF Typed, ReqTyped, provider, imports, Read, NoCall, Holding, Fails, Reqs,
         OwnTokens
<1>6. CallTyped'
  BY <1>1, <1>2 DEF Typed, CallTyped, Calls, OwnTokens, Read, provider
<1>7. ImportTyped'
  BY <1>1 DEF Typed, ImportTyped, provider, imports, Read, NoCall, Holding, Fails
<1>8. HistoryTyped'
  BY <1>1 DEF Typed, HistoryTyped, provider, imports, Read, NoCall, Holding, Fails
<1>9. TypeOK'
  BY <1>3, <1>4, <1>5, <1>6, <1>7, <1>8, TypeNext DEF Typed
<1>10. SpentStates'
  BY <1>1 DEF IInv, SpentStates, provider, imports, Read, NoCall, Holding, Fails, At
<1>11. NewPairs'
  BY <1>2, CallerMoves DEF Read, provider, imports, At, Mishap
<1>12. RefreshTokenLive'
  BY <1>2, CallerMoves DEF Read, provider, imports, At, Mishap
<1>13. TokenFollowsAccount'
  BY <1>2, CallerMoves DEF Read, provider, imports, At, Mishap
<1>14. RefreshesOwn'
  <2>1. \A d \in Callers \ {c} : call'[d] = call[d] /\ At(d, "save")' = At(d, "save")
    BY <1>2 DEF At
  <2>2. call'[c].step = "refresh" => row.token # 0
    BY <1>1, <1>2 DEF Typed, ProviderTyped
  <2> QED
    BY <1>2, <2>1, <2>2 DEF IInv, RefreshesOwn, TokenFollowsAccount, Read, provider, At
<1>15. StatusFollowsToken'
  BY <1>2, CallerRests DEF Read, At
<1>16. MarketsUsable'
  BY <1>2, CallerRests DEF Read, At
<1>17. KeysHold'
  BY <1>2 DEF IInv, KeysHold, At, Read
<1>18. TogglesSeen'
  BY <1>1 DEF IInv, TogglesSeen, provider, imports, Read, NoCall, Holding, Fails, At
<1> QED
  BY <1>9, <1>10, <1>11, <1>12, <1>13, <1>14, <1>15, <1>16, <1>17, <1>18 DEF IInv

LEMMA InvPark ==
  ASSUME IInv, NEW c \in Callers, Park(c)
  PROVE  IInv'
<1>1. Typed
  BY TypeParts DEF IInv
<1>2. /\ call' \in [Callers -> Calls]
      /\ \A d \in Callers \ {c} : call'[d] = call[d]
      /\ call'[c].step \in {"idle", "error"} /\ call'[c].token = 0
      /\ call'[c].step = "error" => call'[c].kind = call[c].kind /\ call'[c].verdict = "REAUTH_REQUIRED"
  BY <1>1, CallFails DEF Typed, Park, Verdicts
<1>3. /\ row' \in Rows /\ row'.token = row.token /\ row'.shop = row.shop
      /\ row'.readable = row.readable /\ row'.status \in {row.status, "REAUTH_REQUIRED"}
  BY <1>1, RowStatus DEF Typed, RowTyped, Park, Statuses
<1>4. ProviderTyped'
  BY <1>1
     DEF Typed, ProviderTyped, provider, imports, Park, NoCall, Fails, Mishap,
         StatusSet, Exists
<1>5. RowTyped'
  BY <1>1, <1>3 DEF Typed, RowTyped, Rows, OwnTokens, Park, provider
<1>6. ReqTyped'
  BY <1>1
     DEF Typed, ReqTyped, provider, imports, Park, NoCall, Fails, Mishap,
         StatusSet, Exists, Reqs, OwnTokens
<1>7. CallTyped'
  BY <1>1, <1>2 DEF Typed, CallTyped, Calls, OwnTokens, Park, provider
<1>8. ImportTyped'
  BY <1>1
     DEF Typed, ImportTyped, provider, imports, Park, NoCall, Fails, Mishap,
         StatusSet, Exists
<1>9. HistoryTyped'
  BY <1>1
     DEF Typed, HistoryTyped, provider, imports, Park, NoCall, Fails, Mishap,
         StatusSet, Exists
<1>10. TypeOK'
  BY <1>4, <1>5, <1>6, <1>7, <1>8, <1>9, TypeNext DEF Typed
<1>11. SpentStates'
  BY <1>1
     DEF IInv, SpentStates, provider, imports, Park, NoCall, Fails, Mishap,
         StatusSet, Exists, At
<1>12. NewPairs'
  BY <1>2, <1>3, CallerMoves DEF Park, provider, imports, At, Mishap
<1>13. RefreshTokenLive'
  BY <1>2, <1>3, CallerMoves DEF Park, provider, imports, At, Mishap
<1>14. TokenFollowsAccount'
  BY <1>2, <1>3, CallerMoves DEF Park, provider, imports, At, Mishap
<1>15. RefreshesOwn'
  BY <1>2, <1>3, CallerMoves DEF Park, provider, imports, At, Mishap
<1>16. StatusFollowsToken'
  BY <1>2, <1>3 DEF IInv, StatusFollowsToken, Credential, MarketsUsable, At, Park
<1>17. MarketsUsable'
  BY <1>2, <1>3 DEF IInv, MarketsUsable, Credential, At, Park
<1>18. KeysHold'
  BY <1>2, <1>3 DEF IInv, KeysHold, At, Park
<1>19. TogglesSeen'
  BY <1>1
     DEF IInv, TogglesSeen, provider, imports, Park, NoCall, Fails, Mishap,
         StatusSet, Exists, At
<1> QED
  BY <1>10, <1>11, <1>12, <1>13, <1>14, <1>15, <1>16, <1>17, <1>18, <1>19 DEF IInv

LEMMA InvRefresh ==
  ASSUME IInv, NEW c \in Callers, Refresh(c)
  PROVE  IInv'
<1>1. Typed
  BY TypeParts DEF IInv
<1>2. /\ call[c].step = "refresh" /\ call[c] \in Calls /\ issued \in Nat
      /\ UNCHANGED <<cap, row, aged, revoked, oauth, req, imports, active, crossed, redeemed>>
  BY <1>1, ConstantsAssumption
     DEF Typed, ProviderTyped, CallTyped, Refresh, At, ConstantsAssumption
<1>3. /\ \A d \in Callers \ {c} : call'[d] = call[d]
      /\ call'[c].kind = call[c].kind /\ call'[c].token = call[c].token
      /\ \/ Rotates(c) /\ call'[c].step = "save" /\ call'[c].next = issued + 1 /\ lost' = lost
         \/ /\ UNCHANGED <<issued, owner, grants, lost>> /\ call'[c].step = "expire"
      /\ call' \in [Callers -> Calls']
  <2>1. CASE Rotates(c) /\ call' = [call EXCEPT ![c].step = "save", ![c].next = issued + 1]
    <3>1. Calls \subseteq Calls' /\ issued + 1 \in OwnTokens'
      BY <1>1, <1>2, <2>1, Rotated DEF Typed, OwnTokens
    <3> DEFINE r == [step |-> "save", kind |-> call[c].kind, token |-> call[c].token,
                     shop |-> call[c].shop, next |-> issued + 1, verdict |-> call[c].verdict]
    <3>2. call' = [call EXCEPT ![c] = r]
      BY <1>1, <2>1, CallTwo DEF Typed, Steps
    <3>3. r \in Calls'
      BY <1>2, <3>1 DEF Calls, Steps
    <3>4. r.step = "save" /\ r.next = issued + 1 /\ r.kind = call[c].kind /\ r.token = call[c].token
      OBVIOUS
    <3>5. call \in [Callers -> Calls']
      BY <1>1, <3>1 DEF Typed, CallTyped
    <3>6. lost' = lost
      BY DEF Refresh
    <3> HIDE DEF r
    <3> QED
      BY <2>1, <3>2, <3>3, <3>4, <3>5, <3>6
  <2>2. CASE Goes(c, "expire") /\ UNCHANGED <<issued, owner, grants, lost>>
    <3>1. Calls' = Calls
      BY <2>2 DEF Calls, OwnTokens
    <3> QED
      BY <1>1, <2>2, <3>1, CallGoes DEF Typed, Steps
  <2> QED
    BY <2>1, <2>2 DEF Refresh, Rotates
<1>4. ProviderTyped'
  <2>1. CASE UNCHANGED <<issued, owner, grants, lost>>
    BY <1>1, <1>2, <2>1 DEF Typed, ProviderTyped
  <2>2. CASE Rotates(c)
    <3>1. lost' \subseteq lost \cup {call[c].token}
      BY <1>3, <2>2
    <3> QED
      <4>1. ProviderTyped
        BY <1>1 DEF Typed
      <4>2. issued' = issued + 1 /\ issued' \in 1..MaxTokens /\ issued \in Nat
        BY <2>2, <4>1, Rotated
      <4>3. /\ owner' \in [Tokens -> Shops \cup {NoShop}]
            /\ grants' \subseteq grants \cup {issued'} /\ call[c].token \in 1..issued
        BY <2>2, <4>1, Rotated
      <4> QED
        BY <1>2, <3>1, <4>1, <4>2, <4>3 DEF ProviderTyped
  <2> QED
    BY <1>3, <2>1, <2>2
<1>5. RowTyped'
  <2>1. Rows \subseteq Rows'
    BY <1>1, <1>2, <1>3, Rotated DEF Typed, Rows, OwnTokens
  <2> QED
    BY <1>1, <1>2, <2>1 DEF Typed, RowTyped
<1>6. ReqTyped'
  <2>1. Reqs \subseteq Reqs'
    BY <1>1, <1>2, <1>3, Rotated DEF Typed, Reqs, OwnTokens
  <2> QED
    BY <1>1, <1>2, <2>1 DEF Typed, ReqTyped
<1>7. CallTyped'
  BY <1>3 DEF CallTyped
<1>8. ImportTyped'
  BY <1>1 DEF Typed, ImportTyped, provider, imports, Refresh, Issues, Goes, Tokens
<1>9. HistoryTyped'
  BY <1>1 DEF Typed, HistoryTyped, provider, imports, Refresh, Issues, Goes, Tokens
<1>10. TypeOK'
  BY <1>4, <1>5, <1>6, <1>7, <1>8, <1>9, TypeNext DEF Typed
<1>11. SpentStates'
  BY <1>1 DEF IInv, SpentStates, provider, imports, Refresh, Issues, Goes, Tokens, At
<1>12. NewPairs'
  <2>1. CASE UNCHANGED <<issued, owner, grants, lost>> /\ call'[c].step = "expire"
    BY <1>2, <1>3, <2>1, CallerMoves
  <2>2. CASE Rotates(c) /\ call'[c].step = "save" /\ call'[c].next = issued + 1 /\ lost' = lost
    BY <1>2, <1>3, <2>2, CallerRotates
  <2> QED
    BY <1>3, <2>1, <2>2
<1>13. RefreshTokenLive'
  <2>1. CASE UNCHANGED <<issued, owner, grants, lost>> /\ call'[c].step = "expire"
    BY <1>2, <1>3, <2>1, CallerMoves
  <2>2. CASE Rotates(c) /\ call'[c].step = "save" /\ call'[c].next = issued + 1 /\ lost' = lost
    BY <1>2, <1>3, <2>2, CallerRotates
  <2> QED
    BY <1>3, <2>1, <2>2
<1>14. TokenFollowsAccount'
  <2>1. CASE UNCHANGED <<issued, owner, grants, lost>> /\ call'[c].step = "expire"
    BY <1>2, <1>3, <2>1, CallerMoves
  <2>2. CASE Rotates(c) /\ call'[c].step = "save" /\ call'[c].next = issued + 1 /\ lost' = lost
    BY <1>2, <1>3, <2>2, CallerRotates
  <2> QED
    BY <1>3, <2>1, <2>2
<1>15. RefreshesOwn'
  <2>1. CASE UNCHANGED <<issued, owner, grants, lost>> /\ call'[c].step = "expire"
    BY <1>2, <1>3, <2>1, CallerMoves
  <2>2. CASE Rotates(c) /\ call'[c].step = "save" /\ call'[c].next = issued + 1 /\ lost' = lost
    BY <1>2, <1>3, <2>2, CallerRotates
  <2> QED
    BY <1>3, <2>1, <2>2
<1>16. StatusFollowsToken'
  BY <1>2 DEF IInv, StatusFollowsToken, Credential
<1>17. MarketsUsable'
  BY <1>2, <1>3 DEF IInv, MarketsUsable, Credential, At
<1>18. KeysHold'
  BY <1>2, <1>3 DEF IInv, KeysHold, At
<1>19. TogglesSeen'
  BY <1>1 DEF IInv, TogglesSeen, provider, imports, Refresh, Issues, Goes, Tokens, At
<1> QED
  BY <1>10, <1>11, <1>12, <1>13, <1>14, <1>15, <1>16, <1>17, <1>18, <1>19 DEF IInv

LEMMA InvRefreshFails ==
  ASSUME IInv, NEW c \in Callers, RefreshFails(c)
  PROVE  IInv'
<1>1. Typed
  BY TypeParts DEF IInv
<1>2. /\ call[c].step = "refresh" /\ call[c] \in Calls /\ issued \in Nat
      /\ UNCHANGED <<cap, row, aged, revoked, oauth, req, imports, active, crossed, redeemed>>
  BY <1>1, ConstantsAssumption
     DEF Typed, ProviderTyped, CallTyped, RefreshFails, At, ConstantsAssumption
<1>3. /\ \A d \in Callers \ {c} : call'[d] = call[d]
      /\ call'[c].kind = call[c].kind /\ call'[c].token = call[c].token
      /\ call'[c].step = "expire"
      /\ \/ Rotates(c) /\ lost' = lost \cup {call[c].token}
         \/ UNCHANGED <<issued, owner, grants, lost>>
      /\ call' \in [Callers -> Calls']
  <2>1. \/ Rotates(c) /\ lost' = lost \cup {call[c].token}
        \/ UNCHANGED <<issued, owner, grants, lost>>
    BY DEF RefreshFails, Rotates
  <2>2. Calls \subseteq Calls'
    BY <1>1, <1>2, <2>1, Rotated DEF Typed, Calls, OwnTokens
  <2> QED
    BY <1>1, <2>1, <2>2, CallGoes DEF Typed, Steps, RefreshFails
<1>4. ProviderTyped'
  <2>1. CASE UNCHANGED <<issued, owner, grants, lost>>
    BY <1>1, <1>2, <2>1 DEF Typed, ProviderTyped
  <2>2. CASE Rotates(c)
    <3>1. lost' \subseteq lost \cup {call[c].token}
      BY <1>3, <2>2
    <3> QED
      <4>1. ProviderTyped
        BY <1>1 DEF Typed
      <4>2. issued' = issued + 1 /\ issued' \in 1..MaxTokens /\ issued \in Nat
        BY <2>2, <4>1, Rotated
      <4>3. /\ owner' \in [Tokens -> Shops \cup {NoShop}]
            /\ grants' \subseteq grants \cup {issued'} /\ call[c].token \in 1..issued
        BY <2>2, <4>1, Rotated
      <4> QED
        BY <1>2, <3>1, <4>1, <4>2, <4>3 DEF ProviderTyped
  <2> QED
    BY <1>3, <2>1, <2>2
<1>5. RowTyped'
  <2>1. Rows \subseteq Rows'
    BY <1>1, <1>2, <1>3, Rotated DEF Typed, Rows, OwnTokens
  <2> QED
    BY <1>1, <1>2, <2>1 DEF Typed, RowTyped
<1>6. ReqTyped'
  <2>1. Reqs \subseteq Reqs'
    BY <1>1, <1>2, <1>3, Rotated DEF Typed, Reqs, OwnTokens
  <2> QED
    BY <1>1, <1>2, <2>1 DEF Typed, ReqTyped
<1>7. CallTyped'
  BY <1>3 DEF CallTyped
<1>8. ImportTyped'
  BY <1>1
     DEF Typed, ImportTyped, provider, imports, RefreshFails, Issues, Goes,
         Mishap, Tokens
<1>9. HistoryTyped'
  BY <1>1
     DEF Typed, HistoryTyped, provider, imports, RefreshFails, Issues, Goes,
         Mishap, Tokens
<1>10. TypeOK'
  BY <1>4, <1>5, <1>6, <1>7, <1>8, <1>9, TypeNext DEF Typed
<1>11. SpentStates'
  BY <1>1
     DEF IInv, SpentStates, provider, imports, RefreshFails, Issues, Goes,
         Mishap, Tokens, At
<1>12. NewPairs'
  <2>1. CASE UNCHANGED <<issued, owner, grants, lost>> /\ call'[c].step = "expire"
    BY <1>2, <1>3, <2>1, CallerMoves
  <2>2. CASE Rotates(c) /\ lost' = lost \cup {call[c].token}
    BY <1>2, <1>3, <2>2, CallerRotates
  <2> QED
    BY <1>3, <2>1, <2>2
<1>13. RefreshTokenLive'
  <2>1. CASE UNCHANGED <<issued, owner, grants, lost>> /\ call'[c].step = "expire"
    BY <1>2, <1>3, <2>1, CallerMoves
  <2>2. CASE Rotates(c) /\ lost' = lost \cup {call[c].token}
    BY <1>2, <1>3, <2>2, CallerRotates
  <2> QED
    BY <1>3, <2>1, <2>2
<1>14. TokenFollowsAccount'
  <2>1. CASE UNCHANGED <<issued, owner, grants, lost>> /\ call'[c].step = "expire"
    BY <1>2, <1>3, <2>1, CallerMoves
  <2>2. CASE Rotates(c) /\ lost' = lost \cup {call[c].token}
    BY <1>2, <1>3, <2>2, CallerRotates
  <2> QED
    BY <1>3, <2>1, <2>2
<1>15. RefreshesOwn'
  <2>1. CASE UNCHANGED <<issued, owner, grants, lost>> /\ call'[c].step = "expire"
    BY <1>2, <1>3, <2>1, CallerMoves
  <2>2. CASE Rotates(c) /\ lost' = lost \cup {call[c].token}
    BY <1>2, <1>3, <2>2, CallerRotates
  <2> QED
    BY <1>3, <2>1, <2>2
<1>16. StatusFollowsToken'
  BY <1>2 DEF IInv, StatusFollowsToken, Credential
<1>17. MarketsUsable'
  BY <1>2, <1>3 DEF IInv, MarketsUsable, Credential, At
<1>18. KeysHold'
  BY <1>2, <1>3 DEF IInv, KeysHold, At
<1>19. TogglesSeen'
  BY <1>1
     DEF IInv, TogglesSeen, provider, imports, RefreshFails, Issues, Goes,
         Mishap, Tokens, At
<1> QED
  BY <1>10, <1>11, <1>12, <1>13, <1>14, <1>15, <1>16, <1>17, <1>18, <1>19 DEF IInv

LEMMA InvSave ==
  ASSUME IInv, NEW c \in Callers, Save(c)
  PROVE  IInv'
<1>1. Typed
  BY TypeParts DEF IInv
<1>2. /\ call[c].step = "save" /\ call[c] \in Calls /\ call[c].token # 0
      /\ call[c].next \in grants \cup revoked /\ call[c].next # 0
  <2>1. call[c].step = "save" /\ call[c] \in Calls
    BY <1>1 DEF Typed, CallTyped, Save, At
  <2> QED
    BY <1>1, <2>1 DEF IInv, NewPairs, RefreshesOwn, Typed, ProviderTyped, At
<1>3. /\ row' \in Rows /\ row'.token = call[c].next /\ row'.shop = row.shop
      /\ row'.readable = TRUE /\ row'.status = "CONNECTED"
  <2>1. row' = TokensSaved(call[c].token, call[c].next)
    BY DEF Save
  <2> QED
    BY <1>1, <1>2, <2>1 DEF Typed, RowTyped, Rows, Calls, TokensSaved, Statuses
<1>4. /\ call' \in [Callers -> Calls] /\ \A d \in Callers \ {c} : call'[d] = call[d]
      /\ call'[c].step = "fetch" /\ call'[c].token = call[c].next
      /\ call'[c].kind = call[c].kind
  <2> DEFINE r == [step |-> "fetch", kind |-> call[c].kind, token |-> call[c].next,
                   shop |-> call[c].shop, next |-> 0, verdict |-> call[c].verdict]
  <2>1. call' = [call EXCEPT ![c].step = "fetch", ![c].token = call[c].next, ![c].next = 0]
    BY DEF Save
  <2>2. call' = [call EXCEPT ![c] = r]
    <3> DEFINE n == call[c].next
               f == [call EXCEPT ![c].step = "fetch"]
               g == [f EXCEPT ![c].token = n]
               h == [g EXCEPT ![c].next = 0]
    <3>1. /\ f \in [Callers -> Calls]
          /\ \A d \in Callers : f[d] = IF d = c THEN [call[c] EXCEPT !.step = "fetch"] ELSE call[d]
      BY <1>1 DEF Typed, CallTyped, Calls, Steps
    <3>2. /\ g \in [Callers -> Calls]
          /\ \A d \in Callers : g[d] = IF d = c THEN [f[c] EXCEPT !.token = n] ELSE f[d]
      BY <1>2, <3>1 DEF Calls
    <3>3. /\ DOMAIN h = Callers /\ h \in [Callers -> {h[d] : d \in Callers}]
          /\ \A d \in Callers : h[d] = IF d = c THEN [g[c] EXCEPT !.next = 0] ELSE g[d]
      BY <3>2 DEF Calls
    <3>4. h[c] = r
      BY <1>2, <3>1, <3>2, <3>3 DEF Calls
    <3>5. call' = h
      BY <2>1
    <3>6. call \in [Callers -> Calls]
      BY <1>1 DEF Typed, CallTyped
    <3> HIDE DEF f, g, h, r
    <3> QED
      BY <3>1, <3>2, <3>3, <3>4, <3>5, <3>6
  <2>3. r \in Calls
    BY <1>1, <1>2 DEF Typed, ProviderTyped, Calls, Steps, OwnTokens
  <2>4. r.step = "fetch" /\ r.token = call[c].next /\ r.kind = call[c].kind
    OBVIOUS
  <2> HIDE DEF r
  <2> QED
    BY <1>1, <2>2, <2>3, <2>4, CallSet DEF Typed
<1>5. UNCHANGED <<cap, issued, owner, grants, revoked, req, active, crossed>>
  BY DEF Save, provider
<1>6. ProviderTyped'
  BY <1>1 DEF Typed, ProviderTyped, provider, imports, Save, TokensSaved
<1>7. RowTyped'
  BY <1>3, <1>5 DEF RowTyped, Rows, OwnTokens
<1>8. ReqTyped'
  BY <1>1 DEF Typed, ReqTyped, provider, imports, Save, TokensSaved, Reqs, OwnTokens
<1>9. CallTyped'
  BY <1>4, <1>5 DEF CallTyped, Calls, OwnTokens
<1>10. ImportTyped'
  BY <1>1 DEF Typed, ImportTyped, provider, imports, Save, TokensSaved
<1>11. HistoryTyped'
  BY <1>1 DEF Typed, HistoryTyped, provider, imports, Save, TokensSaved
<1>12. TypeOK'
  BY <1>6, <1>7, <1>8, <1>9, <1>10, <1>11, TypeNext DEF Typed
<1>13. SpentStates'
  BY <1>1 DEF IInv, SpentStates, provider, imports, Save, TokensSaved, At
<1>14. NewPairs'
  BY <1>2, <1>3, <1>4, <1>5 DEF IInv, NewPairs, At
<1>15. RefreshTokenLive'
  BY <1>2, <1>3, <1>5 DEF RefreshTokenLive
<1>16. TokenFollowsAccount'
  BY <1>2, <1>3, <1>5 DEF IInv, TokenFollowsAccount, RefreshesOwn, At
<1>17. RefreshesOwn'
  BY <1>3, <1>4, <1>5 DEF IInv, RefreshesOwn, At
<1>18. StatusFollowsToken'
  BY <1>2, <1>3 DEF StatusFollowsToken
<1>19. MarketsUsable'
  BY <1>2, <1>3 DEF MarketsUsable, Credential
<1>20. KeysHold'
  BY <1>2, <1>3, <1>4, <1>5 DEF IInv, KeysHold, At
<1>21. TogglesSeen'
  BY <1>1 DEF IInv, TogglesSeen, provider, imports, Save, TokensSaved, At
<1> QED
  BY <1>12, <1>13, <1>14, <1>15, <1>16, <1>17, <1>18, <1>19, <1>20, <1>21 DEF IInv

LEMMA InvSaveFails ==
  ASSUME IInv, NEW c \in Callers, SaveFails(c)
  PROVE  IInv'
<1>1. Typed
  BY TypeParts DEF IInv
<1>2. /\ call' \in [Callers -> Calls] /\ \A d \in Callers \ {c} : call'[d] = call[d]
      /\ call'[c].step = "expire" /\ call'[c].kind = call[c].kind
      /\ call'[c].token = call[c].token /\ call[c].step = "save"
      /\ call[c].token \in 1..issued
  <2> DEFINE r == [step |-> "expire", kind |-> call[c].kind, token |-> call[c].token,
                   shop |-> call[c].shop, next |-> 0, verdict |-> call[c].verdict]
  <2>1. call[c].step = "save" /\ call[c] \in Calls /\ call[c].token # 0
    BY <1>1 DEF IInv, RefreshesOwn, Typed, CallTyped, SaveFails, At
  <2>2. call' = [call EXCEPT ![c] = r]
    BY <1>1, CallTwo DEF Typed, SaveFails, Steps
  <2>3. r \in Calls
    BY <1>1, <2>1, ConstantsAssumption DEF Typed, ProviderTyped, Calls, Steps,
      OwnTokens, ConstantsAssumption
  <2>4. r.step = "expire" /\ r.token = call[c].token /\ r.kind = call[c].kind
    OBVIOUS
  <2>5. call[c].token \in 1..issued
    BY <1>1, <2>1 DEF Typed, ProviderTyped, Calls, OwnTokens
  <2> HIDE DEF r
  <2> QED
    BY <1>1, <2>1, <2>2, <2>3, <2>4, <2>5, CallSet DEF Typed
<1>3. ProviderTyped'
  BY <1>1, <1>2 DEF Typed, ProviderTyped, SaveFails, provider
<1>4. RowTyped'
  BY <1>1 DEF Typed, RowTyped, provider, imports, SaveFails, Mishap, Rows, OwnTokens
<1>5. ReqTyped'
  BY <1>1 DEF Typed, ReqTyped, provider, imports, SaveFails, Mishap, Reqs, OwnTokens
<1>6. CallTyped'
  BY <1>2 DEF CallTyped, Calls, OwnTokens, SaveFails, provider
<1>7. ImportTyped'
  BY <1>1 DEF Typed, ImportTyped, provider, imports, SaveFails, Mishap
<1>8. HistoryTyped'
  BY <1>1 DEF Typed, HistoryTyped, provider, imports, SaveFails, Mishap
<1>9. TypeOK'
  BY <1>3, <1>4, <1>5, <1>6, <1>7, <1>8, TypeNext DEF Typed
<1>10. SpentStates'
  BY <1>1 DEF IInv, SpentStates, provider, imports, SaveFails, Mishap, At
<1>11. NewPairs'
  BY <1>2, CallerMoves DEF SaveFails, provider, imports, At, Mishap
<1>12. RefreshTokenLive'
  BY <1>2, CallerMoves DEF SaveFails, provider, imports, At, Mishap
<1>13. TokenFollowsAccount'
  BY <1>2, CallerMoves DEF SaveFails, provider, imports, At, Mishap
<1>14. RefreshesOwn'
  BY <1>2, CallerMoves DEF SaveFails, provider, imports, At, Mishap
<1>15. StatusFollowsToken'
  BY <1>2 DEF IInv, StatusFollowsToken, Credential, MarketsUsable, At, SaveFails
<1>16. MarketsUsable'
  BY <1>2 DEF IInv, MarketsUsable, Credential, At, SaveFails
<1>17. KeysHold'
  BY <1>2 DEF IInv, KeysHold, At, SaveFails
<1>18. TogglesSeen'
  BY <1>1 DEF IInv, TogglesSeen, provider, imports, SaveFails, Mishap, At
<1> QED
  BY <1>9, <1>10, <1>11, <1>12, <1>13, <1>14, <1>15, <1>16, <1>17, <1>18 DEF IInv

LEMMA InvExpire ==
  ASSUME IInv, NEW c \in Callers, Expire(c)
  PROVE  IInv'
<1>1. Typed
  BY TypeParts DEF IInv
<1>2. /\ call' \in [Callers -> Calls]
      /\ \A d \in Callers \ {c} : call'[d] = call[d]
      /\ call'[c].step \in {"idle", "error"} /\ call'[c].token = 0
      /\ call'[c].step = "error" => call'[c].kind = call[c].kind /\ call'[c].verdict = "EXPIRED"
  BY <1>1, CallFails DEF Typed, Expire, Verdicts
<1>3. /\ row' \in Rows /\ row'.token = row.token /\ row'.shop = row.shop
      /\ row'.readable = row.readable /\ row'.status \in {row.status, "EXPIRED"}
  BY <1>1, RowStatus DEF Typed, RowTyped, Expire, Statuses
<1>4. ProviderTyped'
  BY <1>1
     DEF Typed, ProviderTyped, provider, imports, Expire, NoCall, Fails,
         StatusSet, Exists
<1>5. RowTyped'
  BY <1>1, <1>3 DEF Typed, RowTyped, Rows, OwnTokens, Expire, provider
<1>6. ReqTyped'
  BY <1>1
     DEF Typed, ReqTyped, provider, imports, Expire, NoCall, Fails, StatusSet,
         Exists, Reqs, OwnTokens
<1>7. CallTyped'
  BY <1>1, <1>2 DEF Typed, CallTyped, Calls, OwnTokens, Expire, provider
<1>8. ImportTyped'
  BY <1>1
     DEF Typed, ImportTyped, provider, imports, Expire, NoCall, Fails,
         StatusSet, Exists
<1>9. HistoryTyped'
  BY <1>1
     DEF Typed, HistoryTyped, provider, imports, Expire, NoCall, Fails,
         StatusSet, Exists
<1>10. TypeOK'
  BY <1>4, <1>5, <1>6, <1>7, <1>8, <1>9, TypeNext DEF Typed
<1>11. SpentStates'
  BY <1>1
     DEF IInv, SpentStates, provider, imports, Expire, NoCall, Fails, StatusSet,
         Exists, At
<1>12. NewPairs'
  BY <1>2, <1>3, CallerMoves DEF Expire, provider, imports, At, Mishap
<1>13. RefreshTokenLive'
  BY <1>2, <1>3, CallerMoves DEF Expire, provider, imports, At, Mishap
<1>14. TokenFollowsAccount'
  BY <1>2, <1>3, CallerMoves DEF Expire, provider, imports, At, Mishap
<1>15. RefreshesOwn'
  BY <1>2, <1>3, CallerMoves DEF Expire, provider, imports, At, Mishap
<1>16. StatusFollowsToken'
  BY <1>2, <1>3 DEF IInv, StatusFollowsToken, Credential, MarketsUsable, At, Expire
<1>17. MarketsUsable'
  BY <1>2, <1>3 DEF IInv, MarketsUsable, Credential, At, Expire
<1>18. KeysHold'
  BY <1>2, <1>3 DEF IInv, KeysHold, At, Expire
<1>19. TogglesSeen'
  BY <1>1
     DEF IInv, TogglesSeen, provider, imports, Expire, NoCall, Fails, StatusSet,
         Exists, At
<1> QED
  BY <1>10, <1>11, <1>12, <1>13, <1>14, <1>15, <1>16, <1>17, <1>18, <1>19 DEF IInv

LEMMA InvFetch ==
  ASSUME IInv, NEW c \in Callers, Fetch(c)
  PROVE  IInv'
<1>1. Typed
  BY TypeParts DEF IInv
<1>2. /\ call' \in [Callers -> Calls]
      /\ \A d \in Callers \ {c} : call'[d] = call[d]
      /\ call'[c].step \in {"idle", "error", "items"} /\ call'[c].token = 0
      /\ call'[c].step # "idle" => call'[c].kind = call[c].kind
      /\ call'[c].step = "error" => call'[c].verdict # "REAUTH_REQUIRED"
  <2>1. CASE call' = [call EXCEPT ![c] = NoCall]
    BY <1>1, <2>1, Empty, CallSet DEF Typed, NoCall
  <2>2. CASE Fails(c, Refusal) \/ Fails(c, "ERROR")
    <3>1. Refusal \in Verdicts /\ Refusal # "REAUTH_REQUIRED"
      BY DEF Refusal, Verdicts
    <3>2. PICK v \in Verdicts : v # "REAUTH_REQUIRED" /\ Fails(c, v)
      BY <2>2, <3>1 DEF Verdicts
    <3> QED
      BY <1>1, <3>2, CallFails DEF Typed
  <2>3. CASE call' = [call EXCEPT ![c] = [NoCall EXCEPT !.step = "items",
                                                       !.kind = call[c].kind]]
    <3> DEFINE r == [NoCall EXCEPT !.step = "items", !.kind = call[c].kind]
    <3>1. call[c] \in Calls
      BY <1>1 DEF Typed, CallTyped
    <3>2. r \in Calls /\ r.step = "items" /\ r.token = 0 /\ r.kind = call[c].kind
      BY <1>1, <3>1, Empty DEF Typed, NoCall, Calls, Steps
    <3> HIDE DEF r
    <3> QED
      BY <1>1, <2>3, <3>2, CallSet DEF Typed, r
  <2> QED
    BY <2>1, <2>2, <2>3 DEF Fetch
<1>3. batch' \in [Callers -> Batches]
  <2>1. batch \in [Callers -> Batches] /\ cap.items \subseteq Items
    BY <1>1, ConstantsAssumption DEF Typed, ImportTyped, HistoryTyped,
      ConstantsAssumption
  <2>2. batch' = batch \/ batch' = [batch EXCEPT ![c].todo = cap.items]
    BY DEF Fetch
  <2> QED
    BY <2>1, <2>2 DEF Batches
<1>4. ProviderTyped'
  BY <1>1
     DEF Typed, ProviderTyped, provider, imports, Fetch, NoCall, Fails, Refused,
         Refusal, Mishap
<1>5. RowTyped'
  BY <1>1
     DEF Typed, RowTyped, provider, imports, Fetch, NoCall, Fails, Refused,
         Refusal, Mishap, Rows, OwnTokens
<1>6. ReqTyped'
  BY <1>1
     DEF Typed, ReqTyped, provider, imports, Fetch, NoCall, Fails, Refused,
         Refusal, Mishap, Reqs, OwnTokens
<1>7. CallTyped'
  BY <1>1, <1>2 DEF Typed, CallTyped, Calls, OwnTokens, Fetch, provider
<1>8. ImportTyped'
  BY <1>1, <1>3 DEF Typed, ImportTyped, Fetch, FailedRow, Creates
<1>9. HistoryTyped'
  BY <1>1 DEF Typed, HistoryTyped, Fetch, Mishap
<1>10. TypeOK'
  BY <1>4, <1>5, <1>6, <1>7, <1>8, <1>9, TypeNext DEF Typed
<1>11. SpentStates'
  BY <1>1
     DEF IInv, SpentStates, provider, imports, Fetch, NoCall, Fails, Refused,
         Refusal, Mishap, At
<1>12. NewPairs'
  BY <1>2, CallerMoves DEF Fetch, provider, imports, At, Mishap
<1>13. RefreshTokenLive'
  BY <1>2, CallerMoves DEF Fetch, provider, imports, At, Mishap
<1>14. TokenFollowsAccount'
  BY <1>2, CallerMoves DEF Fetch, provider, imports, At, Mishap
<1>15. RefreshesOwn'
  BY <1>2, CallerMoves DEF Fetch, provider, imports, At, Mishap
<1>16. StatusFollowsToken'
  BY <1>2, CallerRests DEF Fetch, At
<1>17. MarketsUsable'
  BY <1>2, CallerRests DEF Fetch, At
<1>18. KeysHold'
  BY <1>2 DEF IInv, KeysHold, At, Fetch
<1>19. TogglesSeen'
  BY <1>1
     DEF IInv, TogglesSeen, provider, imports, Fetch, NoCall, Fails, Refused,
         Refusal, Mishap, At
<1> QED
  BY <1>10, <1>11, <1>12, <1>13, <1>14, <1>15, <1>16, <1>17, <1>18, <1>19 DEF IInv

LEMMA InvLookup ==
  ASSUME IInv, NEW c \in Callers, NEW i \in Items, Lookup(c, i)
  PROVE  IInv'
<1>1. Typed
  BY TypeParts DEF IInv
<1>2. /\ call' \in [Callers -> Calls]
      /\ \A d \in Callers \ {c} : call'[d] = call[d]
      /\ call'[c].step \in {"items", "write"} /\ call'[c].kind = call[c].kind
      /\ call'[c].token = call[c].token /\ call[c].step = "items"
  <2>1. CASE call' = call
    BY <1>1, <2>1 DEF Typed, CallTyped, Lookup, At
  <2>2. CASE Goes(c, "write")
    BY <1>1, <2>2, CallGoes DEF Typed, Lookup, At, Steps
  <2> QED
    BY <2>1, <2>2 DEF Lookup
<1>3. batch' \in [Callers -> Batches]
  <2>1. CASE batch' = [batch EXCEPT ![c].item = {i}]
    BY <1>1, <2>1 DEF Typed, ImportTyped, Batches
  <2>2. CASE Tallied(c, i, "failed") \/ Tallied(c, i, "known")
    BY <1>1, <2>2, Tally DEF Typed
  <2> QED
    BY <2>1, <2>2 DEF Lookup
<1>4. ProviderTyped'
  BY <1>1
     DEF Typed, ProviderTyped, provider, imports, Lookup, Tallied, FailedRow,
         Goes, Mishap
<1>5. RowTyped'
  BY <1>1
     DEF Typed, RowTyped, provider, imports, Lookup, Tallied, FailedRow, Goes,
         Mishap, Rows, OwnTokens
<1>6. ReqTyped'
  BY <1>1
     DEF Typed, ReqTyped, provider, imports, Lookup, Tallied, FailedRow, Goes,
         Mishap, Reqs, OwnTokens
<1>7. CallTyped'
  BY <1>1, <1>2 DEF Typed, CallTyped, Calls, OwnTokens, Lookup, provider
<1>8. ImportTyped'
  BY <1>1, <1>3 DEF Typed, ImportTyped, Lookup, FailedRow, Creates
<1>9. HistoryTyped'
  BY <1>1 DEF Typed, HistoryTyped, Lookup, Mishap
<1>10. TypeOK'
  BY <1>4, <1>5, <1>6, <1>7, <1>8, <1>9, TypeNext DEF Typed
<1>11. SpentStates'
  BY <1>1
     DEF IInv, SpentStates, provider, imports, Lookup, Tallied, FailedRow, Goes,
         Mishap, At
<1>12. NewPairs'
  BY <1>2, CallerMoves DEF Lookup, provider, imports, At, Mishap
<1>13. RefreshTokenLive'
  BY <1>2, CallerMoves DEF Lookup, provider, imports, At, Mishap
<1>14. TokenFollowsAccount'
  BY <1>2, CallerMoves DEF Lookup, provider, imports, At, Mishap
<1>15. RefreshesOwn'
  BY <1>2, CallerMoves DEF Lookup, provider, imports, At, Mishap
<1>16. StatusFollowsToken'
  BY <1>2, CallerRests DEF Lookup, At
<1>17. MarketsUsable'
  BY <1>2, CallerRests DEF Lookup, At
<1>18. KeysHold'
  BY <1>2 DEF IInv, KeysHold, At, Lookup
<1>19. TogglesSeen'
  BY <1>1
     DEF IInv, TogglesSeen, provider, imports, Lookup, Tallied, FailedRow, Goes,
         Mishap, At
<1> QED
  BY <1>10, <1>11, <1>12, <1>13, <1>14, <1>15, <1>16, <1>17, <1>18, <1>19 DEF IInv

LEMMA InvWrite ==
  ASSUME IInv, NEW c \in Callers, NEW i \in Items, Write(c, i)
  PROVE  IInv'
<1>1. Typed
  BY TypeParts DEF IInv
<1>2. /\ call' \in [Callers -> Calls]
      /\ \A d \in Callers \ {c} : call'[d] = call[d]
      /\ call'[c].step = "items" /\ call'[c].kind = call[c].kind
      /\ call'[c].token = call[c].token /\ call[c].step = "write"
  BY <1>1, CallGoes DEF Typed, Write, At, Steps
<1>3. batch' \in [Callers -> Batches]
  BY <1>1, Tally DEF Typed, Write
<1>4. ProviderTyped'
  BY <1>1
     DEF Typed, ProviderTyped, provider, imports, Write, Tallied, FailedRow,
         Goes, Mishap, Creates
<1>5. RowTyped'
  BY <1>1
     DEF Typed, RowTyped, provider, imports, Write, Tallied, FailedRow, Goes,
         Mishap, Creates, Rows, OwnTokens
<1>6. ReqTyped'
  BY <1>1
     DEF Typed, ReqTyped, provider, imports, Write, Tallied, FailedRow, Goes,
         Mishap, Creates, Reqs, OwnTokens
<1>7. CallTyped'
  BY <1>1, <1>2 DEF Typed, CallTyped, Calls, OwnTokens, Write, provider
<1>8. ImportTyped'
  BY <1>1, <1>3 DEF Typed, ImportTyped, Write, FailedRow, Creates
<1>9. HistoryTyped'
  BY <1>1 DEF Typed, HistoryTyped, Write, Mishap
<1>10. TypeOK'
  BY <1>4, <1>5, <1>6, <1>7, <1>8, <1>9, TypeNext DEF Typed
<1>11. SpentStates'
  BY <1>1
     DEF IInv, SpentStates, provider, imports, Write, Tallied, FailedRow, Goes,
         Mishap, Creates, At
<1>12. NewPairs'
  BY <1>2, CallerMoves DEF Write, provider, imports, At, Mishap
<1>13. RefreshTokenLive'
  BY <1>2, CallerMoves DEF Write, provider, imports, At, Mishap
<1>14. TokenFollowsAccount'
  BY <1>2, CallerMoves DEF Write, provider, imports, At, Mishap
<1>15. RefreshesOwn'
  BY <1>2, CallerMoves DEF Write, provider, imports, At, Mishap
<1>16. StatusFollowsToken'
  BY <1>2, CallerRests DEF Write, At
<1>17. MarketsUsable'
  BY <1>2, CallerRests DEF Write, At
<1>18. KeysHold'
  BY <1>2 DEF IInv, KeysHold, At, Write
<1>19. TogglesSeen'
  BY <1>1
     DEF IInv, TogglesSeen, provider, imports, Write, Tallied, FailedRow, Goes,
         Mishap, Creates, At
<1> QED
  BY <1>10, <1>11, <1>12, <1>13, <1>14, <1>15, <1>16, <1>17, <1>18, <1>19 DEF IInv

LEMMA InvRecordMarket ==
  ASSUME IInv, NEW c \in Callers, RecordMarket(c)
  PROVE  IInv'
<1>1. Typed
  BY TypeParts DEF IInv
<1>2. /\ call' \in [Callers -> Calls]
      /\ \A d \in Callers \ {c} : call'[d] = call[d]
      /\ call'[c].step = "record" /\ call'[c].kind = call[c].kind
      /\ call'[c].token = call[c].token /\ call'[c].verdict = call[c].verdict
  BY <1>1, CallGoes DEF Typed, RecordMarket, Steps
<1>3. /\ row' \in Rows /\ row'.token = row.token /\ row'.shop = row.shop
      /\ row'.readable = row.readable /\ row'.status \in {row.status, "CONNECTED"}
  BY <1>1, RowStatus DEF Typed, RowTyped, RecordMarket, Statuses
<1>4. ProviderTyped'
  BY <1>1
     DEF Typed, ProviderTyped, provider, imports, RecordMarket, Goes, StatusSet,
         Exists
<1>5. RowTyped'
  BY <1>1, <1>3 DEF Typed, RowTyped, Rows, OwnTokens, RecordMarket, provider
<1>6. ReqTyped'
  BY <1>1
     DEF Typed, ReqTyped, provider, imports, RecordMarket, Goes, StatusSet,
         Exists, Reqs, OwnTokens
<1>7. CallTyped'
  BY <1>1, <1>2 DEF Typed, CallTyped, Calls, OwnTokens, RecordMarket, provider
<1>8. ImportTyped'
  <2>1. batch[c].imported \in Nat
    BY <1>1 DEF Typed, ImportTyped, Batches
  <2> QED
    BY <1>1, <2>1 DEF Typed, ImportTyped, RecordMarket
<1>9. HistoryTyped'
  BY <1>1
     DEF Typed, HistoryTyped, provider, imports, RecordMarket, Goes, StatusSet,
         Exists
<1>10. TypeOK'
  BY <1>4, <1>5, <1>6, <1>7, <1>8, <1>9, TypeNext DEF Typed
<1>11. SpentStates'
  BY <1>1
     DEF IInv, SpentStates, provider, imports, RecordMarket, Goes, StatusSet,
         Exists, At
<1>12. NewPairs'
  BY <1>2, <1>3, CallerMoves DEF RecordMarket, provider, imports, At, Mishap
<1>13. RefreshTokenLive'
  BY <1>2, <1>3, CallerMoves DEF RecordMarket, provider, imports, At, Mishap
<1>14. TokenFollowsAccount'
  BY <1>2, <1>3, CallerMoves DEF RecordMarket, provider, imports, At, Mishap
<1>15. RefreshesOwn'
  BY <1>2, <1>3, CallerMoves DEF RecordMarket, provider, imports, At, Mishap
<1>16. StatusFollowsToken'
  BY <1>2, <1>3
     DEF IInv, StatusFollowsToken, Credential, MarketsUsable, At, RecordMarket
<1>17. MarketsUsable'
  BY <1>2, <1>3 DEF IInv, MarketsUsable, Credential, At, RecordMarket
<1>18. KeysHold'
  BY <1>2, <1>3 DEF IInv, KeysHold, At, RecordMarket
<1>19. TogglesSeen'
  BY <1>1
     DEF IInv, TogglesSeen, provider, imports, RecordMarket, Goes, StatusSet,
         Exists, At
<1> QED
  BY <1>10, <1>11, <1>12, <1>13, <1>14, <1>15, <1>16, <1>17, <1>18, <1>19 DEF IInv

LEMMA InvRecordStatus ==
  ASSUME IInv, NEW c \in Callers, RecordStatus(c)
  PROVE  IInv'
<1>1. Typed
  BY TypeParts DEF IInv
<1>2. /\ call' \in [Callers -> Calls]
      /\ \A d \in Callers \ {c} : call'[d] = call[d]
      /\ call'[c] = NoCall /\ call'[c].step = "idle" /\ call'[c].token = 0
  BY <1>1, Empty, CallSet DEF Typed, RecordStatus, Finished, NoCall
<1>3. ProviderTyped'
  BY <1>1
     DEF Typed, ProviderTyped, provider, imports, RecordStatus, Recorded,
         Finished, NoCall, NoBatch
<1>4. RowTyped'
  BY <1>1
     DEF Typed, RowTyped, provider, imports, RecordStatus, Recorded, Finished,
         NoCall, NoBatch, Rows, OwnTokens
<1>5. ReqTyped'
  BY <1>1
     DEF Typed, ReqTyped, provider, imports, RecordStatus, Recorded, Finished,
         NoCall, NoBatch, Reqs, OwnTokens
<1>6. CallTyped'
  BY <1>1, <1>2 DEF Typed, CallTyped, Calls, OwnTokens, RecordStatus, provider
<1>7. ImportTyped'
  <2>1. batch \in [Callers -> Batches] /\ batch[c].imported \in Nat
    BY <1>1 DEF Typed, ImportTyped, Batches
  <2>2. batch' \in [Callers -> Batches]
    BY <1>1, <2>1, Empty DEF Typed, RecordStatus, Finished
  <2>3. PICK state \in {"ACTIVE", "ERROR"}, k \in Nat : Recorded(state, k)
    BY <2>1 DEF RecordStatus
  <2> QED
    BY <1>1, <2>2, <2>3, Record DEF Typed, ImportTyped, RecordStatus
<1>8. HistoryTyped'
  BY <1>1
     DEF Typed, HistoryTyped, provider, imports, RecordStatus, Recorded,
         Finished, NoCall, NoBatch
<1>9. TypeOK'
  BY <1>3, <1>4, <1>5, <1>6, <1>7, <1>8, TypeNext DEF Typed
<1>10. SpentStates'
  BY <1>1
     DEF IInv, SpentStates, provider, imports, RecordStatus, Recorded, Finished,
         NoCall, NoBatch, At
<1>11. NewPairs'
  BY <1>2, CallerMoves DEF RecordStatus, provider, imports, At, Mishap
<1>12. RefreshTokenLive'
  BY <1>2, CallerMoves DEF RecordStatus, provider, imports, At, Mishap
<1>13. TokenFollowsAccount'
  BY <1>2, CallerMoves DEF RecordStatus, provider, imports, At, Mishap
<1>14. RefreshesOwn'
  BY <1>2, CallerMoves DEF RecordStatus, provider, imports, At, Mishap
<1>15. StatusFollowsToken'
  BY <1>2, CallerRests DEF RecordStatus, At
<1>16. MarketsUsable'
  BY <1>2, CallerRests DEF RecordStatus, At
<1>17. KeysHold'
  BY <1>2 DEF IInv, KeysHold, At, RecordStatus
<1>18. TogglesSeen'
  <2>1. batch[c].imported \in Nat
    BY <1>1 DEF Typed, ImportTyped, Batches
  <2>2. PICK state \in {"ACTIVE", "ERROR"}, k \in Nat : Recorded(state, k)
    BY <2>1 DEF RecordStatus
  <2> QED
    BY <1>1, <2>2, Record DEF Typed, TogglesSeen
<1> QED
  BY <1>9, <1>10, <1>11, <1>12, <1>13, <1>14, <1>15, <1>16, <1>17, <1>18 DEF IInv

LEMMA InvRecordFramework ==
  ASSUME IInv, NEW c \in Callers, RecordFramework(c)
  PROVE  IInv'
<1>1. Typed
  BY TypeParts DEF IInv
<1>2. /\ call' \in [Callers -> Calls]
      /\ \A d \in Callers \ {c} : call'[d] = call[d]
      /\ call'[c] = NoCall /\ call'[c].step = "idle" /\ call'[c].token = 0
  BY <1>1, Empty, CallSet DEF Typed, RecordFramework, Finished, NoCall
<1>3. ProviderTyped'
  BY <1>1
     DEF Typed, ProviderTyped, provider, imports, RecordFramework, Recorded,
         Finished, NoCall, NoBatch
<1>4. RowTyped'
  BY <1>1
     DEF Typed, RowTyped, provider, imports, RecordFramework, Recorded,
         Finished, NoCall, NoBatch, Rows, OwnTokens
<1>5. ReqTyped'
  BY <1>1
     DEF Typed, ReqTyped, provider, imports, RecordFramework, Recorded,
         Finished, NoCall, NoBatch, Reqs, OwnTokens
<1>6. CallTyped'
  BY <1>1, <1>2 DEF Typed, CallTyped, Calls, OwnTokens, RecordFramework, provider
<1>7. ImportTyped'
  <2>1. batch \in [Callers -> Batches] /\ batch[c].imported \in Nat
    BY <1>1 DEF Typed, ImportTyped, Batches
  <2>2. batch' \in [Callers -> Batches]
    BY <1>1, <2>1, Empty DEF Typed, RecordFramework, Finished
  <2>3. PICK state \in {"ACTIVE", "ERROR"}, k \in Nat : Recorded(state, k)
    BY <2>1 DEF RecordFramework
  <2> QED
    BY <1>1, <2>2, <2>3, Record DEF Typed, ImportTyped, RecordFramework
<1>8. HistoryTyped'
  BY <1>1
     DEF Typed, HistoryTyped, provider, imports, RecordFramework, Recorded,
         Finished, NoCall, NoBatch
<1>9. TypeOK'
  BY <1>3, <1>4, <1>5, <1>6, <1>7, <1>8, TypeNext DEF Typed
<1>10. SpentStates'
  BY <1>1
     DEF IInv, SpentStates, provider, imports, RecordFramework, Recorded,
         Finished, NoCall, NoBatch, At
<1>11. NewPairs'
  BY <1>2, CallerMoves DEF RecordFramework, provider, imports, At, Mishap
<1>12. RefreshTokenLive'
  BY <1>2, CallerMoves DEF RecordFramework, provider, imports, At, Mishap
<1>13. TokenFollowsAccount'
  BY <1>2, CallerMoves DEF RecordFramework, provider, imports, At, Mishap
<1>14. RefreshesOwn'
  BY <1>2, CallerMoves DEF RecordFramework, provider, imports, At, Mishap
<1>15. StatusFollowsToken'
  BY <1>2, CallerRests DEF RecordFramework, At
<1>16. MarketsUsable'
  BY <1>2, CallerRests DEF RecordFramework, At
<1>17. KeysHold'
  BY <1>2 DEF IInv, KeysHold, At, RecordFramework
<1>18. TogglesSeen'
  <2>1. batch[c].imported \in Nat
    BY <1>1 DEF Typed, ImportTyped, Batches
  <2>2. PICK state \in {"ACTIVE", "ERROR"}, k \in Nat : Recorded(state, k)
    BY <2>1 DEF RecordFramework
  <2> QED
    BY <1>1, <2>2, Record DEF Typed, TogglesSeen
<1> QED
  BY <1>9, <1>10, <1>11, <1>12, <1>13, <1>14, <1>15, <1>16, <1>17, <1>18 DEF IInv

LEMMA InvRecordFailure ==
  ASSUME IInv, NEW c \in Callers, RecordFailure(c)
  PROVE  IInv'
<1>1. Typed
  BY TypeParts DEF IInv
<1>2. /\ call' \in [Callers -> Calls]
      /\ \A d \in Callers \ {c} : call'[d] = call[d]
      /\ call'[c].step = "failed" /\ call'[c].kind = call[c].kind
      /\ call'[c].token = call[c].token /\ call'[c].verdict = call[c].verdict
  BY <1>1, CallGoes DEF Typed, RecordFailure, Goes, Steps
<1>3. /\ row' \in Rows /\ row'.token = row.token /\ row'.shop = row.shop
      /\ row'.readable = row.readable /\ row'.status \in {row.status, call[c].verdict}
  <2>1. call[c].verdict \in Statuses
    BY <1>1 DEF Typed, CallTyped, Calls, Verdicts, Statuses
  <2> QED
    BY <1>1, <2>1, RowStatus DEF Typed, RowTyped, RecordFailure, FailureStatus
<1>4. ProviderTyped'
  BY <1>1
     DEF Typed, ProviderTyped, provider, imports, RecordFailure, StatusSet,
         Exists, FailureStatus
<1>5. RowTyped'
  BY <1>1, <1>3 DEF Typed, RowTyped, Rows, OwnTokens, RecordFailure, provider
<1>6. ReqTyped'
  BY <1>1
     DEF Typed, ReqTyped, provider, imports, RecordFailure, StatusSet, Exists,
         FailureStatus, Reqs, OwnTokens
<1>7. CallTyped'
  BY <1>1, <1>2 DEF Typed, CallTyped, Calls, OwnTokens, RecordFailure, provider
<1>8. ImportTyped'
  BY <1>1
     DEF Typed, ImportTyped, provider, imports, RecordFailure, StatusSet,
         Exists, FailureStatus
<1>9. HistoryTyped'
  BY <1>1
     DEF Typed, HistoryTyped, provider, imports, RecordFailure, StatusSet,
         Exists, FailureStatus
<1>10. TypeOK'
  BY <1>4, <1>5, <1>6, <1>7, <1>8, <1>9, TypeNext DEF Typed
<1>11. SpentStates'
  BY <1>1
     DEF IInv, SpentStates, provider, imports, RecordFailure, StatusSet, Exists,
         FailureStatus, At
<1>12. NewPairs'
  BY <1>2, <1>3, CallerMoves DEF RecordFailure, provider, imports, At, Mishap
<1>13. RefreshTokenLive'
  BY <1>2, <1>3, CallerMoves DEF RecordFailure, provider, imports, At, Mishap
<1>14. TokenFollowsAccount'
  BY <1>2, <1>3, CallerMoves DEF RecordFailure, provider, imports, At, Mishap
<1>15. RefreshesOwn'
  BY <1>2, <1>3, CallerMoves DEF RecordFailure, provider, imports, At, Mishap
<1>16. StatusFollowsToken'
  <2>1. call[c].verdict \in {"EXPIRED", "ERROR", "REAUTH_REQUIRED"}
    BY <1>1 DEF Typed, CallTyped, Calls, Verdicts
  <2> QED
    BY <1>3, <2>1 DEF IInv, StatusFollowsToken, RecordFailure
<1>17. MarketsUsable'
  BY <1>2, <1>3 DEF IInv, MarketsUsable, Credential, At, RecordFailure
<1>18. KeysHold'
  BY <1>2, <1>3 DEF IInv, KeysHold, At, RecordFailure
<1>19. TogglesSeen'
  BY <1>1
     DEF IInv, TogglesSeen, provider, imports, RecordFailure, StatusSet, Exists,
         FailureStatus, At
<1> QED
  BY <1>10, <1>11, <1>12, <1>13, <1>14, <1>15, <1>16, <1>17, <1>18, <1>19 DEF IInv

LEMMA InvRecordFailedStatus ==
  ASSUME IInv, NEW c \in Callers, RecordFailedStatus(c)
  PROVE  IInv'
<1>1. Typed
  BY TypeParts DEF IInv
<1>2. /\ call' \in [Callers -> Calls]
      /\ \A d \in Callers \ {c} : call'[d] = call[d]
      /\ call'[c] = NoCall /\ call'[c].step = "idle" /\ call'[c].token = 0
  BY <1>1, Empty, CallSet DEF Typed, RecordFailedStatus, Finished, NoCall
<1>3. ProviderTyped'
  BY <1>1
     DEF Typed, ProviderTyped, provider, imports, RecordFailedStatus, Recorded,
         Finished, NoCall, NoBatch
<1>4. RowTyped'
  BY <1>1
     DEF Typed, RowTyped, provider, imports, RecordFailedStatus, Recorded,
         Finished, NoCall, NoBatch, Rows, OwnTokens
<1>5. ReqTyped'
  BY <1>1
     DEF Typed, ReqTyped, provider, imports, RecordFailedStatus, Recorded,
         Finished, NoCall, NoBatch, Reqs, OwnTokens
<1>6. CallTyped'
  BY <1>1, <1>2 DEF Typed, CallTyped, Calls, OwnTokens, RecordFailedStatus, provider
<1>7. ImportTyped'
  <2>1. batch \in [Callers -> Batches] /\ batch[c].imported \in Nat
    BY <1>1 DEF Typed, ImportTyped, Batches
  <2>2. batch' \in [Callers -> Batches]
    BY <1>1, <2>1, Empty DEF Typed, RecordFailedStatus, Finished
  <2>3. PICK state \in {"ACTIVE", "ERROR"}, k \in Nat : Recorded(state, k)
    BY <2>1 DEF RecordFailedStatus
  <2> QED
    BY <1>1, <2>2, <2>3, Record DEF Typed, ImportTyped, RecordFailedStatus
<1>8. HistoryTyped'
  BY <1>1
     DEF Typed, HistoryTyped, provider, imports, RecordFailedStatus, Recorded,
         Finished, NoCall, NoBatch
<1>9. TypeOK'
  BY <1>3, <1>4, <1>5, <1>6, <1>7, <1>8, TypeNext DEF Typed
<1>10. SpentStates'
  BY <1>1
     DEF IInv, SpentStates, provider, imports, RecordFailedStatus, Recorded,
         Finished, NoCall, NoBatch, At
<1>11. NewPairs'
  BY <1>2, CallerMoves DEF RecordFailedStatus, provider, imports, At, Mishap
<1>12. RefreshTokenLive'
  BY <1>2, CallerMoves DEF RecordFailedStatus, provider, imports, At, Mishap
<1>13. TokenFollowsAccount'
  BY <1>2, CallerMoves DEF RecordFailedStatus, provider, imports, At, Mishap
<1>14. RefreshesOwn'
  BY <1>2, CallerMoves DEF RecordFailedStatus, provider, imports, At, Mishap
<1>15. StatusFollowsToken'
  BY <1>2, CallerRests DEF RecordFailedStatus, At
<1>16. MarketsUsable'
  BY <1>2, CallerRests DEF RecordFailedStatus, At
<1>17. KeysHold'
  BY <1>2 DEF IInv, KeysHold, At, RecordFailedStatus
<1>18. TogglesSeen'
  <2>1. batch[c].imported \in Nat
    BY <1>1 DEF Typed, ImportTyped, Batches
  <2>2. PICK state \in {"ACTIVE", "ERROR"}, k \in Nat : Recorded(state, k)
    BY <2>1 DEF RecordFailedStatus
  <2> QED
    BY <1>1, <2>2, Record DEF Typed, TogglesSeen
<1> QED
  BY <1>9, <1>10, <1>11, <1>12, <1>13, <1>14, <1>15, <1>16, <1>17, <1>18 DEF IInv

LEMMA InvDie ==
  ASSUME IInv, NEW c \in Callers, Die(c)
  PROVE  IInv'
<1>1. Typed
  BY TypeParts DEF IInv
<1>2. /\ call' \in [Callers -> Calls]
      /\ \A d \in Callers \ {c} : call'[d] = call[d]
      /\ call'[c] = NoCall /\ call'[c].step = "idle" /\ call'[c].token = 0
  BY <1>1, Empty, CallSet DEF Typed, Die, Finished, NoCall
<1>3. ProviderTyped'
  <2>1. call[c].step = "save" => call[c].token \in 1..issued
    BY <1>1 DEF IInv, RefreshesOwn, Typed, CallTyped, Calls, OwnTokens, ProviderTyped
  <2> QED
    BY <1>1, <2>1 DEF Typed, ProviderTyped, Die, provider, At
<1>4. RowTyped'
  BY <1>1
     DEF Typed, RowTyped, provider, imports, Die, Finished, NoCall, NoBatch,
         Mishap, Rows, OwnTokens
<1>5. ReqTyped'
  BY <1>1
     DEF Typed, ReqTyped, provider, imports, Die, Finished, NoCall, NoBatch,
         Mishap, Reqs, OwnTokens
<1>6. CallTyped'
  BY <1>1, <1>2 DEF Typed, CallTyped, Calls, OwnTokens, Die, provider
<1>7. ImportTyped'
  BY <1>1, Empty DEF Typed, ImportTyped, Die, Finished
<1>8. HistoryTyped'
  BY <1>1
     DEF Typed, HistoryTyped, provider, imports, Die, Finished, NoCall, NoBatch,
         Mishap
<1>9. TypeOK'
  BY <1>3, <1>4, <1>5, <1>6, <1>7, <1>8, TypeNext DEF Typed
<1>10. SpentStates'
  BY <1>1
     DEF IInv, SpentStates, provider, imports, Die, Finished, NoCall, NoBatch,
         Mishap, At
<1>11. NewPairs'
  BY <1>2, CallerMoves DEF Die, provider, imports, At, Mishap
<1>12. RefreshTokenLive'
  BY <1>2, CallerMoves DEF Die, provider, imports, At, Mishap
<1>13. TokenFollowsAccount'
  BY <1>2, CallerMoves DEF Die, provider, imports, At, Mishap
<1>14. RefreshesOwn'
  BY <1>2, CallerMoves DEF Die, provider, imports, At, Mishap
<1>15. StatusFollowsToken'
  BY <1>2, CallerRests DEF Die, At
<1>16. MarketsUsable'
  BY <1>2, CallerRests DEF Die, At
<1>17. KeysHold'
  BY <1>2 DEF IInv, KeysHold, At, Die
<1>18. TogglesSeen'
  BY <1>1
     DEF IInv, TogglesSeen, provider, imports, Die, Finished, NoCall, NoBatch,
         Mishap, At
<1> QED
  BY <1>9, <1>10, <1>11, <1>12, <1>13, <1>14, <1>15, <1>16, <1>17, <1>18 DEF IInv

LEMMA InvReadToggle ==
  ASSUME IInv, NEW enabled \in BOOLEAN, ReadToggle(enabled)
  PROVE  IInv'
<1>1. Typed
  BY TypeParts DEF IInv
<1>2. ProviderTyped'
  BY <1>1 DEF Typed, ProviderTyped, provider, imports, ReadToggle, NextState
<1>3. RowTyped'
  BY <1>1
     DEF Typed, RowTyped, provider, imports, ReadToggle, NextState, Rows,
         OwnTokens
<1>4. ReqTyped'
  BY <1>1
     DEF Typed, ReqTyped, provider, imports, ReadToggle, NextState, Reqs,
         OwnTokens
<1>5. CallTyped'
  BY <1>1
     DEF Typed, CallTyped, provider, imports, ReadToggle, NextState, Calls,
         OwnTokens
<1>6. ImportTyped'
  BY <1>1 DEF Typed, ImportTyped, ToggleStates, ReadToggle, NextState
<1>7. HistoryTyped'
  BY <1>1 DEF Typed, HistoryTyped, provider, imports, ReadToggle, NextState
<1>8. TypeOK'
  BY <1>2, <1>3, <1>4, <1>5, <1>6, <1>7, TypeNext DEF Typed
<1>9. SpentStates'
  BY <1>1 DEF IInv, SpentStates, provider, imports, ReadToggle, NextState
<1>10. NewPairs'
  BY <1>1 DEF IInv, NewPairs, provider, imports, ReadToggle, NextState, At
<1>11. RefreshTokenLive'
  BY <1>1 DEF IInv, RefreshTokenLive, provider, imports, ReadToggle, NextState, At
<1>12. TokenFollowsAccount'
  BY <1>1 DEF IInv, TokenFollowsAccount, provider, imports, ReadToggle, NextState
<1>13. RefreshesOwn'
  BY <1>1 DEF IInv, RefreshesOwn, provider, imports, ReadToggle, NextState, At
<1>14. StatusFollowsToken'
  BY <1>1
     DEF IInv, StatusFollowsToken, provider, imports, ReadToggle, NextState,
         Credential, MarketsUsable
<1>15. MarketsUsable'
  BY <1>1
     DEF IInv, MarketsUsable, provider, imports, ReadToggle, NextState,
         Credential, At
<1>16. KeysHold'
  BY <1>1 DEF IInv, KeysHold, provider, imports, ReadToggle, NextState, At
<1>17. TogglesSeen'
  BY <1>1 DEF IInv, TogglesSeen, provider, imports, ReadToggle, NextState
<1> QED
  BY <1>8, <1>9, <1>10, <1>11, <1>12, <1>13, <1>14, <1>15, <1>16, <1>17 DEF IInv

LEMMA InvWriteToggle ==
  ASSUME IInv, WriteToggle
  PROVE  IInv'
<1>1. Typed
  BY TypeParts DEF IInv
<1>2. ProviderTyped'
  BY <1>1 DEF Typed, ProviderTyped, provider, imports, WriteToggle, NoToggle
<1>3. RowTyped'
  BY <1>1
     DEF Typed, RowTyped, provider, imports, WriteToggle, NoToggle, Rows,
         OwnTokens
<1>4. ReqTyped'
  BY <1>1
     DEF Typed, ReqTyped, provider, imports, WriteToggle, NoToggle, Reqs,
         OwnTokens
<1>5. CallTyped'
  BY <1>1
     DEF Typed, CallTyped, provider, imports, WriteToggle, NoToggle, Calls,
         OwnTokens
<1>6. ImportTyped'
  <2>1. /\ framework' = [framework EXCEPT !.enabled = toggle.enabled, !.state = toggle.state]
        /\ toggle' = NoToggle
    BY DEF WriteToggle
  <2>2. framework' \in [state : ToggleStates, enabled : BOOLEAN, imported : Nat]
    BY <1>1, <2>1 DEF Typed, ImportTyped
  <2>3. toggle' \in [pending : BOOLEAN, enabled : BOOLEAN, overtaken : BOOLEAN,
                     state : ToggleStates]
    BY <2>1 DEF NoToggle, ToggleStates
  <2> QED
    BY <1>1, <2>2, <2>3 DEF Typed, ImportTyped, WriteToggle
<1>7. HistoryTyped'
  BY <1>1 DEF Typed, HistoryTyped, provider, imports, WriteToggle, NoToggle
<1>8. TypeOK'
  BY <1>2, <1>3, <1>4, <1>5, <1>6, <1>7, TypeNext DEF Typed
<1>9. SpentStates'
  BY <1>1 DEF IInv, SpentStates, provider, imports, WriteToggle, NoToggle
<1>10. NewPairs'
  BY <1>1 DEF IInv, NewPairs, provider, imports, WriteToggle, NoToggle, At
<1>11. RefreshTokenLive'
  BY <1>1 DEF IInv, RefreshTokenLive, provider, imports, WriteToggle, NoToggle, At
<1>12. TokenFollowsAccount'
  BY <1>1 DEF IInv, TokenFollowsAccount, provider, imports, WriteToggle, NoToggle
<1>13. RefreshesOwn'
  BY <1>1 DEF IInv, RefreshesOwn, provider, imports, WriteToggle, NoToggle, At
<1>14. StatusFollowsToken'
  BY <1>1
     DEF IInv, StatusFollowsToken, provider, imports, WriteToggle, NoToggle,
         Credential, MarketsUsable
<1>15. MarketsUsable'
  BY <1>1
     DEF IInv, MarketsUsable, provider, imports, WriteToggle, NoToggle,
         Credential, At
<1>16. KeysHold'
  BY <1>1 DEF IInv, KeysHold, provider, imports, WriteToggle, NoToggle, At
<1>17. TogglesSeen'
  BY <1>1 DEF IInv, TogglesSeen, provider, imports, WriteToggle, NoToggle
<1> QED
  BY <1>8, <1>9, <1>10, <1>11, <1>12, <1>13, <1>14, <1>15, <1>16, <1>17 DEF IInv

-----------------------------------------------------------------------------
(* From the steps to the behaviours. *)

LEMMA InvInit ==
  ASSUME Init
  PROVE  IInv
<1>1. Typed
  <2>1. ProviderTyped
    BY ConstantsAssumption DEF Init, ProviderTyped, Tokens, ConstantsAssumption
  <2>2. RowTyped
    BY ConstantsAssumption DEF Init, RowTyped, Rows, Statuses, OwnTokens,
      ConstantsAssumption
  <2>3. ReqTyped
    BY <2>1, Empty DEF Init, ReqTyped
  <2>4. CallTyped
    BY <2>1, Empty DEF Init, CallTyped
  <2>5. ImportTyped
    <3>1. batch \in [Callers -> Batches]
      BY <2>1, Empty DEF Init
    <3> QED
      BY <3>1 DEF Init, ImportTyped, ToggleStates, NoToggle
  <2>6. HistoryTyped
    BY DEF Init, HistoryTyped
  <2> QED
    BY <2>1, <2>2, <2>3, <2>4, <2>5, <2>6 DEF Typed
<1>2. TypeOK
  BY <1>1, TypeParts
<1>3. /\ row.status = "ABSENT" /\ row.token = 0 /\ row.readable = TRUE
      /\ \A c \in Callers : call[c].step = "idle"
      /\ \A q \in Requests : req[q].step = "idle"
  BY DEF Init, NoCall, NoReq
<1>4. SpentStates /\ TogglesSeen /\ ~active
  BY DEF Init, SpentStates, TogglesSeen, NoToggle
<1>5. NewPairs /\ RefreshTokenLive /\ TokenFollowsAccount /\ RefreshesOwn
  BY <1>3, <1>4 DEF NewPairs, RefreshTokenLive, TokenFollowsAccount, RefreshesOwn, At
<1>6. StatusFollowsToken /\ MarketsUsable /\ KeysHold
  BY <1>3 DEF StatusFollowsToken, MarketsUsable, KeysHold, At
<1> QED
  BY <1>2, <1>4, <1>5, <1>6 DEF IInv

LEMMA InvCall ==
  ASSUME IInv, NEW c \in Callers, CallStep(c)
  PROVE  IInv'
BY InvStart, InvRead, InvPark, InvRefresh, InvRefreshFails, InvSave, InvSaveFails,
   InvExpire, InvFetch, InvLookup, InvWrite, InvRecordMarket, InvRecordStatus,
   InvRecordFramework, InvRecordFailure, InvRecordFailedStatus, InvDie
   DEF CallStep

LEMMA InvRequest ==
  ASSUME IInv, NEW q \in Requests, RequestStep(q)
  PROVE  IInv'
BY InvFindState, InvConsumeState, InvSessionConnect, InvExchange, InvConnectFails,
  InvStore
   DEF RequestStep

LEMMA InvStutter ==
  ASSUME IInv, UNCHANGED vars
  PROVE  IInv'
<1>1. TypeOK'
  BY DEF IInv, TypeOK, OwnTokens, vars, provider, imports
<1>2. SpentStates' /\ TogglesSeen'
  BY DEF IInv, SpentStates, TogglesSeen, vars, provider, imports
<1>3. NewPairs' /\ RefreshTokenLive'
  BY DEF IInv, NewPairs, RefreshTokenLive, At, vars, provider
<1>4. TokenFollowsAccount' /\ RefreshesOwn'
  BY DEF IInv, TokenFollowsAccount, RefreshesOwn, At, vars, provider
<1>5. StatusFollowsToken' /\ MarketsUsable' /\ KeysHold'
  BY DEF IInv, StatusFollowsToken, MarketsUsable, Credential, KeysHold, At, vars
<1> QED
  BY <1>1, <1>2, <1>3, <1>4, <1>5 DEF IInv

LEMMA InvNext ==
  ASSUME IInv, [Next]_vars
  PROVE  IInv'
<1>1. CASE UNCHANGED vars
  BY <1>1, InvStutter
<1>2. CASE \E s \in States : Issue(s) \/ StateExpires(s)
  BY <1>2, InvIssue, InvStateExpires
<1>3. CASE \E q \in Requests : RequestStep(q)
  BY <1>3, InvRequest
<1>4. CASE \E c \in Callers : CallStep(c)
  BY <1>4, InvCall
<1>5. CASE Disconnect \/ RotateKey \/ WriteToggle
  BY <1>5, InvDisconnect, InvRotateKey, InvWriteToggle
<1>6. CASE \E t \in Tokens : TokenAges(t)
  BY <1>6, InvTokenAges
<1>7. CASE \E shop \in Shops : Revoke(shop)
  BY <1>7, InvRevoke
<1>8. CASE \E enabled \in BOOLEAN : ReadToggle(enabled)
  BY <1>8, InvReadToggle
<1> QED
  BY <1>1, <1>2, <1>3, <1>4, <1>5, <1>6, <1>7, <1>8 DEF Next

(* The row, the OAuth states, the calls and the counters keep their shape,  *)
(* and no token is stored, held or granted that the provider did not issue. *)
THEOREM TypeCorrect == Spec => []TypeOK
<1>1. IInv => TypeOK
  BY DEF IInv
<1> QED
  BY <1>1, InvInit, InvNext, PTL DEF Spec

(* What the calls in progress know of the row is inductive.                 *)
THEOREM Inductive == Spec => []IInv
BY InvInit, InvNext, PTL DEF Spec

(* The stored refresh token is good, revoked, known to be lost or about to  *)
(* be replaced, whatever refreshes, connects and disconnects interleave     *)
(* (getValidAccessToken and saveTokens).                                    *)
THEOREM RefreshTokenSafe == Spec => []RefreshTokenLive
<1>1. IInv => RefreshTokenLive
  BY DEF IInv
<1> QED
  BY <1>1, Inductive, PTL

(* Without an overlap the token is there exactly while an account is        *)
(* connected, and it is that account's (upsertConnection, clearCredentials).*)
THEOREM AccountSafe == Spec => []TokenFollowsAccount
<1>1. IInv => TokenFollowsAccount
  BY DEF IInv
<1> QED
  BY <1>1, Inductive, PTL

(* Without an overlap the status of the row agrees with its credential      *)
(* (setStatus, recordSyncResult, saveTokens).                               *)
THEOREM StatusSafe == Spec => []StatusFollowsToken
<1>1. IInv => StatusFollowsToken
  BY DEF IInv
<1> QED
  BY <1>1, Inductive, PTL

(* An OAuth state is accepted at most once (consume in                      *)
(* oauth-state.service.ts).                                                 *)
THEOREM StatesOneTime == Spec => []StateUsedOnce
<1>1. IInv => StateUsedOnce
  BY DEF IInv, SpentStates, StateUsedOnce
<1> QED
  BY <1>1, Inductive, PTL

(* Rows, account and OAuth states agree: the types, the token and status of *)
(* the connected account, and the one use of a state together.              *)
THEOREM ConnectionCorrect == Spec => []ConnectionSafe
<1>1. IInv => ConnectionSafe
  BY DEF IInv, SpentStates, StateUsedOnce, ConnectionSafe
<1> QED
  BY <1>1, Inductive, PTL

LEMMA ReauthStep ==
  ASSUME IInv, [Next]_vars, row.status = "REAUTH_REQUIRED", row'.status # "REAUTH_REQUIRED",
         ~crossed.status
  PROVE  row'.token # row.token
<1>1. Typed /\ ~row.readable /\ row.token # 0
  BY TypeParts DEF IInv, KeysHold
<1>2. row \in Rows /\ row' # row /\ Exists
  BY <1>1 DEF Typed, RowTyped, Exists
<1>3. ASSUME NEW c \in Callers, CallStep(c)
      PROVE  row'.token # row.token
  <2>1. call[c].step \in {"idle", "read", "park", "failed"}
          \/ (At(c, "error") /\ call[c].verdict = "REAUTH_REQUIRED")
    BY <1>1 DEF IInv, KeysHold
  <2>2. Park(c) \/ RecordFailure(c)
    BY <1>2, <1>3, <2>1 DEF CallStep, At, Start, Read, Refresh, RefreshFails, Save,
      SaveFails,
       Expire, Fetch, Lookup, Write, RecordMarket, RecordStatus, RecordFramework,
       RecordFailedStatus, Die
  <2>3. CASE Park(c)
    BY <1>1, <1>2, <2>3, RowStatus DEF Typed, Park, Statuses
  <2>4. CASE RecordFailure(c)
    BY <1>1, <1>2, <2>1, <2>4, RowStatus DEF Typed, RecordFailure, FailureStatus, At,
      Statuses
  <2> QED
    BY <2>2, <2>3, <2>4
<1>4. ASSUME NEW q \in Requests, RequestStep(q)
      PROVE  row'.token # row.token
  <2>1. Store(q)
    BY <1>2, <1>4 DEF RequestStep, FindState, ConsumeState, SessionConnect, Exchange,
      ConnectFails
  <2>2. req[q].token # row.token /\ row' = Connection(req[q].token, req[q].shop)
    BY <2>1 DEF Store, IInv, NewPairs
  <2> QED
    BY <2>2 DEF Connection
<1>5. CASE Disconnect
  BY <1>1, <1>2, <1>5 DEF Disconnect, Cleared, Rows
<1>6. CASE RotateKey
  BY <1>2, <1>6 DEF RotateKey, Rows
<1> QED
  BY <1>2, <1>3, <1>4, <1>5, <1>6
     DEF Next, vars, Issue, StateExpires, TokenAges, Revoke, ReadToggle, WriteToggle

LEMMA EnablingStep ==
  ASSUME IInv, [Next]_vars, framework.state \in {"ACTIVE", "ERROR"}, framework'.state = "IDLE"
  PROVE  toggle.overtaken
<1>1. Typed /\ TogglesSeen
  BY TypeParts DEF IInv
<1>2. framework' # framework
  OBVIOUS
<1>3. ASSUME NEW state \in {"ACTIVE", "ERROR"}, NEW n \in Nat, Recorded(state, n)
      PROVE  FALSE
  BY <1>1, <1>3, Record DEF Typed
<1>4. ASSUME NEW c \in Callers, CallStep(c)
      PROVE  FALSE
  <2>1. batch[c].imported \in Nat
    BY <1>1 DEF Typed, ImportTyped, Batches
  <2>2. RecordStatus(c) \/ RecordFramework(c) \/ RecordFailedStatus(c)
    BY <1>2, <1>4 DEF CallStep, imports, Start, Read, Park, Refresh, RefreshFails, Save,
       SaveFails, Expire, Fetch, Lookup, Write, RecordMarket, RecordFailure, Die
  <2> QED
    BY <1>3, <2>1, <2>2 DEF RecordStatus, RecordFramework, RecordFailedStatus
<1>5. CASE WriteToggle
  BY <1>1, <1>5 DEF WriteToggle, TogglesSeen, Typed, ImportTyped
<1>6. ASSUME NEW q \in Requests, RequestStep(q)
      PROVE  FALSE
  BY <1>2, <1>6 DEF RequestStep, imports, FindState, ConsumeState, SessionConnect,
    Exchange,
     ConnectFails, Store
<1> QED
  BY <1>2, <1>4, <1>5, <1>6
     DEF Next, vars, imports, Issue, StateExpires, Disconnect, TokenAges, Revoke,
       RotateKey,
         ReadToggle

(* REAUTH_REQUIRED ends only with a new token or where a connect or a       *)
(* disconnect overlapped a call (FailureStatus in syncProvider), and        *)
(* enabling erases only a result that was recorded between the read and the *)
(* write of the switch (setEnabled).                                        *)
THEOREM ResultsSafe == Spec => ResultsKept
<1>1. IInv /\ [Next]_vars => [ReauthNotFlattened /\ EnablingErasesOnlyUnseen]_vars
  BY ReauthStep, EnablingStep DEF ReauthNotFlattened, EnablingErasesOnlyUnseen
<1> QED
  BY <1>1, Inductive, PTL DEF Spec, ResultsKept

-----------------------------------------------------------------------------
(* The tally of imports: what a call adds to the counters once it records.   *)
CountedSteps == {"items", "write", "record"}
MarketSteps == {"items", "write"}
Share(c, kinds, steps) ==
  IF call[c].kind \in kinds /\ call[c].step \in steps THEN batch[c].imported ELSE 0
Imported == {i \in Items : content[i] = "IMPORTED"}

(* A call that has not begun its items, or has recorded them, holds none.    *)
BatchesEmpty ==
  \A c \in Callers : call[c].step \notin CountedSteps => batch[c].imported = 0

CountInv == BatchesEmpty /\ ImportsCounted

LEMMA Shares ==
  ASSUME CallTyped, ImportTyped, NEW kinds, NEW steps
  PROVE  /\ \A c \in Callers : Share(c, kinds, steps) \in Nat
         /\ Unrecorded(kinds, steps) \in Nat
<1>1. \A c \in Callers : Share(c, kinds, steps) \in Nat
  BY DEF Share, ImportTyped, Batches
<1> DEFINE f == [c \in Callers |-> Share(c, kinds, steps)]
<1>2. \A c \in Callers : f[c] \in Int /\ f[c] >= 0
  BY <1>1
<1>3. Unrecorded(kinds, steps) = SumFunctionOnSet(f, Callers)
  BY DEF Unrecorded, Share
<1> HIDE DEF f
<1>4. SumFunctionOnSet(f, Callers) \in Int /\ SumFunctionOnSet(f, Callers) >= 0
  BY <1>2, ConstantsAssumption, SumType DEF ConstantsAssumption
<1> QED
  BY <1>1, <1>3, <1>4

LEMMA SharesLater ==
  ASSUME CallTyped', ImportTyped', NEW kinds, NEW steps
  PROVE  Unrecorded(kinds, steps)' \in Nat
<1> DEFINE f == [c \in Callers |-> IF call'[c].kind \in kinds /\ call'[c].step \in steps
                                   THEN batch'[c].imported ELSE 0]
<1>1. \A c \in Callers : f[c] \in Int /\ f[c] >= 0
  BY DEF ImportTyped, Batches
<1>2. Unrecorded(kinds, steps)' = SumFunctionOnSet(f, Callers)
  BY DEF Unrecorded
<1> HIDE DEF f
<1>3. SumFunctionOnSet(f, Callers) \in Int /\ SumFunctionOnSet(f, Callers) >= 0
  BY <1>1, ConstantsAssumption, SumType DEF ConstantsAssumption
<1> QED
  BY <1>2, <1>3

(* A step of one caller changes what is unrecorded by what it changes of its *)
(* own share.                                                                *)
LEMMA UnrecordedMoves ==
  ASSUME CallTyped, ImportTyped, CallTyped', ImportTyped', NEW c \in Callers,
         \A d \in Callers \ {c} : call'[d] = call[d] /\ batch'[d].imported = batch[d].imported,
         NEW kinds, NEW steps
  PROVE  Unrecorded(kinds, steps)'
           = Unrecorded(kinds, steps) - Share(c, kinds, steps) + Share(c, kinds, steps)'
<1> DEFINE f == [d \in Callers |-> Share(d, kinds, steps)]
           g == [d \in Callers |-> IF call'[d].kind \in kinds /\ call'[d].step \in steps
                                   THEN batch'[d].imported ELSE 0]
<1>1. \A d \in Callers : f[d] \in Int /\ g[d] \in Int
  BY DEF Share, ImportTyped, Batches
<1>2. \A d \in Callers \ {c} : g[d] = f[d]
  BY DEF Share
<1>3. f[c] = Share(c, kinds, steps) /\ g[c] = Share(c, kinds, steps)'
  BY DEF Share
<1>4. /\ Unrecorded(kinds, steps) = SumFunctionOnSet(f, Callers)
      /\ Unrecorded(kinds, steps)' = SumFunctionOnSet(g, Callers)
  BY DEF Unrecorded, Share
<1> HIDE DEF f, g
<1>5. SumFunctionOnSet(g, Callers) = SumFunctionOnSet(f, Callers) - f[c] + g[c]
  BY <1>1, <1>2, ConstantsAssumption, SumChange DEF ConstantsAssumption
<1> QED
  BY <1>3, <1>4, <1>5

(* The imported rows are counted as they come.                               *)
LEMMA ImportedSize == ASSUME ImportTyped PROVE Cardinality(Imported) \in Nat
<1>1. IsFiniteSet(Imported)
  BY ConstantsAssumption, FS_Subset DEF ConstantsAssumption, Imported
<1> QED
  BY <1>1, FS_CardinalityType

(* n more rows are imported, and either the caller's share or a counter      *)
(* takes them.                                                               *)
LEMMA CountMoves ==
  ASSUME CountInv, CallTyped, ImportTyped, CallTyped', ImportTyped', NEW c \in Callers,
         \A d \in Callers \ {c} : call'[d] = call[d] /\ batch'[d].imported = batch[d].imported,
         call'[c].step \notin CountedSteps => batch'[c].imported = 0,
         NEW n \in Nat, Cardinality(Imported)' = Cardinality(Imported) + n,
         ~dropped' => /\ ~dropped
                      /\ framework'.imported + Share(c, Kinds, CountedSteps)'
                           = framework.imported + Share(c, Kinds, CountedSteps) + n,
         unified' + Share(c, {"market"}, MarketSteps)'
           <= unified + Share(c, {"market"}, MarketSteps) + n
  PROVE  CountInv'
<1> DEFINE all == Unrecorded(Kinds, CountedSteps)
           market == Unrecorded({"market"}, MarketSteps)
<1>1. BatchesEmpty'
  BY DEF CountInv, BatchesEmpty
<1>2. /\ Unrecorded(Kinds, CountedSteps)'
           = all - Share(c, Kinds, CountedSteps) + Share(c, Kinds, CountedSteps)'
      /\ Unrecorded({"market"}, MarketSteps)'
           = market - Share(c, {"market"}, MarketSteps) + Share(c, {"market"}, MarketSteps)'
  BY UnrecordedMoves
<1>3. /\ all \in Nat /\ market \in Nat /\ Unrecorded(Kinds, CountedSteps)' \in Nat
      /\ Unrecorded({"market"}, MarketSteps)' \in Nat
      /\ Share(c, Kinds, CountedSteps) \in Nat /\ Share(c, {"market"}, MarketSteps) \in Nat
      /\ Share(c, Kinds, CountedSteps)' \in Nat /\ Share(c, {"market"}, MarketSteps)' \in Nat
  <2>1. /\ Share(c, Kinds, CountedSteps)' \in Nat /\ Share(c, {"market"}, MarketSteps)' \in Nat
    BY DEF Share, ImportTyped, Batches
  <2>2. /\ all \in Nat /\ market \in Nat
        /\ Share(c, Kinds, CountedSteps) \in Nat /\ Share(c, {"market"}, MarketSteps) \in Nat
    BY Shares
  <2>3. Unrecorded(Kinds, CountedSteps)' \in Nat /\ Unrecorded({"market"}, MarketSteps)' \in Nat
    BY SharesLater
  <2> QED
    BY <2>1, <2>2, <2>3
<1>4. /\ framework.imported \in Nat /\ framework'.imported \in Nat
      /\ unified \in Nat /\ unified' \in Nat /\ Cardinality(Imported) \in Nat
  BY ImportedSize DEF ImportTyped
<1>5. /\ ~dropped => framework.imported + all = Cardinality(Imported)
      /\ unified + market <= Cardinality(Imported)
  BY DEF CountInv, ImportsCounted, Imported, CountedSteps, MarketSteps
<1> HIDE DEF all, market
<1>6. /\ ~dropped' => framework'.imported + Unrecorded(Kinds, CountedSteps)'
                        = Cardinality(Imported)'
      /\ unified' + Unrecorded({"market"}, MarketSteps)' <= Cardinality(Imported)'
  BY <1>2, <1>3, <1>4, <1>5
<1>7. ImportsCounted'
  BY <1>6 DEF ImportsCounted, Imported, CountedSteps, MarketSteps
<1> QED
  BY <1>1, <1>7 DEF CountInv


(* Steps that leave calls, batches, contents and counters alone.             *)
LEMMA CountRests ==
  ASSUME CountInv, UNCHANGED <<call, batch, content, unified, dropped>>,
         framework'.imported = framework.imported
  PROVE  CountInv'
<1>1. /\ Unrecorded(Kinds, CountedSteps)' = Unrecorded(Kinds, CountedSteps)
      /\ Unrecorded({"market"}, MarketSteps)' = Unrecorded({"market"}, MarketSteps)
  BY DEF Unrecorded
<1> QED
  BY <1>1 DEF CountInv, BatchesEmpty, ImportsCounted, CountedSteps, MarketSteps

(* Steps of a call that holds no imports yet.                                *)
LEMMA CountIdles ==
  ASSUME CountInv, CallTyped, ImportTyped, CallTyped', ImportTyped', NEW c \in Callers,
         \A d \in Callers \ {c} : call'[d] = call[d] /\ batch'[d].imported = batch[d].imported,
         batch'[c].imported \in {0, batch[c].imported},
         call[c].step \notin CountedSteps,
         UNCHANGED <<content, unified, dropped>>,
         framework'.imported = framework.imported
  PROVE  CountInv'
<1>1. batch[c].imported = 0 /\ batch'[c].imported = 0
  BY DEF CountInv, BatchesEmpty
<1>2. /\ Share(c, Kinds, CountedSteps) = 0 /\ Share(c, Kinds, CountedSteps)' = 0
      /\ Share(c, {"market"}, MarketSteps) = 0 /\ Share(c, {"market"}, MarketSteps)' = 0
  BY <1>1 DEF Share
<1>3. Cardinality(Imported)' = Cardinality(Imported) + 0
  BY ImportedSize DEF Imported
<1>4. framework.imported \in Nat /\ unified \in Nat
  BY DEF ImportTyped
<1>5. /\ framework'.imported + Share(c, Kinds, CountedSteps)'
           = framework.imported + Share(c, Kinds, CountedSteps) + 0
      /\ unified' + Share(c, {"market"}, MarketSteps)'
           <= unified + Share(c, {"market"}, MarketSteps) + 0
  BY <1>2, <1>4
<1> QED
  BY <1>1, <1>3, <1>5, CountMoves

LEMMA CountToken ==
  ASSUME CountInv, Typed, Typed', NEW c \in Callers,
         \/ \E kind \in Kinds : Start(c, kind)
         \/ Read(c) \/ Park(c) \/ Refresh(c) \/ RefreshFails(c)
         \/ Save(c) \/ SaveFails(c) \/ Expire(c) \/ RecordFailure(c)
  PROVE  CountInv'
<1>1. CallTyped /\ ImportTyped /\ CallTyped' /\ ImportTyped'
  BY DEF Typed
<1>2. call[c].step \notin CountedSteps
  BY DEF Start, Read, Park, Refresh, RefreshFails, Save, SaveFails, Expire,
    RecordFailure,
         At, CountedSteps
<1>3. UNCHANGED imports
  BY DEF Start, Read, Park, Refresh, RefreshFails, Save, SaveFails, Expire,
    RecordFailure
<1>4. UNCHANGED <<batch, content, unified, framework, dropped>>
  BY <1>3 DEF imports
<1>5. \A d \in Callers \ {c} : call'[d] = call[d]
  BY <1>1 DEF CallTyped, Start, Read, Park, Refresh, RefreshFails, Save, SaveFails,
    Expire,
              RecordFailure, Goes, Holding, Fails
<1> QED
  BY <1>1, <1>2, <1>4, <1>5, CountIdles

LEMMA CountFetch ==
  ASSUME CountInv, Typed, Typed', NEW c \in Callers, Fetch(c)
  PROVE  CountInv'
<1>1. CallTyped /\ ImportTyped /\ CallTyped' /\ ImportTyped'
  BY DEF Typed
<1>2. call[c].step \notin CountedSteps
  BY DEF Fetch, At, CountedSteps
<1>3. UNCHANGED <<content, unified, framework, dropped>>
  BY DEF Fetch
<1>4. \A d \in Callers \ {c} : call'[d] = call[d]
  BY <1>1 DEF CallTyped, Fetch, Fails
<1>5. \A d \in Callers : batch'[d].imported = batch[d].imported
  BY <1>1 DEF ImportTyped, Fetch, Batches
<1> QED
  BY <1>1, <1>2, <1>3, <1>4, <1>5, CountIdles

LEMMA CountFailedStatus ==
  ASSUME CountInv, Typed, Typed', NEW c \in Callers, RecordFailedStatus(c)
  PROVE  CountInv'
<1>1. CallTyped /\ ImportTyped /\ CallTyped' /\ ImportTyped'
  BY DEF Typed
<1>2. call[c].step \notin CountedSteps
  BY DEF RecordFailedStatus, At, CountedSteps
<1>3. UNCHANGED <<content, unified, dropped>>
  BY DEF RecordFailedStatus
<1>4. framework'.imported = framework.imported
  <2>1. framework'.imported = framework.imported + 0
    BY <1>1, Record DEF RecordFailedStatus
  <2> QED
    BY <1>1, <2>1 DEF ImportTyped
<1>5. /\ \A d \in Callers \ {c} : call'[d] = call[d] /\ batch'[d] = batch[d]
      /\ batch'[c].imported = 0
  BY <1>1 DEF CallTyped, ImportTyped, RecordFailedStatus, Finished, NoBatch
<1> QED
  BY <1>1, <1>2, <1>3, <1>4, <1>5, CountIdles

(* A failed row is no imported one.                                          *)
LEMMA FailedRowKeeps ==
  ASSUME ImportTyped, NEW i \in Items, FailedRow(i) \/ UNCHANGED content
  PROVE  Imported' = Imported
BY DEF ImportTyped, FailedRow, Imported

LEMMA CountLookup ==
  ASSUME CountInv, Typed, Typed', NEW c \in Callers, NEW i \in Items, Lookup(c, i)
  PROVE  CountInv'
<1>1. CallTyped /\ ImportTyped /\ CallTyped' /\ ImportTyped'
  BY DEF Typed
<1>2. UNCHANGED <<unified, framework, dropped>> /\ call[c].step = "items"
  BY DEF Lookup, At
<1>3. Imported' = Imported
  BY <1>1, FailedRowKeeps DEF Lookup
<1>4. /\ \A d \in Callers \ {c} : call'[d] = call[d]
      /\ call'[c].step \in {"items", "write"} /\ call'[c].kind = call[c].kind
  <2>1. CASE UNCHANGED call
    BY <1>2, <2>1
  <2>2. CASE Goes(c, "write")
    BY <1>1, <2>2, CallGoes DEF Steps
  <2> QED
    BY <2>1, <2>2 DEF Lookup
<1>5. \A d \in Callers : batch'[d].imported = batch[d].imported
  <2>1. CASE Tallied(c, i, "failed") \/ Tallied(c, i, "known")
    BY <1>1, <2>1, Tally
  <2>2. CASE batch' = [batch EXCEPT ![c].item = {i}]
    BY <1>1, <2>2 DEF ImportTyped, Batches
  <2> QED
    BY <2>1, <2>2 DEF Lookup
<1>6. /\ Share(c, Kinds, CountedSteps)' = Share(c, Kinds, CountedSteps)
      /\ Share(c, {"market"}, MarketSteps)' = Share(c, {"market"}, MarketSteps)
  BY <1>2, <1>4, <1>5 DEF Share, CountedSteps, MarketSteps
<1>7. Cardinality(Imported)' = Cardinality(Imported) + 0
  BY <1>1, <1>3, ImportedSize
<1>8. /\ framework'.imported + Share(c, Kinds, CountedSteps)'
           = framework.imported + Share(c, Kinds, CountedSteps) + 0
      /\ unified' + Share(c, {"market"}, MarketSteps)'
           <= unified + Share(c, {"market"}, MarketSteps) + 0
  <2>1. /\ framework.imported \in Nat /\ unified \in Nat
        /\ Share(c, Kinds, CountedSteps) \in Nat /\ Share(c, {"market"}, MarketSteps) \in Nat
    BY <1>1, Shares DEF ImportTyped
  <2> QED
    BY <1>2, <1>6, <2>1
<1>9. call'[c].step \in CountedSteps
  BY <1>4 DEF CountedSteps
<1> QED
  BY <1>1, <1>2, <1>4, <1>5, <1>7, <1>8, <1>9, CountMoves

LEMMA CountWrite ==
  ASSUME CountInv, Typed, Typed', NEW c \in Callers, NEW i \in Items, Write(c, i)
  PROVE  CountInv'
<1>1. CallTyped /\ ImportTyped /\ CallTyped' /\ ImportTyped'
  BY DEF Typed
<1>2. UNCHANGED <<unified, framework>> /\ call[c].step = "write" /\ Goes(c, "items")
  BY DEF Write, At
<1>3. /\ \A d \in Callers \ {c} : call'[d] = call[d]
      /\ call'[c].step = "items" /\ call'[c].kind = call[c].kind
  BY <1>1, <1>2, CallGoes DEF Steps
<1>4. /\ \A d \in Callers \ {c} : batch'[d].imported = batch[d].imported
      /\ batch[c].imported \in Nat /\ framework.imported \in Nat /\ unified \in Nat
  BY <1>1, Tally DEF Write, ImportTyped, Batches
<1>5. /\ Share(c, Kinds, CountedSteps) = batch[c].imported
      /\ Share(c, Kinds, CountedSteps)' = batch'[c].imported
      /\ Share(c, {"market"}, MarketSteps)
           = IF call[c].kind = "market" THEN batch[c].imported ELSE 0
      /\ Share(c, {"market"}, MarketSteps)'
           = IF call[c].kind = "market" THEN batch'[c].imported ELSE 0
  BY <1>1, <1>2, <1>3 DEF Share, CountedSteps, MarketSteps, CallTyped, Calls
<1>6. IsFiniteSet(Imported) /\ Cardinality(Imported) \in Nat
  BY <1>1, ImportedSize, ConstantsAssumption, FS_Subset DEF ConstantsAssumption,
    Imported
<1>7. call'[c].step \in CountedSteps
  BY <1>3 DEF CountedSteps
<1>8. ASSUME content[i] = "none", content' = [content EXCEPT ![i] = "IMPORTED"]
      PROVE  Cardinality(Imported)' = Cardinality(Imported) + 1
  <2>1. i \notin Imported /\ Imported' = Imported \cup {i}
    BY <1>1, <1>8 DEF Imported, ImportTyped
  <2> QED
    BY <1>6, <2>1, FS_AddElement
<1>9. CASE /\ content[i] = "none" /\ content' = [content EXCEPT ![i] = "IMPORTED"]
           /\ Tallied(c, i, "imported") /\ UNCHANGED dropped
  <2>1. batch'[c].imported = batch[c].imported + 1
    BY <1>1, <1>9, Tally
  <2>2. /\ framework'.imported + Share(c, Kinds, CountedSteps)'
             = framework.imported + Share(c, Kinds, CountedSteps) + 1
        /\ unified' + Share(c, {"market"}, MarketSteps)'
             <= unified + Share(c, {"market"}, MarketSteps) + 1
    BY <1>2, <1>4, <1>5, <2>1
  <2> QED
    BY <1>1, <1>3, <1>4, <1>7, <1>8, <1>9, <2>2, CountMoves
<1>10. CASE /\ Tallied(c, i, "failed") /\ UNCHANGED dropped
            /\ FailedRow(i) \/ UNCHANGED content
  <2>1. batch'[c].imported = batch[c].imported /\ Imported' = Imported
    BY <1>1, <1>10, Tally, FailedRowKeeps
  <2>2. Cardinality(Imported)' = Cardinality(Imported) + 0
    BY <1>6, <2>1
  <2>3. /\ framework'.imported + Share(c, Kinds, CountedSteps)'
             = framework.imported + Share(c, Kinds, CountedSteps) + 0
        /\ unified' + Share(c, {"market"}, MarketSteps)'
             <= unified + Share(c, {"market"}, MarketSteps) + 0
    BY <1>2, <1>4, <1>5, <2>1
  <2> QED
    BY <1>1, <1>3, <1>4, <1>7, <1>10, <2>2, <2>3, CountMoves
<1>11. CASE /\ content[i] = "none" /\ content' = [content EXCEPT ![i] = "IMPORTED"]
            /\ Tallied(c, i, "failed") /\ dropped'
  <2>1. batch'[c].imported = batch[c].imported
    BY <1>1, <1>11, Tally
  <2>2. unified' + Share(c, {"market"}, MarketSteps)'
          <= unified + Share(c, {"market"}, MarketSteps) + 1
    BY <1>2, <1>4, <1>5, <2>1
  <2> QED
    BY <1>1, <1>3, <1>4, <1>7, <1>8, <1>11, <2>2, CountMoves
<1> QED
  BY <1>9, <1>10, <1>11 DEF Write, Creates

LEMMA CountMarket ==
  ASSUME CountInv, Typed, Typed', NEW c \in Callers, RecordMarket(c)
  PROVE  CountInv'
<1>1. CallTyped /\ ImportTyped /\ CallTyped' /\ ImportTyped'
  BY DEF Typed
<1>2. /\ UNCHANGED <<batch, content, framework, dropped>> /\ Goes(c, "record")
      /\ call[c].step = "items" /\ call[c].kind = "market"
      /\ unified' = IF Exists THEN unified + batch[c].imported ELSE unified
  BY DEF RecordMarket, At
<1>3. /\ \A d \in Callers \ {c} : call'[d] = call[d]
      /\ call'[c].step = "record" /\ call'[c].kind = call[c].kind
  BY <1>1, <1>2, CallGoes DEF Steps
<1>4. batch[c].imported \in Nat /\ framework.imported \in Nat /\ unified \in Nat
  BY <1>1 DEF ImportTyped, Batches
<1>5. /\ Share(c, Kinds, CountedSteps) = batch[c].imported
      /\ Share(c, Kinds, CountedSteps)' = batch[c].imported
      /\ Share(c, {"market"}, MarketSteps) = batch[c].imported
      /\ Share(c, {"market"}, MarketSteps)' = 0
  BY <1>2, <1>3 DEF Share, CountedSteps, MarketSteps, Kinds
<1>6. Cardinality(Imported)' = Cardinality(Imported) + 0
  BY <1>1, <1>2, ImportedSize DEF Imported
<1>7. /\ framework'.imported + Share(c, Kinds, CountedSteps)'
           = framework.imported + Share(c, Kinds, CountedSteps) + 0
      /\ unified' + Share(c, {"market"}, MarketSteps)'
           <= unified + Share(c, {"market"}, MarketSteps) + 0
  BY <1>2, <1>4, <1>5
<1>8. call'[c].step \in CountedSteps
  BY <1>3 DEF CountedSteps
<1> QED
  BY <1>1, <1>2, <1>3, <1>6, <1>7, <1>8, CountMoves

(* A call that records its tally in the framework's counter.                 *)
LEMMA CountRecorded ==
  ASSUME CountInv, Typed, Typed', NEW c \in Callers,
         \/ RecordStatus(c)
         \/ RecordFramework(c)
  PROVE  CountInv'
<1>1. CallTyped /\ ImportTyped /\ CallTyped' /\ ImportTyped'
  BY DEF Typed
<1>2. /\ UNCHANGED <<content, unified, dropped>> /\ Finished(c)
      /\ call[c].step = "record" \/ (call[c].step = "items" /\ call[c].kind = "framework")
  BY DEF RecordStatus, RecordFramework, At
<1>3. batch[c].imported \in Nat /\ framework.imported \in Nat /\ unified \in Nat
  BY <1>1 DEF ImportTyped, Batches
<1>4. framework'.imported = framework.imported + batch[c].imported
  BY <1>1, <1>3, Record DEF RecordStatus, RecordFramework
<1>5. /\ \A d \in Callers \ {c} : call'[d] = call[d] /\ batch'[d] = batch[d]
      /\ batch'[c].imported = 0
  BY <1>1, <1>2 DEF CallTyped, ImportTyped, Finished, NoBatch
<1>6. call[c].kind \in Kinds
  BY <1>1 DEF CallTyped, Calls
<1>7. /\ Share(c, Kinds, CountedSteps) = batch[c].imported
      /\ Share(c, Kinds, CountedSteps)' = 0
      /\ Share(c, {"market"}, MarketSteps) = 0
      /\ Share(c, {"market"}, MarketSteps)' = 0
  BY <1>2, <1>5, <1>6 DEF Share, CountedSteps, MarketSteps
<1>8. Cardinality(Imported)' = Cardinality(Imported) + 0
  BY <1>1, <1>2, ImportedSize DEF Imported
<1>9. /\ framework'.imported + Share(c, Kinds, CountedSteps)'
           = framework.imported + Share(c, Kinds, CountedSteps) + 0
      /\ unified' + Share(c, {"market"}, MarketSteps)'
           <= unified + Share(c, {"market"}, MarketSteps) + 0
  BY <1>2, <1>3, <1>4, <1>7
<1> QED
  BY <1>1, <1>2, <1>5, <1>8, <1>9, CountMoves

LEMMA CountDies ==
  ASSUME CountInv, Typed, Typed', NEW c \in Callers, Die(c)
  PROVE  CountInv'
<1>1. CallTyped /\ ImportTyped /\ CallTyped' /\ ImportTyped'
  BY DEF Typed
<1>2. /\ UNCHANGED <<content, unified, framework>> /\ Finished(c)
      /\ dropped' = (dropped \/ batch[c].imported > 0)
  BY DEF Die
<1>3. batch[c].imported \in Nat /\ framework.imported \in Nat /\ unified \in Nat
  BY <1>1 DEF ImportTyped, Batches
<1>4. /\ \A d \in Callers \ {c} : call'[d] = call[d] /\ batch'[d] = batch[d]
      /\ batch'[c].imported = 0
  BY <1>1, <1>2 DEF CallTyped, ImportTyped, Finished, NoBatch
<1>5. /\ Share(c, Kinds, CountedSteps) \in {0, batch[c].imported}
      /\ Share(c, Kinds, CountedSteps)' = 0
      /\ Share(c, {"market"}, MarketSteps) \in {0, batch[c].imported}
      /\ Share(c, {"market"}, MarketSteps)' = 0
  BY <1>4 DEF Share
<1>6. Cardinality(Imported)' = Cardinality(Imported) + 0
  BY <1>1, <1>2, ImportedSize DEF Imported
<1>7. ASSUME ~dropped'
      PROVE  /\ ~dropped
             /\ framework'.imported + Share(c, Kinds, CountedSteps)'
                  = framework.imported + Share(c, Kinds, CountedSteps) + 0
  <2>1. ~dropped /\ ~(batch[c].imported > 0)
    BY <1>2, <1>7, Zenon
  <2>2. batch[c].imported = 0
    BY <1>3, <2>1
  <2> QED
    BY <1>2, <1>3, <1>5, <2>1, <2>2
<1>8. unified' + Share(c, {"market"}, MarketSteps)'
        <= unified + Share(c, {"market"}, MarketSteps) + 0
  BY <1>2, <1>3, <1>5
<1> QED
  BY <1>1, <1>4, <1>6, <1>7, <1>8, CountMoves


(* Every step keeps the count.                                               *)
LEMMA CountStep ==
  ASSUME CountInv, Typed, Typed', [Next]_vars
  PROVE  CountInv'
<1>1. ASSUME NEW c \in Callers, CallStep(c) PROVE CountInv'
  BY <1>1, CountToken, CountFetch, CountLookup, CountWrite, CountMarket, CountRecorded,
     CountFailedStatus, CountDies DEF CallStep
<1>2. ASSUME NEW q \in Requests, RequestStep(q) PROVE CountInv'
  <2>1. UNCHANGED <<call, imports>>
    BY <1>2 DEF RequestStep, FindState, ConsumeState, SessionConnect, Exchange,
                ConnectFails, Store
  <2> QED
    BY <2>1, CountRests DEF imports
<1>3. ASSUME UNCHANGED <<call, imports>> PROVE CountInv'
  BY <1>3, CountRests DEF imports
<1>4. ASSUME \/ \E s \in States : Issue(s) \/ StateExpires(s)
             \/ Disconnect
             \/ \E t \in Tokens : TokenAges(t)
             \/ \E shop \in Shops : Revoke(shop)
             \/ RotateKey
             \/ UNCHANGED vars
      PROVE  CountInv'
  <2>1. UNCHANGED <<call, imports>>
    BY <1>4 DEF Issue, StateExpires, Disconnect, TokenAges, Revoke, RotateKey, vars
  <2> QED
    BY <1>3, <2>1
<1>5. ASSUME WriteToggle \/ \E enabled \in BOOLEAN : ReadToggle(enabled) PROVE CountInv'
  <2>1. UNCHANGED <<call, batch, content, unified, dropped>>
    BY <1>5 DEF WriteToggle, ReadToggle
  <2>2. CASE UNCHANGED framework
    BY <2>1, <2>2, CountRests
  <2>3. CASE framework' = [framework EXCEPT !.enabled = toggle.enabled, !.state = toggle.state]
    <3>1. framework'.imported = framework.imported
      BY <2>3 DEF Typed, ImportTyped
    <3> QED
      BY <2>1, <3>1, CountRests
  <2> QED
    BY <1>5, <2>2, <2>3 DEF WriteToggle, ReadToggle
<1> QED
  BY <1>1, <1>2, <1>4, <1>5 DEF Next

LEMMA CountInit ==
  ASSUME Init
  PROVE  CountInv
<1>1. /\ \A c \in Callers : call[c] = NoCall /\ batch[c] = NoBatch
      /\ framework.imported = 0 /\ unified = 0
      /\ \A i \in Items : content[i] = "none"
  BY DEF Init
<1>2. BatchesEmpty
  BY <1>1 DEF BatchesEmpty, NoBatch
<1>3. Imported = {} /\ Cardinality({}) = 0
  BY <1>1, FS_EmptySet DEF Imported
<1>4. \A kinds, steps : Unrecorded(kinds, steps) = 0
  <2>1. SUFFICES ASSUME NEW kinds, NEW steps PROVE Unrecorded(kinds, steps) = 0
    OBVIOUS
  <2> DEFINE f == [c \in Callers |-> IF call[c].kind \in kinds /\ call[c].step \in steps
                                     THEN batch[c].imported ELSE 0]
  <2>2. \A c \in Callers : f[c] = 0
    BY <1>1 DEF NoBatch
  <2> HIDE DEF f
  <2>3. SumFunctionOnSet(f, Callers) = 0
    BY <2>2, ConstantsAssumption, SumZero DEF ConstantsAssumption
  <2> QED
    BY <2>3 DEF Unrecorded, f
<1> QED
  BY <1>1, <1>2, <1>3, <1>4 DEF CountInv, ImportsCounted, Imported

(* The framework's counter and what the syncs at work will add to it count  *)
(* every imported row once, unless a sync died with its tally, and the      *)
(* Connector row counts no more (createContent, recordSyncResult).          *)
THEOREM ImportsSafe == Spec => []ImportsCounted
<1>1. IInv => Typed
  BY TypeParts DEF IInv
<1>2. CountInv /\ Typed /\ Typed' /\ [Next]_vars => CountInv'
  BY CountStep
<1>3. Init => CountInv
  BY CountInit
<1>4. CountInv => ImportsCounted
  BY DEF CountInv
<1> QED
  BY <1>1, <1>2, <1>3, <1>4, Inductive, PTL DEF Spec
=============================================================================
