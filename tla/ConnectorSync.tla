---------------------------- MODULE ConnectorSync ----------------------------
(***************************************************************************)
(* The connector of one provider in one organization: its credentials      *)
(* (modules/marketplace/core/connector.service.ts and its repository), the *)
(* OAuth states (oauth-state.service.ts) and the two engines that import   *)
(* content with them, the marketplace's syncProvider (sync.service.ts) and *)
(* the framework's sync-connector job (modules/connectors/core).           *)
(*                                                                         *)
(* Token t stands for the t-th pair of access and refresh token that the   *)
(* provider issued; 0 is no token.  A refresh spends the refresh token and *)
(* issues the next pair.  Every statement on the database and every call   *)
(* of the provider is a step of its own: other calls run in between.       *)
(*                                                                         *)
(* cap, chosen once, says what a behaviour may contain: the provider, the  *)
(* bounds and the items its account holds.                                 *)
(***************************************************************************)
EXTENDS Integers, FiniteSets, FiniteSetsExt

CONSTANTS
  Callers,    \* syncs and ingestion jobs that need a token
  Requests,   \* connect requests and OAuth callbacks
  States,     \* OAuth states that may be issued
  Shops,      \* seller accounts at the provider
  NoShop,     \* the shopId of a row without one
  MaxTokens,  \* bound: token pairs the provider issues
  Items,      \* items of the provider's catalog
  Invalid,    \* the items that normalizedContentSchema refuses
  Scenarios   \* what a behaviour may contain

Tokens == 1..MaxTokens
Providers == {"MERCADOLIVRE", "SHOPEE", "MERCADOPAGO"}
Kinds == {"market", "framework", "worker"}

ASSUME ConstantsAssumption ==
  /\ MaxTokens \in Nat
  /\ NoShop \notin Shops
  /\ IsFiniteSet(Items) /\ IsFiniteSet(Callers)
  /\ Scenarios \subseteq
       [provider : Providers,
        env      : BOOLEAN,       \* the Mercado Pago pair of the environment
        kinds    : SUBSET Kinds,  \* what the callers run
        items    : SUBSET Items,  \* what the account holds
        tokens   : Nat,           \* bound: issued token pairs
        mishaps  : Nat,           \* bound: failures and deaths
        keys     : Nat,           \* bound: rotations of the encryption key
        toggles  : BOOLEAN]       \* the ADMIN's enable/disable switch

VARIABLES
  cap,        \* the scenario of this behaviour
  row,        \* the unified Connector row
  issued, owner, grants, aged, revoked,
              \* the provider: pairs issued, whose they are, the refresh
              \* tokens still good, access tokens near expiry, revoked pairs
  oauth,      \* States -> the ConnectorOAuthState row
  req,        \* Requests -> the connect request in progress
  call,       \* Callers -> the call in progress
  batch,      \* Callers -> the items loop of a sync
  content,    \* Items -> the ExternalContent row
  unified,    \* importedCount of the Connector row
  framework,  \* the ConnectorStatus row
  toggle,     \* setEnabled, between its read and its write
  active,     \* history: the last connect was not followed by a disconnect
  crossed,    \* history: a connect or disconnect overlapped a running call
  lost,       \* history: pairs whose successor was never stored
  dropped,    \* history: a sync died with imports it had not recorded
  redeemed,   \* history: States -> how often it was accepted
  mishaps, keys

provider == <<issued, owner, grants, aged, revoked>>
imports  == <<batch, content, unified, framework, toggle, dropped>>
vars == <<cap, row, provider, oauth, req, call, imports, active, crossed,
          lost, redeemed, mishaps, keys>>

NoCall  == [step |-> "idle", kind |-> "worker", token |-> 0, shop |-> NoShop,
            next |-> 0, verdict |-> "ERROR"]
NoBatch == [todo |-> {}, item |-> {}, imported |-> 0, known |-> 0, failed |-> 0]
NoReq   == [step |-> "idle", state |-> {}, shop |-> NoShop, token |-> 0]
NoToggle == [pending |-> FALSE, enabled |-> FALSE, state |-> "IDLE",
             overtaken |-> FALSE]

Init ==
  /\ cap \in Scenarios
  /\ row = [status |-> "ABSENT", token |-> 0, readable |-> TRUE, shop |-> NoShop]
  /\ issued = 0
  /\ owner = [t \in Tokens |-> NoShop]
  /\ grants = {} /\ aged = {} /\ revoked = {}
  /\ oauth = [s \in States |-> "none"]
  /\ req = [q \in Requests |-> NoReq]
  /\ call = [c \in Callers |-> NoCall]
  /\ batch = [c \in Callers |-> NoBatch]
  /\ content = [i \in Items |-> "none"]
  /\ unified = 0
  /\ framework = [state |-> "IDLE", enabled |-> FALSE, imported |-> 0]
  /\ toggle = NoToggle
  /\ active = FALSE
  /\ crossed = [tokens |-> FALSE, status |-> FALSE]
  /\ lost = {}
  /\ dropped = FALSE
  /\ redeemed = [s \in States |-> 0]
  /\ mishaps = 0 /\ keys = 0

(* A failure the environment may cause: network, database, process.         *)
Mishap == mishaps < cap.mishaps /\ mishaps' = mishaps + 1

-----------------------------------------------------------------------------
(* The statements of createMarketplaceRepository on the Connector row.      *)

Exists == row.status # "ABSENT"

(* setStatus and the status that recordSyncResult writes: an updateMany by  *)
(* provider, whatever the row holds by now.                                 *)
StatusSet(status) == IF Exists THEN [row EXCEPT !.status = status] ELSE row

(* upsertConnection: a connect request owns the whole row. *)
Connection(token, shop) ==
  [status |-> "CONNECTED", token |-> token, readable |-> TRUE, shop |-> shop]

(* Mutant: only the access token is replaced, the spent refresh token stays.*)
TokensSaved_KeepsRefresh(old, new) ==
  [row EXCEPT !.status = "CONNECTED", !.token = old, !.readable = TRUE]

(* saveTokens: by the id of the row, which a disconnect does not delete.    *)
TokensSaved(old, new) ==
  [row EXCEPT !.status = "CONNECTED", !.token = new, !.readable = TRUE]

(* Mutants: the ciphertexts survive, or the status does. *)
Cleared_StatusOnly == IF Exists THEN [row EXCEPT !.status = "DISCONNECTED"] ELSE row
Cleared_KeepsStatus == IF Exists THEN [row EXCEPT !.token = 0, !.shop = NoShop] ELSE row

(* clearCredentials *)
Cleared ==
  IF Exists THEN [row EXCEPT !.status = "DISCONNECTED", !.token = 0,
                             !.readable = TRUE, !.shop = NoShop]
  ELSE row

(* What a connect or a disconnect overlaps. *)
Crossing ==
  [tokens |-> crossed.tokens \/ \E c \in Callers : call[c].step \in {"refresh", "save"},
   status |-> crossed.status \/ \E c \in Callers : call[c].step # "idle"]

-----------------------------------------------------------------------------
(* OAuth states: issue and consume, and the callbacks.                      *)

(* issue, for startOAuth of Mercado Livre: expired states are deleted.      *)
Issue(s) ==
  /\ cap.provider = "MERCADOLIVRE"
  /\ oauth[s] = "none"
  /\ oauth' = [u \in States |-> IF u = s THEN "live"
                                ELSE IF oauth[u] = "stale" THEN "gone" ELSE oauth[u]]
  /\ UNCHANGED <<cap, row, provider, req, call, imports, active, crossed,
                 lost, redeemed, mishaps, keys>>

StateExpires(s) ==
  /\ oauth[s] = "live"
  /\ oauth' = [oauth EXCEPT ![s] = "stale"]
  /\ UNCHANGED <<cap, row, provider, req, call, imports, active, crossed,
                 lost, redeemed, mishaps, keys>>

(* handleMercadoLivreCallback up to consume's findUnique: an expired state  *)
(* is deleted and refused, a missing one refused.                           *)
FindState(q, s) ==
  /\ req[q].step = "idle"
  /\ \/ /\ oauth[s] = "live"
        /\ req' = [req EXCEPT ![q].step = "consume", ![q].state = {s}]
        /\ UNCHANGED oauth
     \/ /\ oauth[s] = "stale"
        /\ oauth' = [oauth EXCEPT ![s] = "gone"]
        /\ UNCHANGED req
  /\ UNCHANGED <<cap, row, provider, call, imports, active, crossed,
                 lost, redeemed, mishaps, keys>>

(* Mutant: the count of the deleteMany is not looked at. *)
Consumable_Unchecked(s) == oauth[s] # "none"

(* The guarded deleteMany found the row; its expiry is compared with the    *)
(* clock of the lookup.                                                     *)
Consumable(s) == oauth[s] \in {"live", "stale"}

ConsumeState(q) ==
  /\ req[q].step = "consume"
  /\ \E s \in req[q].state :
       IF Consumable(s)
       THEN /\ oauth' = [oauth EXCEPT ![s] = "gone"]
            /\ redeemed' = [redeemed EXCEPT ![s] = @ + 1]
            /\ req' = [req EXCEPT ![q] = [NoReq EXCEPT !.step = "exchange"]]
       ELSE /\ req' = [req EXCEPT ![q] = NoReq]
            /\ UNCHANGED <<oauth, redeemed>>
  /\ UNCHANGED <<cap, row, provider, call, imports, active, crossed, lost,
                 mishaps, keys>>

(* handleShopeeCallback and connectMercadoPago: the tenant is the session's.*)
SessionConnect(q) ==
  /\ cap.provider # "MERCADOLIVRE"
  /\ req[q].step = "idle"
  /\ issued < cap.tokens
  /\ req' = [req EXCEPT ![q].step = "exchange"]
  /\ UNCHANGED <<cap, row, provider, oauth, call, imports, active, crossed,
                 lost, redeemed, mishaps, keys>>

(* The provider issues a pair for a shop (Mercado Pago: validates the one   *)
(* that was pasted), or refuses.                                            *)
Issues(shop) ==
  /\ issued < cap.tokens /\ issued < MaxTokens
  /\ issued' = issued + 1
  /\ owner' = [owner EXCEPT ![issued + 1] = shop]

Exchange(q, shop) ==
  /\ req[q].step = "exchange"
  /\ Issues(shop)
  /\ grants' = grants \cup {issued + 1}
  /\ req' = [req EXCEPT ![q] = [NoReq EXCEPT !.step = "store", !.shop = shop,
                                             !.token = issued + 1]]
  /\ UNCHANGED <<cap, row, aged, revoked, oauth, call, imports, active,
                 crossed, lost, redeemed, mishaps, keys>>

ConnectFails(q) ==
  /\ req[q].step \in {"exchange", "store"}
  /\ req' = [req EXCEPT ![q] = NoReq]
  /\ Mishap
  /\ UNCHANGED <<cap, row, provider, oauth, call, imports, active, crossed,
                 lost, redeemed, keys>>

Store(q) ==
  /\ req[q].step = "store"
  /\ row' = Connection(req[q].token, req[q].shop)
  /\ req' = [req EXCEPT ![q] = NoReq]
  /\ active' = TRUE
  /\ crossed' = Crossing
  /\ UNCHANGED <<cap, provider, oauth, call, imports, lost, redeemed,
                 mishaps, keys>>

Disconnect ==
  /\ Exists /\ row.status # "DISCONNECTED"
  /\ row' = Cleared
  /\ active' = FALSE
  /\ crossed' = Crossing
  /\ UNCHANGED <<cap, provider, oauth, req, call, imports, lost, redeemed,
                 mishaps, keys>>

-----------------------------------------------------------------------------
(* The world: expiry, revocation at the provider, a deployment with another *)
(* encryption key (no call outlives it).                                    *)

TokenAges(t) ==
  /\ cap.provider # "MERCADOPAGO"
  /\ t \in 1..issued /\ t \notin aged
  /\ aged' = aged \cup {t}
  /\ UNCHANGED <<cap, row, issued, owner, grants, revoked, oauth, req, call,
                 imports, active, crossed, lost, redeemed, mishaps, keys>>

Revoke(shop) ==
  /\ \E t \in grants : owner[t] = shop
  /\ grants' = {t \in grants : owner[t] # shop}
  /\ revoked' = revoked \cup {t \in 1..issued : owner[t] = shop}
  /\ Mishap
  /\ UNCHANGED <<cap, row, issued, owner, aged, oauth, req, call, imports,
                 active, crossed, lost, redeemed, keys>>

RotateKey ==
  /\ keys < cap.keys
  /\ keys' = keys + 1
  /\ row.token # 0
  /\ \A c \in Callers : call[c].step = "idle"
  /\ \A q \in Requests : req[q].step = "idle"
  /\ row' = [row EXCEPT !.readable = FALSE]
  /\ UNCHANGED <<cap, provider, oauth, req, call, imports, active, crossed,
                 lost, redeemed, mishaps>>

-----------------------------------------------------------------------------
(* getValidAccessToken and the calls that use it.                           *)

At(c, step) == call[c].step = step
Goes(c, step) == call' = [call EXCEPT ![c].step = step]

(* The call throws: a sync records the failure, an ingestion job returns it *)
(* to the worker.                                                           *)
Fails(c, verdict) ==
  call' = [call EXCEPT ![c] =
             IF call[c].kind = "worker" THEN NoCall
             ELSE [NoCall EXCEPT !.step = "error", !.kind = call[c].kind,
                                 !.verdict = verdict]]

(* syncProvider's guard; Mercado Pago is not asked for its status.          *)
Usable ==
  IF cap.provider = "MERCADOPAGO" THEN row.token # 0 \/ cap.env
  ELSE row.status = "CONNECTED" /\ row.token # 0

Start(c, kind) ==
  /\ At(c, "idle")
  /\ kind \in cap.kinds
  /\ kind = "market" => Usable
  /\ call' = [call EXCEPT ![c] = [NoCall EXCEPT !.step = "read", !.kind = kind]]
  /\ UNCHANGED <<cap, row, provider, oauth, req, imports, active, crossed,
                 lost, redeemed, mishaps, keys>>

Holding(c, step) ==
  call' = [call EXCEPT ![c].step = step, ![c].token = row.token, ![c].shop = row.shop]

(* findByProvider and what follows from the snapshot. *)
Read(c) ==
  /\ At(c, "read")
  /\ \/ /\ row.token = 0
        /\ IF cap.env /\ cap.provider = "MERCADOPAGO"
           THEN Holding(c, "fetch")
           ELSE Fails(c, "EXPIRED")
     \/ /\ row.token # 0 /\ ~row.readable
        /\ Holding(c, "park")
     \/ /\ row.token # 0 /\ row.readable /\ row.token \notin aged
        /\ Holding(c, "fetch")
     \/ /\ row.token \in aged /\ row.readable
        /\ IF cap.provider = "SHOPEE" /\ row.shop = NoShop
           THEN Holding(c, "expire")
           ELSE Holding(c, "refresh")
  /\ UNCHANGED <<cap, row, provider, oauth, req, imports, active, crossed,
                 lost, redeemed, mishaps, keys>>

(* parkConnectorForUndecryptableCredential: best effort. *)
Park(c) ==
  /\ At(c, "park")
  /\ \/ row' = StatusSet("REAUTH_REQUIRED") /\ UNCHANGED mishaps
     \/ Mishap /\ UNCHANGED row
  /\ Fails(c, "REAUTH_REQUIRED")
  /\ UNCHANGED <<cap, provider, oauth, req, imports, active, crossed, lost,
                 redeemed, keys>>

(* refreshMercadoLivreToken, refreshShopeeToken: the provider rotates a     *)
(* pair whose refresh token is still good.                                  *)
Refresh(c) ==
  /\ At(c, "refresh")
  /\ \/ /\ call[c].token \in grants
        /\ Issues(owner[call[c].token])
        /\ grants' = (grants \ {call[c].token}) \cup {issued + 1}
        /\ call' = [call EXCEPT ![c].step = "save", ![c].next = issued + 1]
     \/ /\ call[c].token \notin grants
        /\ Goes(c, "expire")
        /\ UNCHANGED <<issued, owner, grants>>
  /\ UNCHANGED <<cap, row, aged, revoked, oauth, req, imports, active, crossed,
                 lost, redeemed, mishaps, keys>>

(* The request is lost on its way, or its answer is.                        *)
RefreshFails(c) ==
  /\ At(c, "refresh")
  /\ Mishap
  /\ Goes(c, "expire")
  /\ \/ UNCHANGED <<issued, owner, grants, lost>>
     \/ /\ call[c].token \in grants
        /\ Issues(owner[call[c].token])
        /\ grants' = (grants \ {call[c].token}) \cup {issued + 1}
        /\ lost' = lost \cup {call[c].token}
  /\ UNCHANGED <<cap, row, aged, revoked, oauth, req, imports, active, crossed,
                 redeemed, keys>>

Save(c) ==
  /\ At(c, "save")
  /\ row' = TokensSaved(call[c].token, call[c].next)
  /\ call' = [call EXCEPT ![c].step = "fetch", ![c].token = call[c].next, ![c].next = 0]
  /\ UNCHANGED <<cap, provider, oauth, req, imports, active, crossed, lost,
                 redeemed, mishaps, keys>>

(* saveTokens throws: the pair is gone with the catch block. *)
SaveFails(c) ==
  /\ At(c, "save")
  /\ Mishap
  /\ lost' = lost \cup {call[c].token}
  /\ call' = [call EXCEPT ![c].step = "expire", ![c].next = 0]
  /\ UNCHANGED <<cap, row, provider, oauth, req, imports, active, crossed,
                 redeemed, keys>>

Expire(c) ==
  /\ At(c, "expire")
  /\ row' = StatusSet("EXPIRED")
  /\ Fails(c, "EXPIRED")
  /\ UNCHANGED <<cap, provider, oauth, req, imports, active, crossed, lost,
                 redeemed, mishaps, keys>>

-----------------------------------------------------------------------------
(* The sync runs. *)

(* Mutant: the refusal is recorded as such, which no ConnectorStatus is.    *)
Refusal_Raw == "REFUSED"

(* A revoked token gets 401; only the Mercado Livre client turns that, and  *)
(* a row without shopId, into a demand to reauthenticate.                   *)
Refusal == IF cap.provider = "MERCADOLIVRE" THEN "EXPIRED" ELSE "ERROR"

Refused(c) ==
  \/ call[c].token \in revoked
  \/ call[c].shop = NoShop /\ cap.provider # "MERCADOPAGO"

Fetch(c) ==
  /\ At(c, "fetch")
  /\ \/ /\ call[c].kind = "worker"
        /\ call' = [call EXCEPT ![c] = NoCall]
        /\ UNCHANGED <<batch, mishaps>>
     \/ /\ call[c].kind # "worker" /\ Refused(c)
        /\ Fails(c, Refusal)
        /\ UNCHANGED <<batch, mishaps>>
     \/ /\ call[c].kind # "worker" /\ ~Refused(c)
        /\ call' = [call EXCEPT ![c] = [NoCall EXCEPT !.step = "items",
                                                     !.kind = call[c].kind]]
        /\ batch' = [batch EXCEPT ![c].todo = cap.items]
        /\ UNCHANGED mishaps
     \/ /\ call[c].kind # "worker"
        /\ Mishap
        /\ Fails(c, "ERROR")
        /\ UNCHANGED batch
  /\ UNCHANGED <<cap, row, provider, oauth, req, content, unified, framework,
                 toggle, active, crossed, lost, dropped, redeemed, keys>>

(* createContent of a FAILED row; a collision on (platform, externalId) is  *)
(* swallowed.                                                               *)
FailedRow(i) ==
  content' = IF content[i] = "none" THEN [content EXCEPT ![i] = "FAILED"] ELSE content

Tallied(c, i, field) ==
  batch' = [batch EXCEPT ![c] = [[batch[c] EXCEPT ![field] = @ + 1]
                                   EXCEPT !.todo = @ \ {i}, !.item = {}]]

(* findContentByExternalId: a known item is a duplicate, its row refreshed, *)
(* whether it was IMPORTED or FAILED.  The framework validates first.       *)
Lookup(c, i) ==
  /\ At(c, "items")
  /\ i \in batch[c].todo
  /\ \/ /\ call[c].kind = "framework" /\ i \in Invalid
        /\ Tallied(c, i, "failed")
        /\ FailedRow(i)
        /\ UNCHANGED <<call, mishaps>>
     \/ /\ call[c].kind = "market" \/ i \notin Invalid
        /\ content[i] # "none"
        /\ Tallied(c, i, "known")
        /\ UNCHANGED <<call, content, mishaps>>
     \/ /\ call[c].kind = "market" \/ i \notin Invalid
        /\ content[i] = "none"
        /\ Goes(c, "write")
        /\ batch' = [batch EXCEPT ![c].item = {i}]
        /\ UNCHANGED <<content, mishaps>>
     \/ /\ call[c].kind = "market" \/ i \notin Invalid
        /\ Mishap
        /\ Tallied(c, i, "failed")
        /\ FailedRow(i)
        /\ UNCHANGED call
  /\ UNCHANGED <<cap, row, provider, oauth, req, unified, framework, toggle,
                 active, crossed, lost, dropped, redeemed, keys>>

(* Mutant: a colliding create is counted as an import. *)
Creates_Blind(i) == TRUE

(* The unique key lets only the first create through. *)
Creates(i) == content[i] = "none"

Write(c, i) ==
  /\ At(c, "write")
  /\ i \in batch[c].item
  /\ Goes(c, "items")
  /\ \/ /\ Creates(i)
        /\ content' = [content EXCEPT ![i] = "IMPORTED"]
        /\ Tallied(c, i, "imported")
        /\ UNCHANGED <<dropped, mishaps>>
     \/ /\ ~Creates(i)
        /\ Tallied(c, i, "failed")
        /\ UNCHANGED <<content, dropped, mishaps>>
     \/ /\ Mishap
        /\ Tallied(c, i, "failed")
        /\ FailedRow(i)
        /\ UNCHANGED dropped
     \/ /\ Mishap
        /\ content[i] = "none"
        /\ content' = [content EXCEPT ![i] = "IMPORTED"]
        /\ Tallied(c, i, "failed")
        /\ dropped' = TRUE
  /\ UNCHANGED <<cap, row, provider, oauth, req, unified, framework, toggle,
                 active, crossed, lost, redeemed, keys>>

(* recordSyncResult of the framework: whatever the switch says meanwhile.   *)
Recorded(state, count) ==
  /\ framework' = [framework EXCEPT !.state = state, !.imported = @ + count]
  /\ toggle' = [toggle EXCEPT !.overtaken = @ \/ toggle.pending]

Finished(c) ==
  /\ call' = [call EXCEPT ![c] = NoCall]
  /\ batch' = [batch EXCEPT ![c] = NoBatch]

(* The marketplace writes the Connector row first, then ConnectorStatus.    *)
RecordMarket(c) ==
  /\ At(c, "items") /\ batch[c].todo = {}
  /\ call[c].kind = "market"
  /\ row' = StatusSet("CONNECTED")
  /\ unified' = IF Exists THEN unified + batch[c].imported ELSE unified
  /\ Goes(c, "record")
  /\ UNCHANGED <<cap, provider, oauth, req, batch, content, framework, toggle,
                 active, crossed, lost, dropped, redeemed, mishaps, keys>>

RecordStatus(c) ==
  /\ At(c, "record")
  /\ Recorded("ACTIVE", batch[c].imported)
  /\ Finished(c)
  /\ UNCHANGED <<cap, row, provider, oauth, req, content, unified, active,
                 crossed, lost, dropped, redeemed, mishaps, keys>>

RecordFramework(c) ==
  /\ At(c, "items") /\ batch[c].todo = {}
  /\ call[c].kind = "framework"
  /\ Recorded(IF batch[c].failed > 0 /\ batch[c].imported = 0 /\ batch[c].known = 0
              THEN "ERROR" ELSE "ACTIVE", batch[c].imported)
  /\ Finished(c)
  /\ UNCHANGED <<cap, row, provider, oauth, req, content, unified, active,
                 crossed, lost, dropped, redeemed, mishaps, keys>>

(* Mutant: every demand to reauthenticate is recorded as EXPIRED. *)
FailureStatus_Flattened(verdict) ==
  IF verdict = "REAUTH_REQUIRED" THEN "EXPIRED" ELSE verdict

FailureStatus(verdict) == verdict

(* The failure of a fetch: the Connector row (marketplace only), then the   *)
(* ConnectorStatus row.                                                     *)
RecordFailure(c) ==
  /\ At(c, "error") /\ call[c].kind = "market"
  /\ row' = StatusSet(FailureStatus(call[c].verdict))
  /\ call' = [call EXCEPT ![c].step = "failed"]
  /\ UNCHANGED <<cap, provider, oauth, req, imports, active, crossed, lost,
                 redeemed, mishaps, keys>>

RecordFailedStatus(c) ==
  /\ At(c, "failed") \/ (At(c, "error") /\ call[c].kind = "framework")
  /\ Recorded("ERROR", 0)
  /\ Finished(c)
  /\ UNCHANGED <<cap, row, provider, oauth, req, content, unified, active,
                 crossed, lost, dropped, redeemed, mishaps, keys>>

(* The process dies in the middle of a call. *)
Die(c) ==
  /\ ~At(c, "idle")
  /\ Mishap
  /\ Finished(c)
  /\ lost' = IF At(c, "save") THEN lost \cup {call[c].token} ELSE lost
  /\ dropped' = (dropped \/ batch[c].imported > 0)
  /\ UNCHANGED <<cap, row, provider, oauth, req, content, unified, framework,
                 toggle, active, crossed, redeemed, keys>>

-----------------------------------------------------------------------------
(* setEnabled: the read of the state, then the upsert.                      *)

(* Mutant: enabling always starts over from IDLE. *)
NextState_Resets(enabled) == IF enabled THEN "IDLE" ELSE "DISABLED"

NextState(enabled) ==
  IF ~enabled THEN "DISABLED"
  ELSE IF framework.state = "DISABLED" THEN "IDLE" ELSE framework.state

ReadToggle(enabled) ==
  /\ cap.toggles /\ ~toggle.pending
  /\ toggle' = [pending |-> TRUE, enabled |-> enabled,
                state |-> NextState(enabled), overtaken |-> FALSE]
  /\ UNCHANGED <<cap, row, provider, oauth, req, call, batch, content, unified,
                 framework, active, crossed, lost, dropped, redeemed, mishaps, keys>>

WriteToggle ==
  /\ toggle.pending
  /\ framework' = [framework EXCEPT !.enabled = toggle.enabled, !.state = toggle.state]
  /\ toggle' = NoToggle
  /\ UNCHANGED <<cap, row, provider, oauth, req, call, batch, content, unified,
                 active, crossed, lost, dropped, redeemed, mishaps, keys>>

-----------------------------------------------------------------------------
CallStep(c) ==
  \/ \E kind \in Kinds : Start(c, kind)
  \/ Read(c) \/ Park(c) \/ Refresh(c) \/ RefreshFails(c)
  \/ Save(c) \/ SaveFails(c) \/ Expire(c) \/ Fetch(c)
  \/ \E i \in Items : Lookup(c, i) \/ Write(c, i)
  \/ RecordMarket(c) \/ RecordStatus(c) \/ RecordFramework(c)
  \/ RecordFailure(c) \/ RecordFailedStatus(c) \/ Die(c)

RequestStep(q) ==
  \/ \E s \in States : FindState(q, s)
  \/ ConsumeState(q) \/ SessionConnect(q)
  \/ \E shop \in Shops : Exchange(q, shop)
  \/ ConnectFails(q) \/ Store(q)

Next ==
  \/ \E s \in States : Issue(s) \/ StateExpires(s)
  \/ \E q \in Requests : RequestStep(q)
  \/ \E c \in Callers : CallStep(c)
  \/ Disconnect
  \/ \E t \in Tokens : TokenAges(t)
  \/ \E shop \in Shops : Revoke(shop)
  \/ RotateKey
  \/ \E enabled \in BOOLEAN : ReadToggle(enabled)
  \/ WriteToggle

Spec == Init /\ [][Next]_vars

-----------------------------------------------------------------------------
(* Properties. *)

Statuses == {"ABSENT", "DISCONNECTED", "CONNECTED", "EXPIRED", "ERROR", "REAUTH_REQUIRED"}
OwnTokens == 0..issued

(* The rows and the calls keep their shape; no token is stored, held or     *)
(* granted that the provider did not issue.                                 *)
TypeOK ==
  /\ cap \in Scenarios
  /\ issued \in 0..MaxTokens
  /\ owner \in [Tokens -> Shops \cup {NoShop}]
  /\ row \in [status : Statuses, token : OwnTokens, readable : BOOLEAN,
              shop : Shops \cup {NoShop}]
  /\ grants \subseteq 1..issued /\ aged \subseteq 1..issued
  /\ revoked \subseteq 1..issued /\ lost \subseteq 1..issued
  /\ oauth \in [States -> {"none", "live", "stale", "gone"}]
  /\ req \in [Requests -> [step : {"idle", "consume", "exchange", "store"},
                           state : SUBSET States, shop : Shops \cup {NoShop},
                           token : OwnTokens]]
  /\ call \in [Callers -> [step : {"idle", "read", "park", "refresh", "save", "expire",
                                  "fetch", "items", "write", "record", "error", "failed"},
                          kind : Kinds, token : OwnTokens,
                          shop : Shops \cup {NoShop}, next : OwnTokens,
                          verdict : {"EXPIRED", "ERROR", "REAUTH_REQUIRED"}]]
  /\ batch \in [Callers -> [todo : SUBSET Items, item : SUBSET Items, imported : Nat,
                           known : Nat, failed : Nat]]
  /\ content \in [Items -> {"none", "IMPORTED", "FAILED"}]
  /\ unified \in Nat
  /\ framework \in [state : {"IDLE", "ACTIVE", "ERROR", "DISABLED"},
                    enabled : BOOLEAN, imported : Nat]
  /\ toggle \in [pending : BOOLEAN, enabled : BOOLEAN, overtaken : BOOLEAN,
                 state : {"IDLE", "ACTIVE", "ERROR", "DISABLED"}]
  /\ active \in BOOLEAN /\ dropped \in BOOLEAN
  /\ crossed \in [tokens : BOOLEAN, status : BOOLEAN]
  /\ redeemed \in [States -> Nat]
  /\ mishaps \in Nat /\ keys \in Nat

(* The refresh token in the row can still be used, or some call that has    *)
(* just spent it is about to store its successor; otherwise the seller      *)
(* revoked it or a failure between rotation and saveTokens lost the pair.   *)
(* Concurrent refreshes, reconnects and disconnects never leave a spent one.*)
RefreshTokenLive ==
  \/ row.token = 0
  \/ row.token \in grants \cup revoked \cup lost
  \/ \E c \in Callers : At(c, "save") /\ call[c].token = row.token

(* As long as no connect or disconnect overlapped a refresh, the row holds  *)
(* a token exactly while an account is connected, and the token belongs to  *)
(* the shop the row names.  (An overlap may store a token after a           *)
(* disconnect, or one shop's token under another shop's id.)                *)
TokenFollowsAccount ==
  ~crossed.tokens =>
    /\ row.token # 0 <=> active
    /\ row.token # 0 => row.shop = owner[row.token]

(* As long as no connect or disconnect overlapped a call, a row that says   *)
(* CONNECTED has a credential (its own or the environment's) and one that   *)
(* says DISCONNECTED has none.                                              *)
StatusFollowsToken ==
  ~crossed.status =>
    /\ row.status = "CONNECTED" => row.token # 0 \/ (cap.env /\ cap.provider = "MERCADOPAGO")
    /\ row.status = "DISCONNECTED" => row.token = 0

(* A one-time OAuth state is accepted once, however many callbacks carry it *)
(* and whether or not it expires or is cleaned up in the meantime.          *)
StateUsedOnce == \A s \in States : redeemed[s] <= 1

(* Every IMPORTED row is counted once in the framework's counter, by the    *)
(* engine whose create went through, unless a sync died or lost an answer   *)
(* before it recorded its tally; the Connector row never counts more.       *)
Unrecorded(kinds, steps) ==
  SumFunctionOnSet([c \in Callers |-> IF call[c].kind \in kinds /\ call[c].step \in steps
                                      THEN batch[c].imported ELSE 0], Callers)

ImportsCounted ==
  LET imported == Cardinality({i \in Items : content[i] = "IMPORTED"})
  IN /\ ~dropped => framework.imported
                      + Unrecorded(Kinds, {"items", "write", "record"}) = imported
     /\ unified + Unrecorded({"market"}, {"items", "write"}) <= imported

(* The row, its account and its OAuth states tell one story, however many   *)
(* callbacks, refreshes, disconnects and key changes cross each other.      *)
ConnectionSafe == TypeOK /\ TokenFollowsAccount /\ StatusFollowsToken /\ StateUsedOnce

(* A channel parked in REAUTH_REQUIRED is not flattened into another status:*)
(* unless calls overlapped a connect or disconnect, only these end it.      *)
ReauthNotFlattened ==
  row.status = "REAUTH_REQUIRED" /\ row'.status # "REAUTH_REQUIRED"
    => crossed.status \/ row'.token # row.token

(* Enabling a connector erases the result of a sync (ACTIVE or ERROR) only  *)
(* when that sync recorded it after the switch had read the state.          *)
EnablingErasesOnlyUnseen ==
  framework.state \in {"ACTIVE", "ERROR"} /\ framework'.state = "IDLE"
    => toggle.overtaken

-----------------------------------------------------------------------------
(* The inductive invariant of the proofs: what the calls in progress know.  *)

(* What a sync or a parked channel has told the dashboard is not written    *)
(* over by a call that did not know of it.                                  *)
ResultsKept == [][ReauthNotFlattened /\ EnablingErasesOnlyUnseen]_vars

(* A state that was accepted is gone, and no state comes back. *)
SpentStates ==
  \A s \in States : redeemed[s] = 0 \/ (redeemed[s] = 1 /\ oauth[s] = "gone")

(* A pair on its way into the row is good, unless it was revoked, and only  *)
(* the call that carries it knows it.                                       *)
NewPairs ==
  /\ \A c \in Callers : At(c, "save") =>
       /\ call[c].next \in grants \cup revoked /\ call[c].next # row.token
       /\ \A d \in Callers :
            /\ call[d].token # call[c].next
            /\ d # c /\ At(d, "save") => call[d].next # call[c].next
       /\ \A q \in Requests : req[q].step = "store" => req[q].token # call[c].next
  /\ \A q \in Requests : req[q].step = "store" =>
       /\ req[q].token \in grants \cup revoked /\ req[q].token # row.token
       /\ owner[req[q].token] = req[q].shop
       /\ \A d \in Callers : call[d].token # req[q].token
       /\ \A r \in Requests :
            r # q /\ req[r].step = "store" => req[r].token # req[q].token

(* A refresh has a token to spend, and one that nothing overlapped works    *)
(* for the shop of the row.                                                 *)
RefreshesOwn ==
  \A c \in Callers : call[c].step \in {"refresh", "save"} =>
    /\ call[c].token # 0
    /\ ~crossed.tokens =>
         /\ active /\ row.shop = owner[call[c].token]
         /\ At(c, "save") => owner[call[c].next] = owner[call[c].token]

Credential == row.token # 0 \/ (cap.env /\ cap.provider = "MERCADOPAGO")

(* A sync of the marketplace that nothing overlapped has a credential. *)
MarketsUsable ==
  ~crossed.status => \A c \in Callers :
    ~At(c, "idle") /\ call[c].kind = "market" => Credential

(* A token that nobody can decrypt parks the row, and the calls that nothing*)
(* overlapped know of it or have not looked yet.                            *)
KeysHold ==
  /\ ~row.readable => row.token # 0
  /\ ~crossed.status =>
       /\ row.status = "REAUTH_REQUIRED" => ~row.readable
       /\ \A c \in Callers :
            /\ At(c, "park") \/ (At(c, "error") /\ call[c].verdict = "REAUTH_REQUIRED")
                 => ~row.readable
            /\ ~row.readable => \/ call[c].step \in {"idle", "read", "park", "failed"}
                                \/ At(c, "error") /\ call[c].verdict = "REAUTH_REQUIRED"

(* The switch is about to write IDLE over a result only if it came after.   *)
TogglesSeen ==
  toggle.pending /\ ~toggle.overtaken /\ toggle.state = "IDLE"
    => framework.state \in {"IDLE", "DISABLED"}

IInv ==
  /\ TypeOK
  /\ SpentStates
  /\ NewPairs
  /\ RefreshTokenLive
  /\ TokenFollowsAccount
  /\ RefreshesOwn
  /\ StatusFollowsToken
  /\ MarketsUsable
  /\ KeysHold
  /\ TogglesSeen
=============================================================================
