--------------------------- MODULE LinkedAccounts ---------------------------
(***************************************************************************)
(* The account of one organization on TikTok Shop, Instagram or WhatsApp:  *)
(* its OAuth callback, its token, the sessions that use and refresh the    *)
(* token, and its copy in the unified Connector row, which the marketplace *)
(* page shows.  TikTok replaces a refresh token at every refresh and       *)
(* accepts it once; Meta renews a token and keeps the old one valid;       *)
(* WhatsApp tokens are never renewed.  A token stands for the pair of      *)
(* access and refresh token; 0 is none.                                    *)
(***************************************************************************)
EXTENDS Integers, FiniteSets

CONSTANTS
  Channels,   \* the channels of the behaviours
  Sessions,   \* requests that run concurrently
  Handshakes, \* OAuth states
  MaxGrants   \* bound: tokens that the provider gives out

ASSUME LinkedAssumption ==
  /\ Channels \subseteq {"TIKTOK", "INSTAGRAM", "WHATSAPP"}
  /\ MaxGrants \in Nat

VARIABLES
  channel,   \* one of Channels
  account,   \* the TikTokAccount or DeliveryAccount row; due: near its expiry
  granted,   \* tokens given out so far
  accepted,  \* tokens that the provider still refreshes
  handshake, \* Handshakes -> the OAuth state row
  redeemed,  \* history: Handshakes -> callbacks that went on to the exchange
  connector, \* the unified Connector row
  session,   \* Sessions -> the request in progress
  stale,     \* history: sessions that hold a token the row has lost since
  severed,   \* history: disconnected on the marketplace page with no copy in progress,
             \* and not authorized since
  revived,   \* history: a stale session set CONNECTED after a disconnect
  lost       \* history: a refreshed token was not stored

linkedVars == <<channel, account, granted, accepted, handshake, redeemed, connector,
                session, stale, severed, revived, lost>>

Tokens == 0..MaxGrants
Free == [step |-> "idle", task |-> "none", token |-> 0, next |-> 0, shake |-> {}]

(* Steps at which a session relies on a token that it read from the row.    *)
Holding == {"ask", "save", "expire", "ready", "mark"}

LinkedInit ==
  /\ channel \in Channels
  /\ account = [status |-> "ABSENT", token |-> 0, due |-> FALSE]
  /\ granted = 0 /\ accepted = {}
  /\ handshake = [h \in Handshakes |-> "none"]
  /\ redeemed = [h \in Handshakes |-> 0]
  /\ connector = [status |-> "ABSENT", token |-> 0]
  /\ session = [s \in Sessions |-> Free]
  /\ stale = {}
  /\ severed = FALSE /\ revived = FALSE /\ lost = FALSE

Step(s) == session[s].step
GoesOn(s, step) == session' = [session EXCEPT ![s].step = step]
Done(s) == session' = [session EXCEPT ![s] = Free]

(* A new value of the token leaves the other sessions with a stale one.     *)
Outdates(s) == stale' = (stale \cup {r \in Sessions : Step(r) \in Holding}) \ {s}
Forgets(s) == stale' = stale \ {s}

-----------------------------------------------------------------------------
(* connectTikTok, connectInstagram, connectWhatsApp and their callbacks.    *)

Connect(h) ==
  /\ handshake[h] = "none"
  /\ handshake' = [g \in Handshakes |-> IF g = h THEN "open"
                     ELSE IF handshake[g] = "expired" THEN "gone" ELSE handshake[g]]
  /\ UNCHANGED <<channel, account, granted, accepted, redeemed, connector, session, stale,
                 severed, revived, lost>>

HandshakeExpires(h) ==
  /\ handshake[h] = "open"
  /\ handshake' = [handshake EXCEPT ![h] = "expired"]
  /\ UNCHANGED <<channel, account, granted, accepted, redeemed, connector, session, stale,
                 severed, revived, lost>>

(* An expired state is deleted; an unknown one is refused.                  *)
FindHandshake(s, h) ==
  /\ Step(s) = "idle"
  /\ \/ /\ handshake[h] = "open"
        /\ session' = [session EXCEPT ![s] = [Free EXCEPT !.step = "consume",
                                                          !.shake = {h}]]
        /\ UNCHANGED handshake
     \/ /\ handshake[h] = "expired"
        /\ handshake' = [handshake EXCEPT ![h] = "gone"]
        /\ UNCHANGED session
  /\ UNCHANGED <<channel, account, granted, accepted, redeemed, connector, stale, severed,
                 revived, lost>>

(* Mutant: the callback does not look at the count of the delete. *)
Consumable_Unchecked(h) == TRUE

(* The delete counts one row: the state is still there.                     *)
Consumable(h) == handshake[h] \in {"open", "expired"}

ConsumeHandshake(s) ==
  /\ Step(s) = "consume"
  /\ \E h \in session[s].shake :
       IF Consumable(h)
       THEN /\ handshake' = [handshake EXCEPT ![h] = "gone"]
            /\ redeemed' = [redeemed EXCEPT ![h] = @ + 1]
            /\ GoesOn(s, "exchange")
       ELSE /\ Done(s)
            /\ UNCHANGED <<handshake, redeemed>>
  /\ UNCHANGED <<channel, account, granted, accepted, connector, stale, severed, revived,
                 lost>>

ExchangeCode(s) ==
  /\ Step(s) = "exchange" /\ granted < MaxGrants
  /\ granted' = granted + 1
  /\ accepted' = accepted \cup {granted + 1}
  /\ session' = [session EXCEPT ![s].step = "store", ![s].next = granted + 1]
  /\ UNCHANGED <<channel, account, handshake, redeemed, connector, stale, severed, revived,
                 lost>>

(* The provider refuses the code, or shows no account.  TikTok's refusal of *)
(* the application itself parks the unified row.                            *)
ExchangeFails(s) ==
  /\ Step(s) = "exchange"
  /\ Done(s)
  /\ \/ UNCHANGED connector
     \/ channel = "TIKTOK" /\ connector' = [connector EXCEPT !.status = "PENDING_APPROVAL"]
  /\ UNCHANGED <<channel, account, granted, accepted, handshake, redeemed, stale, severed,
                 revived, lost>>

(* upsertAuthorizedShop, upsertConnectedAccount; the callbacks of TikTok    *)
(* and Instagram then copy the account.                                     *)
StoreAccount(s) ==
  /\ Step(s) = "store"
  /\ account' = [status |-> "CONNECTED", token |-> session[s].next, due |-> FALSE]
  /\ Outdates(s)
  /\ severed' = FALSE /\ revived' = FALSE
  /\ IF channel = "WHATSAPP" THEN Done(s)
     ELSE session' = [session EXCEPT ![s] = [Free EXCEPT !.step = "mirror"]]
  /\ UNCHANGED <<channel, granted, accepted, handshake, redeemed, connector, lost>>

-----------------------------------------------------------------------------
(* Tasks: the TikTok importer ("sync"), a catalogue fetch, a message sent.  *)

Tasks == CASE channel = "TIKTOK" -> {"sync", "fetch"}
           [] channel = "INSTAGRAM" -> {"fetch", "send"}
           [] OTHER -> {"send"}

(* findConnected, findActiveAccount, then the first lines of                *)
(* getValidAccessToken: without a token Instagram and a message end here,   *)
(* TikTok finds no expiry and refreshes.                                    *)
FindAccount(s, task) ==
  /\ Step(s) = "idle"
  /\ task \in Tasks
  /\ account.status = "CONNECTED"
  /\ account.token # 0 \/ channel = "TIKTOK"
  /\ session' = [session EXCEPT ![s] =
       [Free EXCEPT !.task = task, !.token = account.token,
                    !.step = IF task # "send" /\ (account.due \/ account.token = 0)
                             THEN "refresh" ELSE "ready"]]
  /\ UNCHANGED <<channel, account, granted, accepted, handshake, redeemed, connector, stale,
                 severed, revived, lost>>

(* refreshAccessToken, refreshToken: the row is read again.                 *)
ReadForRefresh(s) ==
  /\ Step(s) = "refresh"
  /\ IF account.token = 0 THEN Done(s)
     ELSE session' = [session EXCEPT ![s].step = "ask", ![s].token = account.token]
  /\ UNCHANGED <<channel, account, granted, accepted, handshake, redeemed, connector, stale,
                 severed, revived, lost>>

AskProvider(s) ==
  /\ Step(s) = "ask"
  /\ session[s].token \in accepted /\ granted < MaxGrants
  /\ granted' = granted + 1
  /\ accepted' = (IF channel = "TIKTOK" THEN accepted \ {session[s].token} ELSE accepted)
                   \cup {granted + 1}
  /\ \/ /\ session' = [session EXCEPT ![s].step = "save", ![s].next = granted + 1]
        /\ UNCHANGED lost
     \/ /\ GoesOn(s, "expire")     \* the answer is lost
        /\ lost' = TRUE
  /\ UNCHANGED <<channel, account, handshake, redeemed, connector, stale, severed, revived>>

(* The token is refused, the provider fails, or the new token cannot be     *)
(* stored.                                                                  *)
RefreshFails(s) ==
  /\ Step(s) \in {"ask", "save"}
  /\ lost' = (lost \/ Step(s) = "save")
  /\ GoesOn(s, "expire")
  /\ UNCHANGED <<channel, account, granted, accepted, handshake, redeemed, connector, stale,
                 severed, revived>>

MarkExpired(s) ==
  /\ Step(s) = "expire"
  /\ account' = [account EXCEPT !.status = "EXPIRED"]
  /\ Done(s) /\ Forgets(s)
  /\ UNCHANGED <<channel, granted, accepted, handshake, redeemed, connector, severed, revived,
                 lost>>

(* Mutant: the refresh token in hand is kept although there is a new one. *)
Renewed_KeepsOld(s) == session[s].token
Renewed(s) == session[s].next

(* saveRefreshedTokens, saveTokens: by id, whatever the row is by now.      *)
(* TikTok goes on with the new token, Instagram reads the row again.        *)
SaveTokens(s) ==
  /\ Step(s) = "save"
  /\ account' = [status |-> "CONNECTED", token |-> Renewed(s), due |-> FALSE]
  /\ Outdates(s)
  /\ session' = [session EXCEPT
       ![s].step = IF channel = "TIKTOK" THEN "ready" ELSE "reread",
       ![s].token = IF channel = "TIKTOK" THEN session[s].next ELSE @]
  /\ UNCHANGED <<channel, granted, accepted, handshake, redeemed, connector, severed, revived,
                 lost>>

(* Mutant: the token that was found first is used. *)
Reread_First(s) == session[s].token
Reread(s) == account.token

ReadRenewed(s) ==
  /\ Step(s) = "reread"
  /\ IF account.token = 0 THEN Done(s)
     ELSE session' = [session EXCEPT ![s].step = "ready", ![s].token = Reread(s)]
  /\ UNCHANGED <<channel, account, granted, accepted, handshake, redeemed, connector, stale,
                 severed, revived, lost>>

(* The requests of the task, with the token in hand. *)
CallProvider(s) ==
  /\ Step(s) = "ready"
  /\ \/ session[s].task = "sync" /\ GoesOn(s, "mark") /\ UNCHANGED stale
     \/ Done(s) /\ Forgets(s)
  /\ UNCHANGED <<channel, account, granted, accepted, handshake, redeemed, connector, severed,
                 revived, lost>>

(* markSynced sets CONNECTED, whatever the status is by now. *)
MarkSynced(s) ==
  /\ Step(s) = "mark"
  /\ account' = [account EXCEPT !.status = "CONNECTED"]
  /\ revived' = (revived \/ (account.token = 0 /\ s \in stale))
  /\ Done(s) /\ Forgets(s)
  /\ UNCHANGED <<channel, granted, accepted, handshake, redeemed, connector, severed, lost>>

TokenNearsExpiry ==
  /\ channel # "WHATSAPP" /\ account.token # 0
  /\ account' = [account EXCEPT !.due = TRUE]
  /\ UNCHANGED <<channel, granted, accepted, handshake, redeemed, connector, session, stale,
                 severed, revived, lost>>

-----------------------------------------------------------------------------
(* Disconnects, and the copy. *)

(* Mutant: the status changes, the ciphertext stays. *)
Disconnected_Token == [account EXCEPT !.status = "DISCONNECTED"]

(* Mutant: the ciphertext goes, the status stays. *)
Disconnected_Status == [account EXCEPT !.token = 0, !.due = FALSE]
Disconnected == [status |-> "DISCONNECTED", token |-> 0, due |-> FALSE]

(* revokeConnection, disconnectInstagram, disconnectWhatsApp. *)
Disconnect ==
  /\ account.status # "ABSENT"
  /\ account' = Disconnected
  /\ stale' = stale \cup {s \in Sessions : Step(s) \in Holding}
  /\ revived' = FALSE
  /\ UNCHANGED <<channel, granted, accepted, handshake, redeemed, connector, session, severed,
                 lost>>

(* The page that lists the connectors copies the account first. *)
ListConnectorCards(s) ==
  /\ Step(s) = "idle"
  /\ channel # "WHATSAPP"
  /\ session' = [session EXCEPT ![s].step = "mirror"]
  /\ UNCHANGED <<channel, account, granted, accepted, handshake, redeemed, connector, stale,
                 severed, revived, lost>>

(* mirrorTikTokConnection, mirrorInstagramConnection: the account, if it is *)
(* connected and has a token.                                               *)
ReadMirror(s) ==
  /\ Step(s) = "mirror"
  /\ IF account.status = "CONNECTED" /\ account.token # 0
     THEN session' = [session EXCEPT ![s].step = "copy", ![s].token = account.token]
     ELSE Done(s)
  /\ UNCHANGED <<channel, account, granted, accepted, handshake, redeemed, connector, stale,
                 severed, revived, lost>>

WriteMirror(s) ==
  /\ Step(s) = "copy"
  /\ connector' = [status |-> "CONNECTED", token |-> session[s].token]
  /\ Done(s)
  /\ UNCHANGED <<channel, account, granted, accepted, handshake, redeemed, stale, severed,
                 revived, lost>>

(* disconnect of marketplaceService: only the unified row. *)
ClearConnector ==
  /\ connector.status # "ABSENT"
  /\ connector' = [status |-> "DISCONNECTED", token |-> 0]
  /\ severed' = (\A s \in Sessions : Step(s) \notin {"mirror", "copy"})
  /\ UNCHANGED <<channel, account, granted, accepted, handshake, redeemed, session, stale,
                 revived, lost>>

(* The process dies, or a statement fails.                                  *)
SessionDies(s) ==
  /\ Step(s) # "idle"
  /\ lost' = (lost \/ Step(s) = "save")
  /\ Done(s) /\ Forgets(s)
  /\ UNCHANGED <<channel, account, granted, accepted, handshake, redeemed, connector, severed,
                 revived>>

LinkedNext ==
  \/ \E h \in Handshakes : Connect(h) \/ HandshakeExpires(h)
  \/ \E s \in Sessions :
       \/ \E h \in Handshakes : FindHandshake(s, h)
       \/ ConsumeHandshake(s) \/ ExchangeCode(s) \/ ExchangeFails(s) \/ StoreAccount(s)
       \/ \E task \in {"sync", "fetch", "send"} : FindAccount(s, task)
       \/ ReadForRefresh(s) \/ AskProvider(s) \/ RefreshFails(s) \/ MarkExpired(s)
       \/ SaveTokens(s) \/ ReadRenewed(s) \/ CallProvider(s) \/ MarkSynced(s)
       \/ ListConnectorCards(s) \/ ReadMirror(s) \/ WriteMirror(s) \/ SessionDies(s)
  \/ TokenNearsExpiry \/ Disconnect \/ ClearConnector

LinkedSpec == LinkedInit /\ [][LinkedNext]_linkedVars

-----------------------------------------------------------------------------
(* Properties. *)

(* Rows and sessions keep their shape; an account that is absent or         *)
(* disconnected has no token.                                               *)
LinkedTypeOK ==
  /\ channel \in Channels
  /\ account \in [status : {"ABSENT", "CONNECTED", "EXPIRED", "DISCONNECTED"},
                  token : Tokens, due : BOOLEAN]
  /\ account.status \in {"ABSENT", "DISCONNECTED"} => account.token = 0
  /\ granted \in Tokens /\ accepted \subseteq 1..granted
  /\ handshake \in [Handshakes -> {"none", "open", "expired", "gone"}]
  /\ redeemed \in [Handshakes -> Nat]
  /\ connector \in [status : {"ABSENT", "CONNECTED", "DISCONNECTED", "PENDING_APPROVAL"},
                    token : Tokens]
  /\ session \in [Sessions ->
       [step : Holding \cup {"idle", "consume", "exchange", "store", "refresh", "reread",
                             "mirror", "copy"},
        task : {"none", "sync", "fetch", "send"}, token : Tokens, next : Tokens,
        shake : SUBSET Handshakes]]
  /\ stale \subseteq Sessions
  /\ severed \in BOOLEAN /\ revived \in BOOLEAN /\ lost \in BOOLEAN

(* Unless a refreshed token was lost on its way, the token of the row can   *)
(* be refreshed, or the session that has just refreshed it is about to      *)
(* store its successor: refreshes that overlap do not strand the account.   *)
StoredTokenLive ==
  account.token # 0 /\ account.token \notin accepted
    => \/ lost
       \/ \E s \in Sessions : Step(s) = "save" /\ session[s].token = account.token

(* A session that is about to call the provider has the row's token, unless *)
(* the row lost that token after the session had read it.                   *)
TokenInUse ==
  \A s \in Sessions :
    Step(s) \in {"ready", "mark"} => session[s].token = account.token \/ s \in stale

(* An account shown as CONNECTED has a token, unless a synchronization that *)
(* was running when it was disconnected has revived the bare status.        *)
ConnectedHasToken == account.status = "CONNECTED" /\ account.token = 0 => revived

(* A state of the OAuth flow lets one callback through, whatever callbacks  *)
(* and expiries overlap.                                                    *)
HandshakeOnce == \A h \in Handshakes : redeemed[h] <= 1

(* However callbacks, expiries, refreshes, synchronizations and a           *)
(* disconnect of one account overlap: the rows are well formed, the stored  *)
(* token works, the calls use it, CONNECTED means what it says and a state  *)
(* connects once.                                                           *)
LinkedSafe ==
  /\ LinkedTypeOK /\ StoredTokenLive /\ TokenInUse
  /\ ConnectedHasToken /\ HandshakeOnce

(* connector.service.ts says of disconnect that the application can never   *)
(* call the provider again: only a new authorization brings a token back    *)
(* into the unified row.                                                    *)
DisconnectIsFinal == severed => connector.token = 0
=============================================================================
