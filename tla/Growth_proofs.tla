---------------------------- MODULE Growth_proofs ----------------------------
(***************************************************************************)
(* Proofs about the store's checkout, the outreach messages, the pipeline  *)
(* of the creators, the trends, the audience of a campaign and the cache.  *)
(***************************************************************************)
EXTENDS Checkout, Outreach, CreatorCRM, TrendHunter, CampaignAudience, MessageCache,
        SumTheorems, FiniteSetTheorems, TLAPS

(* What the rows, the clients and the callers know of each other.           *)
CheckoutTyped ==
  /\ order \in [References -> SaleStatuses \cup {"NONE"}]
  /\ sessions \in [References -> Nat] /\ charged \in [References -> Nat]
  /\ acked \subseteq References
  /\ DOMAIN client = Clients /\ DOMAIN caller = Callers

(* A client between its two steps owns a sale without a session. *)
SessionsOwned ==
  /\ \A r \in References : /\ charged[r] <= sessions[r] /\ sessions[r] <= 1
                           /\ order[r] = "NONE" => sessions[r] = 0 /\ r \notin acked
  /\ \A c \in Clients : client[c].step = "session" =>
       \A r \in client[c].order : r \in References /\ order[r] # "NONE" /\ sessions[r] = 0
  /\ \A c, d \in Clients :
       client[c].step = "session" /\ client[d].step = "session" /\ c # d
         => client[c].order \cap client[d].order = {}

(* A caller that is about to write had read a status that allows it.        *)
CallsBacked ==
  /\ \A x \in Callers : caller[x].step = "write" =>
       /\ caller[x].next \in SaleStatuses /\ caller[x].seen \in SaleStatuses
       /\ caller[x].next \in Transitions[caller[x].seen]
       /\ \E r \in References : caller[x].order = {r} /\ order[r] # "NONE"
  /\ \A x \in Deliveries : caller[x].step = "write" =>
       /\ caller[x].next = "PAID"
       /\ \A r \in caller[x].order : charged[r] > 0

CheckoutInv ==
  CheckoutTyped /\ SessionsOwned /\ CallsBacked /\ PaidBacked /\ PaymentNotLost

LEMMA CheckoutStart == CheckoutInit => CheckoutInv
BY DEF CheckoutInit, CheckoutInv, CheckoutTyped, SessionsOwned, CallsBacked, PaidBacked,
       PaymentNotLost, AtRest, SaleStatuses, Callers

(* Clients and customers *)
LEMMA CreateSaleKeeps ==
  ASSUME CheckoutInv, NEW c \in Clients, NEW r \in References, CreateSale(c, r)
  PROVE  CheckoutInv'
<1> USE DEF CheckoutInv
<1>1. order[r] = "NONE" /\ r \notin acked /\ sessions[r] = 0
  BY DEF CreateSale, Accepts, SessionsOwned
<1>2. /\ order' = [order EXCEPT ![r] = "PENDING"]
      /\ client' = [client EXCEPT ![c] = [step |-> "session", order |-> {r}]]
      /\ UNCHANGED <<sessions, charged, acked, caller, edits, byHand, undone>>
  BY DEF CreateSale
<1>3. \A q \in References : order[q] # "NONE" => order'[q] = order[q] /\ q # r
  BY <1>1, <1>2 DEF CheckoutTyped
<1>4. order'[r] = "PENDING" /\ \A q \in References \ {r} : order'[q] = order[q]
  BY <1>2 DEF CheckoutTyped
<1>5. CheckoutTyped'
  BY <1>2 DEF CheckoutTyped, SaleStatuses
<1>6. /\ client'[c] = [step |-> "session", order |-> {r}]
      /\ \A d \in Clients \ {c} : client'[d] = client[d]
  BY <1>2 DEF CheckoutTyped
<1>7. SessionsOwned'
  BY <1>1, <1>2, <1>3, <1>4, <1>6 DEF SessionsOwned
<1>8. CallsBacked'
  BY <1>2, <1>3 DEF CallsBacked
<1>9. PaidBacked' /\ PaymentNotLost'
  BY <1>1, <1>2, <1>4 DEF PaidBacked, PaymentNotLost
<1>10. QED
  BY <1>5, <1>7, <1>8, <1>9

LEMMA OpenSessionKeeps ==
  ASSUME CheckoutInv, NEW c \in Clients, OpenSession(c)
  PROVE  CheckoutInv'
<1> USE DEF CheckoutInv
<1>1. /\ client[c].step = "session"
      /\ sessions' = [r \in References |-> sessions[r] + Cardinality(client[c].order \cap {r})]
      /\ client' = [client EXCEPT ![c].step = "idle"]
      /\ UNCHANGED <<order, charged, acked, caller, edits, byHand, undone>>
  BY DEF OpenSession
<1>2. \A r \in References :
        Cardinality(client[c].order \cap {r}) = IF r \in client[c].order THEN 1 ELSE 0
  <2> SUFFICES ASSUME NEW r \in References
               PROVE  Cardinality(client[c].order \cap {r})
                        = IF r \in client[c].order THEN 1 ELSE 0
    OBVIOUS
  <2>1. CASE r \in client[c].order
    <3>1. client[c].order \cap {r} = {r}
      BY <2>1
    <3>2. QED
      BY <2>1, <3>1, FS_Singleton
  <2>2. CASE r \notin client[c].order
    <3>1. client[c].order \cap {r} = {}
      BY <2>2
    <3>2. QED
      BY <2>2, <3>1, FS_EmptySet
  <2>3. QED
    BY <2>1, <2>2
<1>3. \A r \in References :
        sessions'[r] = IF r \in client[c].order THEN sessions[r] + 1 ELSE sessions[r]
  BY <1>1, <1>2 DEF CheckoutTyped
<1>4. \A r \in References : r \in client[c].order => order[r] # "NONE" /\ sessions[r] = 0
  BY <1>1 DEF SessionsOwned
<1>5. /\ client'[c].step = "idle"
      /\ \A d \in Clients \ {c} : client'[d] = client[d]
  BY <1>1 DEF CheckoutTyped
<1>6. CheckoutTyped'
  BY <1>1, <1>3 DEF CheckoutTyped
<1>7. SessionsOwned'
  <2>1. \A r \in References : /\ charged'[r] <= sessions'[r] /\ sessions'[r] <= 1
                              /\ order'[r] = "NONE" => sessions'[r] = 0 /\ r \notin acked'
    BY <1>1, <1>3, <1>4 DEF SessionsOwned, CheckoutTyped
  <2>2. \A d \in Clients : client'[d].step = "session" =>
          d # c /\ client[d].step = "session" /\ client'[d] = client[d]
    BY <1>5
  <2>3. \A d \in Clients : client'[d].step = "session" =>
          \A r \in client'[d].order : r \in References /\ order'[r] # "NONE" /\ sessions'[r] = 0
    BY <1>1, <1>3, <2>2 DEF SessionsOwned
  <2>4. QED
    BY <2>1, <2>2, <2>3 DEF SessionsOwned
<1>8. CallsBacked' /\ PaidBacked' /\ PaymentNotLost'
  BY <1>1 DEF CallsBacked, PaidBacked, PaymentNotLost
<1>9. QED
  BY <1>6, <1>7, <1>8

LEMMA SessionFailsKeeps ==
  ASSUME CheckoutInv, NEW c \in Clients, SessionFails(c)
  PROVE  CheckoutInv'
<1> USE DEF CheckoutInv
<1>1. /\ client' = [client EXCEPT ![c].step = "idle"]
      /\ UNCHANGED <<order, sessions, charged, acked, caller, edits, byHand, undone>>
  BY DEF SessionFails
<1>2. /\ client'[c].step = "idle"
      /\ \A d \in Clients \ {c} : client'[d] = client[d]
  BY <1>1 DEF CheckoutTyped
<1>3. CheckoutTyped' /\ SessionsOwned'
  BY <1>1, <1>2 DEF CheckoutTyped, SessionsOwned
<1>4. CallsBacked' /\ PaidBacked' /\ PaymentNotLost'
  BY <1>1 DEF CallsBacked, PaidBacked, PaymentNotLost
<1>5. QED
  BY <1>3, <1>4

LEMMA CustomerPaysKeeps ==
  ASSUME CheckoutInv, NEW r \in References, CustomerPays(r)
  PROVE  CheckoutInv'
<1> USE DEF CheckoutInv
<1>1. /\ charged[r] < sessions[r] /\ charged' = [charged EXCEPT ![r] = @ + 1]
      /\ UNCHANGED <<order, sessions, acked, client, caller, edits, byHand, undone>>
  BY DEF CustomerPays
<1>2. /\ charged'[r] = charged[r] + 1
      /\ \A q \in References \ {r} : charged'[q] = charged[q]
  BY <1>1 DEF CheckoutTyped
<1>3. CheckoutTyped' /\ SessionsOwned'
  BY <1>1, <1>2 DEF CheckoutTyped, SessionsOwned
<1>4. \A q \in References : charged[q] > 0 => charged'[q] > 0
  BY <1>2 DEF CheckoutTyped
<1>5. CallsBacked' /\ PaidBacked' /\ PaymentNotLost'
  BY <1>1, <1>4 DEF CallsBacked, PaidBacked, PaymentNotLost
<1>6. QED
  BY <1>3, <1>5

(* What every read and every write of updateStatus does. *)
LEMMA ReadKeeps ==
  ASSUME CheckoutInv, NEW x \in Callers, NEW r \in References, NEW to \in SaleStatuses,
         ReadStatus(x, r, to), x \in Deliveries => to = "PAID" /\ charged[r] > 0,
         UNCHANGED <<order, sessions, charged, acked, client, byHand, undone>>
  PROVE  CheckoutInv'
<1> USE DEF CheckoutInv
<1>1. /\ order[r] # "NONE" /\ to \in Transitions[order[r]]
      /\ caller' = [caller EXCEPT ![x] = [step |-> "write", order |-> {r},
                                          seen |-> order[r], next |-> to]]
  BY DEF ReadStatus, CanTransition
<1>2. /\ caller'[x] = [step |-> "write", order |-> {r}, seen |-> order[r], next |-> to]
      /\ \A y \in Callers \ {x} : caller'[y] = caller[y]
      /\ order[r] \in SaleStatuses
  BY <1>1 DEF CheckoutTyped
<1>3. CallsBacked'
  <2>1. \A y \in Callers : caller'[y].step = "write" =>
          /\ caller'[y].next \in SaleStatuses /\ caller'[y].seen \in SaleStatuses
          /\ caller'[y].next \in Transitions[caller'[y].seen]
          /\ \E q \in References : caller'[y].order = {q} /\ order[q] # "NONE"
    BY <1>1, <1>2 DEF CallsBacked
  <2>2. \A y \in Deliveries : caller'[y].step = "write" =>
          caller'[y].next = "PAID" /\ \A q \in caller'[y].order : charged[q] > 0
    BY <1>2 DEF CallsBacked, Callers
  <2>3. QED
    BY <2>1, <2>2 DEF CallsBacked
<1>4. CheckoutTyped' /\ SessionsOwned' /\ PaidBacked' /\ PaymentNotLost'
  BY <1>1 DEF CheckoutTyped, SessionsOwned, PaidBacked, PaymentNotLost
<1>5. QED
  BY <1>3, <1>4

LEMMA WriteFacts ==
  ASSUME CheckoutInv, NEW x \in Callers, WriteStatus(x)
  PROVE  \E r \in References :
           /\ caller[x].order = {r} /\ order[r] # "NONE" /\ caller[x].next \in SaleStatuses
           /\ order'[r] = caller[x].next
           /\ \A q \in References \ {r} : order'[q] = order[q]
           /\ order' \in [References -> SaleStatuses \cup {"NONE"}]
           /\ caller'[x] = AtRest /\ DOMAIN caller' = Callers
           /\ \A y \in Callers \ {x} : caller'[y] = caller[y]
<1> USE DEF CheckoutInv
<1>1. /\ caller[x].step = "write"
      /\ order' = [r \in References |-> IF r \in caller[x].order THEN caller[x].next
                                        ELSE order[r]]
      /\ caller' = [caller EXCEPT ![x] = AtRest]
  BY DEF WriteStatus, Answered
<1>2. PICK r \in References : caller[x].order = {r} /\ order[r] # "NONE"
  BY <1>1 DEF CallsBacked
<1>3. caller[x].next \in SaleStatuses
  BY <1>1 DEF CallsBacked
<1>4. order'[r] = caller[x].next /\ \A q \in References \ {r} : order'[q] = order[q]
  BY <1>1, <1>2
<1>5. order' \in [References -> SaleStatuses \cup {"NONE"}]
  BY <1>1, <1>3 DEF CheckoutTyped
<1>6. /\ caller'[x] = AtRest /\ DOMAIN caller' = Callers
      /\ \A y \in Callers \ {x} : caller'[y] = caller[y]
  BY <1>1 DEF CheckoutTyped
<1>7. QED
  BY <1>2, <1>3, <1>4, <1>5, <1>6

LEMMA WriteKeeps ==
  ASSUME CheckoutInv, NEW x \in Callers, WriteStatus(x),
         UNCHANGED <<sessions, charged, client>>
  PROVE  /\ order' \in [References -> SaleStatuses \cup {"NONE"}] /\ DOMAIN caller' = Callers
         /\ CallsBacked'
         /\ \A r \in References : order'[r] = "NONE" => order[r] = "NONE"
         /\ \A r \in References : order[r] = "NONE" => r \notin caller[x].order
<1>1. PICK r \in References :
           /\ caller[x].order = {r} /\ order[r] # "NONE" /\ caller[x].next \in SaleStatuses
           /\ order'[r] = caller[x].next
           /\ \A q \in References \ {r} : order'[q] = order[q]
           /\ order' \in [References -> SaleStatuses \cup {"NONE"}]
           /\ caller'[x] = AtRest /\ DOMAIN caller' = Callers
           /\ \A y \in Callers \ {x} : caller'[y] = caller[y]
  BY WriteFacts
<1>2. \A q \in References : order'[q] = "NONE" => order[q] = "NONE"
  BY <1>1 DEF SaleStatuses
<1>3. \A y \in Callers : caller'[y].step = "write" =>
        y # x /\ caller[y].step = "write" /\ caller'[y] = caller[y]
  BY <1>1 DEF AtRest
<1>4. CallsBacked'
  <2>1. \A y \in Callers : caller'[y].step = "write" =>
          /\ caller'[y].next \in SaleStatuses /\ caller'[y].seen \in SaleStatuses
          /\ caller'[y].next \in Transitions[caller'[y].seen]
          /\ \E q \in References : caller'[y].order = {q} /\ order'[q] # "NONE"
    BY <1>2, <1>3 DEF CallsBacked, CheckoutInv
  <2>2. \A y \in Deliveries : caller'[y].step = "write" =>
          caller'[y].next = "PAID" /\ \A q \in caller'[y].order : charged'[q] > 0
    BY <1>3 DEF CallsBacked, CheckoutInv, Callers
  <2>3. QED
    BY <2>1, <2>2 DEF CallsBacked
<1>5. QED
  BY <1>1, <1>2, <1>4

LEMMA MarkPaidKeeps ==
  ASSUME CheckoutInv, NEW x \in Deliveries, MarkPaid(x)
  PROVE  CheckoutInv'
<1> USE DEF CheckoutInv
<1>1. x \in Callers /\ WriteStatus(x) /\ caller[x].step = "write"
      /\ UNCHANGED <<sessions, charged, client, edits, byHand, undone>>
  BY DEF MarkPaid, WriteStatus, Callers
<1>2. PICK r \in References :
           /\ caller[x].order = {r} /\ order[r] # "NONE"
           /\ order'[r] = caller[x].next
           /\ \A q \in References \ {r} : order'[q] = order[q]
  BY <1>1, WriteFacts
<1>3. caller[x].next = "PAID" /\ charged[r] > 0
  BY <1>1, <1>2 DEF CallsBacked
<1>4. acked' = acked \cup {r}
  BY <1>2 DEF MarkPaid, Acknowledge, Acks
<1>5. /\ order' \in [References -> SaleStatuses \cup {"NONE"}] /\ DOMAIN caller' = Callers
      /\ CallsBacked'
      /\ \A q \in References : order'[q] = "NONE" => order[q] = "NONE"
  BY <1>1, WriteKeeps
<1>6. CheckoutTyped'
  BY <1>1, <1>4, <1>5 DEF CheckoutTyped
<1>7. SessionsOwned'
  BY <1>1, <1>2, <1>3, <1>4, <1>5 DEF SessionsOwned
<1>8. PaidBacked' /\ PaymentNotLost'
  BY <1>1, <1>2, <1>3, <1>4 DEF PaidBacked, PaymentNotLost
<1>9. QED
  BY <1>5, <1>6, <1>7, <1>8

LEMMA UpdateOrderKeeps ==
  ASSUME CheckoutInv, NEW x \in Clerks, UpdateOrder(x)
  PROVE  CheckoutInv'
<1> USE DEF CheckoutInv
<1>1. x \in Callers /\ WriteStatus(x)
      /\ UNCHANGED <<sessions, charged, acked, client, edits>>
  BY DEF UpdateOrder, Callers
<1>2. PICK r \in References :
           /\ caller[x].order = {r} /\ order[r] # "NONE"
           /\ order'[r] = caller[x].next
           /\ \A q \in References \ {r} : order'[q] = order[q]
  BY <1>1, WriteFacts
<1>3. /\ order' \in [References -> SaleStatuses \cup {"NONE"}] /\ DOMAIN caller' = Callers
      /\ CallsBacked'
      /\ \A q \in References : order'[q] = "NONE" => order[q] = "NONE"
  BY <1>1, WriteKeeps
<1>4. /\ byHand \subseteq byHand' /\ undone \subseteq undone'
      /\ caller[x].next = "PAID" => r \in byHand'
      /\ caller[x].next = "PENDING" => r \in undone'
  BY <1>2 DEF UpdateOrder
<1>5. CheckoutTyped' /\ SessionsOwned'
  BY <1>1, <1>3 DEF CheckoutTyped, SessionsOwned
<1>6. PaidBacked' /\ PaymentNotLost'
  BY <1>1, <1>2, <1>4 DEF PaidBacked, PaymentNotLost
<1>7. QED
  BY <1>3, <1>5, <1>6

LEMMA UpdateFailsKeeps ==
  ASSUME CheckoutInv, NEW x \in Callers, UpdateFails(x)
  PROVE  CheckoutInv'
<1> USE DEF CheckoutInv
<1>1. /\ caller' = [caller EXCEPT ![x] = AtRest]
      /\ UNCHANGED <<order, sessions, charged, acked, client, edits, byHand, undone>>
  BY DEF UpdateFails
<1>2. caller'[x] = AtRest /\ \A y \in Callers \ {x} : caller'[y] = caller[y]
  BY <1>1 DEF CheckoutTyped
<1>3. CallsBacked'
  BY <1>1, <1>2 DEF CallsBacked, AtRest, Callers
<1>4. CheckoutTyped' /\ SessionsOwned' /\ PaidBacked' /\ PaymentNotLost'
  BY <1>1 DEF CheckoutTyped, SessionsOwned, PaidBacked, PaymentNotLost
<1>5. QED
  BY <1>3, <1>4

LEMMA CheckoutStep == CheckoutInv /\ [CheckoutNext]_checkoutVars => CheckoutInv'
<1> SUFFICES ASSUME CheckoutInv, [CheckoutNext]_checkoutVars
             PROVE  CheckoutInv'
  OBVIOUS
<1>1. ASSUME NEW c \in Clients, OpenSession(c) PROVE CheckoutInv'
  BY <1>1, OpenSessionKeeps
<1>2. ASSUME NEW c \in Clients, SessionFails(c) PROVE CheckoutInv'
  BY <1>2, SessionFailsKeeps
<1>3. ASSUME NEW c \in Clients, NEW r \in References, CreateSale(c, r) PROVE CheckoutInv'
  BY <1>3, CreateSaleKeeps
<1>4. ASSUME NEW r \in References, CustomerPays(r) PROVE CheckoutInv'
  BY <1>4, CustomerPaysKeeps
<1>5. ASSUME NEW x \in Deliveries, MarkPaid(x) PROVE CheckoutInv'
  BY <1>5, MarkPaidKeeps
<1>6. ASSUME NEW x \in Deliveries, NEW r \in References, DeliverPaid(x, r) PROVE CheckoutInv'
  <2>1. /\ ReadStatus(x, r, "PAID") /\ charged[r] > 0 /\ x \in Callers
        /\ UNCHANGED <<order, sessions, charged, acked, client, byHand, undone>>
    BY <1>6 DEF DeliverPaid, Completed, Acknowledge, Acks, Callers
  <2>2. QED
    BY <2>1, ReadKeeps DEF SaleStatuses
<1>7. ASSUME NEW x \in Clerks, UpdateOrder(x) PROVE CheckoutInv'
  BY <1>7, UpdateOrderKeeps
<1>8. ASSUME NEW x \in Clerks, NEW r \in References, NEW to \in SaleStatuses,
             PatchOrder(x, r, to)
      PROVE  CheckoutInv'
  <2>1. /\ ReadStatus(x, r, to) /\ x \in Callers /\ x \notin Deliveries
        /\ UNCHANGED <<order, sessions, charged, acked, client, byHand, undone>>
    BY <1>8, CheckoutAssumption DEF PatchOrder, Callers
  <2>2. QED
    BY <2>1, ReadKeeps
<1>9. ASSUME NEW x \in Callers, UpdateFails(x) PROVE CheckoutInv'
  BY <1>9, UpdateFailsKeeps
<1>10. CASE UNCHANGED checkoutVars
  BY <1>10 DEF checkoutVars, CheckoutInv, CheckoutTyped, SessionsOwned, CallsBacked, PaidBacked,
               PaymentNotLost
<1>11. QED
  BY <1>1, <1>2, <1>3, <1>4, <1>5, <1>6, <1>7, <1>8, <1>9, <1>10 DEF CheckoutNext

(* A caller is at rest, or about to write a status of the schema. *)
CallersRest ==
  /\ DOMAIN caller = Callers
  /\ \A x \in Callers : \/ caller[x] = AtRest
                        \/ caller[x].step = "write" /\ caller[x].next \in SaleStatuses

LEMMA CallersStep == CallersRest /\ [CheckoutNext]_checkoutVars => CallersRest'
<1> SUFFICES ASSUME CallersRest, [CheckoutNext]_checkoutVars
             PROVE  CallersRest'
  OBVIOUS
<1>1. ASSUME NEW x \in Callers, NEW r \in References, NEW to \in SaleStatuses,
             ReadStatus(x, r, to)
      PROVE  CallersRest'
  BY <1>1 DEF ReadStatus, CallersRest
<1>2. ASSUME NEW x \in Callers, WriteStatus(x) \/ UpdateFails(x)
      PROVE  CallersRest'
  BY <1>2 DEF WriteStatus, UpdateFails, Answered, CallersRest
<1>3. CASE UNCHANGED caller
  BY <1>3 DEF CallersRest
<1>4. ASSUME NEW x \in Deliveries, MarkPaid(x) \/ \E r \in References : DeliverPaid(x, r)
      PROVE  CallersRest'
  BY <1>1, <1>2, <1>4 DEF MarkPaid, DeliverPaid, Callers, SaleStatuses
<1>5. ASSUME NEW x \in Clerks,
             UpdateOrder(x) \/ \E r \in References, to \in SaleStatuses : PatchOrder(x, r, to)
      PROVE  CallersRest'
  BY <1>1, <1>2, <1>5 DEF UpdateOrder, PatchOrder, Callers
<1>6. CASE \E c \in Clients : \/ OpenSession(c) \/ SessionFails(c)
                             \/ \E r \in References : CreateSale(c, r)
  BY <1>3, <1>6 DEF OpenSession, SessionFails, CreateSale
<1>7. CASE (\E r \in References : CustomerPays(r)) \/ UNCHANGED checkoutVars
  BY <1>3, <1>7 DEF CustomerPays, checkoutVars
<1>8. QED
  BY <1>2, <1>4, <1>5, <1>6, <1>7 DEF CheckoutNext

(* No reference is charged twice, whoever retries and whatever fails.       *)
THEOREM ChargesSafe == CheckoutSpec => []ChargedOnce
<1>1. CheckoutInv => ChargedOnce
  BY DEF CheckoutInv, CheckoutTyped, SessionsOwned, ChargedOnce
<1>2. QED
  BY <1>1, CheckoutStart, CheckoutStep, PTL DEF CheckoutSpec

(* A PAID sale has been paid or was set by a manager.                       *)
THEOREM PaidSafe == CheckoutSpec => []PaidBacked
<1>1. CheckoutInv => PaidBacked
  BY DEF CheckoutInv
<1>2. QED
  BY <1>1, CheckoutStart, CheckoutStep, PTL DEF CheckoutSpec

(* An acknowledged payment is undone by a manager's own request alone.      *)
THEOREM PaymentsKept == CheckoutSpec => []PaymentNotLost
<1>1. CheckoutInv => PaymentNotLost
  BY DEF CheckoutInv
<1>2. QED
  BY <1>1, CheckoutStart, CheckoutStep, PTL DEF CheckoutSpec

(* Sale, session and event agree: the types and the three properties above. *)
THEOREM CheckoutCorrect == CheckoutSpec => []CheckoutSafe
<1>1. CheckoutInit => CallersRest
  BY DEF CheckoutInit, CallersRest
<1>2. CallersRest /\ CheckoutInv => CheckoutSafe
  BY DEF CallersRest, CheckoutInv, CheckoutTyped, SessionsOwned, ChargedOnce, CheckoutTypeOK,
         CheckoutSafe, AtRest
<1>3. QED
  BY <1>1, <1>2, CallersStep, CheckoutStart, CheckoutStep, PTL DEF CheckoutSpec

(* Only a caller with a stale read writes a status against the transitions. *)
THEOREM RegressionsSafe == CheckoutSpec => RegressionsAreStale
<1>1. CheckoutInv /\ [CheckoutNext]_checkoutVars =>
        [\A r \in References :
           \/ order[r] = "NONE" \/ order'[r] \in Transitions[order[r]]
           \/ \E x \in Callers : /\ caller[x].step = "write" /\ caller[x].order = {r}
                                 /\ caller[x].seen # order[r]]_checkoutVars
  <2> SUFFICES ASSUME CheckoutInv, CheckoutNext, NEW r \in References, order[r] # "NONE",
                      order'[r] \notin Transitions[order[r]]
               PROVE  \E x \in Callers : /\ caller[x].step = "write" /\ caller[x].order = {r}
                                         /\ caller[x].seen # order[r]
    OBVIOUS
  <2>1. order'[r] # order[r]
    BY DEF Transitions, CheckoutInv, CheckoutTyped, SaleStatuses
  <2>2. \E x \in Callers : WriteStatus(x)
    <3>1. ASSUME NEW c \in Clients, NEW q \in References, CreateSale(c, q)
          PROVE  order'[r] = order[r]
      BY <3>1 DEF CreateSale, Accepts, CheckoutInv, CheckoutTyped
    <3>2. QED
      BY <2>1, <3>1 DEF CheckoutNext, OpenSession, SessionFails, CustomerPays, MarkPaid,
                        DeliverPaid, UpdateOrder, PatchOrder, UpdateFails, Callers
  <2>3. PICK x \in Callers : WriteStatus(x)
    BY <2>2
  <2>4. caller[x].step = "write"
    BY <2>3 DEF WriteStatus
  <2>5. PICK q \in References :
           /\ caller[x].order = {q} /\ order'[q] = caller[x].next
           /\ \A p \in References \ {q} : order'[p] = order[p]
    BY <2>3, WriteFacts
  <2>6. q = r
    BY <2>1, <2>5
  <2>7. caller[x].seen # order[r]
    BY <2>4, <2>5, <2>6 DEF CheckoutInv, CallsBacked
  <2>8. QED
    BY <2>4, <2>5, <2>6, <2>7
<1>2. QED
  BY <1>1, CheckoutStart, CheckoutStep, PTL DEF CheckoutSpec, RegressionsAreStale

-----------------------------------------------------------------------------
(* Outreach *)

Schedules == {{}} \cup {{t} : t \in Int}
Outgoing == [status : {"NONE", "DRAFT", "READY", "SCHEDULED", "CANCELLED"},
             text : 0 .. MaxTemplate, scheduledFor : Schedules]
Actions == [step : {"idle", "context", "write", "schedule"}, message : SUBSET Messages,
            text : 0 .. MaxTemplate, at : Int]

(* What a row says of its schedule, at hour h. *)
Truthful(row, h) ==
  CASE row.status = "READY" -> \E t \in row.scheduledFor : t <= h
    [] row.status = "SCHEDULED" -> row.scheduledFor # {}
    [] OTHER -> row.scheduledFor = {}

OutreachInv ==
  /\ hour \in Int /\ template \in 1 .. MaxTemplate
  /\ message \in [Messages -> Outgoing]
  /\ author \in [Authors -> Actions]
  /\ \A m \in Messages : Truthful(message[m], hour)

LEMMA OutreachStart == OutreachInit => OutreachInv
<1>1. NoMessage \in Outgoing /\ NoAction \in Actions /\ Truthful(NoMessage, 0)
  BY OutreachAssumption DEF OutreachAssumption, NoMessage, NoAction, ByHand, Outgoing, Actions,
     Schedules, Truthful
<1>2. QED
  BY <1>1, OutreachAssumption DEF OutreachInit, OutreachInv, OutreachAssumption

(* A row keeps its text while it is scheduled, and a cancelled row is final. *)
Frozen(m) ==
  /\ message[m].status \in {"SCHEDULED", "CANCELLED"} => message'[m].text = message[m].text
  /\ message[m].status = "CANCELLED" => message'[m] = message[m]

(* One row is replaced by another that is well formed and says the truth.   *)
LEMMA OneRow ==
  ASSUME OutreachInv, NEW m \in Messages, NEW row \in Outgoing, Truthful(row, hour),
         message' = [message EXCEPT ![m] = row], UNCHANGED <<hour, template>>,
         author' \in [Authors -> Actions],
         message[m].status \in {"SCHEDULED", "CANCELLED"} => row.text = message[m].text,
         message[m].status # "CANCELLED"
  PROVE  OutreachInv' /\ \A n \in Messages : Frozen(n)
<1>1. /\ message' \in [Messages -> Outgoing] /\ message'[m] = row
      /\ \A n \in Messages \ {m} : message'[n] = message[n]
  BY DEF OutreachInv
<1>2. \A n \in Messages : Frozen(n)
  BY <1>1 DEF Frozen
<1>3. \A n \in Messages : Truthful(message'[n], hour')
  BY <1>1 DEF OutreachInv
<1>4. QED
  BY <1>1, <1>2, <1>3 DEF OutreachInv

LEMMA NoRow ==
  ASSUME OutreachInv, message' = message, hour' \in Int, hour <= hour',
         template' \in 1 .. MaxTemplate, author' \in [Authors -> Actions]
  PROVE  OutreachInv' /\ \A n \in Messages : Frozen(n)
<1>1. \A n \in Messages : Truthful(message'[n], hour')
  <2>1. \A n \in Messages : \A t \in message[n].scheduledFor : t \in Int
    BY DEF OutreachInv, Outgoing, Schedules
  <2>2. QED
    BY <2>1 DEF OutreachInv, Truthful
<1>2. QED
  BY <1>1 DEF OutreachInv, Frozen

(* updateDraft: the text of a row that is not scheduled. *)
LEMMA DraftRows ==
  ASSUME OutreachInv, NEW m \in Messages, NEW text \in 0 .. MaxTemplate, UpdateDraft(m, text),
         UNCHANGED <<hour, template>>, author' \in [Authors -> Actions]
  PROVE  OutreachInv' /\ \A n \in Messages : Frozen(n)
<1>1. CASE message' = message
  BY <1>1, NoRow DEF OutreachInv
<1>2. CASE Editable(m) /\ message' = [message EXCEPT ![m].text = text]
  <2> DEFINE row == [message[m] EXCEPT !.text = text]
  <2>1. message[m] \in Outgoing
    BY DEF OutreachInv
  <2>2. row \in Outgoing /\ row.status = message[m].status
        /\ row.scheduledFor = message[m].scheduledFor
    BY <2>1 DEF Outgoing
  <2>3. message' = [message EXCEPT ![m] = row]
    BY <1>2
  <2> HIDE DEF row
  <2>4. Truthful(row, hour)
    BY <2>2 DEF OutreachInv, Truthful
  <2>5. message[m].status \in {"DRAFT", "READY"}
    BY <1>2 DEF Editable
  <2>6. QED
    BY <2>2, <2>3, <2>4, <2>5, OneRow
<1>3. QED
  BY <1>1, <1>2 DEF UpdateDraft

LEMMA ActionRows ==
  ASSUME OutreachInv, NEW a \in Authors, NEW x \in Actions, author' = [author EXCEPT ![a] = x]
  PROVE  author' \in [Authors -> Actions]
BY DEF OutreachInv

LEMMA Idle == NoAction \in Actions /\ 0 \in 0 .. MaxTemplate
BY OutreachAssumption DEF OutreachAssumption, NoAction, Actions, ByHand

LEMMA TextRows ==
  ASSUME OutreachInv, NEW a \in Authors, WriteText(a)
  PROVE  OutreachInv' /\ \A n \in Messages : Frozen(n)
<1>1. author' = [author EXCEPT ![a] = NoAction] /\ UNCHANGED <<hour, template>>
  BY DEF WriteText
<1>2. author' \in [Authors -> Actions] /\ author[a].text \in 0 .. MaxTemplate
  BY <1>1, ActionRows, Idle DEF OutreachInv, Actions
<1>3. PICK m \in author[a].message :
        IF message[m].status = "NONE"
        THEN message' = [message EXCEPT ![m] = [NoMessage EXCEPT !.status = "DRAFT",
                                                                 !.text = author[a].text]]
        ELSE UpdateDraft(m, author[a].text)
  BY DEF WriteText
<1>4. m \in Messages
  BY DEF OutreachInv, Actions
<1>5. CASE message[m].status # "NONE"
  BY <1>1, <1>2, <1>3, <1>4, <1>5, DraftRows
<1>6. CASE message[m].status = "NONE"
  <2> DEFINE row == [NoMessage EXCEPT !.status = "DRAFT", !.text = author[a].text]
  <2>1. row \in Outgoing /\ row.status = "DRAFT" /\ row.scheduledFor = {}
    BY <1>2 DEF NoMessage, Outgoing, Schedules
  <2>2. message' = [message EXCEPT ![m] = row]
    BY <1>3, <1>6
  <2> HIDE DEF row
  <2>3. Truthful(row, hour)
    BY <2>1 DEF Truthful
  <2>4. QED
    BY <1>1, <1>2, <1>4, <1>6, <2>1, <2>2, <2>3, OneRow
<1>7. QED
  BY <1>5, <1>6

LEMMA ScheduleRows ==
  ASSUME OutreachInv, NEW a \in Authors, ScheduleMessage(a)
  PROVE  OutreachInv' /\ \A n \in Messages : Frozen(n)
<1>1. author' = [author EXCEPT ![a] = NoAction] /\ UNCHANGED <<hour, template>>
  BY DEF ScheduleMessage
<1>2. author' \in [Authors -> Actions] /\ author[a].at \in Int
  BY <1>1, ActionRows, Idle DEF OutreachInv, Actions
<1>3. PICK m \in author[a].message :
        message' = IF Schedulable(m)
                   THEN [message EXCEPT ![m].status = "SCHEDULED",
                                        ![m].scheduledFor = Times(m, author[a].at)]
                   ELSE message
  BY DEF ScheduleMessage
<1>4. m \in Messages
  BY DEF OutreachInv, Actions
<1>5. CASE ~Schedulable(m)
  BY <1>1, <1>2, <1>3, <1>5, NoRow DEF OutreachInv
<1>6. CASE Schedulable(m)
  <2> DEFINE row == [message[m] EXCEPT !.status = "SCHEDULED",
                                       !.scheduledFor = {author[a].at}]
  <2>1. message[m] \in Outgoing
    BY <1>4 DEF OutreachInv
  <2>2. /\ row \in Outgoing /\ row.status = "SCHEDULED" /\ row.scheduledFor = {author[a].at}
        /\ row.text = message[m].text
    BY <1>2, <2>1 DEF Outgoing, Schedules
  <2>3. message' = [message EXCEPT ![m] = row]
    BY <1>3, <1>4, <1>6, <2>1 DEF Times, OutreachInv
  <2> HIDE DEF row
  <2>4. Truthful(row, hour) /\ message[m].status \in {"DRAFT", "READY"}
    BY <1>6, <2>2 DEF Truthful, Schedulable
  <2>5. QED
    BY <1>1, <1>2, <1>4, <2>2, <2>3, <2>4, OneRow
<1>7. QED
  BY <1>5, <1>6

LEMMA CancelRows ==
  ASSUME OutreachInv, NEW m \in Messages, CancelMessage(m)
  PROVE  OutreachInv' /\ \A n \in Messages : Frozen(n)
<1> DEFINE row == [message[m] EXCEPT !.status = "CANCELLED", !.scheduledFor = {}]
<1>1. message[m] \in Outgoing
  BY DEF OutreachInv
<1>2. /\ row \in Outgoing /\ row.status = "CANCELLED" /\ row.scheduledFor = {}
      /\ row.text = message[m].text
  BY <1>1 DEF Outgoing, Schedules
<1>3. /\ message' = [message EXCEPT ![m].status = "CANCELLED", ![m].scheduledFor = {}]
      /\ UNCHANGED <<hour, template, author>> /\ message[m].status # "CANCELLED"
  BY DEF CancelMessage
<1>4. message' = [message EXCEPT ![m] = row]
  BY <1>1, <1>3 DEF OutreachInv
<1> HIDE DEF row
<1>5. Truthful(row, hour)
  BY <1>2 DEF Truthful
<1>6. QED
  BY <1>2, <1>3, <1>4, <1>5, OneRow DEF OutreachInv

LEMMA PromoteRows ==
  ASSUME OutreachInv, PromoteDue
  PROVE  OutreachInv' /\ \A n \in Messages : Frozen(n)
<1>1. /\ message' = [m \in Messages |-> IF Due(m) THEN [message[m] EXCEPT !.status = "READY"]
                                        ELSE message[m]]
      /\ UNCHANGED <<hour, template, author>>
  BY DEF PromoteDue
<1>2. \A m \in Messages : message[m] \in Outgoing
  BY DEF OutreachInv
<1>3. \A p \in Outgoing :
        LET row == [p EXCEPT !.status = "READY"]
        IN row \in Outgoing /\ row.status = "READY" /\ row.scheduledFor = p.scheduledFor
             /\ row.text = p.text
  BY DEF Outgoing
<1>4. \A m \in Messages :
        \/ message'[m] = message[m]
        \/ /\ Due(m) /\ message'[m] \in Outgoing /\ message'[m].status = "READY"
           /\ message'[m].scheduledFor = message[m].scheduledFor
           /\ message'[m].text = message[m].text
  BY <1>1, <1>2, <1>3
<1>5. \A m \in Messages : message'[m] \in Outgoing /\ Truthful(message'[m], hour)
  BY <1>2, <1>4 DEF OutreachInv, Truthful, Due
<1>6. \A m \in Messages : Frozen(m)
  BY <1>4 DEF Frozen, Due
<1>7. message' \in [Messages -> Outgoing]
  BY <1>1, <1>5
<1>8. QED
  BY <1>1, <1>5, <1>6, <1>7 DEF OutreachInv

LEMMA OutreachStep ==
  ASSUME OutreachInv, [OutreachNext]_outreachVars
  PROVE  OutreachInv' /\ \A n \in Messages : Frozen(n)
<1>1. CASE UNCHANGED outreachVars
  BY <1>1, NoRow DEF outreachVars, OutreachInv
<1>2. CASE HourPasses \/ UpdateTemplate
  <2>1. hour' \in Int /\ hour <= hour' /\ template' \in 1 .. MaxTemplate
        /\ UNCHANGED <<message, author>>
    BY <1>2, OutreachAssumption DEF HourPasses, UpdateTemplate, OutreachInv, OutreachAssumption
  <2>2. QED
    BY <2>1, NoRow DEF OutreachInv
<1>3. ASSUME NEW m \in Messages, EditMessage(m)
      PROVE  OutreachInv' /\ \A n \in Messages : Frozen(n)
  BY <1>3, DraftRows, Idle DEF EditMessage, ByHand, OutreachInv
<1>4. ASSUME NEW a \in Authors, NEW m \in Messages,
             Generate(a, m) \/ Regenerate(a, m) \/ \E t \in 1 .. LastHour : AskSchedule(a, m, t)
      PROVE  OutreachInv' /\ \A n \in Messages : Frozen(n)
  <2>1. [NoAction EXCEPT !.step = "context", !.message = {m}] \in Actions
    BY Idle DEF NoAction, Actions
  <2>2. \A t \in 1 .. LastHour :
          [NoAction EXCEPT !.step = "schedule", !.message = {m}, !.at = t] \in Actions
    <3> SUFFICES ASSUME NEW t \in 1 .. LastHour
                 PROVE  [NoAction EXCEPT !.step = "schedule", !.message = {m}, !.at = t] \in Actions
      OBVIOUS
    <3> DEFINE first == [NoAction EXCEPT !.step = "schedule"]
               second == [first EXCEPT !.message = {m}]
               third == [second EXCEPT !.at = t]
    <3>1. first \in Actions
      BY Idle DEF Actions
    <3> HIDE DEF first
    <3>2. second \in Actions
      BY <3>1 DEF Actions
    <3> HIDE DEF second
    <3>3. third \in Actions
      BY <3>2 DEF Actions
    <3>4. [NoAction EXCEPT !.step = "schedule", !.message = {m}, !.at = t] = third
      BY DEF first, second
    <3> HIDE DEF third
    <3>5. QED
      BY <3>3, <3>4
  <2>3. author' \in [Authors -> Actions]
    BY <1>4, <2>1, <2>2, ActionRows DEF Generate, Regenerate, AskSchedule
  <2>4. UNCHANGED <<hour, template, message>>
    BY <1>4 DEF Generate, Regenerate, AskSchedule
  <2>5. QED
    BY <2>3, <2>4, NoRow DEF OutreachInv
<1>5. ASSUME NEW a \in Authors, GenerateText(a) \/ ActionFails(a)
      PROVE  OutreachInv' /\ \A n \in Messages : Frozen(n)
  <2>1. CASE ActionFails(a)
    BY <2>1, ActionRows, Idle, NoRow DEF ActionFails, OutreachInv
  <2>2. CASE GenerateText(a)
    <3> DEFINE x == [author[a] EXCEPT !.step = "write", !.text = template]
    <3>1. author[a] \in Actions
      BY DEF OutreachInv
    <3>2. x \in Actions
      <4>1. template \in 0 .. MaxTemplate
        BY DEF OutreachInv
      <4>2. QED
        BY <3>1, <4>1 DEF Actions
    <3>3. author' = [author EXCEPT ![a] = x]
      BY <2>2, <3>1 DEF GenerateText, OutreachInv
    <3> HIDE DEF x
    <3>4. QED
      BY <2>2, <3>2, <3>3, ActionRows, NoRow DEF GenerateText, OutreachInv
  <2>3. QED
    BY <1>5, <2>1, <2>2
<1>6. QED
  BY <1>1, <1>2, <1>3, <1>4, <1>5, TextRows, ScheduleRows, CancelRows, PromoteRows
     DEF OutreachNext

(* A scheduled text stays as it was scheduled, and a cancelled message is   *)
(* never written again (updateDraft, schedule, cancel, markScheduledReady). *)
THEOREM TextsFrozen == OutreachSpec => ScheduledTextFrozen
<1>1. OutreachInv /\ [OutreachNext]_outreachVars => OutreachInv'
  BY OutreachStep
<1>2. OutreachInv /\ [OutreachNext]_outreachVars =>
        [\A m \in Messages :
           /\ message[m].status \in {"SCHEDULED", "CANCELLED"}
                => message'[m].text = message[m].text
           /\ message[m].status = "CANCELLED" => message'[m] = message[m]]_outreachVars
  BY OutreachStep DEF Frozen
<1>3. QED
  BY <1>1, <1>2, OutreachStart, PTL DEF OutreachSpec, ScheduledTextFrozen

(* Rows are well formed and say the truth about their schedule: READY only  *)
(* when it is due.                                                          *)
THEOREM SchedulesTrue == OutreachSpec => []OutreachSafe
<1>1. OutreachInv /\ [OutreachNext]_outreachVars => OutreachInv'
  BY OutreachStep
<1>2. ASSUME OutreachInv
      PROVE  OutreachSafe
  <2>1. \A m \in Messages : Cardinality(message[m].scheduledFor) <= 1
    <3> SUFFICES ASSUME NEW m \in Messages
                 PROVE  Cardinality(message[m].scheduledFor) <= 1
      OBVIOUS
    <3>1. message[m].scheduledFor = {} \/ \E t \in Int : message[m].scheduledFor = {t}
      BY <1>2 DEF OutreachInv, Outgoing, Schedules
    <3>2. Cardinality({}) = 0 /\ \A t \in Int : Cardinality({t}) = 1
      BY FS_EmptySet, FS_Singleton
    <3>3. QED
      BY <3>1, <3>2
  <2>2. ReadyWhenDue
    BY <1>2 DEF OutreachInv, Truthful, ReadyWhenDue
  <2>3. OutreachTypeOK
    BY <1>2, <2>1 DEF OutreachInv, Outgoing, Actions, OutreachTypeOK
  <2>4. QED
    BY <2>2, <2>3 DEF OutreachSafe
<1>3. QED
  BY <1>1, <1>2, OutreachStart, PTL DEF OutreachSpec

-----------------------------------------------------------------------------
(* The pipeline of the creators *)

(* What the rows and the managers' actions know of each other.              *)
Profiles == [source : {"NONE", "MOCK", "MANUAL"}, status : Stages, tagged : BOOLEAN,
             measured : BOOLEAN]
Moving == [step : {"idle", "tag", "move"}, handle : SUBSET Handles, seen : Stages, next : Stages]

(* A manager who is about to write had read a stage that allows it. *)
CreatorInv ==
  /\ profile \in [Handles -> Profiles]
  /\ recruiter \in [Recruiters -> Moving]
  /\ \A r \in Recruiters : recruiter[r].step = "move" =>
       /\ recruiter[r].next \in CREATOR_STATUS_TRANSITIONS[recruiter[r].seen]
       /\ \E h \in Handles : recruiter[r].handle = {h}

LEMMA CreatorStart == CreatorInit => CreatorInv
<1>1. NoProfile \in Profiles /\ NoMove \in Moving
  BY DEF NoProfile, NoMove, Profiles, Moving, Stages
<1>2. QED
  BY <1>1 DEF CreatorInit, CreatorInv, NoMove

(* What an action of an import or a tag changes in a row.                   *)
Imports(h) ==
  /\ profile'[h] \in Profiles /\ profile'[h].status = profile[h].status
  /\ profile[h].source # "NONE" => profile'[h].source = profile[h].source

LEMMA DiscoveryRows ==
  ASSUME CreatorInv, NEW d \in Discoveries,
         \/ Discover(d) \/ FindExisting(d) \/ UpdateProfile(d) \/ CreateProfile(d)
         \/ AttachTags(d) \/ RecordMetric(d) \/ NextCandidate(d) \/ DiscoveryFails(d)
  PROVE  /\ profile' \in [Handles -> Profiles] /\ \A g \in Handles : Imports(g)
         /\ UNCHANGED recruiter
<1>1. CASE UNCHANGED <<profile, recruiter>>
  BY <1>1 DEF CreatorInv, Imports
<1>2. CASE UpdateProfile(d)
  <2>1. profile' = profile
    BY <1>2 DEF UpdateProfile, Refreshed, CreatorInv
  <2>2. QED
    BY <1>1, <1>2, <2>1 DEF UpdateProfile
<1>3. CASE profile' = [profile EXCEPT ![Candidate(d)].source = "MOCK"]
             /\ CreatesOver(Candidate(d)) /\ UNCHANGED recruiter
  <2>1. \A g \in Handles :
          /\ profile'[g] = IF g = Candidate(d) THEN [profile[g] EXCEPT !.source = "MOCK"]
                           ELSE profile[g]
          /\ profile[g] \in Profiles
    BY <1>3 DEF CreatorInv
  <2>2. \A p \in Profiles : /\ [p EXCEPT !.source = "MOCK"] \in Profiles
                            /\ [p EXCEPT !.source = "MOCK"].status = p.status
    BY DEF Profiles
  <2>3. profile' = [g \in Handles |-> profile'[g]]
    BY <1>3 DEF CreatorInv
  <2>4. QED
    BY <1>3, <2>1, <2>2, <2>3 DEF Imports, CreatesOver
<1>4. CASE profile' = [profile EXCEPT ![Candidate(d)].tagged = TRUE] /\ UNCHANGED recruiter
  <2>1. \A g \in Handles :
          /\ profile'[g] = IF g = Candidate(d) THEN [profile[g] EXCEPT !.tagged = TRUE]
                           ELSE profile[g]
          /\ profile[g] \in Profiles
    BY <1>4 DEF CreatorInv
  <2>2. \A p \in Profiles : /\ [p EXCEPT !.tagged = TRUE] \in Profiles
                            /\ [p EXCEPT !.tagged = TRUE].status = p.status
                            /\ [p EXCEPT !.tagged = TRUE].source = p.source
    BY DEF Profiles
  <2>3. profile' = [g \in Handles |-> profile'[g]]
    BY <1>4 DEF CreatorInv
  <2>4. QED
    BY <1>4, <2>1, <2>2, <2>3 DEF Imports
<1>5. CASE profile' = [profile EXCEPT ![Candidate(d)].measured = TRUE] /\ UNCHANGED recruiter
  <2>1. \A g \in Handles :
          /\ profile'[g] = IF g = Candidate(d) THEN [profile[g] EXCEPT !.measured = TRUE]
                           ELSE profile[g]
          /\ profile[g] \in Profiles
    BY <1>5 DEF CreatorInv
  <2>2. \A p \in Profiles : /\ [p EXCEPT !.measured = TRUE] \in Profiles
                            /\ [p EXCEPT !.measured = TRUE].status = p.status
                            /\ [p EXCEPT !.measured = TRUE].source = p.source
    BY DEF Profiles
  <2>3. profile' = [g \in Handles |-> profile'[g]]
    BY <1>5 DEF CreatorInv
  <2>4. QED
    BY <1>5, <2>1, <2>2, <2>3 DEF Imports
<1>6. QED
  BY <1>1, <1>2, <1>3, <1>4, <1>5
     DEF Discover, FindExisting, CreateProfile, AttachTags, RecordMetric, NextCandidate,
         DiscoveryFails

(* A manager who begins or ends an action, and the rows behind it. *)
LEMMA ManagerMoves ==
  ASSUME CreatorInv, NEW r \in Recruiters, NEW a \in Moving,
         recruiter' = [recruiter EXCEPT ![r] = a],
         a.step = "move" => /\ a.next \in CREATOR_STATUS_TRANSITIONS[a.seen]
                            /\ \E h \in Handles : a.handle = {h},
         profile' \in [Handles -> Profiles]
  PROVE  CreatorInv'
<1>1. /\ recruiter' \in [Recruiters -> Moving] /\ recruiter'[r] = a
      /\ \A q \in Recruiters \ {r} : recruiter'[q] = recruiter[q]
  BY DEF CreatorInv
<1>2. \A q \in Recruiters : recruiter'[q].step = "move" =>
        /\ recruiter'[q].next \in CREATOR_STATUS_TRANSITIONS[recruiter'[q].seen]
        /\ \E h \in Handles : recruiter'[q].handle = {h}
  BY <1>1 DEF CreatorInv
<1>3. QED
  BY <1>1, <1>2 DEF CreatorInv

LEMMA AtEase == NoMove \in Moving /\ NoMove.step = "idle"
BY DEF NoMove, Moving, Stages

LEMMA CreateRows ==
  ASSUME CreatorInv, NEW r \in Recruiters, NEW h \in Handles, CreateByHand(r, h)
  PROVE  CreatorInv' /\ \A g \in Handles : Imports(g)
<1>1. /\ profile' = [profile EXCEPT ![h].source = "MANUAL"] /\ profile[h].source = "NONE"
      /\ recruiter' = [recruiter EXCEPT ![r] = [NoMove EXCEPT !.step = "tag", !.handle = {h}]]
  BY DEF CreateByHand
<1>2. /\ [NoMove EXCEPT !.step = "tag", !.handle = {h}] \in Moving
      /\ [NoMove EXCEPT !.step = "tag", !.handle = {h}].step = "tag"
  BY DEF NoMove, Moving, Stages
<1>3. \A g \in Handles :
        /\ profile'[g] = IF g = h THEN [profile[g] EXCEPT !.source = "MANUAL"] ELSE profile[g]
        /\ profile[g] \in Profiles
  BY <1>1 DEF CreatorInv
<1>4. \A p \in Profiles : /\ [p EXCEPT !.source = "MANUAL"] \in Profiles
                          /\ [p EXCEPT !.source = "MANUAL"].status = p.status
  BY DEF Profiles
<1>5. profile' = [g \in Handles |-> profile'[g]]
  BY <1>1 DEF CreatorInv
<1>6. \A g \in Handles : Imports(g)
  BY <1>1, <1>3, <1>4 DEF Imports
<1>7. profile' \in [Handles -> Profiles]
  BY <1>5, <1>6 DEF Imports
<1>8. QED
  BY <1>1, <1>2, <1>6, <1>7, ManagerMoves

LEMMA TagRows ==
  ASSUME CreatorInv, NEW r \in Recruiters, TagByHand(r)
  PROVE  CreatorInv' /\ \A g \in Handles : Imports(g)
<1>1. PICK h \in recruiter[r].handle :
           /\ profile' = [profile EXCEPT ![h].tagged = TRUE]
           /\ recruiter' = [recruiter EXCEPT ![r] = NoMove]
  BY DEF TagByHand
<1>2. \A g \in Handles :
        /\ profile'[g] = IF g = h THEN [profile[g] EXCEPT !.tagged = TRUE] ELSE profile[g]
        /\ profile[g] \in Profiles
  BY <1>1 DEF CreatorInv
<1>3. \A p \in Profiles : /\ [p EXCEPT !.tagged = TRUE] \in Profiles
                          /\ [p EXCEPT !.tagged = TRUE].status = p.status
                          /\ [p EXCEPT !.tagged = TRUE].source = p.source
  BY DEF Profiles
<1>4. profile' = [g \in Handles |-> profile'[g]]
  BY <1>1 DEF CreatorInv
<1>5. \A g \in Handles : Imports(g)
  BY <1>2, <1>3 DEF Imports
<1>6. profile' \in [Handles -> Profiles]
  BY <1>4, <1>5 DEF Imports
<1>7. QED
  BY <1>1, <1>5, <1>6, ManagerMoves, AtEase

(* The write of a move: one row, by a manager who read a stage before.      *)
LEMMA ChangeRows ==
  ASSUME CreatorInv, NEW r \in Recruiters, ChangeStatus(r)
  PROVE  /\ CreatorInv' /\ recruiter[r].step = "move" /\ recruiter'[r].step = "idle"
         /\ \E h \in Handles :
              /\ recruiter[r].handle = {h}
              /\ profile'[h].source = profile[h].source /\ profile'[h].status = recruiter[r].next
              /\ \A g \in Handles \ {h} : profile'[g] = profile[g]
<1>1. recruiter[r].step = "move" /\ recruiter' = [recruiter EXCEPT ![r] = NoMove]
  BY DEF ChangeStatus
<1>2. PICK h \in Handles : recruiter[r].handle = {h}
  BY <1>1 DEF CreatorInv
<1>3. profile' = [profile EXCEPT ![h].status = recruiter[r].next]
  BY <1>2 DEF ChangeStatus
<1>4. recruiter[r].next \in Stages /\ profile[h] \in Profiles
  BY DEF CreatorInv, Moving
<1>5. /\ profile'[h] = [profile[h] EXCEPT !.status = recruiter[r].next]
      /\ \A g \in Handles \ {h} : profile'[g] = profile[g]
  BY <1>3 DEF CreatorInv
<1>6. /\ profile'[h] \in Profiles /\ profile'[h].source = profile[h].source
      /\ profile'[h].status = recruiter[r].next
  BY <1>4, <1>5 DEF Profiles
<1>7. profile' \in [Handles -> Profiles]
  <2>1. profile' = [g \in Handles |-> profile'[g]]
    BY <1>3 DEF CreatorInv
  <2>2. \A g \in Handles : profile'[g] \in Profiles
    BY <1>5, <1>6 DEF CreatorInv
  <2>3. QED
    BY <2>1, <2>2
<1>8. CreatorInv'
  BY <1>1, <1>7, ManagerMoves, AtEase
<1>9. recruiter'[r].step = "idle"
  BY <1>1, AtEase DEF CreatorInv
<1>10. QED
  BY <1>1, <1>2, <1>5, <1>6, <1>8, <1>9

(* Every step but the write of a move leaves stages and origins alone.      *)
LEMMA CreatorStep ==
  ASSUME CreatorInv, [CreatorNext]_creatorVars
  PROVE  CreatorInv' /\ ((\A g \in Handles : Imports(g)) \/ \E r \in Recruiters : ChangeStatus(r))
<1>1. CASE UNCHANGED <<profile, recruiter>>
  BY <1>1 DEF CreatorInv, Imports
<1>2. ASSUME NEW d \in Discoveries,
             \/ Discover(d) \/ FindExisting(d) \/ UpdateProfile(d) \/ CreateProfile(d)
             \/ AttachTags(d) \/ RecordMetric(d) \/ NextCandidate(d) \/ DiscoveryFails(d)
      PROVE  CreatorInv' /\ \A g \in Handles : Imports(g)
  BY <1>2, DiscoveryRows DEF CreatorInv
<1>3. ASSUME NEW r \in Recruiters, RecruiterFails(r)
      PROVE  CreatorInv' /\ \A g \in Handles : Imports(g)
  <2>1. profile' = profile /\ recruiter' = [recruiter EXCEPT ![r] = NoMove]
    BY <1>3 DEF RecruiterFails
  <2>2. QED
    BY <2>1, ManagerMoves, AtEase DEF CreatorInv, Imports
<1>4. ASSUME NEW r \in Recruiters, NEW h \in Handles, NEW s \in Stages, ReadStage(r, h, s)
      PROVE  CreatorInv' /\ \A g \in Handles : Imports(g)
  <2> DEFINE a == [step |-> "move", handle |-> {h}, seen |-> profile[h].status, next |-> s]
  <2>1. profile' = profile /\ recruiter' = [recruiter EXCEPT ![r] = a]
    BY <1>4 DEF ReadStage
  <2>2. a \in Moving /\ a.next \in CREATOR_STATUS_TRANSITIONS[a.seen] /\ a.handle = {h}
    BY <1>4 DEF ReadStage, CanMove, CreatorInv, Profiles, Moving
  <2> HIDE DEF a
  <2>3. CreatorInv'
    BY <2>1, <2>2, ManagerMoves DEF CreatorInv
  <2>4. QED
    BY <2>1, <2>3 DEF CreatorInv, Imports
<1>5. QED
  BY <1>1, <1>2, <1>3, <1>4, CreateRows, TagRows, ChangeRows DEF CreatorNext, creatorVars

(* No import moves a creator or changes where a profile came from, and only *)
(* a manager with a stale read jumps the pipeline (upsertFromDiscovery,     *)
(* changeCreatorStatusAction).                                              *)
THEOREM PipelineSafe == CreatorSpec => PipelineKept
<1>1. ASSUME CreatorInv, CreatorNext
      PROVE  ImportKeepsStage /\ JumpsAreStale
  <2>1. \A h \in Handles : profile[h].status \in Stages
    BY <1>1 DEF CreatorInv, Profiles
  <2>2. \A s \in Stages : s \in CREATOR_STATUS_TRANSITIONS[s]
    BY DEF Stages, CREATOR_STATUS_TRANSITIONS
  <2>3. CASE \A g \in Handles : Imports(g)
    BY <2>1, <2>2, <2>3 DEF Imports, ImportKeepsStage, JumpsAreStale
  <2>4. ASSUME NEW r \in Recruiters, ChangeStatus(r)
        PROVE  ImportKeepsStage /\ JumpsAreStale
    <3>1. recruiter[r].step = "move" /\ recruiter'[r].step = "idle"
      BY <1>1, <2>4, ChangeRows
    <3>2. PICK h \in Handles :
             /\ recruiter[r].handle = {h}
             /\ profile'[h].source = profile[h].source /\ profile'[h].status = recruiter[r].next
             /\ \A g \in Handles \ {h} : profile'[g] = profile[g]
      BY <1>1, <2>4, ChangeRows
    <3>3. recruiter[r].next \in CREATOR_STATUS_TRANSITIONS[recruiter[r].seen]
      BY <1>1, <3>1 DEF CreatorInv
    <3>4. ImportKeepsStage
      BY <3>1, <3>2 DEF ImportKeepsStage
    <3>5. JumpsAreStale
      BY <2>1, <2>2, <3>1, <3>2, <3>3 DEF JumpsAreStale
    <3>6. QED
      BY <3>4, <3>5
  <2>5. QED
    BY <1>1, <2>3, <2>4, CreatorStep
<1>2. CreatorInv /\ [CreatorNext]_creatorVars => CreatorInv'
  BY CreatorStep
<1>3. CreatorInv /\ [CreatorNext]_creatorVars => [ImportKeepsStage /\ JumpsAreStale]_creatorVars
  BY <1>1
<1>4. QED
  BY <1>2, <1>3, CreatorStart, PTL DEF CreatorSpec, PipelineKept

-----------------------------------------------------------------------------
(* The audience of a campaign: what a rebuild has read and recommends.      *)
BuildSteps == {"read", "check", "delete", "create"} \cup Ended
Builds == [step : BuildSteps, todo : SUBSET Reads, products : SUBSET Products,
           live : SUBSET Creators, match : [Products -> {0, 100} \cup Confidences],
           trend : TrendScores \cup {0}, pairs : SUBSET (Creators \X Products)]

BuildsTyped ==
  /\ AudienceTypeOK
  /\ trend \in TrendScores
  /\ rebuild \in [Rebuilds -> Builds]

(* Rebuilds that run together have met, and so has one whose deleteMany is  *)
(* behind it with the writer of every row it will find.                     *)
RunningMet ==
  \A b, d \in Rebuilds :
    b # d /\ rebuild[b].step \notin Ended /\ rebuild[d].step \notin Ended => {b, d} \in met
WritersMet ==
  \A b \in Rebuilds : rebuild[b].step = "create" =>
    \A x \in audience : {x.by, b} \in met

AudienceInv ==
  BuildsTyped /\ RunningMet /\ WritersMet /\ MixedOnlyIfMet /\ EmptyOnlyByInterruption

LEMMA AudienceStart == AudienceInit => AudienceInv
<1> SUFFICES ASSUME AudienceInit PROVE AudienceInv
  OBVIOUS
<1>1. NoBuild \in Builds
  BY DEF NoBuild, Builds, BuildSteps, Ended, Reads
<1>2. \A b \in Rebuilds : rebuild[b].step = "idle"
  BY DEF AudienceInit, NoBuild
<1>3. BuildsTyped
  BY <1>1 DEF AudienceInit, BuildsTyped, AudienceTypeOK
<1>4. QED
  BY <1>2, <1>3 DEF AudienceInit, AudienceInv, RunningMet, WritersMet, MixedOnlyIfMet,
     EmptyOnlyByInterruption, Ended

(* What a step of rebuild b leaves of the rebuilds.                         *)
Turns(b, step) ==
  /\ rebuild' \in [Rebuilds -> Builds]
  /\ \A d \in Rebuilds \ {b} : rebuild'[d] = rebuild[d]
  /\ rebuild'[b].step = step

LEMMA StepTyped ==
  ASSUME BuildsTyped, NEW b \in Rebuilds, NEW step \in BuildSteps,
         rebuild' = [rebuild EXCEPT ![b].step = step]
  PROVE  Turns(b, step) /\ rebuild'[b].pairs = rebuild[b].pairs
<1>1. rebuild[b] \in Builds
  BY DEF BuildsTyped
<1>2. [rebuild[b] EXCEPT !.step = step] \in Builds
  BY <1>1 DEF Builds
<1>3. QED
  BY <1>1, <1>2 DEF BuildsTyped, Turns, Builds

LEMMA ReadCampaignKeeps ==
  ASSUME AudienceInv, NEW b \in Rebuilds, ReadCampaign(b)
  PROVE  AudienceInv'
<1> DEFINE row == [NoBuild EXCEPT !.step = "read", !.todo = Reads, !.products = stocked]
<1>1. row \in Builds /\ row.step = "read" /\ row.pairs = {}
  BY DEF AudienceInv, BuildsTyped, AudienceTypeOK, Builds, NoBuild, BuildSteps, Reads
<1>2. rebuild' = [rebuild EXCEPT ![b] = row]
  BY DEF ReadCampaign
<1> HIDE DEF row
<1>3. Turns(b, "read")
  BY <1>1, <1>2 DEF AudienceInv, BuildsTyped, Turns
<1>4. BuildsTyped'
  BY <1>3 DEF ReadCampaign, UnchangedByBuild, AudienceInv, BuildsTyped, AudienceTypeOK, Turns
<1>5. met' = met \cup {{b, d} : d \in Running} /\ UNCHANGED audience
  BY DEF ReadCampaign
<1>6. RunningMet'
  BY <1>3, <1>5 DEF AudienceInv, RunningMet, Running, Turns
<1>7. WritersMet' /\ MixedOnlyIfMet'
  BY <1>3, <1>5 DEF AudienceInv, WritersMet, MixedOnlyIfMet, Turns
<1>8. EmptyOnlyByInterruption'
  BY <1>3, <1>5 DEF AudienceInv, EmptyOnlyByInterruption, Turns, ReadCampaign,
     UnchangedByBuild
<1>9. QED
  BY <1>4, <1>6, <1>7, <1>8 DEF AudienceInv

(* A step between two ones that touch no row of the audience.               *)
LEMMA BetweenKeeps ==
  ASSUME AudienceInv, NEW b \in Rebuilds, NEW step \in BuildSteps,
         rebuild[b].step \in {"read", "check", "delete", "create"},
         Turns(b, step), UNCHANGED <<audience, met>>, UnchangedByBuild,
         step # "create",
         step = "done" => rebuild'[b].pairs = {},
         rebuild[b].step = "create" => audience # {} \/ step \in {"lost", "refused", "done"}
  PROVE  AudienceInv'
<1>1. BuildsTyped'
  BY DEF UnchangedByBuild, AudienceInv, BuildsTyped, AudienceTypeOK, Turns
<1>2. RunningMet'
  BY DEF AudienceInv, RunningMet, Turns, Ended
<1>3. WritersMet' /\ MixedOnlyIfMet'
  BY DEF AudienceInv, WritersMet, MixedOnlyIfMet, Turns
<1>4. EmptyOnlyByInterruption'
  BY DEF AudienceInv, EmptyOnlyByInterruption, Turns, UnchangedByBuild
<1>5. QED
  BY <1>1, <1>2, <1>3, <1>4 DEF AudienceInv

LEMMA ReadInputKeeps ==
  ASSUME AudienceInv, NEW b \in Rebuilds, NEW input \in Reads, ReadInput(b, input)
  PROVE  AudienceInv'
<1> DEFINE rest == [rebuild[b] EXCEPT !.todo = @ \ {input}]
           row == CASE input = "creators" -> [rest EXCEPT !.live = live]
                    [] input = "matches" -> [rest EXCEPT !.match = match]
                    [] input = "trends" -> [rest EXCEPT !.trend = trend]
<1>1. rebuild[b] \in Builds /\ live \in SUBSET Creators
      /\ match \in [Products -> {0, 100} \cup Confidences] /\ trend \in TrendScores
  BY DEF AudienceInv, BuildsTyped, AudienceTypeOK
<1>2. input \in {"creators", "matches", "trends"}
  BY DEF Reads
<1>3. row \in Builds /\ row.step = rebuild[b].step /\ row.pairs = rebuild[b].pairs
  BY <1>1, <1>2 DEF Builds
<1>4. rebuild' = [rebuild EXCEPT ![b] = row] /\ rebuild[b].step = "read"
  BY DEF ReadInput
<1> HIDE DEF row
<1>5. Turns(b, "read")
  BY <1>3, <1>4 DEF AudienceInv, BuildsTyped, Turns
<1>6. QED
  BY <1>4, <1>5, BetweenKeeps DEF ReadInput, BuildSteps

LEMMA RecommendKeeps ==
  ASSUME AudienceInv, NEW b \in Rebuilds, Recommend(b)
  PROVE  AudienceInv'
<1>1. rebuild[b] \in Builds
  BY DEF AudienceInv, BuildsTyped
<1>2. RecommendCreators(b) \in SUBSET (Creators \X Products)
  <2>1. RecommendCreators(b) \subseteq rebuild[b].live \X rebuild[b].products
    BY DEF RecommendCreators
  <2>2. rebuild[b].live \subseteq Creators /\ rebuild[b].products \subseteq Products
    BY <1>1 DEF Builds
  <2>3. QED
    BY <2>1, <2>2
<1> DEFINE pairs == RecommendCreators(b)
<1>3. /\ rebuild' = [rebuild EXCEPT ![b].step = "check", ![b].pairs = pairs]
      /\ rebuild[b].step = "read"
  BY DEF Recommend
<1> HIDE DEF pairs
<1> DEFINE row == [rebuild[b] EXCEPT !.step = "check", !.pairs = pairs]
<1>4. row \in Builds /\ row.step = "check"
  BY <1>1, <1>2 DEF Builds, BuildSteps, pairs
<1>5. rebuild' = [rebuild EXCEPT ![b] = row]
  BY <1>3 DEF AudienceInv, BuildsTyped
<1> HIDE DEF row
<1>6. Turns(b, "check")
  BY <1>4, <1>5 DEF AudienceInv, BuildsTyped, Turns
<1>7. QED
  BY <1>3, <1>6, BetweenKeeps DEF Recommend, BuildSteps

LEMMA CheckEndpointsKeeps ==
  ASSUME AudienceInv, NEW b \in Rebuilds, CheckEndpoints(b)
  PROVE  AudienceInv'
<1> DEFINE step == IF EndpointsExist(b) THEN "delete" ELSE "kept"
<1>1. /\ rebuild' = [rebuild EXCEPT ![b].step = step] /\ rebuild[b].step = "check"
      /\ UNCHANGED <<audience, met>> /\ UnchangedByBuild
  BY DEF CheckEndpoints
<1>2. step \in {"delete", "kept"}
  OBVIOUS
<1> HIDE DEF step
<1>3. Turns(b, step)
  BY <1>1, <1>2, StepTyped DEF AudienceInv, BuildSteps, Ended
<1>4. QED
  BY <1>1, <1>2, <1>3, BetweenKeeps DEF BuildSteps, Ended

LEMMA DeleteAudienceKeeps ==
  ASSUME AudienceInv, NEW b \in Rebuilds, DeleteAudience(b)
  PROVE  AudienceInv'
<1> DEFINE step == IF rebuild[b].pairs = {} THEN "done" ELSE "create"
<1>1. /\ rebuild' = [rebuild EXCEPT ![b].step = step] /\ rebuild[b].step = "delete"
      /\ audience' = {} /\ UNCHANGED met /\ UnchangedByBuild
  BY DEF DeleteAudience, Kept
<1>2. \/ step = "create"
      \/ step = "done" /\ rebuild[b].pairs = {}
  OBVIOUS
<1> HIDE DEF step
<1>3. Turns(b, step) /\ rebuild'[b].pairs = rebuild[b].pairs
  BY <1>1, <1>2, StepTyped DEF AudienceInv, BuildSteps, Ended
<1>4. BuildsTyped'
  BY <1>1, <1>3 DEF UnchangedByBuild, AudienceInv, BuildsTyped, AudienceTypeOK, Turns
<1>5. RunningMet'
  BY <1>1, <1>3 DEF AudienceInv, RunningMet, Turns, Ended
<1>6. WritersMet' /\ MixedOnlyIfMet'
  BY <1>1 DEF WritersMet, MixedOnlyIfMet
<1>7. EmptyOnlyByInterruption'
  BY <1>1, <1>2, <1>3 DEF EmptyOnlyByInterruption, Turns
<1>8. QED
  BY <1>4, <1>5, <1>6, <1>7 DEF AudienceInv

LEMMA CreateAudienceKeeps ==
  ASSUME AudienceInv, NEW b \in Rebuilds, CreateAudience(b)
  PROVE  AudienceInv'
<1> DEFINE taken == \E row \in audience : row.pair \in rebuild[b].pairs
           fits == ~taken /\ EndpointsExist(b)
           new == {[pair |-> x, by |-> b] : x \in rebuild[b].pairs}
           step == IF fits THEN "done" ELSE IF taken THEN "conflict" ELSE "refused"
<1>1. /\ rebuild' = [rebuild EXCEPT ![b].step = step] /\ rebuild[b].step = "create"
      /\ audience' = IF fits THEN audience \cup new ELSE audience
      /\ UNCHANGED met /\ UnchangedByBuild
  BY DEF CreateAudience
<1>2. step \in {"done", "conflict", "refused"} /\ (fits <=> step = "done")
  OBVIOUS
<1>3. step = "conflict" => audience # {}
  OBVIOUS
<1>4. new \subseteq [pair : Creators \X Products, by : Rebuilds]
  BY DEF AudienceInv, BuildsTyped, Builds
<1>5. \A x \in new : x.by = b
  OBVIOUS
<1>6. rebuild[b].pairs # {} => new # {}
  OBVIOUS
<1> HIDE DEF step, new, fits, taken
<1>7. Turns(b, step) /\ rebuild'[b].pairs = rebuild[b].pairs
  BY <1>1, <1>2, StepTyped DEF AudienceInv, BuildSteps, Ended
<1>8. CASE ~fits
  BY <1>1, <1>2, <1>3, <1>7, <1>8, BetweenKeeps DEF BuildSteps, Ended
<1>9. CASE fits
  <2>1. audience' = audience \cup new /\ step = "done"
    BY <1>1, <1>2, <1>9
  <2>2. BuildsTyped'
    BY <1>1, <1>4, <1>7, <2>1
       DEF UnchangedByBuild, AudienceInv, BuildsTyped, AudienceTypeOK, Turns
  <2>3. RunningMet'
    BY <1>1, <1>7, <2>1 DEF AudienceInv, RunningMet, Turns, Ended
  <2>4. WritersMet'
    <3> SUFFICES ASSUME NEW d \in Rebuilds, rebuild'[d].step = "create", NEW x \in audience'
                 PROVE  {x.by, d} \in met
      BY <1>1 DEF WritersMet
    <3>1. d # b /\ rebuild[d].step = "create"
      BY <1>7, <2>1 DEF Turns
    <3>2. {b, d} \in met
      BY <1>1, <3>1 DEF AudienceInv, RunningMet, Ended
    <3>3. QED
      BY <1>5, <2>1, <3>1, <3>2 DEF AudienceInv, WritersMet
  <2>5. MixedOnlyIfMet'
    <3> SUFFICES ASSUME NEW x \in audience', NEW y \in audience', x.by # y.by
                 PROVE  {x.by, y.by} \in met
      BY <1>1 DEF MixedOnlyIfMet
    <3>1. CASE x \in audience /\ y \in audience
      BY <3>1 DEF AudienceInv, MixedOnlyIfMet
    <3>2. CASE x \in new /\ y \in audience
      BY <1>1, <1>5, <3>2 DEF AudienceInv, WritersMet
    <3>3. CASE x \in audience /\ y \in new
      BY <1>1, <1>5, <3>3 DEF AudienceInv, WritersMet
    <3>4. QED
      BY <1>5, <2>1, <3>1, <3>2, <3>3
  <2>6. EmptyOnlyByInterruption'
    BY <1>6, <1>7, <2>1 DEF EmptyOnlyByInterruption, Turns
  <2>7. QED
    BY <2>2, <2>3, <2>4, <2>5, <2>6 DEF AudienceInv
<1>10. QED
  BY <1>8, <1>9

LEMMA RebuildStopsKeeps ==
  ASSUME AudienceInv, NEW b \in Rebuilds, RebuildStops(b)
  PROVE  AudienceInv'
<1> DEFINE step == IF rebuild[b].step = "create" THEN "lost" ELSE "aborted"
<1>1. rebuild[b] \in Builds
  BY DEF AudienceInv, BuildsTyped
<1>2. /\ rebuild' = [rebuild EXCEPT ![b].step = step]
      /\ rebuild[b].step \in {"read", "check", "delete", "create"}
      /\ UNCHANGED <<audience, met>> /\ UnchangedByBuild
  BY <1>1 DEF RebuildStops, Running, Builds, BuildSteps, AudienceInv, BuildsTyped
<1>3. step \in {"lost", "aborted"} /\ (rebuild[b].step = "create" => step = "lost")
  OBVIOUS
<1> HIDE DEF step
<1>4. Turns(b, step)
  BY <1>2, <1>3, StepTyped DEF AudienceInv, BuildSteps, Ended
<1>5. QED
  BY <1>2, <1>3, <1>4, BetweenKeeps DEF BuildSteps, Ended

(* What others change.  Only a deleted product reaches the rows.            *)
LEMMA InputsChange ==
  ASSUME AudienceInv, UNCHANGED <<rebuild, met>>,
         live' \subseteq Creators, stocked' \subseteq Products,
         match' \in [Products -> {0, 100} \cup Confidences], trend' \in TrendScores,
         audience' \subseteq audience, cascaded \/ audience' # audience => cascaded'
  PROVE  AudienceInv'
<1>1. BuildsTyped'
  BY DEF AudienceInv, BuildsTyped, AudienceTypeOK
<1>2. RunningMet' /\ WritersMet' /\ MixedOnlyIfMet'
  BY DEF AudienceInv, RunningMet, WritersMet, MixedOnlyIfMet
<1>3. EmptyOnlyByInterruption'
  BY DEF AudienceInv, EmptyOnlyByInterruption
<1>4. QED
  BY <1>1, <1>2, <1>3 DEF AudienceInv

LEMMA ProductsChange ==
  ASSUME AudienceInv, NEW p \in Products,
         DeleteProduct(p) \/ CreateMatch(p) \/ ApproveMatch(p) \/ DeleteMatch(p)
  PROVE  AudienceInv'
<1>1. match' \in [Products -> {0, 100} \cup Confidences]
  BY DEF AudienceInv, BuildsTyped, AudienceTypeOK, DeleteProduct, CreateMatch, ApproveMatch,
     Approved, DeleteMatch
<1>2. UNCHANGED <<rebuild, met, live, trend>> /\ stocked' \subseteq stocked
  BY DEF DeleteProduct, CreateMatch, ApproveMatch, DeleteMatch, Change
<1>3. audience' \subseteq audience /\ (cascaded \/ audience' # audience => cascaded')
  <2>1. CASE DeleteProduct(p)
    <3>1. audience' \subseteq audience
      BY <2>1 DEF DeleteProduct
    <3>2. cascaded' = (cascaded \/ audience' # audience)
      BY <2>1 DEF DeleteProduct
    <3>3. QED
      BY <3>1, <3>2
  <2>2. CASE ~DeleteProduct(p)
    BY <2>2 DEF CreateMatch, ApproveMatch, DeleteMatch
  <2>3. QED
    BY <2>1, <2>2
<1>4. QED
  BY <1>1, <1>2, <1>3, InputsChange DEF AudienceInv, BuildsTyped, AudienceTypeOK

LEMMA OthersChange ==
  ASSUME AudienceInv, FindTrend \/ \E c \in Creators : ArchiveOrReactivate(c)
  PROVE  AudienceInv'
<1>1. /\ live' \subseteq Creators /\ trend' \in TrendScores
      /\ UNCHANGED <<rebuild, met, stocked, match, audience, cascaded>>
  BY DEF AudienceInv, BuildsTyped, AudienceTypeOK, FindTrend, ArchiveOrReactivate, Change
<1>2. QED
  BY <1>1, InputsChange DEF AudienceInv, BuildsTyped, AudienceTypeOK

LEMMA AudienceStep == AudienceInv /\ [AudienceNext]_audienceVars => AudienceInv'
<1> SUFFICES ASSUME AudienceInv, [AudienceNext]_audienceVars PROVE AudienceInv'
  OBVIOUS
<1>1. CASE UNCHANGED audienceVars
  BY <1>1, InputsChange DEF audienceVars, AudienceInv, BuildsTyped, AudienceTypeOK
<1>2. CASE AudienceNext
  BY <1>2, ReadCampaignKeeps, ReadInputKeeps, RecommendKeeps, CheckEndpointsKeeps,
     DeleteAudienceKeeps, CreateAudienceKeeps, RebuildStopsKeeps, ProductsChange, OthersChange
     DEF AudienceNext
<1>3. QED
  BY <1>1, <1>2

(* Rows are pairs of the campaign, an audience is one rebuild's unless      *)
(* rebuilds met, and it vanishes only by an interruption (buildCampaign,    *)
(* saveAudience), for every number of rebuilds, creators and products.      *)
THEOREM AudienceCorrect == AudienceSpec => []AudienceSafe
<1>1. AudienceInv => AudienceSafe
  BY DEF AudienceInv, BuildsTyped, AudienceSafe
<1>2. AudienceInv /\ [AudienceNext]_audienceVars => AudienceInv'
  BY AudienceStep
<1>3. QED
  BY <1>1, <1>2, AudienceStart, PTL DEF AudienceSpec

-----------------------------------------------------------------------------
(* The message cache: what a request has read, asked for and been given.    *)
GenSteps == {"idle", "read", "ask", "store", "served", "failed"}
Generated == [step : GenSteps, todo : SUBSET {"product", "trend"}, context : Contexts,
              answer : SUBSET Contexts]

CacheTyped ==
  /\ current \in Contexts
  /\ generation \in [Generations -> Generated]
  /\ wasted \in [Contexts -> Nat]
  /\ stored \subseteq [contextHash : (1 .. LastProduct) \X (0 .. LastTrend),
                       content : Contexts, by : Generations]

(* A row was made from the context that its hash stands for. *)
RowsMadeFor ==
  /\ \A x \in stored : x.contextHash = BuildContextHash(x.content)
  /\ \A x, y \in stored : x.contextHash = y.contextHash => x = y

AnswersFit ==
  \A g \in Generations :
    /\ generation[g].step \in {"idle", "read", "ask", "failed"} => generation[g].answer = {}
    /\ generation[g].step \in {"store", "served"}
         => generation[g].answer = {generation[g].context}

(* The requests that are paying for an answer to c.                         *)
Paying(c) ==
  {g \in Generations : generation[g].step \in {"ask", "store"} /\ generation[g].context = c}
IsStored(c) == \E x \in stored : x.content = c

(* Before there is a row nothing is wasted; with one, each request that     *)
(* still pays wastes at most its own answer, and one has stored its own.    *)
WasteFits(c) ==
  IF IsStored(c) THEN wasted[c] + Cardinality(Paying(c)) < Cardinality(Generations)
  ELSE wasted[c] = 0
WasteCounted == \A c \in Contexts : WasteFits(c)

CacheInv == CacheTyped /\ RowsMadeFor /\ AnswersFit /\ WasteCounted

LEMMA PayingFinite ==
  ASSUME NEW c \in Contexts
  PROVE  /\ IsFiniteSet(Paying(c)) /\ Cardinality(Paying(c)) \in Nat
         /\ Cardinality(Generations) \in Nat
         /\ Cardinality(Paying(c)) <= Cardinality(Generations)
<1>1. Paying(c) \subseteq Generations
  BY DEF Paying
<1>2. QED
  BY <1>1, CacheAssumption, FS_Subset, FS_CardinalityType

LEMMA CacheStart == CacheInit => CacheInv
<1> SUFFICES ASSUME CacheInit PROVE CacheInv
  OBVIOUS
<1>1. Fresh \in Contexts /\ NoGeneration \in Generated
  BY CacheAssumption DEF Fresh, Contexts, NoGeneration, Generated, GenSteps
<1>2. CacheTyped
  BY <1>1 DEF CacheInit, CacheTyped
<1>3. AnswersFit
  BY DEF CacheInit, AnswersFit, NoGeneration
<1>4. WasteCounted
  BY DEF CacheInit, WasteCounted, WasteFits, IsStored
<1>5. QED
  BY <1>2, <1>3, <1>4 DEF CacheInv, RowsMadeFor, CacheInit

LEMMA Hashes ==
  ASSUME NEW c \in Contexts, NEW d \in Contexts, BuildContextHash(c) = BuildContextHash(d)
  PROVE  c = d
BY DEF Contexts, BuildContextHash

(* A request g goes on as row and stores nothing: nobody new pays for what  *)
(* is stored already.                                                       *)
LEMMA GoesOnKeeps ==
  ASSUME CacheInv, NEW g \in Generations, NEW row \in Generated,
         generation' = [generation EXCEPT ![g] = row],
         UNCHANGED <<stored, wasted>>, current' \in Contexts,
         row.step \in {"idle", "read", "ask", "failed"} => row.answer = {},
         row.step \in {"store", "served"} => row.answer = {row.context},
         row.step \in {"ask", "store"} =>
           \/ ~IsStored(row.context)
           \/ generation[g].step \in {"ask", "store"} /\ generation[g].context = row.context
  PROVE  CacheInv'
<1>1. CacheTyped' /\ RowsMadeFor' /\ AnswersFit'
  BY DEF CacheInv, CacheTyped, RowsMadeFor, AnswersFit, BuildContextHash
<1>2. ASSUME NEW c \in Contexts, IsStored(c)
      PROVE  Paying(c)' \subseteq Paying(c)
  BY <1>2 DEF Paying, CacheInv, CacheTyped
<1>3. ASSUME NEW c \in Contexts, IsStored(c)
      PROVE  Cardinality(Paying(c)') <= Cardinality(Paying(c)) /\ Cardinality(Paying(c)') \in Nat
  BY <1>2, <1>3, PayingFinite, FS_Subset, FS_CardinalityType
<1>4. WasteCounted'
  <2> SUFFICES ASSUME NEW c \in Contexts
               PROVE  WasteFits(c)'
    BY DEF WasteCounted
  <2>1. IsStored(c)' <=> IsStored(c)
    BY DEF IsStored
  <2>2. wasted[c] \in Nat
    BY DEF CacheInv, CacheTyped
  <2>3. CASE IsStored(c)
    <3> DEFINE now == Cardinality(Paying(c))  later == Cardinality(Paying(c)')
    <3>1. wasted[c] + now < Cardinality(Generations)
      BY <2>3 DEF CacheInv, WasteCounted, WasteFits
    <3>2. later <= now /\ later \in Nat /\ now \in Nat /\ Cardinality(Generations) \in Nat
      BY <1>3, <2>3, PayingFinite
    <3> HIDE DEF now, later
    <3>3. wasted[c] + later < Cardinality(Generations)
      BY <2>2, <3>1, <3>2
    <3>4. QED
      BY <2>1, <2>3, <3>3 DEF later, WasteFits
  <2>4. CASE ~IsStored(c)
    BY <2>1, <2>4 DEF CacheInv, WasteCounted, WasteFits
  <2>5. QED
    BY <2>3, <2>4
<1>5. QED
  BY <1>1, <1>4 DEF CacheInv

LEMMA NoGenerationTyped ==
  /\ NoGeneration \in Generated
  /\ NoGeneration.step = "idle" /\ NoGeneration.answer = {}
<1>1. Fresh \in Contexts
  BY CacheAssumption DEF Fresh, Contexts
<1>2. QED
  BY <1>1 DEF NoGeneration, Generated, GenSteps

LEMMA RequestKeeps ==
  ASSUME CacheInv, NEW g \in Generations, RequestMessage(g) \/ GenerationFails(g)
  PROVE  CacheInv'
<1> DEFINE asked == [NoGeneration EXCEPT !.step = "read", !.todo = {"product", "trend"}]
           gone == [NoGeneration EXCEPT !.step = "failed"]
<1>1. /\ asked \in Generated /\ asked.step = "read" /\ asked.answer = {}
      /\ gone \in Generated /\ gone.step = "failed" /\ gone.answer = {}
  BY NoGenerationTyped DEF Generated, GenSteps
<1>2. \/ generation' = [generation EXCEPT ![g] = asked]
      \/ generation' = [generation EXCEPT ![g] = gone]
  BY DEF RequestMessage, GenerationFails
<1>3. UNCHANGED <<stored, wasted>> /\ current' \in Contexts
  BY DEF RequestMessage, GenerationFails, CacheInv, CacheTyped
<1> HIDE DEF asked, gone
<1>4. QED
  BY <1>1, <1>2, <1>3, GoesOnKeeps

LEMMA ReadContextKeeps ==
  ASSUME CacheInv, NEW g \in Generations, NEW part \in {"product", "trend"}, ReadContext(g, part)
  PROVE  CacheInv'
<1> DEFINE left == generation[g].todo \ {part}
           seen == [generation[g].context EXCEPT ![part] = current[part]]
           row == [generation[g] EXCEPT !.todo = left, !.context = seen]
<1>1. generation[g] \in Generated /\ current \in Contexts /\ generation[g].step = "read"
  BY DEF CacheInv, CacheTyped, ReadContext, At
<1>2. seen \in Contexts
  <2>1. CASE part = "product"
    BY <1>1, <2>1 DEF Generated, Contexts
  <2>2. CASE part = "trend"
    BY <1>1, <2>2 DEF Generated, Contexts
  <2>3. QED
    BY <2>1, <2>2
<1>3. row \in Generated /\ row.step = "read" /\ row.answer = generation[g].answer
  BY <1>1, <1>2 DEF Generated
<1>4. generation' = [generation EXCEPT ![g] = row]
  BY DEF ReadContext, CacheInv, CacheTyped
<1>5. UNCHANGED <<stored, wasted>> /\ current' \in Contexts
  BY DEF ReadContext, CacheInv, CacheTyped
<1>6. generation[g].answer = {}
  BY <1>1 DEF CacheInv, AnswersFit
<1> HIDE DEF row, seen
<1>7. QED
  BY <1>3, <1>4, <1>5, <1>6, GoesOnKeeps

LEMMA LookUpKeeps ==
  ASSUME CacheInv, NEW g \in Generations, LookUp(g)
  PROVE  CacheInv'
<1> DEFINE c == generation[g].context
           cached == FindByContextHash(BuildContextHash(c))
           step == IF cached = {} THEN "ask" ELSE "served"
           found == {row.content : row \in cached}
           new == [generation[g] EXCEPT !.step = step, !.answer = found]
<1>1. generation[g] \in Generated /\ c \in Contexts
  BY DEF CacheInv, CacheTyped, Generated
<1>2. \A x \in cached : x.content = c /\ x \in stored
  BY <1>1, Hashes DEF CacheInv, RowsMadeFor, CacheTyped, FindByContextHash
<1>3. CASE cached = {}
  <2>1. found = {} /\ step = "ask"
    BY <1>3
  <2>2. ~IsStored(c)
    BY <1>3 DEF IsStored, FindByContextHash, CacheInv, RowsMadeFor
  <2>3. new \in Generated /\ new.step = "ask" /\ new.answer = {} /\ new.context = c
    BY <1>1, <2>1 DEF Generated, GenSteps
  <2>4. /\ generation' = [generation EXCEPT ![g] = new] /\ UNCHANGED <<stored, wasted>>
        /\ current' \in Contexts
    BY DEF LookUp, CacheInv, CacheTyped
  <2> HIDE DEF new, c
  <2>5. QED
    BY <2>2, <2>3, <2>4, GoesOnKeeps
<1>4. CASE cached # {}
  <2>1. found = {c} /\ step = "served"
    BY <1>2, <1>4
  <2>3. new \in Generated /\ new.step = "served" /\ new.answer = {c} /\ new.context = c
    BY <1>1, <2>1 DEF Generated, GenSteps
  <2>4. /\ generation' = [generation EXCEPT ![g] = new] /\ UNCHANGED <<stored, wasted>>
        /\ current' \in Contexts
    BY DEF LookUp, CacheInv, CacheTyped
  <2> HIDE DEF new, c
  <2>5. QED
    BY <2>3, <2>4, GoesOnKeeps
<1>5. QED
  BY <1>3, <1>4

LEMMA AskModelKeeps ==
  ASSUME CacheInv, NEW g \in Generations, AskModel(g)
  PROVE  CacheInv'
<1> DEFINE c == generation[g].context
           new == [generation[g] EXCEPT !.step = "store", !.answer = {c}]
<1>1. generation[g] \in Generated /\ generation[g].step = "ask"
  BY DEF CacheInv, CacheTyped, AskModel, At
<1>2. new \in Generated /\ new.step = "store" /\ new.answer = {new.context} /\ new.context = c
  BY <1>1 DEF Generated, GenSteps
<1>3. /\ generation' = [generation EXCEPT ![g] = new] /\ UNCHANGED <<stored, wasted>>
      /\ current' \in Contexts
  BY DEF AskModel, CacheInv, CacheTyped
<1> HIDE DEF new
<1>4. QED
  BY <1>1, <1>2, <1>3, GoesOnKeeps

LEMMA StoreAnswerKeeps ==
  ASSUME CacheInv, NEW g \in Generations, StoreAnswer(g)
  PROVE  CacheInv'
<1>0. PICK c \in Contexts : c = generation[g].context
  BY DEF CacheInv, CacheTyped, Generated
<1> DEFINE hash == BuildContextHash(c)
           served == [generation[g] EXCEPT !.step = "served"]
           gone == [NoGeneration EXCEPT !.step = "failed"]
<1>1. generation[g] \in Generated /\ generation[g].step = "store"
  BY DEF CacheInv, CacheTyped, StoreAnswer, At, Generated
<1>2. /\ served \in Generated /\ served.step = "served" /\ served.answer = {c}
      /\ served.context = c
  BY <1>0, <1>1 DEF Generated, GenSteps, CacheInv, AnswersFit
<1>3. gone \in Generated /\ gone.step = "failed" /\ gone.answer = {}
  BY NoGenerationTyped DEF Generated, GenSteps
<1>4. Free(hash) <=> ~IsStored(c)
  BY <1>1, Hashes DEF Free, IsStored, CacheInv, RowsMadeFor, CacheTyped
<1>5. ASSUME NEW d \in Contexts, NEW row \in Generated, row.step \in {"served", "failed"},
             generation' = [generation EXCEPT ![g] = row]
      PROVE  Paying(d)' = Paying(d) \ {g}
  BY <1>5 DEF Paying, CacheInv, CacheTyped
<1>6. g \in Paying(c) /\ \A d \in Contexts \ {c} : g \notin Paying(d)
  BY <1>0, <1>1 DEF Paying
<1>7. ASSUME NEW row \in Generated, row.step \in {"served", "failed"},
             generation' = [generation EXCEPT ![g] = row]
      PROVE  /\ Cardinality(Paying(c)') = Cardinality(Paying(c)) - 1
             /\ \A d \in Contexts \ {c} : Paying(d)' = Paying(d)
  <2>1. Paying(c)' = Paying(c) \ {g}
    BY <1>1, <1>5, <1>7
  <2>2. \A d \in Contexts \ {c} : Paying(d)' = Paying(d)
    BY <1>5, <1>6, <1>7
  <2>3. IsFiniteSet(Paying(c))
    BY <1>1, PayingFinite
  <2>4. QED
    BY <1>6, <2>1, <2>2, <2>3, FS_RemoveElement
<1>8. CASE Free(hash)
  <2>1. /\ stored' = stored \cup {Row(g, c, hash)} /\ wasted' = wasted /\ current' = current
        /\ generation' = [generation EXCEPT ![g] = served]
    BY <1>0, <1>8 DEF StoreAnswer
  <2>2. Row(g, c, hash) \in [contextHash : (1 .. LastProduct) \X (0 .. LastTrend),
                             content : Contexts, by : Generations]
    BY <1>1 DEF Row, BuildContextHash, Contexts
  <2>3. CacheTyped'
    BY <1>2, <2>1, <2>2 DEF CacheInv, CacheTyped
  <2>4. RowsMadeFor'
    BY <1>8, <2>1 DEF CacheInv, RowsMadeFor, Free, Row, BuildContextHash
  <2>5. AnswersFit'
    BY <1>2, <2>1 DEF CacheInv, CacheTyped, AnswersFit
  <2>6. WasteCounted'
    <3> SUFFICES ASSUME NEW d \in Contexts
                 PROVE  WasteFits(d)'
      BY DEF WasteCounted
    <3>1. CASE d = c
      <4>1. wasted[c] = 0
        BY <1>1, <1>4, <1>8 DEF CacheInv, WasteCounted, WasteFits
      <4> DEFINE now == Cardinality(Paying(c))  later == Cardinality(Paying(c)')
      <4>2. later = now - 1
        BY <1>2, <1>7, <2>1
      <4>3. now \in Nat /\ now <= Cardinality(Generations) /\ Cardinality(Generations) \in Nat
        BY <1>1, PayingFinite
      <4> HIDE DEF now, later
      <4>4. wasted'[c] + later < Cardinality(Generations)
        BY <2>1, <4>1, <4>2, <4>3
      <4>5. IsStored(c)'
        <5>1. Row(g, c, hash) \in stored'
          BY <2>1
        <5>2. Row(g, c, hash).content = c
          BY DEF Row
        <5>3. QED
          BY <5>1, <5>2 DEF IsStored
      <4>6. QED
        BY <3>1, <4>4, <4>5 DEF later, WasteFits
    <3>2. CASE d # c
      <4>1. IsStored(d)' <=> IsStored(d)
        BY <2>1, <3>2 DEF IsStored, Row
      <4>2. Paying(d)' = Paying(d)
        BY <1>2, <1>7, <2>1, <3>2
      <4>3. QED
        BY <2>1, <4>1, <4>2 DEF CacheInv, WasteCounted, WasteFits
    <3>3. QED
      BY <3>1, <3>2
  <2>7. QED
    BY <2>3, <2>4, <2>5, <2>6 DEF CacheInv
<1>9. CASE ~Free(hash)
  <2>1. /\ stored' = stored /\ wasted' = [wasted EXCEPT ![c] = @ + 1] /\ current' = current
        /\ generation' = [generation EXCEPT ![g] = gone]
    BY <1>0, <1>9 DEF StoreAnswer
  <2>2. CacheTyped' /\ RowsMadeFor'
    BY <1>1, <1>3, <2>1 DEF CacheInv, CacheTyped, RowsMadeFor, BuildContextHash
  <2>3. AnswersFit'
    BY <1>3, <2>1 DEF CacheInv, CacheTyped, AnswersFit
  <2>4. \A d \in Contexts : IsStored(d)' <=> IsStored(d)
    BY <2>1 DEF IsStored
  <2>5. WasteCounted'
    <3> SUFFICES ASSUME NEW d \in Contexts
                 PROVE  WasteFits(d)'
      BY DEF WasteCounted
    <3>1. CASE d = c
      <4> DEFINE now == Cardinality(Paying(c))  later == Cardinality(Paying(c)')
      <4>1. wasted[c] + now < Cardinality(Generations)
        BY <1>1, <1>4, <1>9 DEF CacheInv, WasteCounted, WasteFits
      <4>2. later = now - 1
        BY <1>3, <1>7, <2>1
      <4>3. now \in Nat /\ Cardinality(Generations) \in Nat
        BY <1>1, PayingFinite
      <4>4. wasted'[c] = wasted[c] + 1 /\ wasted[c] \in Nat
        BY <1>1, <2>1 DEF CacheInv, CacheTyped
      <4> HIDE DEF now, later
      <4>5. wasted'[c] + later < Cardinality(Generations)
        BY <4>1, <4>2, <4>3, <4>4
      <4>6. IsStored(c)'
        BY <1>1, <1>4, <1>9, <2>4
      <4>7. QED
        BY <3>1, <4>5, <4>6 DEF later, WasteFits
    <3>2. CASE d # c
      <4>1. Paying(d)' = Paying(d) /\ wasted'[d] = wasted[d]
        BY <1>3, <1>7, <2>1, <3>2 DEF CacheInv, CacheTyped
      <4>2. QED
        BY <2>4, <4>1 DEF CacheInv, WasteCounted, WasteFits
    <3>3. QED
      BY <3>1, <3>2
  <2>6. QED
    BY <2>2, <2>3, <2>5 DEF CacheInv
<1>10. QED
  BY <1>8, <1>9

LEMMA ContextKeeps == ASSUME CacheInv, ContextChanges PROVE CacheInv'
<1>1. current' \in Contexts
  BY CacheAssumption DEF ContextChanges, CacheInv, CacheTyped, Contexts
<1>2. UNCHANGED <<stored, generation, wasted>>
  BY DEF ContextChanges
<1>3. QED
  BY <1>1, <1>2 DEF CacheInv, CacheTyped, RowsMadeFor, BuildContextHash, AnswersFit,
     WasteCounted, WasteFits, IsStored, Paying

LEMMA CacheStep == CacheInv /\ [CacheNext]_cacheVars => CacheInv'
<1> SUFFICES ASSUME CacheInv, [CacheNext]_cacheVars PROVE CacheInv'
  OBVIOUS
<1>1. CASE UNCHANGED cacheVars
  BY <1>1 DEF cacheVars, CacheInv, CacheTyped, RowsMadeFor, BuildContextHash, AnswersFit,
     WasteCounted, WasteFits, IsStored, Paying
<1>2. CASE CacheNext
  BY <1>2, ContextKeeps, RequestKeeps, ReadContextKeeps, LookUpKeeps, AskModelKeeps,
     StoreAnswerKeeps DEF CacheNext
<1>3. QED
  BY <1>1, <1>2

LEMMA CacheRead == ASSUME CacheInv PROVE CacheSafe
<1>1. \A g \in Generations : Cardinality(generation[g].answer) <= 1
  <2> SUFFICES ASSUME NEW g \in Generations
               PROVE  Cardinality(generation[g].answer) <= 1
    OBVIOUS
  <2>1. generation[g].answer = {} \/ generation[g].answer = {generation[g].context}
    BY DEF CacheInv, CacheTyped, Generated, GenSteps, AnswersFit
  <2>2. Cardinality({}) = 0 /\ Cardinality({generation[g].context}) = 1
    BY FS_EmptySet, FS_Singleton
  <2>3. QED
    BY <2>1, <2>2
<1>2. CacheTypeOK
  BY <1>1 DEF CacheInv, CacheTyped, RowsMadeFor, CacheTypeOK, Generated
<1>3. ServedForContext
  BY DEF CacheInv, AnswersFit, ServedForContext, At
<1>4. WasteBounded
  <2> SUFFICES ASSUME NEW c \in Contexts
               PROVE  wasted[c] < Cardinality(Generations)
    BY DEF WasteBounded
  <2>1. wasted[c] \in Nat /\ Cardinality(Paying(c)) \in Nat /\ Cardinality(Generations) \in Nat
    BY PayingFinite DEF CacheInv, CacheTyped
  <2>2. Cardinality(Generations) # 0
    BY CacheAssumption, FS_EmptySet
  <2>3. QED
    BY <2>1, <2>2 DEF CacheInv, WasteCounted, WasteFits
<1>5. QED
  BY <1>2, <1>3, <1>4 DEF CacheSafe

(* A served message was made from the context that the request read, a key  *)
(* has one row, and fewer answers to one context are thrown away than       *)
(* requests run (generateAiMessageAction, message.service.ts).              *)
THEOREM CacheCorrect == CacheSpec => []CacheSafe
<1>1. CacheInit => CacheInv
  BY CacheStart
<1>2. CacheInv /\ [CacheNext]_cacheVars => CacheInv'
  BY CacheStep
<1>3. CacheInv => CacheSafe
  BY CacheRead
<1>4. QED
  BY <1>1, <1>2, <1>3, PTL DEF CacheSpec

-----------------------------------------------------------------------------
(* What the executions of discover-creators report *)

Executions == [step : {"idle", "find", "update", "create", "tag", "measure", "next",
                       "success", "failed"},
               at : 1 .. Len(Candidates), created : Nat, updated : Nat]

Complete(row) == row.source = "MOCK" /\ row.tagged /\ row.measured

(* The candidates behind the place of an execution are complete, and the    *)
(* one it is at is as far as its step says.                                 *)
Reached(q) ==
  LET row == profile[Candidates[q.at]]
  IN /\ \A i \in 1 .. q.at - 1 : Complete(profile[Candidates[i]])
     /\ q.step \in {"update", "tag", "measure"} => row.source = "MOCK"
     /\ q.step = "measure" => row.tagged
     /\ q.step \in {"next", "success"} => Complete(row)
     /\ q.step = "success" => q.at = Len(Candidates)

Mocks == {h \in Handles : profile[h].source = "MOCK"}
Creations == [d \in Discoveries |-> discovery[d].created]

(* The inductive invariant.                                                 *)
DiscoveryInv ==
  /\ CreatorInv
  /\ discovery \in [Discoveries -> Executions]
  /\ \A d \in Discoveries : Reached(discovery[d])
  /\ SumFunctionOnSet(Creations, Discoveries) = Cardinality(Mocks)

(* What a step leaves of a row that an execution has seen.                  *)
RowGrows(h) ==
  /\ profile[h].source # "NONE" => profile'[h].source = profile[h].source
  /\ profile[h].tagged => profile'[h].tagged
  /\ profile[h].measured => profile'[h].measured

MockStays(h) == profile'[h].source = "MOCK" <=> profile[h].source = "MOCK"

LEMMA PlaceIsHandle ==
  ASSUME NEW i \in 1 .. Len(Candidates)
  PROVE  Candidates[i] \in Handles
BY CreatorAssumption DEF CreatorAssumption

LEMMA LengthIsNumber == Len(Candidates) \in Nat \ {0} /\ 1 \in 1 .. Len(Candidates)
<1>1. Candidates \in Seq(Handles) /\ Candidates # <<>>
  BY CreatorAssumption DEF CreatorAssumption
<1>2. Len(Candidates) \in Nat /\ Len(Candidates) # 0
  BY <1>1
<1> QED
  BY <1>2

LEMMA MocksFinite == IsFiniteSet(Mocks) /\ Cardinality(Mocks) \in Nat
<1>1. IsFiniteSet(Handles) /\ Mocks \subseteq Handles
  BY CreatorAssumption DEF CreatorAssumption, Mocks
<1> QED
  BY <1>1, FS_Subset, FS_CardinalityType

(* Rows only grow, so what an execution has reached it does not lose.       *)
LEMMA ReachedStays ==
  ASSUME NEW q \in Executions, Reached(q), \A h \in Handles : RowGrows(h)
  PROVE  Reached(q)'
<1>1. q.at \in 1 .. Len(Candidates) /\ Candidates[q.at] \in Handles
  BY PlaceIsHandle DEF Executions
<1>2. \A i \in 1 .. q.at - 1 : Candidates[i] \in Handles
  BY <1>1, LengthIsNumber, PlaceIsHandle
<1>3. \A h \in Handles : Complete(profile[h]) => Complete(profile'[h])
  BY DEF RowGrows, Complete
<1>4. \A h \in Handles : profile[h].source = "MOCK" => profile'[h].source = "MOCK"
  BY DEF RowGrows
<1>5. \A h \in Handles : profile[h].tagged => profile'[h].tagged
  BY DEF RowGrows
<1> QED
  BY <1>1, <1>2, <1>3, <1>4, <1>5 DEF Reached

(* No step but a creation changes the discovered profiles or a counter.     *)
LEMMA CountedStays ==
  ASSUME DiscoveryInv, \A h \in Handles : MockStays(h),
         \A d \in Discoveries : discovery'[d].created = discovery[d].created
  PROVE  SumFunctionOnSet(Creations', Discoveries) = Cardinality(Mocks')
<1>1. Mocks' = Mocks
  BY DEF Mocks, MockStays
<1>2. Creations' = Creations
  BY DEF Creations
<1> QED
  BY <1>1, <1>2 DEF DiscoveryInv

(* A step of an execution that creates nothing.                             *)
LEMMA ExecutionMoves ==
  ASSUME DiscoveryInv, NEW d \in Discoveries, NEW q \in Executions, CreatorInv',
         discovery' = [discovery EXCEPT ![d] = q], Reached(q)',
         q.created = discovery[d].created,
         \A h \in Handles : RowGrows(h) /\ MockStays(h)
  PROVE  DiscoveryInv'
<1>1. /\ discovery' \in [Discoveries -> Executions] /\ discovery'[d] = q
      /\ \A e \in Discoveries \ {d} : discovery'[e] = discovery[e]
  BY DEF DiscoveryInv
<1>2. ASSUME NEW e \in Discoveries, NEW x, x = discovery'[e] PROVE Reached(x)'
  <2>1. CASE e = d
    BY <1>1, <1>2, <2>1
  <2>2. CASE e # d
    <3>1. x \in Executions /\ Reached(x)
      BY <1>1, <1>2, <2>2 DEF DiscoveryInv
    <3> QED
      BY <3>1, ReachedStays
  <2> QED
    BY <2>1, <2>2
<1>5. (\A e \in Discoveries : Reached(discovery[e]))'
  BY <1>2 DEF Reached
<1>3. \A e \in Discoveries : discovery'[e].created = discovery[e].created
  BY <1>1
<1>4. SumFunctionOnSet(Creations', Discoveries) = Cardinality(Mocks')
  BY <1>3, CountedStays
<1> QED
  BY <1>1, <1>4, <1>5 DEF DiscoveryInv

(* A step of an execution that leaves the rows as they are.                 *)
LEMMA RowsAlone ==
  ASSUME UNCHANGED profile
  PROVE  \A h \in Handles : RowGrows(h) /\ MockStays(h)
BY DEF RowGrows, MockStays

LEMMA Known ==
  ASSUME DiscoveryInv, NEW d \in Discoveries
  PROVE  /\ discovery[d] \in Executions /\ Reached(discovery[d])
         /\ discovery[d].at \in 1 .. Len(Candidates)
         /\ Candidate(d) \in Handles /\ Candidate(d) = Candidates[discovery[d].at]
         /\ profile[Candidate(d)] \in Profiles
<1>1. discovery[d] \in Executions /\ Reached(discovery[d])
  BY DEF DiscoveryInv
<1>2. discovery[d].at \in 1 .. Len(Candidates)
  BY <1>1 DEF Executions
<1>3. Candidate(d) \in Handles
  BY <1>2, PlaceIsHandle DEF Candidate
<1> QED
  BY <1>1, <1>2, <1>3 DEF Candidate, DiscoveryInv, CreatorInv

LEMMA WalkKeeps ==
  ASSUME DiscoveryInv, CreatorInv', NEW d \in Discoveries,
         Discover(d) \/ FindExisting(d) \/ NextCandidate(d) \/ DiscoveryFails(d)
  PROVE  DiscoveryInv'
<1>0. PICK q : q = discovery[d]
  OBVIOUS
<1>1. q \in Executions /\ Reached(q) /\ UNCHANGED profile
  BY <1>0, Known DEF Discover, FindExisting, NextCandidate, DiscoveryFails
<1>2. \A h \in Handles : RowGrows(h) /\ MockStays(h)
  BY <1>0, <1>1, RowsAlone
<1>3. CASE Discover(d)
  <2>1. PICK x : x = [q EXCEPT !.step = "find"]
    OBVIOUS
  <2>2. /\ x \in Executions /\ x.step = "find" /\ x.at = q.at
        /\ x.created = q.created
    BY <1>1, <2>1 DEF Executions
  <2>3. discovery' = [discovery EXCEPT ![d] = x]
    BY <1>0, <1>3, <2>1 DEF Discover, ToStep
  <2>4. Reached(x)'
    BY <1>0, <1>1, <2>2 DEF Reached
  <2> QED
    BY <1>0, <1>2, <2>2, <2>3, <2>4, ExecutionMoves
<1>4. CASE FindExisting(d)
  <2>1. PICK s \in {"update", "create"} :
          /\ discovery' = [discovery EXCEPT ![d].step = s]
          /\ s = "update" => profile[Candidate(d)].source = "MOCK"
    BY <1>0, <1>4 DEF FindExisting, ToStep
  <2>2. PICK x : x = [q EXCEPT !.step = s]
    OBVIOUS
  <2>3. /\ x \in Executions /\ x.step = s /\ x.at = q.at
        /\ x.created = q.created
    BY <1>1, <2>1, <2>2 DEF Executions
  <2>4. discovery' = [discovery EXCEPT ![d] = x]
    BY <1>0, <2>1, <2>2
  <2>5. Reached(x)'
    BY <1>0, <1>1, <2>1, <2>3 DEF Reached, Candidate
  <2> QED
    BY <1>0, <1>2, <2>3, <2>4, <2>5, ExecutionMoves
<1>5. CASE NextCandidate(d) /\ HasNext(d)
  <2>1. PICK x : x = [q EXCEPT !.step = "find", !.at = q.at + 1]
    OBVIOUS
  <2>2. q.at + 1 \in 1 .. Len(Candidates)
    BY <1>0, <1>1, <1>5, LengthIsNumber DEF HasNext, Executions
  <2>3. /\ x \in Executions /\ x.step = "find" /\ x.at = q.at + 1
        /\ x.created = q.created
    BY <1>0, <1>1, <2>1, <2>2 DEF Executions
  <2>4. discovery' = [discovery EXCEPT ![d] = x]
    BY <1>0, <1>5, <2>1 DEF NextCandidate
  <2>5. Complete(profile[Candidates[q.at]])
    BY <1>0, <1>1, <1>5 DEF Reached, NextCandidate
  <2>6. \A i \in 1 .. x.at - 1 : Complete(profile[Candidates[i]])
    <3>0. q.at \in Nat
      BY <1>1, LengthIsNumber DEF Executions
    <3>1. \A i \in 1 .. x.at - 1 : i \in 1 .. q.at - 1 \/ i = q.at
      BY <2>3, <3>0
    <3> QED
      BY <1>0, <1>1, <2>5, <3>1 DEF Reached
  <2>7. Reached(x)'
    BY <1>0, <1>1, <2>3, <2>6 DEF Reached
  <2> QED
    BY <1>0, <1>2, <2>3, <2>4, <2>7, ExecutionMoves
<1>6. CASE NextCandidate(d) /\ ~HasNext(d)
  <2>1. PICK x : x = [q EXCEPT !.step = "success"]
    OBVIOUS
  <2>2. /\ x \in Executions /\ x.step = "success" /\ x.at = q.at
        /\ x.created = q.created
    BY <1>1, <2>1 DEF Executions
  <2>3. discovery' = [discovery EXCEPT ![d] = x]
    BY <1>0, <1>6, <2>1 DEF NextCandidate
  <2>4. x.at = Len(Candidates)
    BY <1>0, <1>1, <1>6, <2>2, LengthIsNumber DEF HasNext, Executions
  <2>5. q.step = "next"
    BY <1>0, <1>6 DEF NextCandidate
  <2>6. Reached(x)'
    BY <1>0, <1>1, <2>2, <2>4, <2>5 DEF Reached
  <2> QED
    BY <1>0, <1>2, <2>2, <2>3, <2>6, ExecutionMoves
<1>7. CASE DiscoveryFails(d)
  <2>1. PICK x : x = [q EXCEPT !.step = "failed"]
    OBVIOUS
  <2>2. /\ x \in Executions /\ x.step = "failed" /\ x.at = q.at
        /\ x.created = q.created
    BY <1>1, <2>1 DEF Executions
  <2>3. discovery' = [discovery EXCEPT ![d] = x]
    BY <1>0, <1>7, <2>1 DEF DiscoveryFails, ToStep
  <2>4. Reached(x)'
    BY <1>0, <1>1, <2>2 DEF Reached
  <2> QED
    BY <1>0, <1>2, <2>2, <2>3, <2>4, ExecutionMoves
<1> QED
  BY <1>0, <1>3, <1>4, <1>5, <1>6, <1>7

LEMMA ImportsKeep ==
  ASSUME DiscoveryInv, CreatorInv', NEW d \in Discoveries,
         UpdateProfile(d) \/ AttachTags(d) \/ RecordMetric(d)
  PROVE  DiscoveryInv'
<1>0. PICK q, h : q = discovery[d] /\ h = Candidate(d)
  OBVIOUS
<1>1. /\ q \in Executions /\ Reached(q) /\ h \in Handles /\ h = Candidates[q.at]
      /\ profile \in [Handles -> Profiles] /\ q.at \in 1 .. Len(Candidates)
  BY <1>0, Known DEF DiscoveryInv, CreatorInv
<1>2. \A i \in 1 .. q.at - 1 : Candidates[i] \in Handles
  BY <1>0, <1>1, LengthIsNumber, PlaceIsHandle
<1>3. CASE UpdateProfile(d)
  <2>1. PICK x : x = [q EXCEPT !.step = "tag", !.updated = q.updated + 1]
    OBVIOUS
  <2>2. x \in Executions /\ x.step = "tag" /\ x.at = q.at /\ x.created = q.created
    <3>1. q.updated + 1 \in Nat
      BY <1>1 DEF Executions
    <3> QED
      BY <1>1, <2>1, <3>1 DEF Executions
  <2>3. discovery' = [discovery EXCEPT ![d] = x] /\ q.step = "update"
    BY <1>0, <1>3, <2>1 DEF UpdateProfile
  <2>4. UNCHANGED profile
    BY <1>0, <1>1, <1>3 DEF UpdateProfile, Refreshed
  <2>5. Reached(x)'
    BY <1>0, <1>1, <2>2, <2>3, <2>4 DEF Reached
  <2> QED
    BY <1>0, <2>2, <2>3, <2>4, <2>5, RowsAlone, ExecutionMoves
<1>4. CASE AttachTags(d)
  <2>1. PICK x : x = [q EXCEPT !.step = "measure"]
    OBVIOUS
  <2>2. x \in Executions /\ x.step = "measure" /\ x.at = q.at /\ x.created = q.created
    BY <1>1, <2>1 DEF Executions
  <2>3. discovery' = [discovery EXCEPT ![d] = x] /\ q.step = "tag"
    BY <1>0, <1>4, <2>1 DEF AttachTags, ToStep
  <2>4. profile' = [profile EXCEPT ![h].tagged = TRUE]
    BY <1>0, <1>4 DEF AttachTags
  <2>5. \A g \in Handles :
          /\ profile'[g].source = profile[g].source
          /\ profile'[g].measured = profile[g].measured
          /\ profile'[g].tagged = (g = h \/ profile[g].tagged)
    BY <1>0, <1>1, <2>4 DEF Profiles
  <2>6. \A g \in Handles : RowGrows(g) /\ MockStays(g)
    BY <1>0, <2>5 DEF RowGrows, MockStays
  <2>7. Reached(q)'
    BY <1>0, <1>1, <2>6, ReachedStays
  <2>8. Reached(x)'
    BY <1>0, <1>1, <2>2, <2>3, <2>5, <2>7 DEF Reached
  <2> QED
    BY <1>0, <2>2, <2>3, <2>6, <2>8, ExecutionMoves
<1>5. CASE RecordMetric(d)
  <2>1. PICK x : x = [q EXCEPT !.step = "next"]
    OBVIOUS
  <2>2. x \in Executions /\ x.step = "next" /\ x.at = q.at /\ x.created = q.created
    BY <1>1, <2>1 DEF Executions
  <2>3. discovery' = [discovery EXCEPT ![d] = x] /\ q.step = "measure"
    BY <1>0, <1>5, <2>1 DEF RecordMetric, ToStep
  <2>4. profile' = [profile EXCEPT ![h].measured = TRUE]
    BY <1>0, <1>5 DEF RecordMetric
  <2>5. \A g \in Handles :
          /\ profile'[g].source = profile[g].source
          /\ profile'[g].tagged = profile[g].tagged
          /\ profile'[g].measured = (g = h \/ profile[g].measured)
    BY <1>0, <1>1, <2>4 DEF Profiles
  <2>6. \A g \in Handles : RowGrows(g) /\ MockStays(g)
    BY <1>0, <2>5 DEF RowGrows, MockStays
  <2>7. Reached(q)'
    BY <1>0, <1>1, <2>6, ReachedStays
  <2>8. Reached(x)'
    <3>1. profile[h].source = "MOCK" /\ profile[h].tagged
      BY <1>0, <1>1, <2>3 DEF Reached
    <3>2. Complete(profile'[h])
      BY <1>1, <2>5, <3>1 DEF Complete
    <3>3. \A i \in 1 .. q.at - 1 : Complete(profile'[Candidates[i]])
      BY <2>7 DEF Reached
    <3> QED
      BY <1>1, <2>2, <3>2, <3>3 DEF Reached, Complete
  <2> QED
    BY <1>0, <2>2, <2>3, <2>6, <2>8, ExecutionMoves
<1> QED
  BY <1>0, <1>3, <1>4, <1>5

(* A creation adds one to its execution's counter and a discovered profile. *)
LEMMA CreationKeeps ==
  ASSUME DiscoveryInv, CreatorInv', NEW d \in Discoveries, CreateProfile(d)
  PROVE  DiscoveryInv'
<1>0. PICK q, h : q = discovery[d] /\ h = Candidate(d)
  OBVIOUS
<1>1. /\ q \in Executions /\ Reached(q) /\ h \in Handles /\ h = Candidates[q.at]
      /\ profile \in [Handles -> Profiles] /\ q.at \in 1 .. Len(Candidates)
  BY <1>0, Known DEF DiscoveryInv, CreatorInv
<1>2. CASE ~CreatesOver(h)
  <2>1. PICK x : x = [q EXCEPT !.step = "failed"]
    OBVIOUS
  <2>2. x \in Executions /\ x.step = "failed" /\ x.at = q.at /\ x.created = q.created
    BY <1>1, <2>1 DEF Executions
  <2>3. discovery' = [discovery EXCEPT ![d] = x] /\ UNCHANGED profile
    BY <1>0, <1>2, <2>1 DEF CreateProfile, OnConflict
  <2>4. Reached(x)'
    BY <1>0, <1>1, <2>2, <2>3 DEF Reached
  <2> QED
    BY <1>0, <2>2, <2>3, <2>4, RowsAlone, ExecutionMoves
<1>3. CASE CreatesOver(h)
  <2>1. PICK x : x = [q EXCEPT !.step = "tag", !.created = q.created + 1]
    OBVIOUS
  <2>2. x \in Executions /\ x.step = "tag" /\ x.at = q.at /\ x.created = q.created + 1
    <3>1. q.created + 1 \in Nat
      BY <1>1 DEF Executions
    <3> QED
      BY <1>1, <2>1, <3>1 DEF Executions
  <2>3. /\ discovery' = [discovery EXCEPT ![d] = x]
        /\ profile' = [profile EXCEPT ![h].source = "MOCK"]
        /\ profile[h].source = "NONE"
    BY <1>0, <1>3, <2>1 DEF CreateProfile, CreatesOver
  <2>4. \A g \in Handles :
          /\ profile'[g].source = IF g = h THEN "MOCK" ELSE profile[g].source
          /\ profile'[g].tagged = profile[g].tagged
          /\ profile'[g].measured = profile[g].measured
    BY <1>0, <1>1, <2>3 DEF Profiles
  <2>5. \A g \in Handles : RowGrows(g)
    BY <1>0, <2>3, <2>4 DEF RowGrows
  <2>6. Reached(q)'
    BY <1>0, <1>1, <2>5, ReachedStays
  <2>7. Reached(x)'
    BY <1>0, <1>1, <2>2, <2>4, <2>6 DEF Reached
  <2>8. /\ discovery' \in [Discoveries -> Executions] /\ discovery'[d] = x
        /\ \A e \in Discoveries \ {d} : discovery'[e] = discovery[e]
    BY <1>0, <2>2, <2>3 DEF DiscoveryInv
  <2>9. ASSUME NEW e \in Discoveries, NEW y, y = discovery'[e] PROVE Reached(y)'
    <3>1. CASE e = d
      BY <1>0, <2>7, <2>8, <2>9, <3>1
    <3>2. CASE e # d
      <4>1. y \in Executions /\ Reached(y)
        BY <1>0, <2>8, <2>9, <3>2 DEF DiscoveryInv
      <4> QED
        BY <1>0, <2>5, <4>1, ReachedStays
    <3> QED
      BY <1>0, <3>1, <3>2
  <2>10. (\A e \in Discoveries : Reached(discovery[e]))'
    BY <1>0, <2>9 DEF Reached
  <2>11. Mocks' = Mocks \cup {h} /\ h \notin Mocks
    BY <1>0, <1>1, <2>3, <2>4 DEF Mocks
  <2>12. Cardinality(Mocks') = Cardinality(Mocks) + 1
    BY <1>0, <2>11, MocksFinite, FS_AddElement
  <2>13. SumFunctionOnSet(Creations', Discoveries)
           = SumFunctionOnSet(Creations, Discoveries) + 1
    <3>1. IsFiniteSet(Discoveries)
      BY CreatorAssumption DEF CreatorAssumption
    <3>2. /\ \A e \in Discoveries : Creations[e] \in Int
          /\ Creations'[d] = Creations[d] + 1 /\ Creations[d] \in Int
          /\ \A e \in Discoveries \ {d} : Creations'[e] = Creations[e]
      <4>1. \A e \in Discoveries : discovery[e].created \in Nat
        BY DEF DiscoveryInv, Executions
      <4> QED
        BY <1>0, <2>2, <2>8, <4>1 DEF Creations
    <3>3. SumFunctionOnSet(Creations', Discoveries)
            = SumFunctionOnSet(Creations, Discoveries) - Creations[d] + Creations'[d]
      BY <1>0, <3>1, <3>2, SumChange
    <3>4. SumFunctionOnSet(Creations, Discoveries) \in Int
      BY <1>0, <3>1, <3>2, SumType
    <3> QED
      BY <1>0, <3>2, <3>3, <3>4
  <2>14. SumFunctionOnSet(Creations', Discoveries) = Cardinality(Mocks')
    BY <1>0, <2>12, <2>13, MocksFinite DEF DiscoveryInv
  <2> QED
    BY <1>0, <2>8, <2>10, <2>14 DEF DiscoveryInv
<1> QED
  BY <1>0, <1>2, <1>3

(* Nothing a manager does takes from what an execution has reached.         *)
LEMMA ManagersKeep ==
  ASSUME DiscoveryInv, CreatorInv', UNCHANGED discovery,
         \A h \in Handles : RowGrows(h) /\ MockStays(h)
  PROVE  DiscoveryInv'
<1>1. ASSUME NEW e \in Discoveries, NEW y, y = discovery[e] PROVE Reached(y)'
  <2>1. y \in Executions /\ Reached(y)
    BY <1>1 DEF DiscoveryInv
  <2> QED
    BY <2>1, ReachedStays
<1>2. (\A e \in Discoveries : Reached(discovery[e]))'
  BY <1>1 DEF Reached
<1>3. SumFunctionOnSet(Creations', Discoveries) = Cardinality(Mocks')
  BY CountedStays
<1> QED
  BY <1>2, <1>3 DEF DiscoveryInv

LEMMA ManagerRows ==
  ASSUME CreatorInv, NEW r \in Recruiters,
         \/ TagByHand(r) \/ ChangeStatus(r) \/ RecruiterFails(r)
         \/ \E h \in Handles : CreateByHand(r, h) \/ \E s \in Stages : ReadStage(r, h, s)
  PROVE  UNCHANGED discovery /\ \A g \in Handles : RowGrows(g) /\ MockStays(g)
<1>0. profile \in [Handles -> Profiles]
  BY DEF CreatorInv
<1>1. ASSUME NEW h, \/ profile' = [profile EXCEPT ![h].tagged = TRUE]
                    \/ \E s : profile' = [profile EXCEPT ![h].status = s]
                    \/ /\ profile[h].source = "NONE"
                       /\ profile' = [profile EXCEPT ![h].source = "MANUAL"]
      PROVE  \A g \in Handles : RowGrows(g) /\ MockStays(g)
  <2>1. CASE profile' = [profile EXCEPT ![h].tagged = TRUE]
    BY <1>0, <2>1 DEF Profiles, RowGrows, MockStays
  <2>2. ASSUME NEW s, profile' = [profile EXCEPT ![h].status = s]
        PROVE  \A g \in Handles : RowGrows(g) /\ MockStays(g)
    BY <1>0, <2>2 DEF Profiles, RowGrows, MockStays
  <2>3. CASE /\ profile[h].source = "NONE"
             /\ profile' = [profile EXCEPT ![h].source = "MANUAL"]
    BY <1>0, <2>3 DEF Profiles, RowGrows, MockStays
  <2> QED
    BY <1>1, <2>1, <2>2, <2>3
<1>2. CASE TagByHand(r)
  <2>1. PICK h \in recruiter[r].handle : profile' = [profile EXCEPT ![h].tagged = TRUE]
    BY <1>2 DEF TagByHand
  <2> QED
    BY <1>1, <1>2, <2>1 DEF TagByHand
<1>3. CASE ChangeStatus(r)
  <2>1. PICK h \in recruiter[r].handle :
          profile' = [profile EXCEPT ![h].status = recruiter[r].next]
    BY <1>3 DEF ChangeStatus
  <2> QED
    BY <1>1, <1>3, <2>1 DEF ChangeStatus
<1>4. ASSUME NEW h \in Handles, CreateByHand(r, h)
      PROVE  UNCHANGED discovery /\ \A g \in Handles : RowGrows(g) /\ MockStays(g)
  BY <1>1, <1>4 DEF CreateByHand
<1>5. ASSUME NEW h \in Handles, NEW s \in Stages, RecruiterFails(r) \/ ReadStage(r, h, s)
      PROVE  UNCHANGED discovery /\ \A g \in Handles : RowGrows(g) /\ MockStays(g)
  BY <1>5, RowsAlone DEF RecruiterFails, ReadStage
<1>6. CASE RecruiterFails(r)
  BY <1>6, RowsAlone DEF RecruiterFails
<1> QED
  BY <1>2, <1>3, <1>4, <1>5, <1>6

(* What executions of discover-creators report is what the tables hold: a   *)
(* success has every candidate's profile, tags and metric, and the creation *)
(* counters of overlapping executions add up to the discovered profiles     *)
(* (createDiscoverCreatorsJob, upsertFromDiscovery).                        *)
THEOREM DiscoveriesTrue == CreatorSpec => []DiscoverySafe
<1>1. CreatorInit => DiscoveryInv
  <2> SUFFICES ASSUME CreatorInit PROVE DiscoveryInv
    OBVIOUS
  <2>1. CreatorInv
    BY CreatorStart
  <2>2. discovery \in [Discoveries -> Executions]
    BY LengthIsNumber DEF CreatorInit, Executions
  <2>3. \A d \in Discoveries : Reached(discovery[d])
    BY DEF CreatorInit, Reached
  <2>4. Mocks = {}
    BY DEF CreatorInit, Mocks, NoProfile
  <2>5. IsFiniteSet(Discoveries) /\ \A d \in Discoveries : Creations[d] = 0
    BY CreatorAssumption DEF CreatorInit, Creations, CreatorAssumption
  <2>6. SumFunctionOnSet(Creations, Discoveries) = 0 /\ Cardinality(Mocks) = 0
    BY <2>4, <2>5, SumZero, FS_EmptySet
  <2> QED
    BY <2>1, <2>2, <2>3, <2>6 DEF DiscoveryInv
<1>2. DiscoveryInv /\ [CreatorNext]_creatorVars => DiscoveryInv'
  <2> SUFFICES ASSUME DiscoveryInv, [CreatorNext]_creatorVars PROVE DiscoveryInv'
    OBVIOUS
  <2>1. CreatorInv /\ CreatorInv'
    BY CreatorStep DEF DiscoveryInv
  <2>2. CASE UNCHANGED creatorVars
    BY <2>1, <2>2, RowsAlone, ManagersKeep DEF creatorVars
  <2>3. ASSUME NEW r \in Recruiters,
               \/ TagByHand(r) \/ ChangeStatus(r) \/ RecruiterFails(r)
               \/ \E h \in Handles : CreateByHand(r, h) \/ \E s \in Stages : ReadStage(r, h, s)
        PROVE  DiscoveryInv'
    BY <2>1, <2>3, ManagerRows, ManagersKeep
  <2> QED
    BY <2>1, <2>2, <2>3, WalkKeeps, ImportsKeep, CreationKeeps DEF CreatorNext
<1>3. DiscoveryInv => DiscoverySafe
  <2> SUFFICES ASSUME DiscoveryInv PROVE DiscoverySafe
    OBVIOUS
  <2>1. CreatorTypeOK
    BY DEF DiscoveryInv, CreatorInv, CreatorTypeOK, Executions, Profiles, Moving
  <2>2. SuccessImportsAll
    <3> SUFFICES ASSUME NEW d \in Discoveries, discovery[d].step = "success",
                        NEW i \in 1 .. Len(Candidates)
                 PROVE  Complete(profile[Candidates[i]])
      BY DEF SuccessImportsAll, Complete
    <3>1. Reached(discovery[d])
      BY DEF DiscoveryInv
    <3>2. discovery[d].at = Len(Candidates)
      BY <3>1 DEF Reached
    <3>3. i \in 1 .. discovery[d].at - 1 \/ i = discovery[d].at
      BY <3>2, LengthIsNumber
    <3> QED
      BY <3>1, <3>3 DEF Reached
  <2>3. CreationsCounted
    BY DEF DiscoveryInv, CreationsCounted, Creations, Mocks
  <2> QED
    BY <2>1, <2>2, <2>3 DEF DiscoverySafe
<1> QED
  BY <1>1, <1>2, <1>3, PTL DEF CreatorSpec

-----------------------------------------------------------------------------
(***************************************************************************)
(* Trends                                                                  *)
(***************************************************************************)

CollectionsTyped ==
  /\ collection \in [Collections ->
       [phase : {"idle", "snapshots", "keywords", "categories", "success"},
        at : Places, alive : BOOLEAN]]
  /\ \A c \in Collections :
       /\ collection[c].phase = "idle" => collection[c].at = 1
       /\ collection[c].phase = "keywords" => collection[c].at \in KeywordCounts

EntriesTyped ==
  /\ entry \in [Admins ->
       [phase : {"idle", "keyword", "category", "uncounted", "done"}, signal : SUBSET Forms]]
  /\ \A a \in Admins : entry[a].phase # "idle" => \E s \in Forms : entry[a].signal = {s}

ScoresTyped == categoryScore \in [Categories -> SUBSET (0 .. 100)]

TrendInv ==
  CollectionsTyped /\ EntriesTyped /\ ScoresTyped /\ TrendTypeOK /\ KeywordsAccounted
    /\ ScoreWithinCategory

Outstanding(k) == SumFunctionOnSet([c \in Collections |-> Uncounted(c, k)], Collections)

LEMMA SignalsTyped ==
  /\ Len(Signals) \in Nat /\ Len(Signals) > 0 /\ 1 \in Places
  /\ Places \subseteq Nat \ {0} /\ IsFiniteSet(Places)
  /\ \A i \in Places : Signals[i] \in Trends /\ Signals[i] \in Range(Signals)
  /\ All \subseteq Trends
<1>1. Len(Signals) \in Nat /\ Len(Signals) > 0 /\ DOMAIN Signals = Places
  BY TrendAssumption DEF Places
<1>2. \A i \in Places : Signals[i] \in Trends /\ Signals[i] \in Range(Signals)
  BY <1>1, TrendAssumption DEF Places, Range
<1>3. Range(Signals) \subseteq Trends
  BY <1>1, <1>2 DEF Range
<1>4. All \subseteq Trends
  BY <1>3, TrendAssumption DEF All
<1>5. IsFiniteSet(Places)
  BY <1>1, FS_Interval DEF Places
<1> QED
  BY <1>1, <1>2, <1>4, <1>5 DEF Places

LEMMA MarksFinite ==
  ASSUME NEW S \in SUBSET Places
  PROVE  IsFiniteSet(S) /\ Cardinality(S) \in Nat
BY SignalsTyped, FS_Subset, FS_CardinalityType

LEMMA NextPlace ==
  ASSUME NEW L \in SUBSET Places, L # {}
  PROVE  LET n == CHOOSE i \in L : \A j \in L : i <= j IN n \in L /\ \A j \in L : n <= j
<1>1. \E i \in L : \A j \in L : i <= j
  BY SignalsTyped, LeastNumber
<1> QED
  BY <1>1

(* Every keyword of the run has one place at which it is counted.           *)
LEMMA PlacesOfKeywords ==
  /\ 1 \in KeywordCounts /\ KeywordCounts \subseteq Places
  /\ \A i \in Places : \E j \in KeywordCounts : Signals[j].keyword = Signals[i].keyword
  /\ \A i, j \in KeywordCounts : Signals[i].keyword = Signals[j].keyword => i = j
<1>1. 1 \in KeywordCounts /\ KeywordCounts \subseteq Places
  BY SignalsTyped DEF KeywordCounts
<1>2. ASSUME NEW i \in Places
      PROVE  \E j \in KeywordCounts : Signals[j].keyword = Signals[i].keyword
  <2> DEFINE Same == {j \in Places : Signals[j].keyword = Signals[i].keyword}
  <2>1. Same \subseteq Nat /\ Same # {}
    BY <1>2, SignalsTyped
  <2>2. PICK j \in Same : \A l \in Same : j <= l
    <3> HIDE DEF Same
    <3> QED
      BY <2>1, LeastNumber
  <2>3. \A l \in 1 .. j - 1 : l \in Places /\ ~(j <= l)
    BY <2>2, SignalsTyped DEF Places
  <2>4. \A l \in 1 .. j - 1 : Signals[l].keyword # Signals[j].keyword
    BY <2>2, <2>3
  <2> QED
    BY <2>2, <2>4 DEF KeywordCounts
<1>3. ASSUME NEW i \in KeywordCounts, NEW j \in KeywordCounts,
             Signals[i].keyword = Signals[j].keyword
      PROVE  i = j
  <2>1. i \in Nat /\ j \in Nat /\ i > 0 /\ j > 0
    BY <1>1, <1>3, SignalsTyped
  <2>2. ~(i < j)
    <3>1. i < j => i \in 1 .. j - 1
      BY <2>1
    <3> QED
      BY <1>3, <3>1 DEF KeywordCounts
  <2>3. ~(j < i)
    <3>1. j < i => j \in 1 .. i - 1
      BY <2>1
    <3> QED
      BY <1>3, <3>1 DEF KeywordCounts
  <2> QED
    BY <2>1, <2>2, <2>3
<1> QED
  BY <1>1, <1>2, <1>3

(* What an execution has not counted.                                       *)
LEMMA UncountedIs ==
  ASSUME NEW c, NEW k
  PROVE  /\ collection[c].phase = "snapshots" =>
              Uncounted(c, k)
                = Cardinality({i \in 1 .. collection[c].at - 1 : Signals[i].keyword = k})
         /\ collection[c].phase = "keywords" =>
              Uncounted(c, k)
                = IF \E i \in KeywordCounts : i >= collection[c].at /\ Signals[i].keyword = k
                  THEN Occurrences(k) ELSE 0
         /\ collection[c].phase \notin {"snapshots", "keywords"} => Uncounted(c, k) = 0
BY Zenon DEF Uncounted, Occurrences

LEMMA UncountedTyped ==
  ASSUME NEW c \in Collections, NEW k, CollectionsTyped
  PROVE  Uncounted(c, k) \in Nat
<1>1. collection[c].at \in Places
  BY DEF CollectionsTyped
<1>2. {i \in 1 .. collection[c].at - 1 : Signals[i].keyword = k} \in SUBSET Places
  BY <1>1, SignalsTyped DEF Places
<1>3. {i \in Places : Signals[i].keyword = k} \in SUBSET Places
  OBVIOUS
<1>4. Cardinality({i \in 1 .. collection[c].at - 1 : Signals[i].keyword = k}) \in Nat
  BY <1>2, MarksFinite
<1>5. Occurrences(k) \in Nat
  BY <1>3, MarksFinite DEF Occurrences
<1> QED
  BY <1>4, <1>5, UncountedIs

(* The step of one execution changes the sum by what it changes of its own. *)
LEMMA OutstandingChanges ==
  ASSUME CollectionsTyped, CollectionsTyped', NEW c \in Collections, NEW k,
         \A d \in Collections \ {c} : collection'[d] = collection[d]
  PROVE  /\ Outstanding(k)' = Outstanding(k) - Uncounted(c, k) + Uncounted(c, k)'
         /\ Outstanding(k) \in Int /\ Outstanding(k)' \in Int
         /\ Uncounted(c, k) \in Nat /\ Uncounted(c, k)' \in Nat
<1> DEFINE f == [d \in Collections |-> Uncounted(d, k)]
           g == [d \in Collections |-> Uncounted(d, k)']
<1>1. \A d \in Collections : f[d] \in Nat
  BY UncountedTyped
<1>2. \A d \in Collections : Uncounted(d, k)' \in Nat
  <2>1. ASSUME NEW d \in Collections PROVE Uncounted(d, k)' \in Nat
    <3>1. collection'[d].at \in Places
      BY DEF CollectionsTyped
    <3>2. {i \in 1 .. collection'[d].at - 1 : Signals[i].keyword = k} \in SUBSET Places
      BY <3>1, SignalsTyped DEF Places
    <3>3. {i \in Places : Signals[i].keyword = k} \in SUBSET Places
      OBVIOUS
    <3>4. Cardinality({i \in 1 .. collection'[d].at - 1 : Signals[i].keyword = k}) \in Nat
      BY <3>2, MarksFinite
    <3>5. Cardinality({i \in Places : Signals[i].keyword = k}) \in Nat
      BY <3>3, MarksFinite
    <3> QED
      BY <3>4, <3>5 DEF Uncounted
  <2> QED
    BY <2>1
<1>3. \A d \in Collections \ {c} : g[d] = f[d]
  <2>1. ASSUME NEW d \in Collections \ {c} PROVE Uncounted(d, k)' = Uncounted(d, k)
    BY Zenon DEF Uncounted
  <2> QED
    BY <2>1
<1>4. Outstanding(k) = SumFunctionOnSet(f, Collections)
  BY Zenon DEF Outstanding
<1>5. Outstanding(k)' = SumFunctionOnSet(g, Collections)
  BY Zenon DEF Outstanding
<1>6. f[c] = Uncounted(c, k) /\ g[c] = Uncounted(c, k)'
  OBVIOUS
<1>7. \A d \in Collections : f[d] \in Int /\ g[d] \in Int
  BY <1>1, <1>2
<1> HIDE DEF f, g
<1>8. /\ SumFunctionOnSet(g, Collections) = SumFunctionOnSet(f, Collections) - f[c] + g[c]
      /\ SumFunctionOnSet(f, Collections) \in Int /\ SumFunctionOnSet(g, Collections) \in Int
  <2>1. SumFunctionOnSet(g, Collections) = SumFunctionOnSet(f, Collections) - f[c] + g[c]
    BY <1>3, <1>7, TrendAssumption, SumChange
  <2> QED
    BY <2>1, <1>7, TrendAssumption, SumType
<1>9. Uncounted(c, k) \in Nat /\ Uncounted(c, k)' \in Nat
  BY <1>1, <1>2, <1>6
<1> QED
  BY <1>4, <1>5, <1>6, <1>8, <1>9

-----------------------------------------------------------------------------
(* The mean of scores lies between the least and the greatest of them *)

LEMMA Multiples ==
  ASSUME NEW a \in Int, NEW b \in Int, NEW n \in Nat, a <= b
  PROVE  n * a <= n * b
BY SMT

LEMMA MultipleOfNext ==
  ASSUME NEW a \in Int, NEW n \in Int
  PROVE  (n + 1) * a = n * a + a
BY SMT

LEMMA SumBetween ==
  ASSUME NEW f, NEW S, IsFiniteSet(S), NEW lo \in Int, NEW hi \in Int,
         \A x \in S : f[x] \in Int /\ lo <= f[x] /\ f[x] <= hi
  PROVE  /\ SumFunctionOnSet(f, S) \in Int
         /\ Cardinality(S) * lo <= SumFunctionOnSet(f, S)
         /\ SumFunctionOnSet(f, S) <= Cardinality(S) * hi
<1> DEFINE P == {s \in SUBSET S : /\ Cardinality(s) * lo <= SumFunctionOnSet(f, s)
                                  /\ SumFunctionOnSet(f, s) <= Cardinality(s) * hi}
<1>1. {} \in P
  BY SumEmpty, FS_EmptySet
<1>2. ASSUME NEW s \in SUBSET S, s # {}, s \ {Some(s)} \in P PROVE s \in P
  <2> DEFINE t == s \ {Some(s)}
             m == Cardinality(t)
             total == SumFunctionOnSet(f, t)
             x == f[Some(s)]
  <2>1. Some(s) \in s /\ IsFiniteSet(s) /\ IsFiniteSet(t)
    BY <1>2, SomeOf, FS_Subset
  <2>2. Cardinality(s) = m + 1 /\ m \in Nat
    BY <2>1, FS_RemoveElement, FS_CardinalityType
  <2>3. SumFunctionOnSet(f, s) = x + total
    BY <1>2, <2>1, SumSome
  <2>4. x \in Int /\ lo <= x /\ x <= hi
    BY <2>1
  <2>5. total \in Int
    BY <2>1, SumType
  <2>6. m * lo <= total /\ total <= m * hi
    BY <1>2
  <2>7. (m + 1) * lo = m * lo + lo /\ (m + 1) * hi = m * hi + hi
    <3>1. m \in Int
      BY <2>2
    <3> HIDE DEF m
    <3> QED
      BY <3>1, MultipleOfNext
  <2>8. m * lo \in Int /\ m * hi \in Int
    BY <2>2
  <2> HIDE DEF t, m, total, x
  <2>9. (m + 1) * lo <= x + total /\ x + total <= (m + 1) * hi
    BY <2>4, <2>5, <2>6, <2>7, <2>8
  <2> QED
    BY <2>2, <2>3, <2>9
<1>3. S \in P
  <2> HIDE DEF P
  <2> QED
    BY <1>1, <1>2, SumInduction
<1> QED
  BY <1>3, SumType

(* Rounding keeps it between them. *)
LEMMA RoundedBetween ==
  ASSUME NEW sum \in Int, NEW n \in Nat \ {0}, NEW lo \in Int, NEW hi \in Int,
         n * lo <= sum, sum <= n * hi
  PROVE  LET q == (2 * sum + n) \div (2 * n) IN q \in Int /\ lo <= q /\ q <= hi
<1> DEFINE d == 2 * n
           q == (2 * sum + n) \div d
<1>1. d \in Nat \ {0} /\ d > 0
  OBVIOUS
<1>2. q \in Int /\ d * q <= 2 * sum + n /\ 2 * sum + n < d * q + d
  BY <1>1
<1>3. lo <= q
  <2>1. SUFFICES ASSUME q < lo PROVE FALSE
    BY <1>2
  <2>2. n * (q + 1) <= n * lo
    BY <1>2, <2>1, Multiples
  <2>3. n * (q + 1) = n * q + n
    BY <1>2
  <2>4. d * q = 2 * (n * q)
    BY <1>2
  <2>5. n * q \in Int /\ n * lo \in Int
    BY <1>2
  <2> HIDE DEF q, d
  <2> QED
    BY <1>2, <2>2, <2>3, <2>4, <2>5, d = 2 * n DEF d
<1>4. q <= hi
  <2>1. SUFFICES ASSUME hi + 1 <= q PROVE FALSE
    BY <1>2
  <2>2. n * (hi + 1) <= n * q
    BY <1>2, <2>1, Multiples
  <2>3. n * (hi + 1) = n * hi + n
    OBVIOUS
  <2>4. d * q = 2 * (n * q)
    BY <1>2
  <2>5. n * q \in Int /\ n * hi \in Int
    BY <1>2
  <2> HIDE DEF q, d
  <2> QED
    BY <1>2, <2>2, <2>3, <2>4, <2>5, d = 2 * n DEF d
<1> QED
  BY <1>2, <1>3, <1>4

LEMMA AverageBetween ==
  ASSUME NEW at \in Places
  PROVE  LET c == Signals[at].category
             score == AverageScore(c)
         IN /\ score \in 0 .. 100
            /\ \E s, t \in All : /\ s.category = c /\ t.category = c
                                 /\ s.trendScore <= score /\ score <= t.trendScore
<1> DEFINE c == Signals[at].category
           sample == {i \in Places : Signals[i].category = c}
           f == [i \in Places |-> Signals[i].trendScore]
           scores == {f[i] : i \in sample}
           gaps == {100 - f[i] : i \in sample}
           sum == SumFunctionOnSet(f, sample)
           n == Cardinality(sample)
<1>1. at \in sample /\ sample \subseteq Places /\ IsFiniteSet(sample) /\ n \in Nat \ {0}
  <2>1. at \in sample /\ sample \subseteq Places
    OBVIOUS
  <2>2. IsFiniteSet(sample) /\ n \in Nat
    BY <2>1, MarksFinite
  <2>3. n # 0
    BY <2>1, <2>2, FS_EmptySet
  <2> QED
    BY <2>1, <2>2, <2>3
<1>2. \A i \in sample : f[i] \in 0 .. 100 /\ Signals[i] \in All /\ f[i] = Signals[i].trendScore
  BY SignalsTyped DEF Trends, All
<1>3. PICK l \in sample : \A i \in sample : f[l] <= f[i]
  <2>1. scores \subseteq Nat /\ scores # {}
    BY <1>1, <1>2
  <2>2. PICK x \in scores : \A y \in scores : x <= y
    <3> HIDE DEF scores
    <3> QED
      BY <2>1, LeastNumber
  <2> HIDE DEF f
  <2> QED
    BY <2>2
<1>4. PICK h \in sample : \A i \in sample : f[i] <= f[h]
  <2>1. gaps \subseteq Nat /\ gaps # {}
    BY <1>1, <1>2
  <2>2. PICK x \in gaps : \A y \in gaps : x <= y
    <3> HIDE DEF gaps
    <3> QED
      BY <2>1, LeastNumber
  <2>3. PICK h \in sample : x = 100 - f[h]
    BY <2>2
  <2>4. \A i \in sample : 100 - f[h] <= 100 - f[i]
    BY <2>2, <2>3
  <2> HIDE DEF f, sample
  <2>5. \A i \in sample : f[i] \in Int
    BY <1>2
  <2> QED
    BY <2>3, <2>4, <2>5
<1>5. /\ sum \in Int /\ n * f[l] <= sum /\ sum <= n * f[h]
      /\ f[l] \in 0 .. 100 /\ f[h] \in 0 .. 100
  <2> HIDE DEF f, sample
  <2>1. \A i \in sample : f[i] \in Int /\ f[l] <= f[i] /\ f[i] <= f[h]
    BY <1>2, <1>3, <1>4
  <2>2. f[l] \in Int /\ f[h] \in Int /\ f[l] \in 0 .. 100 /\ f[h] \in 0 .. 100
    BY <1>2, <1>3, <1>4
  <2> QED
    BY <1>1, <2>1, <2>2, SumBetween
<1>6. AverageScore(c) = (2 * sum + n) \div (2 * n)
  BY DEF AverageScore, Mean
<1>7. AverageScore(c) \in Int /\ f[l] <= AverageScore(c) /\ AverageScore(c) <= f[h]
  <2> HIDE DEF f, sample, sum, n, c
  <2> QED
    BY <1>1, <1>5, <1>6, RoundedBetween
<1>8. /\ Signals[l] \in All /\ Signals[l].category = c /\ Signals[l].trendScore = f[l]
      /\ Signals[h] \in All /\ Signals[h].category = c /\ Signals[h].trendScore = f[h]
  BY <1>2, <1>3, <1>4
<1> HIDE DEF f, sample, sum, n, c
<1>9. AverageScore(c) \in 0 .. 100
  BY <1>5, <1>7
<1> QED
  BY <1>7, <1>8, <1>9 DEF c

-----------------------------------------------------------------------------
(* The steps of an execution *)

LEMMA TrendStart == TrendInit => TrendInv
<1> SUFFICES ASSUME TrendInit PROVE TrendInv
  OBVIOUS
<1>1. CollectionsTyped
  BY SignalsTyped DEF TrendInit, CollectionsTyped
<1>2. EntriesTyped /\ ScoresTyped
  BY DEF TrendInit, EntriesTyped, ScoresTyped
<1>3. TrendTypeOK
  <2>1. \A c \in Categories : Cardinality(categoryScore[c]) <= 1
    BY FS_EmptySet DEF TrendInit
  <2> QED
    BY <2>1 DEF TrendInit, TrendTypeOK
<1>4. KeywordsAccounted
  <2>1. ASSUME NEW k \in Keywords
        PROVE  snapshots[k] = frequency[k] + Outstanding(k) + Cardinality(Entered(k))
    <3>1. snapshots[k] = 0 /\ frequency[k] = 0
      BY DEF TrendInit
    <3>2. Entered(k) = {}
      BY DEF TrendInit, Entered
    <3>3. \A c \in Collections : Uncounted(c, k) = 0
      BY UncountedIs DEF TrendInit
    <3>4. Outstanding(k) = 0
      BY <3>3, TrendAssumption, SumZero DEF Outstanding
    <3> QED
      BY <3>1, <3>2, <3>4, FS_EmptySet
  <2> QED
    BY <2>1, Zenon DEF KeywordsAccounted, Outstanding
<1>5. ScoreWithinCategory
  BY DEF TrendInit, ScoreWithinCategory
<1> QED
  BY <1>1, <1>2, <1>3, <1>4, <1>5 DEF TrendInv

(* Where a loop goes: to its next place, or to the next phase at place 1.   *)
LEMMA AdvanceIs ==
  ASSUME CollectionsTyped, NEW c \in Collections, NEW S \in SUBSET Places,
         NEW next \in {"keywords", "categories", "success"}, Advance(c, S, next)
  PROVE  LET later == {i \in S : i > collection[c].at}
         IN /\ collection' \in [Collections ->
                 [phase : {"idle", "snapshots", "keywords", "categories", "success"},
                  at : Places, alive : BOOLEAN]]
            /\ \A d \in Collections \ {c} : collection'[d] = collection[d]
            /\ later = {} => collection'[c].phase = next /\ collection'[c].at = 1
            /\ later # {} => /\ collection'[c].phase = collection[c].phase
                             /\ collection'[c].at \in later
                             /\ \A j \in later : collection'[c].at <= j
<1> DEFINE later == {i \in S : i > collection[c].at}
           n == CHOOSE i \in later : \A j \in later : i <= j
<1>1. later # {} => n \in later /\ \A j \in later : n <= j
  <2>1. later \in SUBSET Places
    OBVIOUS
  <2> HIDE DEF later
  <2> QED
    BY <2>1, NextPlace
<1>2. /\ collection \in [Collections ->
           [phase : {"idle", "snapshots", "keywords", "categories", "success"},
            at : Places, alive : BOOLEAN]]
      /\ later \subseteq Places /\ 1 \in Places
  BY SignalsTyped DEF CollectionsTyped
<1>3. collection' = [collection EXCEPT
        ![c] = IF later = {} THEN [@ EXCEPT !.phase = next, !.at = 1] ELSE [@ EXCEPT !.at = n]]
  BY Zenon DEF Advance
<1> HIDE DEF later, n
<1>4. CASE later = {}
  <2>1. collection' = [collection EXCEPT ![c] = [collection[c] EXCEPT !.phase = next, !.at = 1]]
    BY <1>3, <1>4
  <2>2. [collection[c] EXCEPT !.phase = next, !.at = 1] \in
          [phase : {"idle", "snapshots", "keywords", "categories", "success"},
           at : Places, alive : BOOLEAN]
    BY <1>2
  <2> QED
    BY <1>2, <1>4, <2>1, <2>2 DEF later
<1>5. CASE later # {}
  <2>1. collection' = [collection EXCEPT ![c] = [collection[c] EXCEPT !.at = n]]
    BY <1>3, <1>5
  <2>2. n \in later /\ (\A j \in later : n <= j) /\ n \in Places
    BY <1>1, <1>2, <1>5
  <2>3. [collection[c] EXCEPT !.at = n] \in
          [phase : {"idle", "snapshots", "keywords", "categories", "success"},
           at : Places, alive : BOOLEAN]
    BY <1>2, <2>2
  <2>4. /\ collection'[c].phase = collection[c].phase
        /\ collection'[c].at = n
    BY <1>2, <2>1
  <2>5. /\ \A d \in Collections \ {c} : collection'[d] = collection[d]
        /\ collection' \in [Collections ->
             [phase : {"idle", "snapshots", "keywords", "categories", "success"},
              at : Places, alive : BOOLEAN]]
    BY <1>2, <2>1, <2>3
  <2> QED
    BY <1>5, <2>2, <2>4, <2>5 DEF later
<1> QED
  BY <1>4, <1>5

(* What a step must keep of the count, stated for the step.                 *)
LEMMA AccountsKept ==
  ASSUME CollectionsTyped, CollectionsTyped', TrendTypeOK, KeywordsAccounted,
         snapshots' \in [Keywords -> Nat], frequency' \in [Keywords -> Nat],
         entry' = entry, NEW c \in Collections,
         \A d \in Collections \ {c} : collection'[d] = collection[d],
         \A k \in Keywords : snapshots'[k] - snapshots[k]
           = frequency'[k] - frequency[k] + Uncounted(c, k)' - Uncounted(c, k)
  PROVE  KeywordsAccounted'
<1>1. ASSUME NEW k \in Keywords
      PROVE  snapshots'[k] = frequency'[k] + Outstanding(k)' + Cardinality(Entered(k))'
  <2>1. snapshots[k] = frequency[k] + Outstanding(k) + Cardinality(Entered(k))
    BY Zenon DEF KeywordsAccounted, Outstanding
  <2>2. /\ Outstanding(k)' = Outstanding(k) - Uncounted(c, k) + Uncounted(c, k)'
        /\ Outstanding(k) \in Int /\ Outstanding(k)' \in Int
        /\ Uncounted(c, k) \in Nat /\ Uncounted(c, k)' \in Nat
    BY OutstandingChanges
  <2>3. Cardinality(Entered(k))' = Cardinality(Entered(k))
    BY Zenon DEF Entered
  <2>4. Cardinality(Entered(k)) \in Nat
    <3>1. Entered(k) \subseteq Admins
      BY DEF Entered
    <3> QED
      BY <3>1, TrendAssumption, FS_Subset, FS_CardinalityType
  <2>5. /\ snapshots[k] \in Nat /\ frequency[k] \in Nat
        /\ snapshots'[k] \in Nat /\ frequency'[k] \in Nat
    BY DEF TrendTypeOK
  <2> QED
    BY <2>1, <2>2, <2>3, <2>4, <2>5
<1> QED
  BY <1>1, Zenon DEF KeywordsAccounted, Outstanding

LEMMA EntriesKept == ASSUME EntriesTyped, entry' = entry PROVE EntriesTyped'
BY Zenon DEF EntriesTyped

LEMMA ScoresKept ==
  ASSUME ScoresTyped, ScoreWithinCategory, categoryScore' = categoryScore
  PROVE  ScoresTyped' /\ ScoreWithinCategory'
BY Zenon DEF ScoresTyped, ScoreWithinCategory

LEMMA TrendTypeKept ==
  ASSUME EntriesTyped',
         snapshots' \in [Keywords -> Nat], frequency' \in [Keywords -> Nat],
         \A n \in Categories : Cardinality(categoryScore'[n]) <= 1
  PROVE  TrendTypeOK'
<1>1. \A a \in Admins : entry'[a].signal \subseteq Forms
  BY DEF EntriesTyped
<1> QED
  BY <1>1 DEF TrendTypeOK

LEMMA CollectKeeps ==
  ASSUME TrendInv, NEW c \in Collections, Collect(c)
  PROVE  TrendInv'
<1> USE DEF TrendInv
<1>1. /\ collection[c].phase = "idle" /\ collection[c].at = 1
      /\ collection' = [collection EXCEPT ![c].phase = "snapshots"]
      /\ collection'[c].phase = "snapshots" /\ collection'[c].at = 1
      /\ \A d \in Collections \ {c} : collection'[d] = collection[d]
  BY DEF Collect, Working, CollectionsTyped
<1>2. CollectionsTyped'
  BY <1>1 DEF CollectionsTyped
<1>3. UNCHANGED <<snapshots, frequency, categoryScore, entry>>
  BY DEF Collect
<1>4. EntriesTyped' /\ ScoresTyped' /\ ScoreWithinCategory'
  BY <1>3, EntriesKept, ScoresKept
<1>5. TrendTypeOK'
  BY <1>3, <1>4, TrendTypeKept DEF TrendTypeOK
<1>6. \A k \in Keywords : Uncounted(c, k)' = 0 /\ Uncounted(c, k) = 0
  <2>1. ASSUME NEW k \in Keywords PROVE Uncounted(c, k)' = 0
    <3>1. Uncounted(c, k)' = Cardinality({i \in 1 .. 1 - 1 : Signals[i].keyword = k})
      BY <1>1, Zenon DEF Uncounted
    <3>2. {i \in 1 .. 1 - 1 : Signals[i].keyword = k} = {}
      OBVIOUS
    <3> QED
      BY <3>1, <3>2, FS_EmptySet
  <2>2. \A k \in Keywords : Uncounted(c, k) = 0
    BY <1>1, UncountedIs
  <2> QED
    BY <2>1, <2>2
<1>7. \A k \in Keywords : snapshots'[k] - snapshots[k]
        = frequency'[k] - frequency[k] + Uncounted(c, k)' - Uncounted(c, k)
  <2>1. ASSUME NEW k \in Keywords
        PROVE  snapshots'[k] - snapshots[k]
                 = frequency'[k] - frequency[k] + Uncounted(c, k)' - Uncounted(c, k)
    <3>1. snapshots[k] \in Nat /\ frequency[k] \in Nat
      BY DEF TrendTypeOK
    <3>2. snapshots'[k] = snapshots[k] /\ frequency'[k] = frequency[k]
      BY <1>3
    <3> QED
      BY <1>6, <3>1, <3>2
  <2> QED
    BY <2>1
<1>8. snapshots' \in [Keywords -> Nat] /\ frequency' \in [Keywords -> Nat]
  BY <1>3 DEF TrendTypeOK
<1>9. KeywordsAccounted'
  BY <1>1, <1>2, <1>3, <1>7, <1>8, AccountsKept
<1> QED
  BY <1>2, <1>4, <1>5, <1>9

LEMMA CreateSnapshotKeeps ==
  ASSUME TrendInv, NEW c \in Collections, CreateSnapshot(c)
  PROVE  TrendInv'
<1> USE DEF TrendInv
<1> DEFINE at == collection[c].at
           kw == Signals[at].keyword
           later == {i \in Places : i > at}
<1>1. /\ collection[c].phase = "snapshots" /\ at \in Places /\ kw \in Keywords
      /\ snapshots' = [snapshots EXCEPT ![kw] = @ + 1] /\ Advance(c, Places, "keywords")
      /\ UNCHANGED <<frequency, categoryScore, entry>>
  BY SignalsTyped DEF CreateSnapshot, Working, CollectionsTyped, Trends
<1>2. /\ collection' \in [Collections ->
           [phase : {"idle", "snapshots", "keywords", "categories", "success"},
            at : Places, alive : BOOLEAN]]
      /\ \A d \in Collections \ {c} : collection'[d] = collection[d]
      /\ later = {} => collection'[c].phase = "keywords" /\ collection'[c].at = 1
      /\ later # {} => /\ collection'[c].phase = collection[c].phase
                       /\ collection'[c].at \in later
                       /\ \A j \in later : collection'[c].at <= j
  BY <1>1, AdvanceIs
<1>3. CollectionsTyped'
  <2>1. ASSUME NEW d \in Collections
        PROVE  /\ collection'[d].phase = "idle" => collection'[d].at = 1
               /\ collection'[d].phase = "keywords" => collection'[d].at \in KeywordCounts
    <3>1. CASE d # c
      BY <1>2, <3>1 DEF CollectionsTyped
    <3>2. CASE d = c
      BY <1>1, <1>2, <3>2, PlacesOfKeywords
    <3> QED
      BY <3>1, <3>2
  <2> QED
    BY <1>2, <2>1 DEF CollectionsTyped
<1>4. snapshots' \in [Keywords -> Nat] /\ frequency' \in [Keywords -> Nat]
  BY <1>1 DEF TrendTypeOK
<1>5. EntriesTyped' /\ ScoresTyped' /\ ScoreWithinCategory'
  BY <1>1, EntriesKept, ScoresKept
<1>6. TrendTypeOK'
  BY <1>1, <1>4, <1>5, TrendTypeKept DEF TrendTypeOK
<1>7. ASSUME NEW k \in Keywords
      PROVE  snapshots'[k] - snapshots[k]
               = frequency'[k] - frequency[k] + Uncounted(c, k)' - Uncounted(c, k)
  <2> DEFINE old == {i \in 1 .. at - 1 : Signals[i].keyword = k}
             new == {i \in 1 .. at : Signals[i].keyword = k}
  <2>1. at \in Nat /\ at > 0 /\ Len(Signals) \in Nat /\ at <= Len(Signals)
    BY <1>1, SignalsTyped DEF Places
  <2>2. Uncounted(c, k) = Cardinality(old)
    BY <1>1, UncountedIs
  <2>3. Uncounted(c, k)' = Cardinality(new)
    <3>1. CASE later # {}
      <4>1. collection'[c].phase = "snapshots" /\ collection'[c].at = at + 1
        <5>1. collection'[c].at \in Nat /\ collection'[c].at > at
              /\ collection'[c].at <= Len(Signals)
          BY <1>2, <3>1, SignalsTyped DEF Places
        <5>2. at + 1 \in later
          BY <2>1, <5>1 DEF Places
        <5>3. collection'[c].at <= at + 1
          BY <1>2, <3>1, <5>2
        <5> QED
          BY <1>1, <1>2, <2>1, <3>1, <5>1, <5>3
      <4>2. Uncounted(c, k)' = Cardinality({i \in 1 .. (at + 1) - 1 : Signals[i].keyword = k})
        BY <4>1, Zenon DEF Uncounted
      <4>3. (at + 1) - 1 = at
        BY <2>1
      <4> QED
        BY <4>2, <4>3
    <3>2. CASE later = {}
      <4>1. collection'[c].phase = "keywords" /\ collection'[c].at = 1
        BY <1>2, <3>2
      <4>2. at = Len(Signals)
        <5>1. Len(Signals) \notin later
          BY <3>2
        <5> QED
          BY <2>1, <5>1 DEF Places
      <4>3. new = {i \in Places : Signals[i].keyword = k}
        BY <4>2 DEF Places
      <4>4. Uncounted(c, k)' =
              IF \E i \in KeywordCounts : i >= 1 /\ Signals[i].keyword = k
              THEN Occurrences(k) ELSE 0
        BY <4>1, Zenon DEF Uncounted, Occurrences
      <4>5. CASE new = {}
        <5>1. ~ \E i \in KeywordCounts : i >= 1 /\ Signals[i].keyword = k
          BY <4>3, <4>5, PlacesOfKeywords
        <5> QED
          BY <4>4, <4>5, <5>1, FS_EmptySet
      <4>6. CASE new # {}
        <5>1. PICK i \in Places : Signals[i].keyword = k
          BY <4>3, <4>6
        <5>2. PICK j \in KeywordCounts : Signals[j].keyword = k
          BY <5>1, PlacesOfKeywords
        <5>3. j >= 1
          BY <5>2, PlacesOfKeywords, SignalsTyped
        <5> QED
          BY <4>3, <4>4, <5>2, <5>3 DEF Occurrences
      <4> QED
        BY <4>5, <4>6
    <3> QED
      BY <3>1, <3>2
  <2>4. IsFiniteSet(old) /\ Cardinality(old) \in Nat /\ at \notin old
    <3>1. old \in SUBSET Places
      BY <2>1 DEF Places
    <3> QED
      BY <2>1, <3>1, MarksFinite
  <2>5. Cardinality(new) = Cardinality(old) + (IF k = kw THEN 1 ELSE 0)
    <3>1. CASE k = kw
      <4>1. new = old \cup {at}
        BY <2>1, <3>1
      <4> QED
        BY <2>4, <3>1, <4>1, FS_AddElement
    <3>2. CASE k # kw
      <4>1. new = old
        BY <2>1, <3>2
      <4> HIDE DEF old, new, kw
      <4> QED
        BY <2>4, <3>2, <4>1
    <3> QED
      BY <3>1, <3>2
  <2>6. /\ snapshots[k] \in Nat /\ frequency[k] \in Nat /\ frequency'[k] = frequency[k]
        /\ snapshots'[k] = snapshots[k] + (IF k = kw THEN 1 ELSE 0)
    BY <1>1 DEF TrendTypeOK
  <2> HIDE DEF old, new, kw, at
  <2> QED
    BY <2>2, <2>3, <2>4, <2>5, <2>6
<1>8. KeywordsAccounted'
  BY <1>1, <1>2, <1>3, <1>4, <1>7, AccountsKept
<1> QED
  BY <1>3, <1>5, <1>6, <1>8

LEMMA UpsertKeywordKeeps ==
  ASSUME TrendInv, NEW c \in Collections, UpsertKeyword(c)
  PROVE  TrendInv'
<1> USE DEF TrendInv
<1> DEFINE at == collection[c].at
           kw == Signals[at].keyword
           later == {i \in KeywordCounts : i > at}
<1>1. /\ collection[c].phase = "keywords" /\ at \in Places /\ at \in KeywordCounts
      /\ kw \in Keywords
      /\ frequency' = [frequency EXCEPT ![kw] = @ + Occurrences(kw)]
      /\ Advance(c, KeywordCounts, "categories")
      /\ UNCHANGED <<snapshots, categoryScore, entry>>
  BY SignalsTyped DEF UpsertKeyword, Working, CollectionsTyped, Trends, CountKeyword
<1>2. /\ collection' \in [Collections ->
           [phase : {"idle", "snapshots", "keywords", "categories", "success"},
            at : Places, alive : BOOLEAN]]
      /\ \A d \in Collections \ {c} : collection'[d] = collection[d]
      /\ later = {} => collection'[c].phase = "categories" /\ collection'[c].at = 1
      /\ later # {} => /\ collection'[c].phase = collection[c].phase
                       /\ collection'[c].at \in later
                       /\ \A j \in later : collection'[c].at <= j
  BY <1>1, PlacesOfKeywords, AdvanceIs
<1>3. CollectionsTyped'
  <2>1. ASSUME NEW d \in Collections
        PROVE  /\ collection'[d].phase = "idle" => collection'[d].at = 1
               /\ collection'[d].phase = "keywords" => collection'[d].at \in KeywordCounts
    <3>1. CASE d # c
      BY <1>2, <3>1 DEF CollectionsTyped
    <3>2. CASE d = c
      BY <1>1, <1>2, <3>2
    <3> QED
      BY <3>1, <3>2
  <2> QED
    BY <1>2, <2>1 DEF CollectionsTyped
<1>4. ASSUME NEW k PROVE Occurrences(k) \in Nat
  BY MarksFinite DEF Occurrences
<1>5. snapshots' \in [Keywords -> Nat] /\ frequency' \in [Keywords -> Nat]
  <2>1. frequency \in [Keywords -> Nat] /\ frequency[kw] + Occurrences(kw) \in Nat
    BY <1>1, <1>4 DEF TrendTypeOK
  <2> QED
    BY <1>1, <2>1 DEF TrendTypeOK
<1>6. EntriesTyped' /\ ScoresTyped' /\ ScoreWithinCategory'
  BY <1>1, EntriesKept, ScoresKept
<1>7. TrendTypeOK'
  BY <1>1, <1>5, <1>6, TrendTypeKept DEF TrendTypeOK
<1>8. ASSUME NEW k \in Keywords
      PROVE  snapshots'[k] - snapshots[k]
               = frequency'[k] - frequency[k] + Uncounted(c, k)' - Uncounted(c, k)
  <2> DEFINE before == \E i \in KeywordCounts : i >= at /\ Signals[i].keyword = k
             after == \E i \in later : Signals[i].keyword = k
  <2>1. Uncounted(c, k) = IF before THEN Occurrences(k) ELSE 0
    BY <1>1, UncountedIs
  <2>2. Uncounted(c, k)' = IF after THEN Occurrences(k) ELSE 0
    <3>1. CASE later = {}
      <4>1. collection'[c].phase = "categories"
        BY <1>2, <3>1
      <4>2. Uncounted(c, k)' = 0
        BY <4>1, Zenon DEF Uncounted
      <4> QED
        BY <3>1, <4>2
    <3>2. CASE later # {}
      <4>1. PICK n : n = collection'[c].at
        OBVIOUS
      <4>2. collection'[c].phase = "keywords" /\ n \in later /\ \A j \in later : n <= j
        BY <1>1, <1>2, <3>2, <4>1
      <4>3. Uncounted(c, k)' =
              IF \E i \in KeywordCounts : i >= n /\ Signals[i].keyword = k
              THEN Occurrences(k) ELSE 0
        BY <4>1, <4>2, Zenon DEF Uncounted, Occurrences
      <4>4. \A i \in KeywordCounts : i >= n <=> i \in later
        <5>1. KeywordCounts \subseteq Nat
          BY PlacesOfKeywords, SignalsTyped
        <5> QED
          BY <1>1, <4>2, <5>1
      <4> QED
        BY <4>3, <4>4
    <3> QED
      BY <3>1, <3>2
  <2>3. KeywordCounts \subseteq Nat
    BY PlacesOfKeywords, SignalsTyped
  <2>4. /\ snapshots'[k] = snapshots[k] /\ snapshots[k] \in Nat /\ frequency[k] \in Nat
        /\ frequency'[k] = frequency[k] + (IF k = kw THEN Occurrences(k) ELSE 0)
    <3>1. snapshots[k] \in Nat /\ frequency[k] \in Nat /\ frequency \in [Keywords -> Nat]
      BY DEF TrendTypeOK
    <3> HIDE DEF kw
    <3> QED
      BY <1>1, <3>1
  <2>5. CASE k = kw
    <3>1. before
      <4>1. at \in Nat
        BY <1>1, <2>3
      <4>2. at >= at
        BY <4>1
      <4> HIDE DEF at
      <4> QED
        BY <1>1, <2>5, <4>2 DEF kw
    <3>2. ~after
      <4>1. SUFFICES ASSUME NEW i \in later, Signals[i].keyword = k PROVE FALSE
        OBVIOUS
      <4>2. i = at
        BY <1>1, <2>5, <4>1, PlacesOfKeywords
      <4> QED
        BY <2>3, <4>1, <4>2
    <3> HIDE DEF before, after, kw
    <3>3. Occurrences(k) \in Nat
      BY <1>4
    <3> QED
      BY <2>1, <2>2, <2>4, <2>5, <3>1, <3>2, <3>3
  <2>6. CASE k # kw
    <3>1. before <=> after
      <4>1. \A i \in KeywordCounts : Signals[i].keyword = k => i # at
        BY <2>6
      <4>2. \A i \in KeywordCounts : i # at => (i >= at <=> i \in later)
        <5>1. at \in Nat
          BY <1>1, <2>3
        <5>2. ASSUME NEW i \in KeywordCounts, i # at PROVE i >= at <=> i > at
          <6>1. i \in Nat
            BY <2>3
          <6> HIDE DEF at
          <6> QED
            BY <5>1, <5>2, <6>1
        <5> HIDE DEF at
        <5> QED
          BY <5>2
      <4>3. later \subseteq KeywordCounts
        OBVIOUS
      <4>4. before => after
        <5> HIDE DEF later, at
        <5> QED
          BY <4>1, <4>2, Zenon
      <4>5. after => before
        <5> HIDE DEF later, at
        <5> QED
          BY <4>1, <4>2, <4>3, Zenon
      <4> QED
        BY <4>4, <4>5, Zenon
    <3>2. Uncounted(c, k)' = Uncounted(c, k)
      <4> HIDE DEF before, after
      <4> QED
        BY <2>1, <2>2, <3>1
    <3>3. Uncounted(c, k) \in Nat
      BY UncountedTyped
    <3> HIDE DEF kw
    <3>4. frequency'[k] = frequency[k]
      BY <2>4, <2>6
    <3> QED
      BY <2>4, <3>2, <3>3, <3>4
  <2> QED
    BY <2>5, <2>6
<1>9. KeywordsAccounted'
  BY <1>1, <1>2, <1>3, <1>5, <1>8, AccountsKept
<1> QED
  BY <1>3, <1>6, <1>7, <1>9

(* A score that is written lies within the scores of its category.          *)
LEMMA ScoringKeeps ==
  ASSUME ScoresTyped, TrendTypeOK, ScoreWithinCategory, NEW n \in Categories,
         NEW score \in 0 .. 100, ScoreCategory(n, score),
         \E s, t \in All : /\ s.category = n /\ t.category = n
                           /\ s.trendScore <= score /\ score <= t.trendScore
  PROVE  /\ ScoresTyped' /\ ScoreWithinCategory'
         /\ \A m \in Categories : Cardinality(categoryScore'[m]) <= 1
<1>1. categoryScore' = [categoryScore EXCEPT ![n] = {score}]
  BY DEF ScoreCategory
<1>2. /\ categoryScore \in [Categories -> SUBSET (0 .. 100)]
      /\ categoryScore'[n] = {score}
      /\ \A m \in Categories \ {n} : categoryScore'[m] = categoryScore[m]
  BY <1>1 DEF ScoresTyped
<1>3. ScoresTyped'
  BY <1>1, <1>2 DEF ScoresTyped
<1>4. Cardinality({score}) = 1
  BY FS_Singleton
<1>5. \A m \in Categories : Cardinality(categoryScore'[m]) <= 1
  <2>1. ASSUME NEW m \in Categories PROVE Cardinality(categoryScore'[m]) <= 1
    <3>1. CASE m = n
      BY <1>2, <1>4, <3>1
    <3>2. CASE m # n
      BY <1>2, <3>2 DEF TrendTypeOK
    <3> QED
      BY <3>1, <3>2
  <2> QED
    BY <2>1
<1>6. ScoreWithinCategory'
  <2>1. ASSUME NEW m \in Categories, NEW x \in categoryScore'[m]
        PROVE  \E s, t \in All : /\ s.category = m /\ t.category = m
                                 /\ s.trendScore <= x /\ x <= t.trendScore
    <3>1. CASE m = n
      BY <1>2, <2>1, <3>1
    <3>2. CASE m # n
      BY <1>2, <2>1, <3>2 DEF ScoreWithinCategory
    <3> QED
      BY <3>1, <3>2
  <2> QED
    BY <2>1 DEF ScoreWithinCategory
<1> QED
  BY <1>3, <1>5, <1>6

LEMMA UpsertCategoryKeeps ==
  ASSUME TrendInv, NEW c \in Collections, UpsertCategory(c)
  PROVE  TrendInv'
<1> USE DEF TrendInv
<1> DEFINE at == collection[c].at
           n == Signals[at].category
<1>1. /\ collection[c].phase = "categories" /\ at \in Places /\ n \in Categories
      /\ ScoreCategory(n, AverageScore(n))
      /\ Advance(c, ScoresByCategory, "success")
      /\ UNCHANGED <<snapshots, frequency, entry>>
  BY SignalsTyped DEF UpsertCategory, Working, CollectionsTyped, Trends
<1>2. ScoresByCategory \in SUBSET Places
  BY DEF ScoresByCategory
<1>3. /\ collection' \in [Collections ->
           [phase : {"idle", "snapshots", "keywords", "categories", "success"},
            at : Places, alive : BOOLEAN]]
      /\ \A d \in Collections \ {c} : collection'[d] = collection[d]
      /\ collection'[c].phase \in {"categories", "success"}
  BY <1>1, <1>2, AdvanceIs
<1>4. CollectionsTyped'
  <2>1. ASSUME NEW d \in Collections
        PROVE  /\ collection'[d].phase = "idle" => collection'[d].at = 1
               /\ collection'[d].phase = "keywords" => collection'[d].at \in KeywordCounts
    <3>1. CASE d # c
      BY <1>3, <3>1 DEF CollectionsTyped
    <3>2. CASE d = c
      BY <1>3, <3>2
    <3> QED
      BY <3>1, <3>2
  <2> QED
    BY <1>3, <2>1 DEF CollectionsTyped
<1>5. /\ AverageScore(n) \in 0 .. 100
      /\ \E s, t \in All : /\ s.category = n /\ t.category = n
                           /\ s.trendScore <= AverageScore(n)
                           /\ AverageScore(n) <= t.trendScore
  BY <1>1, AverageBetween
<1>6. /\ ScoresTyped' /\ ScoreWithinCategory'
      /\ \A m \in Categories : Cardinality(categoryScore'[m]) <= 1
  <2> HIDE DEF n
  <2> QED
    BY <1>1, <1>5, ScoringKeeps
<1>7. EntriesTyped'
  BY <1>1, EntriesKept
<1>8. snapshots' \in [Keywords -> Nat] /\ frequency' \in [Keywords -> Nat]
  BY <1>1 DEF TrendTypeOK
<1>9. TrendTypeOK'
  BY <1>6, <1>7, <1>8, TrendTypeKept
<1>10. ASSUME NEW k \in Keywords
       PROVE  snapshots'[k] - snapshots[k]
                = frequency'[k] - frequency[k] + Uncounted(c, k)' - Uncounted(c, k)
  <2>1. Uncounted(c, k) = 0
    BY <1>1, UncountedIs
  <2>2. Uncounted(c, k)' = 0
    BY <1>3, Zenon DEF Uncounted
  <2>3. /\ snapshots[k] \in Nat /\ frequency[k] \in Nat
        /\ snapshots'[k] = snapshots[k] /\ frequency'[k] = frequency[k]
    BY <1>1 DEF TrendTypeOK
  <2> QED
    BY <2>1, <2>2, <2>3
<1>11. KeywordsAccounted'
  BY <1>1, <1>3, <1>4, <1>8, <1>10, AccountsKept
<1> QED
  BY <1>4, <1>6, <1>7, <1>9, <1>11

LEMMA CollectionFailsKeeps ==
  ASSUME TrendInv, NEW c \in Collections, CollectionFails(c)
  PROVE  TrendInv'
<1> USE DEF TrendInv
<1>1. /\ collection' = [collection EXCEPT ![c].alive = FALSE]
      /\ UNCHANGED <<snapshots, frequency, categoryScore, entry>>
  BY DEF CollectionFails
<1>2. \A d \in Collections : /\ collection'[d].phase = collection[d].phase
                             /\ collection'[d].at = collection[d].at
  BY <1>1 DEF CollectionsTyped
<1>3. \A d \in Collections \ {c} : collection'[d] = collection[d]
  BY <1>1 DEF CollectionsTyped
<1>4. CollectionsTyped'
  BY <1>1 DEF CollectionsTyped
<1>5. EntriesTyped' /\ ScoresTyped' /\ ScoreWithinCategory'
  BY <1>1, EntriesKept, ScoresKept
<1>6. snapshots' \in [Keywords -> Nat] /\ frequency' \in [Keywords -> Nat]
  BY <1>1 DEF TrendTypeOK
<1>7. TrendTypeOK'
  BY <1>1, <1>5, <1>6, TrendTypeKept DEF TrendTypeOK
<1>8. ASSUME NEW k \in Keywords
      PROVE  snapshots'[k] - snapshots[k]
               = frequency'[k] - frequency[k] + Uncounted(c, k)' - Uncounted(c, k)
  <2>1. Uncounted(c, k)' = Uncounted(c, k)
    BY <1>2, Zenon DEF Uncounted
  <2>2. Uncounted(c, k) \in Nat
    BY UncountedTyped
  <2>3. /\ snapshots[k] \in Nat /\ frequency[k] \in Nat
        /\ snapshots'[k] = snapshots[k] /\ frequency'[k] = frequency[k]
    BY <1>1 DEF TrendTypeOK
  <2> QED
    BY <2>1, <2>2, <2>3
<1>9. KeywordsAccounted'
  BY <1>1, <1>3, <1>4, <1>6, <1>8, AccountsKept
<1> QED
  BY <1>4, <1>5, <1>7, <1>9

-----------------------------------------------------------------------------
(* The steps of a request with a form *)

(* A step of a request keeps the count if the request owes what the step    *)
(* stored and did not count.                                                *)
LEMMA EntryAccounts ==
  ASSUME TrendTypeOK, KeywordsAccounted, CollectionsTyped, collection' = collection,
         snapshots' \in [Keywords -> Nat], frequency' \in [Keywords -> Nat],
         \A k \in Keywords : snapshots'[k] - snapshots[k]
           = frequency'[k] - frequency[k]
               + Cardinality(Entered(k)') - Cardinality(Entered(k))
  PROVE  KeywordsAccounted'
<1>1. ASSUME NEW k \in Keywords
      PROVE  snapshots'[k] = frequency'[k] + Outstanding(k)' + Cardinality(Entered(k))'
  <2>1. snapshots[k] = frequency[k] + Outstanding(k) + Cardinality(Entered(k))
    BY Zenon DEF KeywordsAccounted, Outstanding
  <2>2. Outstanding(k)' = Outstanding(k)
    BY Zenon DEF Outstanding, Uncounted
  <2>3. Outstanding(k) \in Int
    BY UncountedTyped, TrendAssumption, SumType DEF Outstanding
  <2>4. Cardinality(Entered(k)) \in Nat /\ Cardinality(Entered(k)') \in Nat
    <3>1. Entered(k) \subseteq Admins /\ Entered(k)' \subseteq Admins
      BY DEF Entered
    <3> QED
      BY <3>1, TrendAssumption, FS_Subset, FS_CardinalityType
  <2>5. /\ snapshots[k] \in Nat /\ frequency[k] \in Nat
        /\ snapshots'[k] \in Nat /\ frequency'[k] \in Nat
    BY DEF TrendTypeOK
  <2>6. snapshots'[k] - snapshots[k]
          = frequency'[k] - frequency[k] + Cardinality(Entered(k)') - Cardinality(Entered(k))
    OBVIOUS
  <2> QED
    BY <2>1, <2>2, <2>3, <2>4, <2>5, <2>6
<1> QED
  BY <1>1, Zenon DEF KeywordsAccounted, Outstanding

LEMMA CollectionsKept ==
  ASSUME CollectionsTyped, collection' = collection PROVE CollectionsTyped'
BY Zenon DEF CollectionsTyped

LEMMA EnterSnapshotKeeps ==
  ASSUME TrendInv, NEW a \in Admins, NEW s \in Forms, EnterSnapshot(a, s)
  PROVE  TrendInv'
<1> USE DEF TrendInv
<1>1. /\ entry[a].phase = "idle" /\ s.keyword \in Keywords
      /\ snapshots' = [snapshots EXCEPT ![s.keyword] = @ + 1]
      /\ entry' = [entry EXCEPT ![a] = [phase |-> "keyword", signal |-> {s}]]
      /\ UNCHANGED <<frequency, categoryScore, collection>>
  BY TrendAssumption DEF EnterSnapshot, Trends
<1>2. EntriesTyped'
  BY <1>1 DEF EntriesTyped
<1>3. CollectionsTyped' /\ ScoresTyped' /\ ScoreWithinCategory'
  BY <1>1, CollectionsKept, ScoresKept
<1>4. snapshots' \in [Keywords -> Nat] /\ frequency' \in [Keywords -> Nat]
  BY <1>1 DEF TrendTypeOK
<1>5. TrendTypeOK'
  BY <1>1, <1>2, <1>4, TrendTypeKept DEF TrendTypeOK
<1>6. ASSUME NEW k \in Keywords
      PROVE  snapshots'[k] - snapshots[k]
               = frequency'[k] - frequency[k]
                   + Cardinality(Entered(k)') - Cardinality(Entered(k))
  <2>1. IsFiniteSet(Entered(k)) /\ Cardinality(Entered(k)) \in Nat /\ a \notin Entered(k)
    <3>1. Entered(k) \subseteq Admins /\ a \notin Entered(k)
      BY <1>1 DEF Entered
    <3> QED
      BY <3>1, TrendAssumption, FS_Subset, FS_CardinalityType
  <2>2. /\ entry'[a] = [phase |-> "keyword", signal |-> {s}]
        /\ \A b \in Admins \ {a} : entry'[b] = entry[b]
    BY <1>1 DEF EntriesTyped
  <2>3. /\ snapshots[k] \in Nat /\ frequency[k] \in Nat /\ frequency'[k] = frequency[k]
        /\ snapshots'[k] = snapshots[k] + (IF k = s.keyword THEN 1 ELSE 0)
    BY <1>1 DEF TrendTypeOK
  <2>4. CASE k = s.keyword
    <3>1. Entered(k)' = Entered(k) \cup {a}
      BY <2>2, <2>4 DEF Entered
    <3>2. Cardinality(Entered(k)') = Cardinality(Entered(k)) + 1
      BY <2>1, <3>1, FS_AddElement
    <3> QED
      BY <2>1, <2>3, <2>4, <3>2
  <2>5. CASE k # s.keyword
    <3>1. Entered(k)' = Entered(k)
      BY <1>1, <2>2, <2>5 DEF Entered
    <3> QED
      BY <2>1, <2>3, <2>5, <3>1
  <2> QED
    BY <2>4, <2>5
<1>7. KeywordsAccounted'
  BY <1>1, <1>4, <1>6, EntryAccounts
<1> QED
  BY <1>2, <1>3, <1>5, <1>7

LEMMA EnterKeywordKeeps ==
  ASSUME TrendInv, NEW a \in Admins, EnterKeyword(a)
  PROVE  TrendInv'
<1> USE DEF TrendInv
<1>1. PICK s \in Forms : entry[a].signal = {s}
  BY DEF EnterKeyword, EntriesTyped
<1>2. /\ entry[a].phase = "keyword" /\ s.keyword \in Keywords
      /\ frequency' = [frequency EXCEPT ![s.keyword] = @ + 1]
      /\ entry' = [entry EXCEPT ![a].phase = "category"]
      /\ UNCHANGED <<snapshots, categoryScore, collection>>
  BY <1>1, TrendAssumption DEF EnterKeyword, CountKeyword, Trends
<1>3. EntriesTyped'
  BY <1>1, <1>2 DEF EntriesTyped
<1>4. CollectionsTyped' /\ ScoresTyped' /\ ScoreWithinCategory'
  BY <1>2, CollectionsKept, ScoresKept
<1>5. snapshots' \in [Keywords -> Nat] /\ frequency' \in [Keywords -> Nat]
  BY <1>2 DEF TrendTypeOK
<1>6. TrendTypeOK'
  BY <1>2, <1>3, <1>5, TrendTypeKept DEF TrendTypeOK
<1>7. ASSUME NEW k \in Keywords
      PROVE  snapshots'[k] - snapshots[k]
               = frequency'[k] - frequency[k]
                   + Cardinality(Entered(k)') - Cardinality(Entered(k))
  <2>1. IsFiniteSet(Entered(k)) /\ Cardinality(Entered(k)) \in Nat
    <3>1. Entered(k) \subseteq Admins
      BY DEF Entered
    <3> QED
      BY <3>1, TrendAssumption, FS_Subset, FS_CardinalityType
  <2>2. /\ entry'[a].phase = "category"
        /\ \A b \in Admins \ {a} : entry'[b] = entry[b]
    BY <1>2 DEF EntriesTyped
  <2>3. /\ snapshots[k] \in Nat /\ frequency[k] \in Nat /\ snapshots'[k] = snapshots[k]
        /\ frequency'[k] = frequency[k] + (IF k = s.keyword THEN 1 ELSE 0)
    BY <1>2 DEF TrendTypeOK
  <2>4. CASE k = s.keyword
    <3>1. a \in Entered(k) /\ Entered(k)' = Entered(k) \ {a}
      BY <1>1, <1>2, <2>2, <2>4 DEF Entered
    <3>2. Cardinality(Entered(k)') = Cardinality(Entered(k)) - 1
      BY <2>1, <3>1, FS_RemoveElement
    <3> QED
      BY <2>1, <2>3, <2>4, <3>2
  <2>5. CASE k # s.keyword
    <3>1. Entered(k)' = Entered(k)
      BY <1>1, <1>2, <2>2, <2>5 DEF Entered
    <3> QED
      BY <2>1, <2>3, <2>5, <3>1
  <2> QED
    BY <2>4, <2>5
<1>8. KeywordsAccounted'
  BY <1>2, <1>5, <1>7, EntryAccounts
<1> QED
  BY <1>3, <1>4, <1>6, <1>8

(* The other steps of a request leave what it owes.                         *)
LEMMA EntryRests ==
  ASSUME TrendInv, CollectionsTyped, collection' = collection,
         snapshots' = snapshots, frequency' = frequency,
         \A k \in Keywords : Entered(k)' = Entered(k)
  PROVE  KeywordsAccounted'
<1>1. ASSUME NEW k \in Keywords
      PROVE  snapshots'[k] - snapshots[k]
               = frequency'[k] - frequency[k]
                   + Cardinality(Entered(k)') - Cardinality(Entered(k))
  <2>1. Cardinality(Entered(k)) \in Nat
    <3>1. Entered(k) \subseteq Admins
      BY DEF Entered
    <3> QED
      BY <3>1, TrendAssumption, FS_Subset, FS_CardinalityType
  <2>2. snapshots[k] \in Nat /\ frequency[k] \in Nat /\ Entered(k)' = Entered(k)
    BY DEF TrendInv, TrendTypeOK
  <2> QED
    BY <2>1, <2>2
<1> QED
  BY <1>1, EntryAccounts DEF TrendInv, TrendTypeOK

LEMMA EnterCategoryKeeps ==
  ASSUME TrendInv, NEW a \in Admins, EnterCategory(a)
  PROVE  TrendInv'
<1>1. PICK s \in Forms : entry[a].signal = {s}
  BY DEF EnterCategory, EntriesTyped, TrendInv
<1>2. /\ entry[a].phase = "category"
      /\ s.category \in Categories /\ s.trendScore \in 0 .. 100 /\ s \in All
      /\ ScoreCategory(s.category, s.trendScore)
      /\ entry' = [entry EXCEPT ![a].phase = "done"]
      /\ UNCHANGED <<snapshots, frequency, collection>>
  BY <1>1, TrendAssumption DEF EnterCategory, Trends, All
<1>3. EntriesTyped'
  BY <1>1, <1>2 DEF EntriesTyped, TrendInv
<1>4. CollectionsTyped'
  BY <1>2, CollectionsKept DEF TrendInv
<1>5. /\ ScoresTyped' /\ ScoreWithinCategory'
      /\ \A m \in Categories : Cardinality(categoryScore'[m]) <= 1
  <2>1. s.trendScore <= s.trendScore
    BY <1>2
  <2> QED
    BY <1>2, <2>1, ScoringKeeps DEF TrendInv
<1>6. TrendTypeOK'
  BY <1>2, <1>3, <1>5, TrendTypeKept DEF TrendTypeOK, TrendInv
<1>7. \A k \in Keywords : Entered(k)' = Entered(k)
  BY <1>2 DEF Entered, EntriesTyped, TrendInv
<1>8. KeywordsAccounted'
  BY <1>2, <1>7, EntryRests DEF TrendInv
<1> QED
  BY <1>3, <1>4, <1>5, <1>6, <1>8 DEF TrendInv

LEMMA EntryFailsKeeps ==
  ASSUME TrendInv, NEW a \in Admins, EntryFails(a)
  PROVE  TrendInv'
<1> DEFINE stop == IF entry[a].phase = "keyword" THEN "uncounted" ELSE "done"
<1>1. /\ entry[a].phase \in {"keyword", "category"}
      /\ entry' = [entry EXCEPT ![a].phase = stop]
      /\ UNCHANGED <<snapshots, frequency, categoryScore, collection>>
  BY DEF EntryFails
<1>2. EntriesTyped'
  BY <1>1 DEF EntriesTyped, TrendInv
<1>3. CollectionsTyped' /\ ScoresTyped' /\ ScoreWithinCategory'
  BY <1>1, CollectionsKept, ScoresKept DEF TrendInv
<1>4. TrendTypeOK'
  BY <1>1, <1>2, TrendTypeKept DEF TrendTypeOK, TrendInv
<1>5. \A k \in Keywords : Entered(k)' = Entered(k)
  BY <1>1 DEF Entered, EntriesTyped, TrendInv
<1>6. KeywordsAccounted'
  BY <1>1, <1>5, EntryRests DEF TrendInv
<1> QED
  BY <1>2, <1>3, <1>4, <1>6 DEF TrendInv

LEMMA TrendStutters == ASSUME TrendInv, UNCHANGED trendVars PROVE TrendInv'
<1>1. /\ snapshots' = snapshots /\ frequency' = frequency /\ categoryScore' = categoryScore
      /\ collection' = collection /\ entry' = entry
  BY DEF trendVars
<1>2. CollectionsTyped' /\ EntriesTyped' /\ ScoresTyped' /\ ScoreWithinCategory'
  BY <1>1, CollectionsKept, EntriesKept, ScoresKept DEF TrendInv
<1>3. TrendTypeOK'
  BY <1>1, <1>2, TrendTypeKept DEF TrendTypeOK, TrendInv
<1>4. \A k \in Keywords : Entered(k)' = Entered(k)
  BY <1>1, Zenon DEF Entered
<1>5. KeywordsAccounted'
  BY <1>1, <1>4, EntryRests DEF TrendInv
<1> QED
  BY <1>2, <1>3, <1>5 DEF TrendInv

(* Whatever the collector returns and however many executions and forms     *)
(* overlap or stop, the frequency of a keyword is the number of its stored  *)
(* snapshots but for those that were stored and not counted yet, or by one  *)
(* that stopped; and a category has one score, between the scores of its    *)
(* own signals (createCollectDailyTrendsJob, createTrendSnapshotAction).    *)
THEOREM TrendsHold == TrendSpec => []TrendsAccounted
<1>1. TrendInv /\ [TrendNext]_trendVars => TrendInv'
  <2> SUFFICES ASSUME TrendInv, [TrendNext]_trendVars PROVE TrendInv'
    OBVIOUS
  <2>1. ASSUME NEW c \in Collections, Collect(c) PROVE TrendInv'
    BY <2>1, CollectKeeps
  <2>2. ASSUME NEW c \in Collections, CreateSnapshot(c) PROVE TrendInv'
    BY <2>2, CreateSnapshotKeeps
  <2>3. ASSUME NEW c \in Collections, UpsertKeyword(c) PROVE TrendInv'
    BY <2>3, UpsertKeywordKeeps
  <2>4. ASSUME NEW c \in Collections, UpsertCategory(c) PROVE TrendInv'
    BY <2>4, UpsertCategoryKeeps
  <2>5. ASSUME NEW c \in Collections, CollectionFails(c) PROVE TrendInv'
    BY <2>5, CollectionFailsKeeps
  <2>6. ASSUME NEW a \in Admins, NEW s \in Forms, EnterSnapshot(a, s) PROVE TrendInv'
    BY <2>6, EnterSnapshotKeeps
  <2>7. ASSUME NEW a \in Admins, EnterKeyword(a) PROVE TrendInv'
    BY <2>7, EnterKeywordKeeps
  <2>8. ASSUME NEW a \in Admins, EnterCategory(a) PROVE TrendInv'
    BY <2>8, EnterCategoryKeeps
  <2>9. ASSUME NEW a \in Admins, EntryFails(a) PROVE TrendInv'
    BY <2>9, EntryFailsKeeps
  <2>10. CASE UNCHANGED trendVars
    BY <2>10, TrendStutters
  <2> QED
    BY <2>1, <2>2, <2>3, <2>4, <2>5, <2>6, <2>7, <2>8, <2>9, <2>10 DEF TrendNext
<1>2. TrendInv => TrendsAccounted
  BY DEF TrendInv, TrendsAccounted
<1> QED
  BY <1>1, <1>2, TrendStart, PTL DEF TrendSpec
=============================================================================
