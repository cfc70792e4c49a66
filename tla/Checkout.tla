------------------------------ MODULE Checkout ------------------------------
(***************************************************************************)
(* The own store's checkout (modules/payments, api/checkout,               *)
(* api/webhooks/stripe, api/orders): a client creates a sale and then a    *)
(* payment session, the customer pays, Stripe delivers the event until it  *)
(* is acknowledged, and managers change the status by hand.  updateStatus  *)
(* reads the status, checks the transition and updates by id.              *)
(***************************************************************************)
EXTENDS Integers, FiniteSets

CONSTANTS
  References, \* keys that clients choose: Sale.reference is unique
  Clients,    \* POSTs to /api/checkout
  Deliveries, \* deliveries of checkout.session.completed in progress
  Clerks,     \* managers' PATCHes of /api/orders
  MaxEdits    \* bound: PATCHes that begin

ASSUME CheckoutAssumption == MaxEdits \in Nat /\ Deliveries \cap Clerks = {}

SaleStatuses == {"PENDING", "PAID", "REFUNDED", "CANCELLED"}

VARIABLES
  order,    \* References -> status of the Sale, "NONE" without a row
  sessions, \* References -> payment sessions opened at Stripe
  charged,  \* References -> sessions that the customer has paid
  acked,    \* references whose event was answered with 200
  client,   \* Clients -> the request
  caller,   \* Deliveries and Clerks -> the updateStatus in progress
  edits,
  byHand,   \* history: references that a manager set to PAID
  undone    \* history: references that a manager set back to PENDING

checkoutVars == <<order, sessions, charged, acked, client, caller, edits, byHand, undone>>

Callers == Deliveries \cup Clerks
AtRest == [step |-> "idle", order |-> {}, seen |-> "NONE", next |-> "NONE"]

CheckoutInit ==
  /\ order = [r \in References |-> "NONE"]
  /\ sessions = [r \in References |-> 0] /\ charged = [r \in References |-> 0]
  /\ acked = {}
  /\ client = [c \in Clients |-> [step |-> "idle", order |-> {}]]
  /\ caller = [x \in Callers |-> AtRest]
  /\ edits = 0 /\ byHand = {} /\ undone = {}

-----------------------------------------------------------------------------
(* createCheckoutSession: two steps without a transaction. *)

(* Mutant: a sale that is still PENDING is used again. *)
Accepts_Pending(r) == order[r] \in {"NONE", "PENDING"}

(* The unique reference: P2002 becomes a 500, and every retry ends so.      *)
Accepts(r) == order[r] = "NONE"

CreateSale(c, r) ==
  /\ client[c].step = "idle"
  /\ Accepts(r)
  /\ order' = [order EXCEPT ![r] = "PENDING"]
  /\ client' = [client EXCEPT ![c] = [step |-> "session", order |-> {r}]]
  /\ UNCHANGED <<sessions, charged, acked, caller, edits, byHand, undone>>

OpenSession(c) ==
  /\ client[c].step = "session"
  /\ sessions' = [r \in References |-> sessions[r] + Cardinality(client[c].order \cap {r})]
  /\ client' = [client EXCEPT ![c].step = "idle"]
  /\ UNCHANGED <<order, charged, acked, caller, edits, byHand, undone>>

(* Stripe refuses or the request dies: the sale stays without a session.    *)
SessionFails(c) ==
  /\ client[c].step = "session"
  /\ client' = [client EXCEPT ![c].step = "idle"]
  /\ UNCHANGED <<order, sessions, charged, acked, caller, edits, byHand, undone>>

(* At Stripe: a session is paid once. *)
CustomerPays(r) ==
  /\ charged[r] < sessions[r]
  /\ charged' = [charged EXCEPT ![r] = @ + 1]
  /\ UNCHANGED <<order, sessions, acked, client, caller, edits, byHand, undone>>

-----------------------------------------------------------------------------
(* updateStatus *)

Transitions ==
  [PENDING   |-> {"PENDING", "PAID", "CANCELLED"},
   PAID      |-> {"PAID", "REFUNDED", "CANCELLED"},
   REFUNDED  |-> {"REFUNDED"},
   CANCELLED |-> {"CANCELLED"}]

(* Mutant: the check compares the next status with itself. *)
CanTransition_Any(from, to) == to \in Transitions[to]
CanTransition(from, to) == to \in Transitions[from]

ReadStatus(x, r, to) ==
  /\ caller[x].step = "idle"
  /\ order[r] # "NONE" /\ CanTransition(order[r], to)
  /\ caller' = [caller EXCEPT ![x] = [step |-> "write", order |-> {r}, seen |-> order[r],
                                      next |-> to]]

(* Mutant: what the call read stays with it. *)
Answered_Keeps(x) == [caller[x] EXCEPT !.step = "idle"]
Answered(x) == AtRest

WriteStatus(x) ==
  /\ caller[x].step = "write"
  /\ order' = [r \in References |-> IF r \in caller[x].order THEN caller[x].next ELSE order[r]]
  /\ caller' = [caller EXCEPT ![x] = Answered(x)]

(* Mutant: the event is acknowledged before the update has run. *)
Acks_Reading == "read"
Acks == "write"

(* 200 is the answer to the step that Acks names. *)
Acknowledge(r, step) ==
  acked' = IF step = Acks THEN acked \cup {r} ELSE acked

(* Mutant: every event of a session counts, its expiry included. *)
Completed_AnyEvent(r) == sessions[r] > 0

(* checkout.session.completed *)
Completed(r) == charged[r] > 0

(* An event is delivered until one delivery is acknowledged, and may come   *)
(* again after that; a transition that is refused is answered with 400.     *)
DeliverPaid(x, r) ==
  /\ Completed(r)
  /\ ReadStatus(x, r, "PAID")
  /\ Acknowledge(r, "read")
  /\ UNCHANGED <<order, sessions, charged, client, edits, byHand, undone>>

MarkPaid(x) ==
  /\ WriteStatus(x)
  /\ \E r \in caller[x].order : Acknowledge(r, "write")
  /\ UNCHANGED <<sessions, charged, client, edits, byHand, undone>>

PatchOrder(x, r, to) ==
  /\ edits < MaxEdits
  /\ edits' = edits + 1
  /\ ReadStatus(x, r, to)
  /\ UNCHANGED <<order, sessions, charged, acked, client, byHand, undone>>

UpdateOrder(x) ==
  /\ WriteStatus(x)
  /\ byHand' = IF caller[x].next = "PAID" THEN byHand \cup caller[x].order ELSE byHand
  /\ undone' = IF caller[x].next = "PENDING" THEN undone \cup caller[x].order ELSE undone
  /\ UNCHANGED <<sessions, charged, acked, client, edits>>

UpdateFails(x) ==
  /\ caller[x].step = "write"
  /\ caller' = [caller EXCEPT ![x] = AtRest]
  /\ UNCHANGED <<order, sessions, charged, acked, client, edits, byHand, undone>>

CheckoutNext ==
  \/ \E c \in Clients :
       OpenSession(c) \/ SessionFails(c) \/ \E r \in References : CreateSale(c, r)
  \/ \E r \in References : CustomerPays(r)
  \/ \E x \in Deliveries : MarkPaid(x) \/ \E r \in References : DeliverPaid(x, r)
  \/ \E x \in Clerks : \/ UpdateOrder(x)
                       \/ \E r \in References, to \in SaleStatuses : PatchOrder(x, r, to)
  \/ \E x \in Callers : UpdateFails(x)

CheckoutSpec == CheckoutInit /\ [][CheckoutNext]_checkoutVars

-----------------------------------------------------------------------------
(* Properties *)

(* Type invariant: statuses are those of the schema.                        *)
CheckoutTypeOK ==
  /\ order \in [References -> SaleStatuses \cup {"NONE"}]
  /\ acked \subseteq References
  /\ \A x \in Callers : caller[x].step = "idle" => caller[x].order = {}
  /\ \A x \in Callers : caller[x].next \in SaleStatuses \cup {"NONE"}

(* A customer is never charged twice for one reference, however many        *)
(* clients retry the checkout and at whichever step the earlier ones failed. *)
ChargedOnce == \A r \in References : charged[r] <= 1

(* A sale is PAID only if the customer has paid or a manager said so.       *)
PaidBacked ==
  \A r \in References : order[r] = "PAID" => charged[r] > 0 \/ r \in byHand

(* A payment whose event was acknowledged is on record: the sale is PENDING *)
(* again only where a manager's own request wrote that.                     *)
PaymentNotLost ==
  \A r \in References : r \in acked /\ order[r] = "PENDING" => r \in undone

(* Sale, payment session and payment event agree, whatever fails between    *)
(* them and however often each is repeated.                                 *)
CheckoutSafe == CheckoutTypeOK /\ ChargedOnce /\ PaidBacked /\ PaymentNotLost

(* A status changes against the transitions, a refund undone by a late copy *)
(* of the payment's event included, only when the call that writes it had   *)
(* read a status that another call has replaced since.                      *)
RegressionsAreStale ==
  [][\A r \in References :
       \/ order[r] = "NONE" \/ order'[r] \in Transitions[order[r]]
       \/ \E x \in Callers : /\ caller[x].step = "write" /\ caller[x].order = {r}
                             /\ caller[x].seen # order[r]]_checkoutVars
=============================================================================
