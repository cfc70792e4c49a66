--------------------------- MODULE DeliveryStatus ---------------------------
(***************************************************************************)
(* The lifecycle vocabulary of one outbound DeliveryMessage, from          *)
(* modules/delivery/core/delivery.interface.ts: the statuses, the          *)
(* documented transition map, and the rank that decides whether a webhook  *)
(* receipt moves a message forward.                                        *)
(***************************************************************************)
EXTENDS Naturals

Statuses == {"DRAFT", "QUEUED", "SENDING", "SENT", "DELIVERED", "READ",
             "FAILED", "CANCELLED"}

(* The edges of DELIVERY_TRANSITIONS, as pairs <<from, to>>. *)
Transitions ==
  {<<"DRAFT", "QUEUED">>, <<"DRAFT", "CANCELLED">>,
   <<"QUEUED", "QUEUED">>, <<"QUEUED", "SENDING">>, <<"QUEUED", "CANCELLED">>,
   <<"SENDING", "QUEUED">>, <<"SENDING", "SENT">>, <<"SENDING", "FAILED">>,
   <<"SENDING", "CANCELLED">>,
   <<"SENT", "DELIVERED">>, <<"SENT", "READ">>, <<"SENT", "FAILED">>,
   <<"DELIVERED", "READ">>,
   <<"FAILED", "QUEUED">>,
   <<"CANCELLED", "QUEUED">>}

CanTransition(from, to) == <<from, to>> \in Transitions

(* FAILED and CANCELLED carry no rank. *)
Ranked == {"DRAFT", "QUEUED", "SENDING", "SENT", "DELIVERED", "READ"}

Rank == [s \in Ranked |->
           CASE s = "DRAFT"     -> 0
             [] s = "QUEUED"    -> 1
             [] s = "SENDING"   -> 2
             [] s = "SENT"      -> 3
             [] s = "DELIVERED" -> 4
             [] s = "READ"      -> 5]

IsForwardProgress(current, next) ==
  /\ current \in Ranked
  /\ next \in Ranked
  /\ Rank[next] > Rank[current]

=============================================================================
