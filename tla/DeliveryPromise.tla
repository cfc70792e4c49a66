--------------------------- MODULE DeliveryPromise ---------------------------
(***************************************************************************)
(* What the delivery queue promises about each message, whatever drains,   *)
(* webhook requests and administrators do: its status moves along the      *)
(* documented map (and one more edge, StaleEdge), and it is handed over to *)
(* the provider no more often than it is allowed to be.  A dispatch allows *)
(* one hand-over; an admin requeue allows one more, and so does every      *)
(* accepted hand-over whose provider id the queue lost.                    *)
(***************************************************************************)
EXTENDS DeliveryStatus

CONSTANT Messages

VARIABLES status, sends, allowance

vars == <<status, sends, allowance>>

Init ==
  /\ status = [m \in Messages |-> "NONE"]
  /\ sends = [m \in Messages |-> 0]
  /\ allowance = [m \in Messages |-> 0]

Dispatch(m) ==
  /\ status[m] = "NONE"
  /\ status' = [status EXCEPT ![m] = "QUEUED"]
  /\ allowance' = [allowance EXCEPT ![m] = @ + 1]
  /\ UNCHANGED sends

Requeue(m) ==
  /\ status[m] \in {"FAILED", "CANCELLED"}
  /\ status' = [status EXCEPT ![m] = "QUEUED"]
  /\ allowance' = [allowance EXCEPT ![m] = @ + 1]
  /\ UNCHANGED sends

(* A late "sent" receipt of an earlier hand-over marks a requeued row SENT. *)
StaleEdge == <<"QUEUED", "SENT">>

Move(m) ==
  /\ \E s \in Statuses :
       /\ CanTransition(status[m], s) \/ <<status[m], s>> = StaleEdge
       /\ status[m] \notin {"FAILED", "CANCELLED"}
       /\ status' = [status EXCEPT ![m] = s]
  /\ UNCHANGED <<sends, allowance>>

(* The provider accepts the message; its id may be lost on the way back. *)
HandOver(m) ==
  /\ status[m] \in {"SENDING", "SENT"}
  /\ sends[m] < allowance[m]
  /\ sends' = [sends EXCEPT ![m] = @ + 1]
  /\ allowance' \in {allowance, [allowance EXCEPT ![m] = @ + 1]}
  /\ UNCHANGED status

(* The id of an accepted hand-over is lost before it is saved. *)
LoseId(m) ==
  /\ allowance' = [allowance EXCEPT ![m] = @ + 1]
  /\ UNCHANGED <<status, sends>>

Next == \E m \in Messages :
          Dispatch(m) \/ Requeue(m) \/ Move(m) \/ HandOver(m) \/ LoseId(m)

Spec == Init /\ [][Next]_vars

=============================================================================
