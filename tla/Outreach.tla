------------------------------ MODULE Outreach ------------------------------
(***************************************************************************)
(* The outreach messages of one organization (modules/outreach,            *)
(* app/dashboard/outreach/actions.ts): managers generate, edit, schedule   *)
(* and cancel drafts, and the scheduler promotes what is due.  Generation  *)
(* reads the template first and writes the text later; every write is an   *)
(* updateMany guarded by the status of the message.                        *)
(***************************************************************************)
EXTENDS Integers, FiniteSets

CONSTANTS
  Messages,
  Authors,     \* managers
  LastHour,    \* bound: ticks of the clock
  MaxTemplate  \* bound: versions of the template

ASSUME OutreachAssumption == LastHour \in Nat /\ MaxTemplate \in Nat \ {0}

VARIABLES
  hour,
  template, \* version of the template's content
  message,  \* Messages -> the OutreachMessage row; status "NONE": no row
  author    \* Authors -> the action in progress

outreachVars == <<hour, template, message, author>>

(* A text is the version of the template that it comes from, or a hand's.   *)
ByHand == 0
NoMessage == [status |-> "NONE", text |-> ByHand, scheduledFor |-> {}]
NoAction == [step |-> "idle", message |-> {}, text |-> ByHand, at |-> 0]

OutreachInit ==
  /\ hour = 0 /\ template = 1
  /\ message = [m \in Messages |-> NoMessage]
  /\ author = [a \in Authors |-> NoAction]

HourPasses ==
  /\ hour < LastHour
  /\ hour' = hour + 1
  /\ UNCHANGED <<template, message, author>>

(* updateTemplateAction *)
UpdateTemplate ==
  /\ template < MaxTemplate
  /\ template' = template + 1
  /\ UNCHANGED <<hour, message, author>>

-----------------------------------------------------------------------------
(* The statements of outbox.repository.ts. *)

(* Mutant: updateDraft looks for the id alone. *)
Editable_AnyStatus(m) == message[m].status # "NONE"
Editable(m) == message[m].status \in {"DRAFT", "READY"}

UpdateDraft(m, text) ==
  message' = IF Editable(m) THEN [message EXCEPT ![m].text = text] ELSE message

Schedulable(m) == message[m].status \in {"DRAFT", "READY"}

-----------------------------------------------------------------------------
(* generateMessageAction and regenerateMessageAction *)

Goes(a, step) ==
  /\ author[a].step # "idle"
  /\ author' = [author EXCEPT ![a].step = step]

Generate(a, m) ==
  /\ author[a].step = "idle" /\ message[m].status = "NONE"
  /\ \A b \in Authors : m \notin author[b].message \* the row's id is new
  /\ author' = [author EXCEPT ![a] = [NoAction EXCEPT !.step = "context", !.message = {m}]]
  /\ UNCHANGED <<hour, template, message>>

Regenerate(a, m) ==
  /\ author[a].step = "idle" /\ message[m].status \in {"DRAFT", "READY"}
  /\ author' = [author EXCEPT ![a] = [NoAction EXCEPT !.step = "context", !.message = {m}]]
  /\ UNCHANGED <<hour, template, message>>

(* generationContext, and the text from the template read there. *)
GenerateText(a) ==
  /\ author[a].step = "context"
  /\ author' = [author EXCEPT ![a].step = "write", ![a].text = template]
  /\ UNCHANGED <<hour, template, message>>

WriteText(a) ==
  /\ author[a].step = "write"
  /\ \E m \in author[a].message :
       IF message[m].status = "NONE"
       THEN message' = [message EXCEPT ![m] = [NoMessage EXCEPT !.status = "DRAFT",
                                                                !.text = author[a].text]]
       ELSE UpdateDraft(m, author[a].text)
  /\ author' = [author EXCEPT ![a] = NoAction]
  /\ UNCHANGED <<hour, template>>

(* The context is gone, a statement is refused or the request dies. *)
ActionFails(a) ==
  /\ author[a].step # "idle"
  /\ author' = [author EXCEPT ![a] = NoAction]
  /\ UNCHANGED <<hour, template, message>>

-----------------------------------------------------------------------------
(* updateMessageAction, scheduleMessageAction, cancelMessageAction *)

EditMessage(m) ==
  /\ message[m].status # "NONE"
  /\ UpdateDraft(m, ByHand)
  /\ UNCHANGED <<hour, template, author>>

(* The date is checked before the statement is sent. *)
AskSchedule(a, m, at) ==
  /\ author[a].step = "idle" /\ message[m].status # "NONE" /\ at > hour
  /\ author' = [author EXCEPT ![a] = [NoAction EXCEPT !.step = "schedule", !.message = {m},
                                                      !.at = at]]
  /\ UNCHANGED <<hour, template, message>>

(* Mutant: the old time stays beside the new one. *)
Times_Adds(m, at) == message[m].scheduledFor \cup {at}
Times(m, at) == {at}

ScheduleMessage(a) ==
  /\ author[a].step = "schedule"
  /\ \E m \in author[a].message :
       message' = IF Schedulable(m)
                  THEN [message EXCEPT ![m].status = "SCHEDULED",
                                       ![m].scheduledFor = Times(m, author[a].at)]
                  ELSE message
  /\ author' = [author EXCEPT ![a] = NoAction]
  /\ UNCHANGED <<hour, template>>

CancelMessage(m) ==
  /\ message[m].status \in {"DRAFT", "READY", "SCHEDULED"}
  /\ message' = [message EXCEPT ![m].status = "CANCELLED", ![m].scheduledFor = {}]
  /\ UNCHANGED <<hour, template, author>>

(* Mutant: every scheduled message is due. *)
Due_All(m) == message[m].status = "SCHEDULED"

(* outreachScheduler.execute: one updateMany. *)
Due(m) == message[m].status = "SCHEDULED" /\ \E t \in message[m].scheduledFor : t <= hour

PromoteDue ==
  /\ \E m \in Messages : Due(m)
  /\ message' = [m \in Messages |-> IF Due(m) THEN [message[m] EXCEPT !.status = "READY"]
                                    ELSE message[m]]
  /\ UNCHANGED <<hour, template, author>>

OutreachNext ==
  \/ HourPasses \/ UpdateTemplate \/ PromoteDue
  \/ \E m \in Messages : EditMessage(m) \/ CancelMessage(m)
  \/ \E a \in Authors :
       \/ GenerateText(a) \/ WriteText(a) \/ ActionFails(a) \/ ScheduleMessage(a)
       \/ \E m \in Messages : \/ Generate(a, m) \/ Regenerate(a, m)
                              \/ \E t \in 1 .. LastHour : AskSchedule(a, m, t)

OutreachSpec == OutreachInit /\ [][OutreachNext]_outreachVars

-----------------------------------------------------------------------------
(* Properties *)

(* Type invariant: rows and actions hold values of their columns.           *)
OutreachTypeOK ==
  /\ \A m \in Messages :
       /\ message[m].status \in {"NONE", "DRAFT", "READY", "SCHEDULED", "CANCELLED"}
       /\ message[m].text \in 0 .. MaxTemplate
       /\ Cardinality(message[m].scheduledFor) <= 1
  /\ \A a \in Authors : author[a].step \in {"idle", "context", "write", "schedule"}

(* The text that was scheduled is the text that becomes READY, and a        *)
(* cancelled message is never written again: neither an edit nor a text     *)
(* generated from an earlier read gets into it.                             *)
ScheduledTextFrozen ==
  [][\A m \in Messages :
       /\ message[m].status \in {"SCHEDULED", "CANCELLED"}
            => message'[m].text = message[m].text
       /\ message[m].status = "CANCELLED" => message'[m] = message[m]]_outreachVars

(* A message is READY only once the time it is scheduled for has come, and  *)
(* a draft or a cancelled message has no such time left over.               *)
ReadyWhenDue ==
  \A m \in Messages :
    CASE message[m].status = "READY" -> \E t \in message[m].scheduledFor : t <= hour
      [] message[m].status = "SCHEDULED" -> message[m].scheduledFor # {}
      [] OTHER -> message[m].scheduledFor = {}

(* Rows are well formed, and what status says of the schedule is true.      *)
OutreachSafe == OutreachTypeOK /\ ReadyWhenDue
=============================================================================
