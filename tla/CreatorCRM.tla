----------------------------- MODULE CreatorCRM -----------------------------
(***************************************************************************)
(* The creators of one organization (modules/creators,                     *)
(* app/dashboard/creators): executions of discover-creators, which import  *)
(* the collector's candidates one statement at a time, and managers, who   *)
(* add profiles by hand and move them along the pipeline.  A handle        *)
(* belongs to one profile, and a candidate always has the same handle, so  *)
(* the handle stands for both.                                             *)
(***************************************************************************)
EXTENDS Integers, Sequences, FiniteSets, Functions

CONSTANTS
  Candidates, \* the handles that the collector returns, in its order
  Handles,
  Discoveries, \* executions of the job
  Recruiters,  \* managers
  MaxMoves     \* bound: pipeline moves that managers begin

ASSUME CreatorAssumption ==
  /\ Candidates \in Seq(Handles) /\ Candidates # <<>>
  /\ IsFiniteSet(Handles) /\ IsFiniteSet(Discoveries)
  /\ MaxMoves \in Nat

Stages == {"NEW", "QUALIFIED", "CONTACTED", "NEGOTIATING", "ACTIVE", "ARCHIVED"}

VARIABLES
  profile,   \* Handles -> the CreatorProfile row, its tags and today's metric
  discovery, \* Discoveries -> the execution and its counters
  recruiter, \* Recruiters -> the action in progress
  moves

creatorVars == <<profile, discovery, recruiter, moves>>

NoProfile == [source |-> "NONE", status |-> "NEW", tagged |-> FALSE, measured |-> FALSE]
NoMove == [step |-> "idle", handle |-> {}, seen |-> "NEW", next |-> "NEW"]

CreatorInit ==
  /\ profile = [h \in Handles |-> NoProfile]
  /\ discovery = [d \in Discoveries |-> [step |-> "idle", at |-> 1, created |-> 0,
                                         updated |-> 0]]
  /\ recruiter = [r \in Recruiters |-> NoMove]
  /\ moves = 0

-----------------------------------------------------------------------------
(* createDiscoverCreatorsJob: execute and upsertFromDiscovery. *)

Candidate(d) == Candidates[discovery[d].at]

ToStep(d, from, to) ==
  /\ discovery[d].step = from
  /\ discovery' = [discovery EXCEPT ![d].step = to]

Discover(d) ==
  /\ ToStep(d, "idle", "find")
  /\ UNCHANGED <<profile, recruiter, moves>>

(* findFirst looks for the source and the external id, not for the handle. *)
FindExisting(d) ==
  /\ ToStep(d, "find", IF profile[Candidate(d)].source = "MOCK" THEN "update" ELSE "create")
  /\ UNCHANGED <<profile, recruiter, moves>>

(* The columns that a new import refreshes are not those of the pipeline.   *)

(* Mutant: an import starts the pipeline over. *)
Refreshed_Restarts(row) == [row EXCEPT !.status = "NEW"]
Refreshed(row) == row

UpdateProfile(d) ==
  /\ discovery[d].step = "update"
  /\ profile' = [profile EXCEPT ![Candidate(d)] = Refreshed(@)]
  /\ discovery' = [discovery EXCEPT ![d].step = "tag", ![d].updated = @ + 1]
  /\ UNCHANGED <<recruiter, moves>>

(* Mutant: a candidate that cannot be stored is skipped. *)
OnConflict_Skips == "next"

(* The unique handle is taken: P2002 ends the execution. *)
OnConflict == "failed"

(* Mutant: a profile that another execution stored counts as created. *)
CreatesOver_Mock(h) == profile[h].source \in {"NONE", "MOCK"}
CreatesOver(h) == profile[h].source = "NONE"

CreateProfile(d) ==
  /\ discovery[d].step = "create"
  /\ LET h == Candidate(d)
     IN \/ /\ CreatesOver(h)
           /\ profile' = [profile EXCEPT ![h].source = "MOCK"]
           /\ discovery' = [discovery EXCEPT ![d].step = "tag", ![d].created = @ + 1]
        \/ /\ ~CreatesOver(h)
           /\ discovery' = [discovery EXCEPT ![d].step = OnConflict]
           /\ UNCHANGED profile
  /\ UNCHANGED <<recruiter, moves>>

AttachTags(d) ==
  /\ ToStep(d, "tag", "measure")
  /\ profile' = [profile EXCEPT ![Candidate(d)].tagged = TRUE]
  /\ UNCHANGED <<recruiter, moves>>

RecordMetric(d) ==
  /\ ToStep(d, "measure", "next")
  /\ profile' = [profile EXCEPT ![Candidate(d)].measured = TRUE]
  /\ UNCHANGED <<recruiter, moves>>

(* Mutant: one candidate more than there are. *)
HasNext_Past(d) == discovery[d].at <= Len(Candidates)
HasNext(d) == discovery[d].at < Len(Candidates)

NextCandidate(d) ==
  /\ discovery[d].step = "next"
  /\ discovery' = IF HasNext(d)
                  THEN [discovery EXCEPT ![d].step = "find", ![d].at = @ + 1]
                  ELSE [discovery EXCEPT ![d].step = "success"]
  /\ UNCHANGED <<profile, recruiter, moves>>

(* A statement is refused, or the process dies. *)
DiscoveryFails(d) ==
  /\ discovery[d].step \in {"find", "update", "create", "tag", "measure", "next"}
  /\ ToStep(d, discovery[d].step, "failed")
  /\ UNCHANGED <<profile, recruiter, moves>>

-----------------------------------------------------------------------------
(* app/dashboard/creators/actions.ts *)

CreateByHand(r, h) ==
  /\ recruiter[r].step = "idle" /\ profile[h].source = "NONE"
  /\ profile' = [profile EXCEPT ![h].source = "MANUAL"]
  /\ recruiter' = [recruiter EXCEPT ![r] = [NoMove EXCEPT !.step = "tag", !.handle = {h}]]
  /\ UNCHANGED <<discovery, moves>>

TagByHand(r) ==
  /\ recruiter[r].step = "tag"
  /\ \E h \in recruiter[r].handle : profile' = [profile EXCEPT ![h].tagged = TRUE]
  /\ recruiter' = [recruiter EXCEPT ![r] = NoMove]
  /\ UNCHANGED <<discovery, moves>>

CREATOR_STATUS_TRANSITIONS ==
  [NEW         |-> {"NEW", "QUALIFIED", "ARCHIVED"},
   QUALIFIED   |-> {"QUALIFIED", "CONTACTED", "NEW", "ARCHIVED"},
   CONTACTED   |-> {"CONTACTED", "NEGOTIATING", "QUALIFIED", "ARCHIVED"},
   NEGOTIATING |-> {"NEGOTIATING", "ACTIVE", "CONTACTED", "ARCHIVED"},
   ACTIVE      |-> {"ACTIVE", "NEGOTIATING", "ARCHIVED"},
   ARCHIVED    |-> {"ARCHIVED", "NEW"}]

(* Mutant: the check compares the stage asked for with itself. *)
CanMove_Any(from, to) == to \in CREATOR_STATUS_TRANSITIONS[to]
CanMove(from, to) == to \in CREATOR_STATUS_TRANSITIONS[from]

(* findById and the check, then an update by id. *)
ReadStage(r, h, next) ==
  /\ moves < MaxMoves
  /\ recruiter[r].step = "idle" /\ profile[h].source # "NONE"
  /\ CanMove(profile[h].status, next)
  /\ recruiter' = [recruiter EXCEPT ![r] = [step |-> "move", handle |-> {h},
                                            seen |-> profile[h].status, next |-> next]]
  /\ moves' = moves + 1
  /\ UNCHANGED <<profile, discovery>>

ChangeStatus(r) ==
  /\ recruiter[r].step = "move"
  /\ \E h \in recruiter[r].handle :
       profile' = [profile EXCEPT ![h].status = recruiter[r].next]
  /\ recruiter' = [recruiter EXCEPT ![r] = NoMove]
  /\ UNCHANGED <<discovery, moves>>

RecruiterFails(r) ==
  /\ recruiter[r].step # "idle"
  /\ recruiter' = [recruiter EXCEPT ![r] = NoMove]
  /\ UNCHANGED <<profile, discovery, moves>>

CreatorNext ==
  \/ \E d \in Discoveries :
       \/ Discover(d) \/ FindExisting(d) \/ UpdateProfile(d) \/ CreateProfile(d)
       \/ AttachTags(d) \/ RecordMetric(d) \/ NextCandidate(d) \/ DiscoveryFails(d)
  \/ \E r \in Recruiters :
       \/ TagByHand(r) \/ ChangeStatus(r) \/ RecruiterFails(r)
       \/ \E h \in Handles : CreateByHand(r, h) \/ \E s \in Stages : ReadStage(r, h, s)

CreatorSpec == CreatorInit /\ [][CreatorNext]_creatorVars

-----------------------------------------------------------------------------
(* Properties *)

(* Type invariant: rows and calls hold only the values that the columns and *)
(* the enums of the schema have.                                            *)
CreatorTypeOK ==
  /\ profile \in [Handles -> [source : {"NONE", "MOCK", "MANUAL"}, status : Stages,
                              tagged : BOOLEAN, measured : BOOLEAN]]
  /\ \A d \in Discoveries : discovery[d].at \in 1 .. Len(Candidates)
  /\ \A r \in Recruiters : recruiter[r].seen \in Stages /\ recruiter[r].next \in Stages

(* An execution reports success only when every candidate has a discovered  *)
(* profile with its tags and today's metric, whatever ran beside it: a      *)
(* profile added by hand under a candidate's handle makes it fail instead.  *)
SuccessImportsAll ==
  \A d \in Discoveries : discovery[d].step = "success" =>
    \A i \in 1 .. Len(Candidates) :
      LET row == profile[Candidates[i]]
      IN row.source = "MOCK" /\ row.tagged /\ row.measured

(* Executions that overlap never both report a profile as created: the      *)
(* creatorsCreated counters add up to the discovered profiles.              *)
CreationsCounted ==
  SumFunctionOnSet([d \in Discoveries |-> discovery[d].created], Discoveries)
    = Cardinality({h \in Handles : profile[h].source = "MOCK"})

(* What an execution reports is what the tables hold, however many          *)
(* executions and forms run beside it.                                      *)
DiscoverySafe == CreatorTypeOK /\ SuccessImportsAll /\ CreationsCounted

(* A profile keeps its origin, and its stage changes only by the write of a *)
(* manager's move: no import ever touches either.                           *)
ImportKeepsStage ==
  \A h \in Handles : profile[h].source # "NONE" =>
    /\ profile'[h].source = profile[h].source
    /\ profile'[h].status # profile[h].status =>
         \E r \in Recruiters : /\ recruiter[r].step = "move" /\ recruiter[r].handle = {h}
                               /\ recruiter'[r].step = "idle"

(* A stage changes against the pipeline only when the manager who writes    *)
(* it decided on a stage that another manager has replaced since.           *)
JumpsAreStale ==
  \A h \in Handles :
    profile'[h].status \in CREATOR_STATUS_TRANSITIONS[profile[h].status]
      \/ \E r \in Recruiters : /\ recruiter[r].step = "move" /\ recruiter[r].handle = {h}
                               /\ recruiter[r].seen # profile[h].status

(* The pipeline belongs to the managers: no import moves a creator in it or *)
(* changes where a profile came from, and no manager jumps it but by a      *)
(* stale read.                                                              *)
PipelineKept == [][ImportKeepsStage /\ JumpsAreStale]_creatorVars
=============================================================================
