-------------------------- MODULE CampaignAudience --------------------------
(***************************************************************************)
(* The audience of one campaign (modules/campaigns): buildCampaign reads   *)
(* the campaign, its creators, product matches and trends in statements of *)
(* their own, recommends creator and product pairs and replaces the rows   *)
(* of CampaignAudience by a deleteMany and a createMany that share no      *)
(* transaction.  Meanwhile managers archive creators, match products and   *)
(* delete them, and other rebuilds run.  All trends concern all products,  *)
(* so the best one counts.                                                 *)
(***************************************************************************)
EXTENDS Integers, FiniteSets, FiniteSetsExt

CONSTANTS
  Creators,
  Fitting,           \* creators whose niche matches the campaign's
  Products,          \* products of the campaign
  Rebuilds,          \* requests, each used once
  Confidences,       \* confidence of a RULE match, in percent
  TrendScores,       \* scores that a collection may find
  MinimumTrendScore, \* of the CampaignRule
  MaxChanges         \* bound: changes by others

ASSUME AudienceAssumption ==
  /\ Fitting \subseteq Creators
  /\ Confidences \subseteq 1 .. 100 /\ TrendScores \subseteq 0 .. 100

VARIABLES
  audienceType, \* of the campaign
  live,         \* creators that are not ARCHIVED
  stocked,      \* products that exist
  match,        \* Products -> confidence of the product's match, 0 without one
  trend,        \* best trendScore
  audience,     \* CampaignAudience rows, with the rebuild that wrote them
  rebuild,      \* Rebuilds -> the request
  met,          \* history: rebuilds that ran at the same time
  cascaded,     \* history: rows went with their product
  changes

audienceVars == <<audienceType, live, stocked, match, trend, audience, rebuild, met,
                  cascaded, changes>>

Reads == {"creators", "matches", "trends"}
NoBuild == [step |-> "idle", todo |-> {}, products |-> {}, live |-> {},
            match |-> [p \in Products |-> 0], trend |-> 0, pairs |-> {}]
Ended == {"idle", "done", "kept", "conflict", "refused", "lost", "aborted"}

AudienceInit ==
  /\ audienceType \in {"ALL", "NICHE", "SCORE", "MANUAL"}
  /\ live = Creators /\ stocked = Products
  /\ match = [p \in Products |-> 0] /\ trend \in TrendScores
  /\ audience = {} /\ rebuild = [b \in Rebuilds |-> NoBuild]
  /\ met = {} /\ cascaded = FALSE /\ changes = 0

-----------------------------------------------------------------------------
(* recommendCreators *)

(* Without any match of the campaign's products the signal counts in full;  *)
(* with one, a product without its own is out.                              *)
Relevance(b, p) ==
  IF \A q \in rebuild[b].products : rebuild[b].match[q] = 0 THEN 100
  ELSE rebuild[b].match[p]

(* Math.round of the share of the trend. *)
TrendScore(b, p) == (rebuild[b].trend * Relevance(b, p) + 50) \div 100

RecommendCreators(b) ==
  IF audienceType = "MANUAL" THEN {}
  ELSE {pair \in rebuild[b].live \X rebuild[b].products :
          /\ Relevance(b, pair[2]) > 0
          /\ TrendScore(b, pair[2]) >= MinimumTrendScore
          /\ audienceType = "NICHE" => pair[1] \in Fitting}

-----------------------------------------------------------------------------
(* buildCampaign *)

UnchangedByBuild == UNCHANGED <<audienceType, live, stocked, match, trend, cascaded, changes>>

Running == {b \in Rebuilds : rebuild[b].step \notin Ended}

ReadCampaign(b) ==
  /\ rebuild[b].step = "idle"
  /\ rebuild' = [rebuild EXCEPT ![b] = [NoBuild EXCEPT !.step = "read", !.todo = Reads,
                                                       !.products = stocked]]
  /\ met' = met \cup {{b, d} : d \in Running}
  /\ UNCHANGED audience /\ UnchangedByBuild

(* Promise.all: three statements in any order. *)
ReadInput(b, input) ==
  /\ rebuild[b].step = "read" /\ input \in rebuild[b].todo
  /\ LET rest == [rebuild[b] EXCEPT !.todo = @ \ {input}]
     IN rebuild' = [rebuild EXCEPT ![b] =
          CASE input = "creators" -> [rest EXCEPT !.live = live]
            [] input = "matches" -> [rest EXCEPT !.match = match]
            [] input = "trends" -> [rest EXCEPT !.trend = trend]]
  /\ UNCHANGED <<audience, met>> /\ UnchangedByBuild

Recommend(b) ==
  /\ rebuild[b].step = "read" /\ rebuild[b].todo = {}
  /\ rebuild' = [rebuild EXCEPT ![b].step = "check", ![b].pairs = RecommendCreators(b)]
  /\ UNCHANGED <<audience, met>> /\ UnchangedByBuild

EndpointsExist(b) == \A pair \in rebuild[b].pairs : pair[2] \in stocked

(* Mutant: the endpoints are checked when the old rows are gone. *)
CheckEndpoints_Late(b) ==
  /\ rebuild[b].step = "check"
  /\ rebuild' = [rebuild EXCEPT ![b].step = IF EndpointsExist(b) THEN "delete" ELSE "kept"]
  /\ audience' = {}
  /\ UNCHANGED met /\ UnchangedByBuild

(* saveAudience: one endpoint missing leaves the audience as it is. *)
CheckEndpoints(b) ==
  /\ rebuild[b].step = "check"
  /\ rebuild' = [rebuild EXCEPT ![b].step = IF EndpointsExist(b) THEN "delete" ELSE "kept"]
  /\ UNCHANGED <<audience, met>> /\ UnchangedByBuild

(* Mutant: only the rows that the rebuild recommends again are deleted. *)
Kept_Others(b) == {row \in audience : row.pair \notin rebuild[b].pairs}
Kept(b) == {}

DeleteAudience(b) ==
  /\ rebuild[b].step = "delete"
  /\ audience' = Kept(b)
  /\ rebuild' = [rebuild EXCEPT ![b].step = IF rebuild[b].pairs = {} THEN "done" ELSE "create"]
  /\ UNCHANGED met /\ UnchangedByBuild

(* createMany is one statement: a pair that is there already or a product   *)
(* that is not makes all of it fail.                                        *)
CreateAudience(b) ==
  /\ rebuild[b].step = "create"
  /\ LET taken == \E row \in audience : row.pair \in rebuild[b].pairs
         stored == ~taken /\ EndpointsExist(b)
     IN /\ audience' = IF stored
                       THEN audience \cup {[pair |-> x, by |-> b] : x \in rebuild[b].pairs}
                       ELSE audience
        /\ rebuild' = [rebuild EXCEPT ![b].step = IF stored THEN "done"
                                                  ELSE IF taken THEN "conflict" ELSE "refused"]
  /\ UNCHANGED met /\ UnchangedByBuild

(* The request dies or the database refuses a statement.                    *)
RebuildStops(b) ==
  /\ b \in Running
  /\ rebuild' = [rebuild EXCEPT ![b].step = IF @ = "create" THEN "lost" ELSE "aborted"]
  /\ UNCHANGED <<audience, met>> /\ UnchangedByBuild

-----------------------------------------------------------------------------
(* What others do to the inputs. *)

Change ==
  /\ changes < MaxChanges
  /\ changes' = changes + 1
  /\ UNCHANGED <<audienceType, rebuild, met>>

(* changeCreatorStatusAction: ARCHIVED and back. *)
ArchiveOrReactivate(c) ==
  /\ Change
  /\ live' = IF c \in live THEN live \ {c} ELSE live \cup {c}
  /\ UNCHANGED <<stocked, match, trend, audience, cascaded>>

(* The rows that refer to the product go with it. *)
DeleteProduct(p) ==
  /\ Change
  /\ p \in stocked
  /\ stocked' = stocked \ {p}
  /\ match' = [match EXCEPT ![p] = 0]
  /\ audience' = {row \in audience : row.pair[2] # p}
  /\ cascaded' = (cascaded \/ audience' # audience)
  /\ UNCHANGED <<live, trend>>

(* createProductMatch: both ends exist; a second match of the pair is       *)
(* refused.                                                                 *)
CreateMatch(p) ==
  /\ Change
  /\ p \in stocked /\ match[p] = 0
  /\ \E n \in Confidences : match' = [match EXCEPT ![p] = n]
  /\ UNCHANGED <<live, stocked, trend, audience, cascaded>>

(* Mutant: an approval adds to the confidence. *)
Approved_Adds(p) == match[p] + 100
Approved(p) == 100

ApproveMatch(p) ==
  /\ Change
  /\ match[p] # 0 /\ match' = [match EXCEPT ![p] = Approved(p)]
  /\ UNCHANGED <<live, stocked, trend, audience, cascaded>>

DeleteMatch(p) ==
  /\ Change
  /\ match[p] # 0 /\ match' = [match EXCEPT ![p] = 0]
  /\ UNCHANGED <<live, stocked, trend, audience, cascaded>>

(* A collection stores a snapshot above all others. *)
FindTrend ==
  /\ Change
  /\ \E t \in TrendScores : t > trend /\ trend' = t
  /\ UNCHANGED <<live, stocked, match, audience, cascaded>>

AudienceNext ==
  \/ \E b \in Rebuilds :
       \/ ReadCampaign(b) \/ Recommend(b) \/ CheckEndpoints(b) \/ DeleteAudience(b)
       \/ CreateAudience(b) \/ RebuildStops(b) \/ \E input \in Reads : ReadInput(b, input)
  \/ \E c \in Creators : ArchiveOrReactivate(c)
  \/ \E p \in Products : DeleteProduct(p) \/ CreateMatch(p) \/ ApproveMatch(p) \/ DeleteMatch(p)
  \/ FindTrend

AudienceSpec == AudienceInit /\ [][AudienceNext]_audienceVars

-----------------------------------------------------------------------------
(* Properties *)

(* Type invariant: the rows of the audience are pairs of the campaign.      *)
AudienceTypeOK ==
  /\ audience \subseteq [pair : Creators \X Products, by : Rebuilds]
  /\ live \subseteq Creators /\ stocked \subseteq Products
  /\ match \in [Products -> {0, 100} \cup Confidences]

(* The audience mixes the recommendations of two rebuilds only when the two *)
(* ran at the same time: what a rebuild that began later finds is replaced  *)
(* in full, also when it recommends other pairs.                            *)
MixedOnlyIfMet ==
  \A x, y \in audience : x.by # y.by => {x.by, y.by} \in met

(* Rebuilds that overlap do not take each other's audience away: once one   *)
(* of them has stored recommendations the audience is empty only while a    *)
(* rebuild is between its two statements, or because one stopped there, had *)
(* a product deleted under its rows, or recommended nobody.                 *)
EmptyOnlyByInterruption ==
  /\ audience = {}
  /\ \E b \in Rebuilds : rebuild[b].step = "done" /\ rebuild[b].pairs # {}
  /\ \A b \in Rebuilds : rebuild[b].step # "create"
  => \/ cascaded
     \/ \E b \in Rebuilds : \/ rebuild[b].step \in {"lost", "refused"}
                            \/ rebuild[b].step = "done" /\ rebuild[b].pairs = {}

(* Although deleteMany and createMany share no transaction, an audience is  *)
(* one rebuild's recommendation unless rebuilds met, and it vanishes only   *)
(* when one is interrupted.                                                 *)
AudienceSafe == AudienceTypeOK /\ MixedOnlyIfMet /\ EmptyOnlyByInterruption
=============================================================================
