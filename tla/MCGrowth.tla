------------------------------ MODULE MCGrowth ------------------------------
(***************************************************************************)
(* The components that work on creators, trends, audiences, messages and   *)
(* payments.  They share no row in what is modelled of them: a behaviour   *)
(* runs one, and the others keep their initial state.                      *)
(***************************************************************************)
EXTENDS CreatorCRM, TrendHunter, CampaignAudience, Outreach, MessageCache, Checkout, TLC

CONSTANTS h1, h2, p1, p2

VARIABLE part \* the component that runs

vars == <<part, creatorVars, trendVars, audienceVars, outreachVars, cacheVars, checkoutVars>>

MCCandidates == <<h1, h2>>
Signal(k, c, s) == [keyword |-> k, category |-> c, trendScore |-> s]
MCSignals == <<Signal("glow", "beauty", 81), Signal("serum", "beauty", 70),
               Signal("glow", "skin", 90)>>
MCForms == {Signal("glow", "beauty", 40)}
MCSymmetry == Permutations(Generations) \cup Permutations(Clerks)

(* The choices of a component that rests are one of them.                   *)
Init ==
  /\ part \in {"creators", "trends", "audience", "outreach", "cache", "checkout"}
  /\ CreatorInit /\ TrendInit /\ OutreachInit /\ CacheInit /\ CheckoutInit
  /\ AudienceInit
  /\ part # "audience" => audienceType = "ALL" /\ trend = CHOOSE t \in TrendScores : TRUE

Next ==
  /\ \/ /\ part = "creators" /\ CreatorNext
        /\ UNCHANGED <<trendVars, audienceVars, outreachVars, cacheVars, checkoutVars>>
     \/ /\ part = "trends" /\ TrendNext
        /\ UNCHANGED <<creatorVars, audienceVars, outreachVars, cacheVars, checkoutVars>>
     \/ /\ part = "audience" /\ AudienceNext
        /\ UNCHANGED <<creatorVars, trendVars, outreachVars, cacheVars, checkoutVars>>
     \/ /\ part = "outreach" /\ OutreachNext
        /\ UNCHANGED <<creatorVars, trendVars, audienceVars, cacheVars, checkoutVars>>
     \/ /\ part = "cache" /\ CacheNext
        /\ UNCHANGED <<creatorVars, trendVars, audienceVars, outreachVars, checkoutVars>>
     \/ /\ part = "checkout" /\ CheckoutNext
        /\ UNCHANGED <<creatorVars, trendVars, audienceVars, outreachVars, cacheVars>>
  /\ UNCHANGED part

Spec == Init /\ [][Next]_vars
=============================================================================
