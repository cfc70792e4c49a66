---------------------------- MODULE MessageCache ----------------------------
(***************************************************************************)
(* The personalized messages of one creator, campaign and tone             *)
(* (modules/ai/personalization, modules/ai/openai, app/dashboard/ai).  A   *)
(* call reads its context in several statements, looks for a row with the  *)
(* hash of that context and only without one asks the model and stores the *)
(* answer, so calls that overlap may ask for the same context.             *)
(***************************************************************************)
EXTENDS Integers, FiniteSets

CONSTANTS
  Generations, \* requests, reused
  LastProduct, \* bound: versions of the Product row
  LastTrend    \* bound: changes of the snapshot with the best trendScore

ASSUME CacheAssumption ==
  /\ LastProduct \in Nat \ {0} /\ LastTrend \in Nat
  /\ IsFiniteSet(Generations) /\ Generations # {}

VARIABLES
  current,    \* version of the product and of the best trend, 0: no snapshot
  stored,     \* AIGeneratedMessage rows: their contextHash and what they were made from
  generation, \* Generations -> the request
  wasted      \* history: contexts -> answers that could not be stored

cacheVars == <<current, stored, generation, wasted>>

Contexts == [product : 1 .. LastProduct, trend : 0 .. LastTrend]
Fresh == [product |-> 1, trend |-> 0]
NoGeneration == [step |-> "idle", todo |-> {}, context |-> Fresh, answer |-> {}]
Row(g, context, hash) == [contextHash |-> hash, content |-> context, by |-> g]

CacheInit ==
  /\ current = Fresh
  /\ stored = {}
  /\ generation = [g \in Generations |-> NoGeneration]
  /\ wasted = [c \in Contexts |-> 0]

(* Mutant: the trend is not part of the key. *)
BuildContextHash_NoTrend(context) == <<context.product>>

(* buildContextHash: everything that the prompt is made of. *)
BuildContextHash(context) == <<context.product, context.trend>>

(* updateProductAction, and a collection of trends. *)
ContextChanges ==
  /\ \/ /\ current.product < LastProduct
        /\ current' = [current EXCEPT !.product = @ + 1]
     \/ /\ current.trend < LastTrend
        /\ current' = [current EXCEPT !.trend = @ + 1]
  /\ UNCHANGED <<stored, generation, wasted>>

-----------------------------------------------------------------------------
(* generateAiMessageAction *)

At(g, step) == generation[g].step = step

RequestMessage(g) ==
  /\ generation[g].step \in {"idle", "served", "failed"}
  /\ generation' = [generation EXCEPT ![g] = [NoGeneration EXCEPT !.step = "read",
                                                !.todo = {"product", "trend"}]]
  /\ UNCHANGED <<current, stored, wasted>>

(* Promise.all: the statements run in any order. *)
ReadContext(g, part) ==
  /\ At(g, "read") /\ part \in generation[g].todo
  /\ generation' = [generation EXCEPT ![g].todo = @ \ {part},
                                      ![g].context[part] = current[part]]
  /\ UNCHANGED <<current, stored, wasted>>

(* Mutant: the lookup finds nothing. *)
FindByContextHash_Misses(hash) == {row \in stored : row.contextHash # row.contextHash}
FindByContextHash(hash) == {row \in stored : row.contextHash = hash}

LookUp(g) ==
  /\ At(g, "read") /\ generation[g].todo = {}
  /\ LET cached == FindByContextHash(BuildContextHash(generation[g].context))
     IN generation' = [generation EXCEPT
          ![g].step = IF cached = {} THEN "ask" ELSE "served",
          ![g].answer = {row.content : row \in cached}]
  /\ UNCHANGED <<current, stored, wasted>>

(* callOpenAiResponses and parseGeneratedContent. *)
AskModel(g) ==
  /\ At(g, "ask")
  /\ generation' = [generation EXCEPT ![g].step = "store",
                                      ![g].answer = {generation[g].context}]
  /\ UNCHANGED <<current, stored, wasted>>

(* Mutant: the key is not unique. *)
Free_Always(hash) == TRUE
Free(hash) == \A row \in stored : row.contextHash # hash

(* The unique key refuses a second row: the answer that was paid is lost.   *)
StoreAnswer(g) ==
  /\ At(g, "store")
  /\ LET c == generation[g].context
         hash == BuildContextHash(c)
     IN /\ stored' = IF Free(hash) THEN stored \cup {Row(g, c, hash)} ELSE stored
        /\ wasted' = IF Free(hash) THEN wasted ELSE [wasted EXCEPT ![c] = @ + 1]
        /\ generation' = [generation EXCEPT
             ![g] = IF Free(hash) THEN [@ EXCEPT !.step = "served"]
                    ELSE [NoGeneration EXCEPT !.step = "failed"]]
  /\ UNCHANGED current

(* No key, a timeout, a refusal, an answer that is not the JSON asked for,  *)
(* a context that is gone, or the end of the process.                       *)
GenerationFails(g) ==
  /\ generation[g].step \in {"read", "ask", "store"}
  /\ generation' = [generation EXCEPT ![g] = [NoGeneration EXCEPT !.step = "failed"]]
  /\ UNCHANGED <<current, stored, wasted>>

CacheNext ==
  \/ ContextChanges
  \/ \E g \in Generations :
       \/ RequestMessage(g) \/ LookUp(g) \/ AskModel(g) \/ StoreAnswer(g)
       \/ GenerationFails(g) \/ \E part \in {"product", "trend"} : ReadContext(g, part)

CacheSpec == CacheInit /\ [][CacheNext]_cacheVars

-----------------------------------------------------------------------------
(* Properties *)

(* Type invariant: a key has one row, and a request holds one answer.       *)
CacheTypeOK ==
  /\ current \in Contexts
  /\ \A x, y \in stored : x.contextHash = y.contextHash => x = y
  /\ \A g \in Generations : /\ generation[g].context \in Contexts
                            /\ Cardinality(generation[g].answer) <= 1

(* A request is served the message that was made from the product and the   *)
(* trend that it read, also when another request stored that message.       *)
ServedForContext ==
  \A g \in Generations : At(g, "served") => generation[g].answer = {generation[g].context}

(* However often a context is asked for, ever, fewer answers are thrown     *)
(* away than requests run at once: one that a row exists for is served.     *)
WasteBounded ==
  \A c \in Contexts : wasted[c] < Cardinality(Generations)

(* The cache answers with the message of the context that was asked for,    *)
(* has one row for it, and pays twice only for requests that overlap.       *)
CacheSafe == CacheTypeOK /\ ServedForContext /\ WasteBounded
=============================================================================
