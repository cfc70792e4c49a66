---------------------------- MODULE TrendHunter ----------------------------
(***************************************************************************)
(* The trends of one organization (modules/trends,                         *)
(* app/dashboard/trends/actions.ts): the job collect-daily-trends stores a *)
(* snapshot per signal and only then counts keywords and scores            *)
(* categories, each row in a statement of its own; an administrator's form *)
(* does the same for one signal.  Executions overlap and stop anywhere.    *)
(***************************************************************************)
EXTENDS Integers, Sequences, FiniteSets, Functions

CONSTANTS
  Keywords, Categories,
  Signals,     \* what the collector returns, with its keywords normalized
  Forms,       \* signals that an administrator may enter
  Collections, \* executions of the job
  Admins       \* requests with a form

Trends == [keyword : Keywords, category : Categories, trendScore : 0 .. 100]

ASSUME TrendAssumption ==
  /\ Signals \in Seq(Trends) /\ Signals # <<>> /\ Forms \subseteq Trends
  /\ IsFiniteSet(Collections) /\ IsFiniteSet(Admins)

VARIABLES
  snapshots,     \* Keywords -> number of TrendSnapshot rows
  frequency,     \* Keywords -> frequency of the TrendKeyword row, 0 without one
  categoryScore, \* Categories -> score of the TrendCategory row, {} without one
  collection,    \* Collections -> phase of the execution and place in it
  entry          \* Admins -> the request, with its signal

trendVars == <<snapshots, frequency, categoryScore, collection, entry>>

All == Range(Signals) \cup Forms

TrendInit ==
  /\ snapshots = [k \in Keywords |-> 0]
  /\ frequency = [k \in Keywords |-> 0]
  /\ categoryScore = [c \in Categories |-> {}]
  /\ collection = [c \in Collections |-> [phase |-> "idle", at |-> 1, alive |-> TRUE]]
  /\ entry = [a \in Admins |-> [phase |-> "idle", signal |-> {}]]

(* A Map is walked in the order in which its keys were inserted: the places *)
(* of the signals that bring a new key.                                     *)
Places == 1 .. Len(Signals)
KeywordCounts == {i \in Places : \A j \in 1 .. i - 1 : Signals[j].keyword # Signals[i].keyword}
ScoresByCategory ==
  {i \in Places : \A j \in 1 .. i - 1 : Signals[j].category # Signals[i].category}
Occurrences(k) == Cardinality({i \in Places : Signals[i].keyword = k})

(* Math.round of the mean. *)
Mean(places) ==
  LET sum == SumFunctionOnSet([i \in Places |-> Signals[i].trendScore], places)
      n == Cardinality(places)
  IN (2 * sum + n) \div (2 * n)

(* Mutant: the mean of the whole run. *)
AverageScore_Run(c) == Mean(Places)
AverageScore(c) == Mean({i \in Places : Signals[i].category = c})

-----------------------------------------------------------------------------
(* upsertKeyword: one statement, an increment by the database. *)

(* Mutant: the count of the run replaces the frequency. *)
CountKeyword_Sets(k, n) == frequency' = [frequency EXCEPT ![k] = n]
CountKeyword(k, n) == frequency' = [frequency EXCEPT ![k] = @ + n]

(* Mutant: the new score does not replace the old one. *)
ScoreCategory_Adds(c, score) == categoryScore' = [categoryScore EXCEPT ![c] = @ \cup {score}]
ScoreCategory(c, score) == categoryScore' = [categoryScore EXCEPT ![c] = {score}]

-----------------------------------------------------------------------------
(* createCollectDailyTrendsJob: execute *)

Working(c, phase) == collection[c].alive /\ collection[c].phase = phase

(* A loop over these places goes on to the next of them, or ends. *)
Advance(c, places, next) ==
  LET later == {i \in places : i > collection[c].at}
  IN collection' = [collection EXCEPT
       ![c] = IF later = {} THEN [@ EXCEPT !.phase = next, !.at = 1]
              ELSE [@ EXCEPT !.at = CHOOSE i \in later : \A j \in later : i <= j]]

(* All signals are scored and validated before the first is stored. *)
Collect(c) ==
  /\ Working(c, "idle")
  /\ collection' = [collection EXCEPT ![c].phase = "snapshots"]
  /\ UNCHANGED <<snapshots, frequency, categoryScore, entry>>

CreateSnapshot(c) ==
  /\ Working(c, "snapshots")
  /\ snapshots' = [snapshots EXCEPT ![Signals[collection[c].at].keyword] = @ + 1]
  /\ Advance(c, Places, "keywords")
  /\ UNCHANGED <<frequency, categoryScore, entry>>

UpsertKeyword(c) ==
  /\ Working(c, "keywords")
  /\ LET k == Signals[collection[c].at].keyword IN CountKeyword(k, Occurrences(k))
  /\ Advance(c, KeywordCounts, "categories")
  /\ UNCHANGED <<snapshots, categoryScore, entry>>

UpsertCategory(c) ==
  /\ Working(c, "categories")
  /\ LET n == Signals[collection[c].at].category IN ScoreCategory(n, AverageScore(n))
  /\ Advance(c, ScoresByCategory, "success")
  /\ UNCHANGED <<snapshots, frequency, entry>>

(* A statement is refused, or the process dies: what was stored stays. *)
CollectionFails(c) ==
  /\ collection[c].alive /\ collection[c].phase \notin {"idle", "success"}
  /\ collection' = [collection EXCEPT ![c].alive = FALSE]
  /\ UNCHANGED <<snapshots, frequency, categoryScore, entry>>

-----------------------------------------------------------------------------
(* createTrendSnapshotAction *)

EnterSnapshot(a, s) ==
  /\ entry[a].phase = "idle"
  /\ snapshots' = [snapshots EXCEPT ![s.keyword] = @ + 1]
  /\ entry' = [entry EXCEPT ![a] = [phase |-> "keyword", signal |-> {s}]]
  /\ UNCHANGED <<frequency, categoryScore, collection>>

EnterKeyword(a) ==
  /\ entry[a].phase = "keyword"
  /\ \E s \in entry[a].signal : CountKeyword(s.keyword, 1)
  /\ entry' = [entry EXCEPT ![a].phase = "category"]
  /\ UNCHANGED <<snapshots, categoryScore, collection>>

EnterCategory(a) ==
  /\ entry[a].phase = "category"
  /\ \E s \in entry[a].signal : ScoreCategory(s.category, s.trendScore)
  /\ entry' = [entry EXCEPT ![a].phase = "done"]
  /\ UNCHANGED <<snapshots, frequency, collection>>

EntryFails(a) ==
  /\ entry[a].phase \in {"keyword", "category"}
  /\ entry' = [entry EXCEPT ![a].phase = IF @ = "keyword" THEN "uncounted" ELSE "done"]
  /\ UNCHANGED <<snapshots, frequency, categoryScore, collection>>

TrendNext ==
  \/ \E c \in Collections : \/ Collect(c) \/ CreateSnapshot(c) \/ UpsertKeyword(c)
                            \/ UpsertCategory(c) \/ CollectionFails(c)
  \/ \E a \in Admins : \/ EnterKeyword(a) \/ EnterCategory(a) \/ EntryFails(a)
                       \/ \E s \in Forms : EnterSnapshot(a, s)

TrendSpec == TrendInit /\ [][TrendNext]_trendVars

-----------------------------------------------------------------------------
(* Properties *)

(* Type invariant: counters are naturals, a category has at most one score. *)
TrendTypeOK ==
  /\ snapshots \in [Keywords -> Nat] /\ frequency \in [Keywords -> Nat]
  /\ \A c \in Categories : Cardinality(categoryScore[c]) <= 1
  /\ \A a \in Admins : entry[a].signal \subseteq Forms

(* Snapshots of k that execution c stored and has not counted.              *)
Uncounted(c, k) ==
  CASE collection[c].phase = "snapshots" ->
         Cardinality({i \in 1 .. collection[c].at - 1 : Signals[i].keyword = k})
    [] collection[c].phase = "keywords" ->
         IF \E i \in KeywordCounts : i >= collection[c].at /\ Signals[i].keyword = k
         THEN Cardinality({i \in Places : Signals[i].keyword = k}) ELSE 0
    [] OTHER -> 0

(* Requests that stored a snapshot of k and have not counted it, or never   *)
(* will.                                                                    *)
Entered(k) ==
  {a \in Admins : /\ entry[a].phase \in {"keyword", "uncounted"}
                  /\ \E s \in entry[a].signal : s.keyword = k}

(* The frequency of a keyword is the number of its snapshots but for those  *)
(* whose execution has not come to its keywords, or never will: executions  *)
(* that overlap lose no count and a repeated one counts nothing twice.      *)
KeywordsAccounted ==
  \A k \in Keywords :
    snapshots[k] = frequency[k]
      + SumFunctionOnSet([c \in Collections |-> Uncounted(c, k)], Collections)
      + Cardinality(Entered(k))

(* A category's score lies within the scores of the signals that it has:    *)
(* whichever execution or form wrote it last, it never mixes in the signals *)
(* of another category.                                                     *)
ScoreWithinCategory ==
  \A c \in Categories : \A score \in categoryScore[c] :
    \E s, t \in All : /\ s.category = c /\ t.category = c
                      /\ s.trendScore <= score /\ score <= t.trendScore

(* The keywords and the category scores are explained by the stored         *)
(* snapshots, whichever executions and forms overlap or stop.               *)
TrendsAccounted == TrendTypeOK /\ KeywordsAccounted /\ ScoreWithinCategory
=============================================================================
