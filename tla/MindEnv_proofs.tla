--------------------------- MODULE MindEnv_proofs ---------------------------
(***************************************************************************)
(* Type correctness of MindEnv and the invariants the rollout loop relies  *)
(* on, for every set of codes, strategy and limit; at the end the spatial  *)
(* functions that the code of an answer is evaluated with.                 *)
(***************************************************************************)
EXTENDS Evaluation, Spatial, FiniteSetTheorems, WellFoundedInduction, TLAPS

(* The number of images, gt_total_views, is a positive number. *)
LEMMA TotalViewsPositive == TotalViews \in Nat /\ TotalViews >= 1
<1>1. Cardinality(ImageIdx) \in Nat
  BY ImagesAssumption, FS_CardinalityType
<1>2. Cardinality(ImageIdx) # 0
  BY ImagesAssumption, FS_EmptySet
<1> QED BY <1>1, <1>2 DEF TotalViews

(* A code that parses has one counted call, and TheCall is that call. *)
LEMMA TheCallTyped ==
  ASSUME NEW code \in Codes, Parses(code)
  PROVE  TheCall(code) \in Calls /\ TheCall(code).method \in {"answer", "retrieve", "update_cogmap"}
<1>1. CountedCalls(code) # {}
  BY FS_EmptySet DEF Parses
<1>2. PICK i \in CountedCalls(code) : TheCall(code) = code.calls[i]
  BY <1>1 DEF TheCall
<1>3. code.calls \in Seq(Calls)
  BY CodesAssumption
<1>4. code.calls[i] \in Calls
  BY <1>2, <1>3 DEF CountedCalls
<1> QED BY <1>2, <1>4 DEF CountedCalls, Calls

(* What MindWorker.step reports has its type. *)
LEMMA ReportTyped ==
  ASSUME TypeOK, Report, is_done' \in BOOLEAN, stage' \in Stages
  PROVE  /\ current_step_count' \in Nat
         /\ retrieve_strategy' \in Strategies
         /\ info' \in [done: BOOLEAN, won: BOOLEAN, keys: SUBSET ProgressKeys]
  BY LimitsAssumption DEF TypeOK, Report, ReportKeys, Evaluate, Done

(* The type invariant is preserved by a failed call. *)
LEMMA InvalidTyped ==
  ASSUME TypeOK, SetInvalid
  PROVE  /\ stage' \in Stages /\ is_done' \in BOOLEAN
         /\ pred_answer' \in Answers \cup {NoAnswer} /\ invalid_cnt' \in Nat
  BY DEF TypeOK, SetInvalid, Stages

LEMMA CountTyped ==
  ASSUME TypeOK, NEW m \in Kinds, CountCall(m)
  PROVE  cnt' \in [Kinds -> Nat]
  BY DEF TypeOK, CountCall

(* A fresh environment is well typed. *)
LEMMA InitTyped == Init => TypeOK
<1> SUFFICES ASSUME Init PROVE TypeOK
  OBVIOUS
<1>1. ZeroCounts \in [Kinds -> Nat]
  BY DEF ZeroCounts
<1>2. info \in [done: BOOLEAN, won: BOOLEAN, keys: SUBSET ProgressKeys]
  BY DEF Init
<1> QED BY <1>1, <1>2 DEF Init, TypeOK, Stages

(* Every variable stays in its type, whatever code a response carries: the  *)
(* parser, each handler and the report of MindWorker.step.                  *)
THEOREM TypeCorrect == Spec => []TypeOK
<1>1. Init => TypeOK
  BY InitTyped
<1>2. TypeOK /\ [Next]_vars => TypeOK'
  <2> SUFFICES ASSUME TypeOK, [Next]_vars PROVE TypeOK'
    OBVIOUS
  <2>1. ASSUME NEW code \in Codes, ParseFailure(code) PROVE TypeOK'
    <3>1. stage' \in Stages /\ is_done' \in BOOLEAN /\ pred_answer' \in Answers \cup {NoAnswer} /\ invalid_cnt' \in Nat
      BY <2>1, InvalidTyped DEF ParseFailure
    <3>2. /\ current_step_count' \in Nat /\ info' \in [done: BOOLEAN, won: BOOLEAN, keys: SUBSET ProgressKeys]
          /\ retrieve_strategy' \in Strategies
      BY <2>1, <3>1, ReportTyped DEF ParseFailure
    <3>3. invalid_kind_cnt' \in [Kinds -> Nat]
      BY <2>1 DEF ParseFailure, TypeOK
    <3> QED BY <2>1, <3>1, <3>2, <3>3 DEF ParseFailure, TypeOK, map
  <2>2. ASSUME NEW code \in Codes, LeadingMove(code) PROVE TypeOK'
    <3>1. stage' \in Stages /\ is_done' \in BOOLEAN /\ pred_answer' \in Answers \cup {NoAnswer} /\ invalid_cnt' \in Nat
      BY <2>2, InvalidTyped DEF LeadingMove, FailedCall
    <3>2. /\ current_step_count' \in Nat /\ info' \in [done: BOOLEAN, won: BOOLEAN, keys: SUBSET ProgressKeys]
          /\ retrieve_strategy' \in Strategies
      BY <2>2, <3>1, ReportTyped DEF LeadingMove
    <3>3. cnt' \in [Kinds -> Nat]
      BY <2>2, TheCallTyped, CountTyped DEF LeadingMove, Kinds
    <3> QED BY <2>2, <3>1, <3>2, <3>3 DEF LeadingMove, FailedCall, TypeOK, map
  <2>3. ASSUME NEW code \in Codes, Answer(code) PROVE TypeOK'
    <3>1. stage' \in Stages /\ is_done' \in BOOLEAN /\ pred_answer' \in Answers \cup {NoAnswer} /\ invalid_cnt' \in Nat
      <4>1. TheCall(code).answer \in Answers
        BY <2>3, TheCallTyped DEF Answer, Runs, Calls, Moves
      <4> QED BY <2>3, <4>1, InvalidTyped DEF Answer, FailedCall, TypeOK, Stages
    <3>2. /\ current_step_count' \in Nat /\ info' \in [done: BOOLEAN, won: BOOLEAN, keys: SUBSET ProgressKeys]
          /\ retrieve_strategy' \in Strategies
      BY <2>3, <3>1, ReportTyped DEF Answer
    <3>3. cnt' \in [Kinds -> Nat]
      BY <2>3, CountTyped DEF Answer, Runs, Kinds
    <3>4. invalid_kind_cnt' \in [Kinds -> Nat]
      BY <2>3 DEF Answer, FailedCall, TypeOK
    <3> QED BY <2>3, <3>1, <3>2, <3>3, <3>4 DEF Answer, TypeOK, map
  <2>4. ASSUME NEW code \in Codes, Retrieve(code) PROVE TypeOK'
    <3>1. stage' \in Stages /\ is_done' \in BOOLEAN /\ pred_answer' \in Answers \cup {NoAnswer} /\ invalid_cnt' \in Nat
      BY <2>4, InvalidTyped DEF Retrieve, ShowView, ShowViewThenFail, FailedCall, TypeOK, Stages
    <3>2. /\ current_step_count' \in Nat /\ info' \in [done: BOOLEAN, won: BOOLEAN, keys: SUBSET ProgressKeys]
          /\ retrieve_strategy' \in Strategies
      BY <2>4, <3>1, ReportTyped DEF Retrieve
    <3>3. cnt' \in [Kinds -> Nat]
      BY <2>4, CountTyped DEF Retrieve, Runs, Kinds
    <3>4. invalid_kind_cnt' \in [Kinds -> Nat]
      BY <2>4 DEF Retrieve, ShowView, ShowViewThenFail, FailedCall, TypeOK
    <3>5. repeat_retrieve_cnt' \in Nat
      BY <2>4 DEF Retrieve, CountRepeat, TypeOK
    <3>6. retrieved' \in ImageIdx \cup {NoImage}
      BY <2>4 DEF Retrieve, ShowView, ShowViewThenFail, TypeOK
    <3> QED BY <2>4, <3>1, <3>2, <3>3, <3>4, <3>5, <3>6 DEF Retrieve, TypeOK, map
  <2>5. ASSUME NEW code \in Codes, UpdateCogmap(code) PROVE TypeOK'
    <3>1. stage' \in Stages /\ is_done' \in BOOLEAN /\ pred_answer' \in Answers \cup {NoAnswer} /\ invalid_cnt' \in Nat
      BY <2>5, InvalidTyped DEF UpdateCogmap, FailedCall, TypeOK, Stages
    <3>2. /\ current_step_count' \in Nat /\ info' \in [done: BOOLEAN, won: BOOLEAN, keys: SUBSET ProgressKeys]
          /\ retrieve_strategy' \in Strategies
      BY <2>5, <3>1, ReportTyped DEF UpdateCogmap
    <3>3. cnt' \in [Kinds -> Nat]
      BY <2>5, CountTyped DEF UpdateCogmap, Runs, Kinds
    <3>4. invalid_kind_cnt' \in [Kinds -> Nat]
      BY <2>5 DEF UpdateCogmap, FailedCall, TypeOK
    <3>5. DOMAIN objects' = ObjNames
      BY <2>5 DEF UpdateCogmap, MergeObjects
    <3>6. retrieved' \in ImageIdx \cup {NoImage}
      BY <2>5 DEF UpdateCogmap, TypeOK
    <3>7. repeat_retrieve_cnt' \in Nat
      BY <2>5 DEF UpdateCogmap, TypeOK
    <3> QED BY <3>1, <3>2, <3>3, <3>4, <3>5, <3>6, <3>7 DEF TypeOK
  <2>6. CASE UNCHANGED vars
    BY <2>6 DEF vars, counters, map, TypeOK
  <2> QED BY <2>1, <2>2, <2>3, <2>4, <2>5, <2>6 DEF Next
<1> QED BY <1>1, <1>2, PTL DEF Spec
----------------------------------------------------------------------------
(* How a step can end: the stage decides is_done, the answer that is kept   *)
(* and the image the next prompt shows.                                     *)
Outcome ==
  \/ stage = "invalid" /\ is_done = TRUE /\ pred_answer = NoAnswer
  \/ stage = "answer" /\ is_done = TRUE
  \/ stage = "retrieve" /\ is_done = FALSE /\ retrieved # NoImage
  \/ stage = "update_cogmap" /\ is_done = FALSE /\ retrieved = NoImage

Reported ==
  /\ info.done = (is_done \/ current_step_count >= MaxInteractions)
  /\ info.won => is_done /\ pred_answer = GtAnswer
  /\ info.keys = ReportKeys(info.done, stage)

IInv ==
  \/ TypeOK /\ ~info.won /\ current_step_count = 0
  \/ TypeOK /\ Outcome /\ Reported

(* Each of the five actions ends in one of the outcomes. *)
LEMMA StepOutcome ==
  ASSUME NEW code \in Codes,
         ParseFailure(code) \/ LeadingMove(code) \/ Answer(code) \/ Retrieve(code) \/ UpdateCogmap(code)
  PROVE  Outcome'
<1>1. CASE ParseFailure(code)
  BY <1>1 DEF ParseFailure, SetInvalid, Outcome
<1>2. CASE LeadingMove(code)
  BY <1>2 DEF LeadingMove, FailedCall, SetInvalid, Outcome
<1>3. CASE Answer(code)
  BY <1>3 DEF Answer, FailedCall, SetInvalid, Outcome
<1>4. CASE Retrieve(code)
  <2>1. NoImage \notin ImageIdx
    BY ImagesAssumption DEF NoImage
  <2> QED BY <1>4, <2>1 DEF Retrieve, ShowView, ShowViewThenFail, FailedCall, SetInvalid, Outcome
<1>5. CASE UpdateCogmap(code)
  BY <1>5 DEF UpdateCogmap, FailedCall, SetInvalid, Outcome
<1> QED BY <1>1, <1>2, <1>3, <1>4, <1>5

LEMMA StepReports ==
  ASSUME NEW code \in Codes,
         ParseFailure(code) \/ LeadingMove(code) \/ Answer(code) \/ Retrieve(code) \/ UpdateCogmap(code)
  PROVE  Report
  BY DEF ParseFailure, LeadingMove, Answer, Retrieve, UpdateCogmap

LEMMA InductiveInvariant == Spec => []IInv
<1>1. Init => IInv
  <2> SUFFICES ASSUME Init PROVE IInv
    OBVIOUS
  <2>1. TypeOK
    BY InitTyped
  <2>2. ~info.won /\ current_step_count = 0
    BY DEF Init
  <2> QED BY <2>1, <2>2 DEF IInv
<1>2. IInv /\ [Next]_vars /\ TypeOK' => IInv'
  <2> SUFFICES ASSUME IInv, [Next]_vars, TypeOK' PROVE IInv'
    OBVIOUS
  <2>1. ASSUME NEW code \in Codes,
          ParseFailure(code) \/ LeadingMove(code) \/ Answer(code) \/ Retrieve(code) \/ UpdateCogmap(code)
        PROVE IInv'
    <3>1. Outcome'
      BY <2>1, StepOutcome
    <3>2. Report
      BY <2>1, StepReports
    <3>3. Reported'
      BY <3>2 DEF Report, Reported, Evaluate, Done
    <3> QED BY <3>1, <3>3 DEF IInv
  <2>2. CASE UNCHANGED vars
    BY <2>2 DEF vars, counters, map, IInv, Outcome, Reported
  <2> QED BY <2>1, <2>2 DEF Next
<1> QED BY <1>1, <1>2, TypeCorrect, PTL DEF Spec

(* Every report a step makes carries the three keys the rollout loop reads. *)
THEOREM ReportsReadable == Spec => []ReportIsReadable
<1>1. IInv => ReportIsReadable
  BY DEF IInv, Reported, Outcome, ReportKeys, ReportIsReadable, TypeOK
<1> QED BY <1>1, InductiveInvariant, PTL

(* An episode is won only in the step that answers. *)
THEOREM NoStaleWin == Spec => []WonByAnsweringNow
<1>1. IInv => WonByAnsweringNow
  BY AnswersAssumption DEF IInv, Reported, Outcome, WonByAnsweringNow
<1> QED BY <1>1, InductiveInvariant, PTL

(* In a live episode the next prompt shows an image exactly after a         *)
(* retrieve.                                                                *)
THEOREM PromptConsistent == Spec => []PromptFollowsStage
<1>1. IInv => PromptFollowsStage
  BY DEF IInv, Reported, Outcome, PromptFollowsStage, TypeOK
<1> QED BY <1>1, InductiveInvariant, PTL
(* The environment implements the worker the rollout loop is composed with: *)
(* each step is a step of EnvWorker.                                        *)
THEOREM ImplementsWorker == Spec => IsWorker
<1>1. Init => W!WorkerInit
  BY DEF Init, W!WorkerInit
<1>2. TypeOK' /\ [Next]_vars => [W!WorkerStep]_(W!wvars)
  <2> SUFFICES ASSUME TypeOK', [Next]_vars PROVE [W!WorkerStep]_(W!wvars)
    OBVIOUS
  <2>1. ASSUME NEW code \in Codes,
          ParseFailure(code) \/ LeadingMove(code) \/ Answer(code) \/ Retrieve(code) \/ UpdateCogmap(code)
        PROVE W!WorkerStep
    <3>1. Report /\ Guard
      BY <2>1, StepReports DEF ParseFailure, LeadingMove, Answer, Retrieve, UpdateCogmap, Runs
    <3>2. info'.done \in BOOLEAN /\ info'.won \in BOOLEAN
      BY DEF TypeOK
    <3>3. current_step_count' >= MaxInteractions => info'.done
      BY <3>1 DEF Report, Done
    <3>4. info'.won => info'.done
      BY <3>1 DEF Report
    <3> QED BY <3>1, <3>2, <3>3, <3>4 DEF W!WorkerStep, Report, Guard, W!Reports, W!Permitted
  <2>2. CASE UNCHANGED vars
    BY <2>2 DEF vars, W!wvars
  <2> QED BY <2>1, <2>2 DEF Next
<1> QED BY <1>1, <1>2, TypeCorrect, PTL DEF Spec, IsWorker, W!WorkerSpec

----------------------------------------------------------------------------
(* The cognitive map: what is merged into it *)

(* Nth counts a finite set of integers through, each element once. *)
LEMMA NthCounts ==
  ASSUME NEW S \in SUBSET Int, IsFiniteSet(S)
  PROVE  /\ \A k \in 1 .. Cardinality(S) :
               Nth(S, k) \in S /\ Cardinality({j \in S : j <= Nth(S, k)}) = k
         /\ \A i \in S : /\ Cardinality({j \in S : j <= i}) \in 1 .. Cardinality(S)
                         /\ Nth(S, Cardinality({j \in S : j <= i})) = i
<1> DEFINE upto(i) == {j \in S : j <= i}
           n == Cardinality(S)
           rank == [i \in S |-> Cardinality(upto(i))]
<1>1. n \in Nat
  BY FS_CardinalityType
<1>2. ASSUME NEW i \in S
      PROVE  IsFiniteSet(upto(i)) /\ Cardinality(upto(i)) \in 1 .. n
  <2>1. upto(i) \in SUBSET S /\ i \in upto(i)
    OBVIOUS
  <2>2. IsFiniteSet(upto(i)) /\ Cardinality(upto(i)) <= n
    BY <2>1, FS_Subset
  <2>3. Cardinality(upto(i)) \in Nat /\ Cardinality(upto(i)) # 0
    BY <2>1, <2>2, FS_CardinalityType, FS_EmptySet
  <2> QED BY <1>1, <2>2, <2>3
<1>3. ASSUME NEW i \in S, NEW j \in S, Cardinality(upto(i)) = Cardinality(upto(j)), i <= j
      PROVE  i = j
  <2>1. upto(i) \in SUBSET upto(j)
    <3>1. \A a \in Int : a <= i => a <= j
      BY <1>3
    <3> QED BY <3>1
  <2>2. upto(i) = upto(j)
    BY <1>2, <1>3, <2>1, FS_Subset
  <2>3. j \in upto(j)
    OBVIOUS
  <2>4. j <= i
    BY <2>2, <2>3
  <2> QED BY <1>3, <2>4
<1>4. ASSUME NEW i \in S, NEW j \in S, Cardinality(upto(i)) = Cardinality(upto(j))
      PROVE  i = j
  <2>1. CASE i <= j
    BY <1>3, <1>4, <2>1
  <2>2. CASE j <= i
    BY <1>3, <1>4, <2>2
  <2> QED BY <2>1, <2>2
<1>5. rank \in Injection(S, 1 .. n)
  <2>1. rank \in [S -> 1 .. n]
    BY <1>2
  <2>2. \A i, j \in S : rank[i] = rank[j] => i = j
    BY <1>4
  <2> HIDE DEF rank
  <2> QED BY <2>1, <2>2 DEF Injection, IsInjective
<1>6. IsFiniteSet(1 .. n) /\ Cardinality(1 .. n) = n
  BY <1>1, FS_Interval
<1>7. rank \in Surjection(S, 1 .. n)
  <2>1. Cardinality(S) = Cardinality(1 .. n)
    BY <1>6
  <2> HIDE DEF rank, n
  <2> QED BY <1>5, <1>6, <2>1, FS_Injection
<1>8. \A k \in 1 .. n : \E i \in S : Cardinality(upto(i)) = k
  BY <1>7 DEF Surjection
<1>9. ASSUME NEW k \in 1 .. n PROVE Nth(S, k) \in S /\ Cardinality(upto(Nth(S, k))) = k
  BY <1>8 DEF Nth
<1>10. ASSUME NEW i \in S PROVE Nth(S, Cardinality(upto(i))) = i
  <2> DEFINE k == Cardinality(upto(i))
  <2>1. k \in 1 .. n
    BY <1>2
  <2>2. Nth(S, k) \in S /\ Cardinality(upto(Nth(S, k))) = k
    BY <1>9, <2>1
  <2> QED BY <1>4, <2>2
<1> QED BY <1>2, <1>9, <1>10

(* The payload of a call to update_cogmap. *)
LEMMA MapTyped ==
  ASSUME NEW code \in Codes, UpdateCogmap(code)
  PROVE  TheCall(code).map \in [objs: Seq(SentObjects), views: Seq(SentViews)]
<1>1. TheCall(code) \in Calls /\ TheCall(code).method = "update_cogmap"
  BY TheCallTyped DEF UpdateCogmap, Runs
<1> QED BY <1>1 DEF Calls, Moves

LEMMA ClipOnGrid == \A p \in Int : Clip(p) \in Grid
BY LimitsAssumption DEF Clip, Grid

(* A set of positions in a sequence is finite, and its elements are counted *)
(* by Nth.                                                                  *)
LEMMA PositionsCounted ==
  ASSUME NEW T, NEW s \in Seq(T), NEW S \in SUBSET DOMAIN s
  PROVE  IsFiniteSet(S) /\ Cardinality(S) \in Nat /\ \A k \in 1 .. Cardinality(S) : Nth(S, k) \in S
<1>1. Len(s) \in Nat /\ DOMAIN s = 1 .. Len(s)
  OBVIOUS
<1>2. IsFiniteSet(1 .. Len(s))
  BY <1>1, FS_Interval
<1>3. IsFiniteSet(S) /\ S \in SUBSET Int
  BY <1>1, <1>2, FS_Subset
<1> QED BY <1>3, NthCounts, FS_CardinalityType

(* What is stored is on the grid and under a name's normal form.            *)
LEMMA MergeOnGrid ==
  ASSUME MapOnGrid, NEW m \in [objs: Seq(SentObjects), views: Seq(SentViews)],
         MergeObjects(m), MergeViews(m)
  PROVE  MapOnGrid'
<1>1. ASSUME NEW n \in ObjNames PROVE objects'[n] \in Grid \cup {NoPos}
  <2> DEFINE added == Before(ObjectsAdded(m), ObjectsRaise(m))
             PosOf == {Clip(m.objs[j].pos) : j \in {i \in added : m.objs[i].name = n}}
  <2>1. objects'[n] = IF PosOf = {} THEN objects[n] ELSE CHOOSE p \in PosOf : TRUE
    BY DEF MergeObjects
  <2>2. PosOf \subseteq Grid
    <3>1. added \subseteq DOMAIN m.objs
      BY DEF Before, ObjectsAdded
    <3>2. \A j \in DOMAIN m.objs : m.objs[j] \in SentObjects
      OBVIOUS
    <3>3. \A j \in added : m.objs[j].pos \in Int
      BY <3>1, <3>2 DEF SentObjects
    <3> QED BY <3>3, ClipOnGrid
  <2> HIDE DEF PosOf
  <2> QED BY <2>1, <2>2 DEF MapOnGrid
<1>2. views' \in Seq(StoredViews)
  <2> DEFINE added == Before(ViewsAdded(m), ViewsRaise(m))
             new == [k \in 1 .. Cardinality(added) |-> StoredView(m.views[Nth(added, k)])]
  <2>1. m.views \in Seq(SentViews) /\ added \subseteq DOMAIN m.views
    BY DEF Before, ViewsAdded
  <2>2. Cardinality(added) \in Nat /\ \A k \in 1 .. Cardinality(added) : Nth(added, k) \in added
    BY <2>1, PositionsCounted
  <2>3. ASSUME NEW j \in added PROVE StoredView(m.views[j]) \in StoredViews
    <3>1. m.views[j].idx \in ViewIdx
      BY DEF Before, ViewsAdded, AddsView
    <3>2. m.views[j] \in SentViews
      BY <2>1
    <3>3. m.views[j].pos \in Int /\ m.views[j].facing \in Facings \cup {"back"}
      BY <3>2 DEF SentViews
    <3>4. Clip(m.views[j].pos) \in Grid
      BY <3>3, ClipOnGrid
    <3> QED BY <3>1, <3>3, <3>4 DEF StoredView, StoredViews, Facings
  <2>4. views' = views \o new
    BY DEF MergeViews
  <2> HIDE DEF added
  <2>5. new \in Seq(StoredViews)
    BY <2>2, <2>3
  <2> HIDE DEF new
  <2> QED BY <2>4, <2>5 DEF MapOnGrid
<1> QED BY <1>1, <1>2 DEF MapOnGrid

(* Merging leaves what is there.                                            *)
LEMMA MergeKeeps ==
  ASSUME NEW T, views \in Seq(T), NEW m \in [objs: Seq(SentObjects), views: Seq(SentViews)],
         MergeObjects(m), MergeViews(m)
  PROVE  /\ \A n \in ObjNames : objects[n] # NoPos => objects'[n] = objects[n]
         /\ Len(views') >= Len(views) /\ \A i \in DOMAIN views : views'[i] = views[i]
<1>1. ASSUME NEW n \in ObjNames, objects[n] # NoPos PROVE objects'[n] = objects[n]
  <2>1. \A j \in ObjectsAdded(m) : m.objs[j].name # n
    BY <1>1 DEF ObjectsAdded, AddsObject
  <2> QED BY <2>1 DEF MergeObjects, Before
<1>2. Len(views') >= Len(views) /\ \A i \in DOMAIN views : views'[i] = views[i]
  <2> DEFINE added == Before(ViewsAdded(m), ViewsRaise(m))
             new == [k \in 1 .. Cardinality(added) |-> StoredView(m.views[Nth(added, k)])]
             U == T \cup {StoredView(m.views[Nth(added, k)]) : k \in 1 .. Cardinality(added)}
  <2>1. views' = views \o new
    BY DEF MergeViews
  <2>2. Cardinality(added) \in Nat
    <3>1. m.views \in Seq(SentViews) /\ added \subseteq DOMAIN m.views
      BY DEF Before, ViewsAdded
    <3> QED BY <3>1, PositionsCounted
  <2> HIDE DEF added
  <2>3. new \in Seq(U)
    <3>1. \A k \in 1 .. Cardinality(added) : StoredView(m.views[Nth(added, k)]) \in U
      OBVIOUS
    <3> HIDE DEF U
    <3> QED BY <2>2, <3>1
  <2>4. views \in Seq(U)
    <3>1. T \subseteq U
      OBVIOUS
    <3> HIDE DEF U
    <3> QED BY <3>1
  <2> HIDE DEF new, U
  <2> QED BY <2>1, <2>3, <2>4
<1> QED BY <1>1, <1>2

(* Only update_cogmap touches the map. *)
LEMMA OthersKeepMap ==
  ASSUME NEW code, ParseFailure(code) \/ LeadingMove(code) \/ Answer(code) \/ Retrieve(code)
  PROVE  UNCHANGED <<objects, views>>
BY DEF ParseFailure, LeadingMove, Answer, Retrieve, map

LEMMA GridStep == MapOnGrid /\ [Next]_vars => MapOnGrid'
<1> SUFFICES ASSUME MapOnGrid, [Next]_vars PROVE MapOnGrid'
  OBVIOUS
<1>1. ASSUME UNCHANGED <<objects, views>> PROVE MapOnGrid'
  BY <1>1 DEF MapOnGrid
<1>2. ASSUME NEW code \in Codes, UpdateCogmap(code) PROVE MapOnGrid'
  BY <1>2, MapTyped, MergeOnGrid DEF UpdateCogmap
<1>3. CASE UNCHANGED vars
  BY <1>1, <1>3 DEF vars, map
<1> QED BY <1>1, <1>2, <1>3, OthersKeepMap DEF Next

LEMMA GridInvariant == Spec => []MapOnGrid
<1>1. Init => MapOnGrid
  BY DEF Init, MapOnGrid
<1> QED BY <1>1, GridStep, PTL DEF Spec

(* What a step counts: its method once, or an invalid call, or both.        *)
LEMMA StepCounts ==
  ASSUME TypeOK, NEW code \in Codes,
         ParseFailure(code) \/ LeadingMove(code) \/ Answer(code) \/ Retrieve(code) \/ UpdateCogmap(code)
  PROVE  /\ invalid_cnt' \in {invalid_cnt, invalid_cnt + 1}
         /\ \/ CountSum' = CountSum + 1
            \/ CountSum' = CountSum /\ invalid_cnt' = invalid_cnt + 1
         /\ current_step_count' = current_step_count + 1
<1>0. ASSUME NEW k \in Kinds, CountCall(k) PROVE CountSum' = CountSum + 1
  BY <1>0 DEF CountCall, CountSum, TypeOK, Kinds
<1>1. current_step_count' = current_step_count + 1
  BY StepReports DEF Report
<1>2. CASE ParseFailure(code)
  BY <1>1, <1>2 DEF ParseFailure, SetInvalid, CountSum
<1>3. CASE LeadingMove(code)
  BY <1>0, <1>1, <1>3, TheCallTyped DEF LeadingMove, FailedCall, SetInvalid, Kinds
<1>4. CASE Answer(code)
  BY <1>0, <1>1, <1>4 DEF Answer, Runs, FailedCall, SetInvalid, Kinds
<1>5. CASE Retrieve(code)
  BY <1>0, <1>1, <1>5 DEF Retrieve, Runs, ShowView, ShowViewThenFail, FailedCall, SetInvalid, Kinds
<1>6. CASE UpdateCogmap(code)
  BY <1>0, <1>1, <1>6 DEF UpdateCogmap, Runs, FailedCall, SetInvalid, Kinds
<1> QED BY <1>2, <1>3, <1>4, <1>5, <1>6

LEMMA AccountedStep == TypeOK /\ StepsAccounted /\ [Next]_vars => StepsAccounted'
<1> SUFFICES ASSUME TypeOK, StepsAccounted, [Next]_vars PROVE StepsAccounted'
  OBVIOUS
<1>1. CountSum \in Nat /\ invalid_cnt \in Nat /\ current_step_count \in Nat
  BY DEF TypeOK, CountSum, Kinds
<1>2. ASSUME NEW code \in Codes,
             ParseFailure(code) \/ LeadingMove(code) \/ Answer(code) \/ Retrieve(code) \/ UpdateCogmap(code)
      PROVE  StepsAccounted'
  BY <1>1, <1>2, StepCounts DEF StepsAccounted
<1>3. CASE UNCHANGED vars
  BY <1>3 DEF vars, counters, StepsAccounted, CountSum
<1> QED BY <1>2, <1>3 DEF Next

(* Whatever a payload contained, the map the renderer draws is on the grid; *)
(* every report has what the loop reads; the prompt shows an image exactly  *)
(* after a retrieve; and the counters account for every step.               *)
THEOREM EveryReportRight == Spec => []ReportsRight
<1>1. Init => StepsAccounted
  BY DEF Init, StepsAccounted, CountSum, ZeroCounts, Kinds
<1>2. Spec => []StepsAccounted
  BY <1>1, AccountedStep, TypeCorrect, PTL DEF Spec
<1> QED BY <1>2, GridInvariant, ReportsReadable, PromptConsistent, PTL DEF ReportsRight

(* No call loses or moves what an earlier one stored, and while a view is   *)
(* missing from the map, random and greedy show a missing one.              *)
THEOREM CallsKeep == Spec => CallsKeepTheMap
<1> DEFINE Grows == /\ \A n \in ObjNames : objects[n] # NoPos => objects'[n] = objects[n]
                    /\ Len(views') >= Len(views) /\ \A i \in DOMAIN views : views'[i] = views[i]
                    /\ (map' # map => cnt'["update_cogmap"] = cnt["update_cogmap"] + 1)
           Unknown == retrieve_strategy # "adaptive" /\ stage' = "retrieve" /\ RemainingViews # {}
                        => retrieved' \in RemainingViews
<1>1. TypeOK /\ MapOnGrid /\ [Next]_vars => [Grows]_vars
  <2> SUFFICES ASSUME TypeOK, MapOnGrid, Next PROVE Grows
    OBVIOUS
  <2>1. views \in Seq(StoredViews)
    BY DEF MapOnGrid
  <2>2. ASSUME UNCHANGED <<objects, views>> PROVE Grows
    BY <2>1, <2>2 DEF map
  <2>3. ASSUME NEW code \in Codes, UpdateCogmap(code) PROVE Grows
    <3>1. cnt'["update_cogmap"] = cnt["update_cogmap"] + 1
      BY <2>3 DEF UpdateCogmap, Runs, CountCall, TypeOK, Kinds
    <3> QED BY <2>1, <2>3, <3>1, MapTyped, MergeKeeps DEF UpdateCogmap
  <2> QED BY <2>2, <2>3, OthersKeepMap DEF Next
<1>2. TypeOK /\ [Next]_vars => [Unknown]_vars
  <2> SUFFICES ASSUME TypeOK, Next PROVE Unknown
    OBVIOUS
  <2>1. ASSUME NEW code \in Codes, Retrieve(code) PROVE Unknown
    <3> SUFFICES ASSUME retrieve_strategy # "adaptive", stage' = "retrieve", RemainingViews # {}
                 PROVE  retrieved' \in RemainingViews
      OBVIOUS
    <3>1. PICK shown \in RetrieveTargets(ClampView(TheCall(code).view)) : retrieved' = shown
      BY <2>1 DEF Retrieve, ShowView, ShowViewThenFail, FailedCall, SetInvalid
    <3>2. retrieve_strategy \in {"random", "greedy"}
      BY DEF TypeOK, Strategies
    <3> QED BY <3>1, <3>2 DEF RetrieveTargets, LeastOf
  <2>2. ASSUME NEW code \in Codes, ParseFailure(code) \/ LeadingMove(code) \/ Answer(code) \/ UpdateCogmap(code)
        PROVE  Unknown
    BY <2>2 DEF ParseFailure, LeadingMove, Answer, UpdateCogmap, FailedCall, SetInvalid
  <2> QED BY <2>1, <2>2 DEF Next
<1> HIDE DEF Grows, Unknown
<1>3. Spec => [][Grows]_vars /\ [][Unknown]_vars
  BY <1>1, <1>2, TypeCorrect, GridInvariant, PTL DEF Spec
<1> QED BY <1>3 DEF CallsKeepTheMap, MapOnlyGrows, ShowsUnknownView, Grows, Unknown

----------------------------------------------------------------------------
(* The manager around the environment *)

LEMMA ExecuteStep ==
  ASSUME NEW r \in Responses, Respond(r)
  PROVE  ProjectedCode(r) \in Codes /\ Execute(ProjectedCode(r)) /\ Next
BY ResponsesAssumption DEF Respond, Execute, Next

(* The manager executes nothing but codes: what holds of the environment    *)
(* holds of the one in its hands.                                           *)
THEOREM ManagerKeepsEnvironment == ManagerSpec => Spec
<1>1. ManagerInit => Init
  BY DEF ManagerInit
<1>2. [ManagerNext]_mvars => [Next]_vars
  BY ExecuteStep DEF ManagerNext, mvars
<1> QED BY <1>1, <1>2, PTL DEF ManagerSpec, Spec

(* The prompt is what build_obs makes of the environment. *)
PromptInv ==
  \/ prompt = PromptFor(retrieved, cnt, views)
  \/ current_step_count = 0 /\ prompt = [template |-> "MIND", views |-> Offered(views)]

(* Where an episode is that has done what the prompts asked for: what is    *)
(* shown is put into the map next, so the steps are two for each view.      *)
Obedient ==
  strayed = 0 =>
    /\ invalid_cnt = 0
    /\ \/ stage = "none" /\ current_step_count = 0 /\ cnt["retrieve"] = 0 /\ retrieved = NoImage
       \/ stage = "retrieve" /\ current_step_count + 1 = 2 * cnt["retrieve"] /\ retrieved \in RemainingViews
       \/ stage = "update_cogmap" /\ current_step_count = 2 * cnt["retrieve"] /\ retrieved = NoImage
       \/ stage = "answer" /\ info.done
    /\ stage # "answer" => cnt["retrieve"] <= RetrieveLimit /\ ~info.done

(* The views are numbered without a gap, and the limit of the steps leaves  *)
(* room for as many views as the prompts offer (4 of 10 as configured).     *)
LimitsFit ==
  /\ ImageIdx = 1 .. TotalViews
  /\ MaxRetrieve \in Nat \ {0} /\ 2 * MaxRetrieve < MaxInteractions
  /\ 2 * TotalViews < MaxInteractions

LEMMA PromptStep == PromptInv /\ [ManagerNext]_mvars => PromptInv'
<1>1. ASSUME NEW r \in Responses, Respond(r) PROVE PromptInv'
  <2>1. retrieve_strategy' = retrieve_strategy
    BY <1>1, ExecuteStep, StepReports DEF Execute, Report
  <2>2. RetrieveLimit' = RetrieveLimit
    BY <2>1 DEF RetrieveLimit
  <2>3. prompt' = PromptFor(retrieved', cnt', views')
    BY <1>1 DEF Respond
  <2>4. PromptFor(retrieved', cnt', views') = PromptFor(retrieved, cnt, views)'
    BY <2>2 DEF PromptFor
  <2> QED BY <2>3, <2>4 DEF PromptInv
<1>2. ASSUME UNCHANGED mvars, PromptInv PROVE PromptInv'
  <2>1. UNCHANGED <<prompt, retrieved, cnt, views, current_step_count, retrieve_strategy>>
    BY <1>2 DEF mvars, vars, counters, map
  <2>2. PromptFor(retrieved, cnt, views)' = PromptFor(retrieved, cnt, views) /\ Offered(views)' = Offered(views)
    BY <2>1 DEF PromptFor, RetrieveLimit, Offered
  <2> QED BY <1>2, <2>1, <2>2 DEF PromptInv
<1> QED BY <1>1, <1>2 DEF ManagerNext

(* A code with one call alone, other than goto and face, is executed.       *)
LEMMA AloneRuns ==
  ASSUME NEW code \in Codes, Alone(code), code.calls[1].method \notin Moves, Execute(code)
  PROVE  /\ TheCall(code) = code.calls[1] /\ ~MoveTrails(code)
         /\ Answer(code) \/ Retrieve(code) \/ UpdateCogmap(code)
<1>1. code.calls \in Seq(Calls) /\ DOMAIN code.calls = {1}
  BY CodesAssumption DEF Alone
<1>2. CountedCalls(code) = {1}
  BY <1>1 DEF CountedCalls
<1>3. Cardinality(CountedCalls(code)) = 1
  BY <1>2, FS_Singleton
<1>4. Parses(code) /\ ~MoveLeads(code) /\ ~MoveTrails(code)
  BY <1>3 DEF Parses, Alone, MoveLeads, MoveTrails
<1> QED BY <1>2, <1>4 DEF TheCall, Execute, ParseFailure, LeadingMove

LEMMA LeastNatural ==
  ASSUME NEW T \in SUBSET Nat, T # {}
  PROVE  \E x \in T : \A y \in T : x <= y
<1> DEFINE Less == OpToRel(<, Nat)
<1>1. PICK x \in T : \A y \in T : <<y, x>> \notin Less
  <2> HIDE DEF Less
  <2>1. IsWellFoundedOn(Less, Nat)
    BY NatLessThanWellFounded DEF Less
  <2> QED BY <2>1, WFMin
<1>2. \A y \in T : ~(y < x)
  BY <1>1 DEF OpToRel
<1> QED BY <1>2

(* Asked for a view that is missing, every strategy shows a missing one.    *)
LEMMA ShowsMissing ==
  ASSUME TypeOK, LimitsFit, NEW code, Retrieve(code), ~MoveTrails(code),
         TheCall(code).view \in RemainingViews
  PROVE  /\ stage' = "retrieve" /\ retrieved' \in RemainingViews
         /\ invalid_cnt' = invalid_cnt /\ is_done' = FALSE
         /\ UNCHANGED <<objects, views>>
<1> DEFINE requested == ClampView(TheCall(code).view)
           targets == RetrieveTargets(requested)
<1>1. RemainingViews \subseteq 1 .. TotalViews /\ RemainingViews \subseteq Nat
  BY DEF RemainingViews
<1>2. requested = TheCall(code).view
  <2> DEFINE v == TheCall(code).view
  <2>1. v \in 1 .. TotalViews /\ requested = ClampView(v)
    BY <1>1
  <2> HIDE DEF v, requested
  <2>2. requested = v
    BY <2>1, TotalViewsPositive DEF ClampView
  <2> QED BY <2>2 DEF v
<1>3. targets \subseteq RemainingViews /\ targets # {}
  <2>1. CASE retrieve_strategy = "greedy"
    <3>1. LeastOf(RemainingViews) # {}
      BY <1>1, LeastNatural DEF LeastOf
    <3> QED BY <2>1, <3>1 DEF RetrieveTargets, LeastOf
  <2>2. CASE retrieve_strategy # "greedy"
    BY <1>2, <2>2 DEF RetrieveTargets
  <2> QED BY <2>1, <2>2
<1>4. targets \subseteq ImageIdx
  BY <1>1, <1>3 DEF LimitsFit
<1> HIDE DEF targets, requested
<1>5. PICK shown \in targets : ShowView(shown)
  <2>1. \/ \E shown \in targets \cap ImageIdx :
             IF MoveTrails(code) THEN ShowViewThenFail(shown) ELSE ShowView(shown)
        \/ targets = {} \/ \E shown \in targets : shown \notin ImageIdx
    BY DEF Retrieve, targets, requested
  <2> QED BY <1>3, <1>4, <2>1
<1> QED BY <1>3, <1>5 DEF ShowView, Retrieve, map

(* A call to update_cogmap whose entries are all accepted succeeds.         *)
LEMMA AcceptedMerges ==
  ASSUME NEW code, UpdateCogmap(code), ~MoveTrails(code),
         \A j \in DOMAIN TheCall(code).map.objs : TheCall(code).map.objs[j].accepted,
         \A j \in DOMAIN TheCall(code).map.views : TheCall(code).map.views[j].accepted
  PROVE  stage' = "update_cogmap" /\ is_done' = FALSE /\ retrieved' = NoImage /\ invalid_cnt' = invalid_cnt
<1> DEFINE m == TheCall(code).map
<1>1. ObjectsRaise(m) = {}
  BY DEF ObjectsRaise, Raises, ObjectsAdded
<1>2. ViewsRaise(m) = {}
  BY DEF ViewsRaise, Raises, ViewsAdded
<1> QED BY <1>1, <1>2 DEF UpdateCogmap, UpdateRaises

(* One obedient step. *)
LEMMA ObedientStep ==
  ASSUME LimitsFit, TypeOK, strayed \in Nat, PromptInv, Obedient, NEW r \in Responses, Respond(r)
  PROVE  Obedient'
<1> DEFINE code == ProjectedCode(r)
           n == cnt["retrieve"]
           steps == current_step_count
<1> SUFFICES ASSUME strayed' = 0
             PROVE  /\ invalid_cnt' = 0
                    /\ \/ /\ stage' = "retrieve" /\ steps' + 1 = 2 * cnt'["retrieve"]
                          /\ retrieved' \in RemainingViews'
                       \/ stage' = "update_cogmap" /\ steps' = 2 * cnt'["retrieve"] /\ retrieved' = NoImage
                       \/ stage' = "answer" /\ info'.done
                    /\ stage' # "answer" => cnt'["retrieve"] <= RetrieveLimit' /\ ~info'.done
  BY DEF Obedient
<1>1. strayed = 0 /\ ~info.done /\ Obeys(code)
  <2>1. strayed' = IF strayed = 0 /\ ~info.done /\ Obeys(code) THEN 0 ELSE strayed + 1
    BY DEF Respond
  <2> QED BY <2>1
<1>2. code \in Codes /\ Execute(code)
  BY ExecuteStep
<1>3. /\ steps' = steps + 1 /\ RetrieveLimit' = RetrieveLimit
      /\ info'.done = (is_done' \/ steps + 1 >= MaxInteractions)
  BY <1>2, StepReports DEF Execute, Report, Done, RetrieveLimit
<1>4. n \in Nat /\ steps \in Nat /\ MaxInteractions \in Nat
  BY LimitsAssumption DEF TypeOK, Kinds
<1>5. RetrieveLimit \in Nat /\ RetrieveLimit >= 1 /\ 2 * RetrieveLimit < MaxInteractions
  BY TotalViewsPositive DEF RetrieveLimit, LimitsFit
<1>6. Alone(code)
  BY <1>1 DEF Obeys
<1>7. Offered(views) = RemainingViews
  BY DEF Offered, RemainingViews, KnownViews
<1>8. 0 \notin RemainingViews
  BY DEF RemainingViews
<1> HIDE DEF code, n, steps
<1>9. CASE stage = "retrieve"
  <2>1. steps + 1 = 2 * n /\ retrieved \in RemainingViews /\ invalid_cnt = 0 /\ n <= RetrieveLimit
    BY <1>1, <1>9 DEF Obedient, n, steps
  <2>2. prompt = PromptFor(retrieved, cnt, views)
    BY <1>4, <2>1 DEF PromptInv, steps
  <2>3. prompt.template = "COGMAP_CONSTRUCTION"
    BY <1>8, <2>1, <2>2 DEF PromptFor, NoImage
  <2>4. ObeysConstruction(code)
    BY <1>1, <2>3 DEF Obeys
  <2>5. TheCall(code) = code.calls[1] /\ ~MoveTrails(code) /\ UpdateCogmap(code)
    BY <1>2, <1>6, <2>4, AloneRuns DEF ObeysConstruction, Moves, Answer, Retrieve, Runs
  <2>6. stage' = "update_cogmap" /\ is_done' = FALSE /\ retrieved' = NoImage /\ invalid_cnt' = invalid_cnt
    BY <2>4, <2>5, AcceptedMerges DEF ObeysConstruction
  <2>7. cnt'["retrieve"] = n
    BY <2>5 DEF UpdateCogmap, Runs, CountCall, TypeOK, Kinds, n
  <2>8. steps' = 2 * n /\ ~(steps + 1 >= MaxInteractions)
    BY <1>3, <1>4, <1>5, <2>1
  <2>9. ~info'.done
    BY <1>3, <2>6, <2>8
  <2> QED BY <1>3, <2>1, <2>6, <2>7, <2>8, <2>9
<1>10. CASE stage \in {"none", "update_cogmap"}
  <2>1. steps = 2 * n /\ retrieved = NoImage /\ invalid_cnt = 0 /\ n <= RetrieveLimit
    BY <1>1, <1>10 DEF Obedient, n, steps
  <2>2. \/ prompt = [template |-> "NO_RETRIEVE", views |-> {}]
        \/ prompt = [template |-> "MIND", views |-> RemainingViews] /\ n < RetrieveLimit
    <3>1. CASE prompt = PromptFor(retrieved, cnt, views)
      BY <1>4, <1>5, <1>7, <2>1, <3>1 DEF PromptFor, n
    <3>2. CASE steps = 0 /\ prompt = [template |-> "MIND", views |-> Offered(views)]
      BY <1>4, <1>5, <1>7, <2>1, <3>2
    <3> QED BY <3>1, <3>2 DEF PromptInv, steps
  <2>3. \/ code.calls[1].method = "answer"
        \/ code.calls[1].method = "retrieve" /\ code.calls[1].view \in RemainingViews /\ n < RetrieveLimit
    BY <1>1, <2>2 DEF Obeys, ObeysMind, ObeysNoRetrieve
  <2>4. CASE code.calls[1].method = "answer"
    <3>1. ~MoveTrails(code) /\ Answer(code)
      BY <1>2, <1>6, <2>4, AloneRuns DEF Moves, Answer, UpdateCogmap, Retrieve, Runs
    <3>2. stage' = "answer" /\ is_done' = TRUE /\ invalid_cnt' = invalid_cnt
      BY <3>1 DEF Answer
    <3> QED BY <1>3, <2>1, <3>2
  <2>5. CASE code.calls[1].method = "retrieve" /\ code.calls[1].view \in RemainingViews /\ n < RetrieveLimit
    <3>1. TheCall(code) = code.calls[1] /\ ~MoveTrails(code) /\ Retrieve(code)
      BY <1>2, <1>6, <2>5, AloneRuns DEF Moves, Answer, UpdateCogmap, Retrieve, Runs
    <3>2. /\ stage' = "retrieve" /\ retrieved' \in RemainingViews
          /\ invalid_cnt' = invalid_cnt /\ is_done' = FALSE /\ UNCHANGED <<objects, views>>
      BY <2>5, <3>1, ShowsMissing
    <3>3. RemainingViews' = RemainingViews
      BY <3>2 DEF RemainingViews, KnownViews
    <3>4. cnt'["retrieve"] = n + 1
      BY <3>1 DEF Retrieve, Runs, CountCall, TypeOK, Kinds, n
    <3>5. /\ steps' + 1 = 2 * cnt'["retrieve"] /\ cnt'["retrieve"] <= RetrieveLimit
          /\ ~(steps + 1 >= MaxInteractions)
      BY <1>3, <1>4, <1>5, <2>1, <2>5, <3>4
    <3>6. ~info'.done
      BY <1>3, <3>2, <3>5
    <3> QED BY <1>3, <2>1, <3>2, <3>3, <3>5, <3>6
  <2> QED BY <2>3, <2>4, <2>5
<1> QED BY <1>1, <1>9, <1>10 DEF Obedient

(* Prompts, strategies and limits fit together: an agent that does what     *)
(* each prompt asks for is never told that a call was invalid, is shown no  *)
(* view that is in the map, and comes to its answer before the limit.       *)
THEOREM ObeyingIsEnough ==
  ASSUME LimitsFit
  PROVE  ManagerSpec => []ObeyingSucceeds
<1> DEFINE Inv == strayed \in Nat /\ PromptInv /\ Obedient
<1>1. ManagerInit => Inv
  <2> SUFFICES ASSUME ManagerInit PROVE Inv
    OBVIOUS
  <2>1. views = <<>> /\ current_step_count = 0 /\ retrieved = NoImage /\ strayed = 0 /\ invalid_cnt = 0
    BY DEF ManagerInit, Init
  <2>2. stage = "none" /\ cnt["retrieve"] = 0 /\ ~info.done
    BY DEF ManagerInit, Init, ZeroCounts, Kinds
  <2>3. RetrieveLimit \in Nat
    BY TotalViewsPositive DEF RetrieveLimit, LimitsFit
  <2>4. prompt = [template |-> "MIND", views |-> Offered(views)]
    <3>1. {views[i].idx : i \in DOMAIN views} = {}
      BY <2>1
    <3> QED BY <3>1 DEF ManagerInit, Offered
  <2> QED BY <2>1, <2>2, <2>3, <2>4 DEF PromptInv, Obedient
<1>2. TypeOK /\ Inv /\ [ManagerNext]_mvars => Inv'
  <2> SUFFICES ASSUME TypeOK, Inv, [ManagerNext]_mvars PROVE Inv'
    OBVIOUS
  <2>1. PromptInv'
    BY PromptStep
  <2>2. ASSUME NEW r \in Responses, Respond(r) PROVE strayed' \in Nat /\ Obedient'
    <3>1. strayed' \in {0, strayed + 1}
      BY <2>2 DEF Respond
    <3> QED BY <2>2, <3>1, ObedientStep
  <2>3. CASE UNCHANGED mvars
    <3>1. UNCHANGED <<strayed, invalid_cnt, stage, current_step_count, cnt, retrieved, views, info, retrieve_strategy>>
      BY <2>3 DEF mvars, vars, counters, map
    <3>2. RemainingViews' = RemainingViews /\ RetrieveLimit' = RetrieveLimit
      BY <3>1 DEF RemainingViews, KnownViews, RetrieveLimit
    <3>3. Obedient' <=> Obedient
      BY <3>1, <3>2 DEF Obedient
    <3> QED BY <2>1, <3>1, <3>3
  <2> QED BY <2>1, <2>2, <2>3 DEF ManagerNext
<1>3. Inv => ObeyingSucceeds
  BY DEF Obedient, ObeyingSucceeds, RemainingViews
<1> HIDE DEF Inv
<1> QED BY <1>1, <1>2, <1>3, ManagerKeepsEnvironment, TypeCorrect, PTL DEF ManagerSpec

----------------------------------------------------------------------------
(* The reward of an episode *)

Placed == {n \in ObjNames : objects[n] # NoPos}

(* Names are put into the map one payload at a time. *)
LEMMA PlacedFinite == IsFiniteSet(Placed) /\ [Next]_vars => IsFiniteSet(Placed')
<1> SUFFICES ASSUME IsFiniteSet(Placed), [Next]_vars PROVE IsFiniteSet(Placed')
  OBVIOUS
<1>1. ASSUME UNCHANGED <<objects, views>> PROVE IsFiniteSet(Placed')
  BY <1>1 DEF Placed
<1>2. ASSUME NEW code \in Codes, UpdateCogmap(code) PROVE IsFiniteSet(Placed')
  <2> DEFINE m == TheCall(code).map
             sent == {m.objs[j].name : j \in DOMAIN m.objs}
             f == [j \in DOMAIN m.objs |-> m.objs[j].name]
             all == Placed \cup sent
  <2>1. m.objs \in Seq(SentObjects)
    BY <1>2, MapTyped
  <2>2. IsFiniteSet(DOMAIN m.objs)
    BY <2>1, PositionsCounted
  <2>3. f \in Surjection(DOMAIN m.objs, sent)
    BY DEF Surjection
  <2>4. IsFiniteSet(sent)
    <3> HIDE DEF f, sent
    <3> QED BY <2>2, <2>3, FS_Surjection
  <2>5. Placed' \subseteq all
    BY <1>2 DEF UpdateCogmap, MergeObjects, Placed, Before, ObjectsAdded
  <2>6. IsFiniteSet(all)
    <3> HIDE DEF sent
    <3> QED BY <2>4, FS_Union
  <2> HIDE DEF all
  <2> QED BY <2>5, <2>6, FS_Subset
<1>3. CASE UNCHANGED vars
  BY <1>1, <1>3 DEF vars, map
<1> QED BY <1>1, <1>2, <1>3, OthersKeepMap DEF Next

(* A code of the reasoning costs at most a unit, an entry of the map at     *)
(* most one, and the question one.                                          *)
LEMMA ProgressAtLeast ==
  ASSUME NEW T, NEW codes \in Seq(T), NEW vs
  PROVE  ProgressReward(codes, vs) \in Int /\ ProgressReward(codes, vs) >= -Len(codes)
<1> DEFINE held == {i \in DOMAIN codes : Holds(codes[i], vs)}
           rest == DOMAIN codes \ held
<1>1. IsFiniteSet(DOMAIN codes) /\ Cardinality(DOMAIN codes) = Len(codes) /\ Len(codes) \in Nat
  <2> DEFINE l == Len(codes)
  <2>1. DOMAIN codes = 1 .. l /\ l \in Nat
    OBVIOUS
  <2> HIDE DEF l
  <2>2. 1 \in Int /\ l \in Int
    BY <2>1
  <2>3. IsFiniteSet(1 .. l) /\ Cardinality(1 .. l) = IF 1 > l THEN 0 ELSE l - 1 + 1
    BY <2>2, FS_Interval
  <2>4. Cardinality(1 .. l) = l
    BY <2>1, <2>3
  <2> QED BY <2>1, <2>3, <2>4 DEF l
<1>2. held \in SUBSET DOMAIN codes /\ rest \in SUBSET DOMAIN codes
  OBVIOUS
<1>3. ProgressReward(codes, vs) = 2 * Cardinality(held) - Cardinality(rest)
  BY DEF ProgressReward, CountOf
<1> HIDE DEF held, rest
<1>4. Cardinality(held) \in Nat /\ Cardinality(rest) \in Nat /\ Cardinality(rest) <= Len(codes)
  BY <1>1, <1>2, FS_Subset, FS_CardinalityType
<1> QED BY <1>1, <1>3, <1>4

LEMMA CogmapAtLeast ==
  ASSUME IsFiniteSet(Placed), NEW T, views \in Seq(T)
  PROVE  CogmapReward(objects, views) \in Int /\ MapEntries \in Nat /\ CogmapReward(objects, views) >= -MapEntries
<1> DEFINE known == Placed \cap DOMAIN GtObjects
           right == {n \in known : objects[n] = GtObjects[n]}
           seen == {i \in DOMAIN views : views[i].idx \in DOMAIN GtViews}
           exact == {i \in seen : views[i].pos = GtViews[views[i].idx].pos /\ views[i].facing = GtViews[views[i].idx].facing}
           P == Cardinality(Placed)
           K == Cardinality(known)
           G == Cardinality(right)
           S == Cardinality(seen)
           E == Cardinality(exact)
<1>1. CogmapReward(objects, views) = 2 * (K + S) - (P + Len(views) - (K + S)) + 2 * (G + E) - ((K + S) - (G + E))
  BY DEF CogmapReward, CountOf, Placed
<1>2. MapEntries = P + Len(views)
  BY DEF MapEntries, CountOf, Placed
<1>3. known \in SUBSET Placed /\ right \in SUBSET Placed
  OBVIOUS
<1>4. seen \in SUBSET DOMAIN views /\ exact \in SUBSET DOMAIN views
  OBVIOUS
<1>5. Len(views) \in Nat
  OBVIOUS
<1> HIDE DEF known, right, seen, exact
<1>6. P \in Nat /\ K \in Nat /\ G \in Nat
  BY <1>3, FS_Subset, FS_CardinalityType
<1>7. S \in Nat /\ E \in Nat
  BY <1>4, PositionsCounted
<1> HIDE DEF P, K, G, S, E
<1> QED BY <1>1, <1>2, <1>5, <1>6, <1>7

RewardInv ==
  /\ step_codes \in Seq(ReasoningCodes)
  /\ IsFiniteSet(Placed)
  /\ reward = EpisodeReward(info, step_codes, objects, views)

(* A win is worth more than a loss, whatever the reasoning and the map add  *)
(* or take away, while there are fewer of them than quarters in the reward  *)
(* of the answer.                                                           *)
THEOREM WinningPays == ManagerSpec => []WinsPay
<1>1. ManagerInit => RewardInv
  <2> SUFFICES ASSUME ManagerInit PROVE RewardInv
    OBVIOUS
  <2>1. Placed = {}
    BY DEF Placed, ManagerInit, Init
  <2> QED BY <2>1, FS_EmptySet DEF RewardInv, ManagerInit, Init, EpisodeReward
<1>2. RewardInv /\ [ManagerNext]_mvars => RewardInv'
  <2> SUFFICES ASSUME RewardInv, [ManagerNext]_mvars PROVE RewardInv'
    OBVIOUS
  <2>1. ASSUME NEW r \in Responses, Respond(r) PROVE RewardInv'
    <3>1. IsFiniteSet(Placed')
      BY <2>1, ExecuteStep, PlacedFinite DEF RewardInv
    <3>2. step_codes' \in Seq(ReasoningCodes)
      <4>1. CodesOf(r) \in Seq(ReasoningCodes)
        BY ResponsesAssumption DEF CodesOf
      <4>2. step_codes \in Seq(ReasoningCodes)
        BY DEF RewardInv
      <4>3. step_codes' = step_codes \o CodesOf(r)
        BY <2>1 DEF Respond
      <4> QED BY <4>1, <4>2, <4>3
    <3>3. reward' = EpisodeReward(info', step_codes', objects', views')
      BY <2>1 DEF Respond
    <3>4. EpisodeReward(info', step_codes', objects', views') = EpisodeReward(info, step_codes, objects, views)'
      OBVIOUS
    <3> QED BY <3>1, <3>2, <3>3, <3>4 DEF RewardInv
  <2>2. CASE UNCHANGED mvars
    <3>1. UNCHANGED <<step_codes, objects, views, info, reward>>
      BY <2>2 DEF mvars, vars, map
    <3>2. Placed' = Placed
      BY <3>1 DEF Placed
    <3> QED BY <3>1, <3>2 DEF RewardInv
  <2> QED BY <2>1, <2>2 DEF ManagerNext
<1>3. TypeOK /\ MapOnGrid /\ RewardInv => WinsPay
  <2> SUFFICES ASSUME TypeOK, MapOnGrid, RewardInv, MapEntries + Len(step_codes) + 1 < ResultReward
               PROVE  (reward > 0 <=> info.won) /\ reward >= 0
    BY DEF WinsPay
  <2> DEFINE p == ProgressReward(step_codes, views)
             c == CogmapReward(objects, views)
             q == RetrieveReward(objects, views)
  <2>1. p \in Int /\ p >= -Len(step_codes) /\ Len(step_codes) \in Nat
    BY ProgressAtLeast DEF RewardInv
  <2>2. c \in Int /\ MapEntries \in Nat /\ c >= -MapEntries
    BY CogmapAtLeast DEF RewardInv, MapOnGrid
  <2>3. q \in {2, -1}
    BY DEF RetrieveReward
  <2>4. reward = IF ~info.won THEN 0 ELSE ResultReward + (IF UseSac THEN p + c + q ELSE 0)
    BY DEF RewardInv, EpisodeReward
  <2> HIDE DEF p, c, q
  <2>5. ResultReward = 20
    BY DEF ResultReward
  <2>6. ResultReward + (p + c + q) > 0
    BY <2>1, <2>2, <2>3, <2>5
  <2>7. CASE info.won
    <3>1. CASE UseSac
      BY <2>1, <2>2, <2>3, <2>4, <2>5, <2>6, <2>7, <3>1
    <3>2. CASE ~UseSac
      BY <2>4, <2>5, <2>7, <3>2
    <3> QED BY <3>1, <3>2
  <2>8. CASE ~info.won
    BY <2>4, <2>8
  <2> QED BY <2>7, <2>8
<1> QED BY <1>1, <1>2, <1>3, ManagerKeepsEnvironment, TypeCorrect, GridInvariant, PTL DEF ManagerSpec

----------------------------------------------------------------------------
(* The evaluation executes what was recorded *)

THEOREM EvaluationKeepsEpisode == EvaluationSpec => ManagerSpec
<1>1. EvaluationInit => ManagerInit
  BY DEF EvaluationInit
<1>2. [EvaluationNext]_evars => [ManagerNext]_mvars
  BY DEF EvaluationNext, Round, Judge, ManagerNext, evars
<1> QED BY <1>1, <1>2, PTL DEF EvaluationSpec, ManagerSpec

(* Both environments count alike. *)
LEMMA SameCount == ASSUME NEW S PROVE R!Cardinality(S) = Cardinality(S)
  BY DEF R!Cardinality, Cardinality

(* Both environments parse a code alike. *)
LEMMA SameParse ==
  ASSUME NEW code
  PROVE  /\ R!Parses(code) <=> Parses(code)
         /\ R!TheCall(code) = TheCall(code)
         /\ R!MoveLeads(code) <=> MoveLeads(code)
         /\ R!MoveTrails(code) <=> MoveTrails(code)
<1>1. R!CountedCalls(code) = CountedCalls(code)
  BY DEF R!CountedCalls, CountedCalls, R!Moves, Moves
<1>2. R!Parses(code) <=> Parses(code)
  BY <1>1, SameCount DEF R!Parses, Parses
<1>3. R!TheCall(code) = TheCall(code)
  BY <1>1 DEF R!TheCall, TheCall
<1>4. R!MoveLeads(code) <=> MoveLeads(code)
  BY DEF R!MoveLeads, MoveLeads, R!Moves, Moves
<1>5. R!MoveTrails(code) <=> MoveTrails(code)
  BY <1>4 DEF R!MoveTrails, MoveTrails
<1> QED BY <1>2, <1>3, <1>4, <1>5

(* The same payload merged into the same map gives the same map. *)
LEMMA SameMerge ==
  ASSUME r_objects = objects, r_views = views, NEW m,
         MergeObjects(m), MergeViews(m), R!MergeObjects(m), R!MergeViews(m)
  PROVE  r_objects' = objects' /\ r_views' = views'
<1>1. R!ObjectsAdded(m) = ObjectsAdded(m)
  BY DEF R!ObjectsAdded, ObjectsAdded, R!AddsObject, AddsObject, R!NoPos, NoPos
<1>2. R!ObjectsRaise(m) = ObjectsRaise(m)
  BY <1>1 DEF R!ObjectsRaise, ObjectsRaise, R!Raises, Raises
<1>3. R!KnownViews = KnownViews
  BY DEF R!KnownViews, KnownViews
<1>4. R!ViewsAdded(m) = ViewsAdded(m)
  BY <1>2, <1>3 DEF R!ViewsAdded, ViewsAdded, R!AddsView, AddsView
<1>5. R!ViewsRaise(m) = ViewsRaise(m)
  BY <1>4 DEF R!ViewsRaise, ViewsRaise, R!Raises, Raises
<1>6. r_objects' = objects'
  BY <1>1, <1>2 DEF R!MergeObjects, MergeObjects, R!Before, Before, R!Clip, Clip
<1>7. \A S, k : R!Nth(S, k) = Nth(S, k)
  BY SameCount DEF R!Nth, Nth
<1>8. \A v : R!StoredView(v) = StoredView(v)
  BY DEF R!StoredView, StoredView, R!Clip, Clip
<1>9. r_views' = views'
  <2> DEFINE added == Before(ViewsAdded(m), ViewsRaise(m))
  <2>1. R!Before(R!ViewsAdded(m), R!ViewsRaise(m)) = added
    BY <1>4, <1>5 DEF R!Before, Before
  <2>2. views' = views \o [k \in 1 .. Cardinality(added) |-> StoredView(m.views[Nth(added, k)])]
    BY DEF MergeViews
  <2>3. r_views' = r_views \o [k \in 1 .. R!Cardinality(added) |-> R!StoredView(m.views[R!Nth(added, k)])]
    BY <2>1 DEF R!MergeViews
  <2> HIDE DEF added
  <2> QED BY <1>7, <1>8, <2>2, <2>3, SameCount
<1> QED BY <1>6, <1>9

(* The same code executed in both leaves the same map, and an answer only   *)
(* where the episode was won or lost by it.                                 *)
LEMMA SameCode ==
  ASSUME NEW code \in Codes, Execute(code), R!Execute(code), r_objects = objects, r_views = views,
         r_pred_answer = NoAnswer, pred_answer = NoAnswer
  PROVE  /\ r_objects' = objects' /\ r_views' = views' /\ r_steps' = r_steps + 1
         /\ current_step_count' = current_step_count + 1
         /\ info'.won <=> r_pred_answer' = GtAnswer
         /\ ~info'.done => r_pred_answer' = NoAnswer /\ pred_answer' = NoAnswer
<1>1. Report /\ R!Report
  BY StepReports
  DEF Execute, R!Execute, R!ParseFailure, R!LeadingMove, R!Answer, R!Retrieve, R!UpdateCogmap
<1>2. r_steps' = r_steps + 1 /\ current_step_count' = current_step_count + 1
  BY <1>1 DEF Report, R!Report
<1>3. /\ info'.won = (info'.done /\ is_done' /\ pred_answer' = GtAnswer)
      /\ info'.done = (is_done' \/ current_step_count' >= MaxInteractions)
  BY <1>1 DEF Report, Done, Evaluate
<1>4. GtAnswer # NoAnswer
  BY AnswersAssumption
<1>5. R!NoAnswer = NoAnswer
  BY DEF R!NoAnswer, NoAnswer
<1>6. CASE ParseFailure(code)
  <2>1. R!ParseFailure(code)
    BY <1>6, SameParse DEF R!Execute, ParseFailure, R!LeadingMove, R!Answer, R!Retrieve, R!UpdateCogmap, R!Runs
  <2>2. UNCHANGED <<objects, views, r_objects, r_views>>
    BY <1>6, <2>1 DEF ParseFailure, R!ParseFailure, map, R!map
  <2>3. pred_answer' = NoAnswer /\ r_pred_answer' = NoAnswer
    BY <1>5, <1>6, <2>1 DEF ParseFailure, R!ParseFailure, SetInvalid, R!SetInvalid
  <2> QED BY <1>2, <1>3, <1>4, <2>2, <2>3
<1>7. CASE LeadingMove(code)
  <2>1. R!LeadingMove(code)
    BY <1>7, SameParse DEF R!Execute, R!ParseFailure, LeadingMove, R!Answer, R!Retrieve, R!UpdateCogmap, R!Runs
  <2>2. UNCHANGED <<objects, views, r_objects, r_views>>
    BY <1>7, <2>1 DEF LeadingMove, R!LeadingMove, map, R!map
  <2>3. pred_answer' = NoAnswer /\ r_pred_answer' = NoAnswer
    BY <1>5, <1>7, <2>1 DEF LeadingMove, R!LeadingMove, FailedCall, R!FailedCall, SetInvalid, R!SetInvalid
  <2> QED BY <1>2, <1>3, <1>4, <2>2, <2>3
<1>8. CASE Answer(code)
  <2>1. R!Answer(code)
    BY <1>8, SameParse
    DEF R!Execute, R!ParseFailure, R!LeadingMove, Answer, R!Retrieve, R!UpdateCogmap, R!Runs, Runs
  <2>2. UNCHANGED <<objects, views, r_objects, r_views>>
    BY <1>8, <2>1 DEF Answer, R!Answer, map, R!map
  <2>3. is_done' = TRUE /\ r_pred_answer' = pred_answer'
    BY <1>5, <1>8, <2>1, SameParse DEF Answer, R!Answer, FailedCall, R!FailedCall, SetInvalid, R!SetInvalid
  <2> QED BY <1>2, <1>3, <2>2, <2>3
<1>9. CASE Retrieve(code)
  <2>1. R!Retrieve(code)
    BY <1>9, SameParse
    DEF R!Execute, R!ParseFailure, R!LeadingMove, R!Answer, Retrieve, R!UpdateCogmap, R!Runs, Runs
  <2>2. UNCHANGED <<objects, views, r_objects, r_views>>
    BY <1>9, <2>1 DEF Retrieve, R!Retrieve, map, R!map
  <2>3. pred_answer' = NoAnswer
    BY <1>9 DEF Retrieve, ShowView, ShowViewThenFail, FailedCall, SetInvalid
  <2>4. r_pred_answer' = NoAnswer
    BY <1>5, <2>1 DEF R!Retrieve, R!ShowView, R!ShowViewThenFail, R!FailedCall, R!SetInvalid
  <2> QED BY <1>2, <1>3, <1>4, <2>2, <2>3, <2>4
<1>10. CASE UpdateCogmap(code)
  <2>1. R!UpdateCogmap(code)
    BY <1>10, SameParse
    DEF R!Execute, R!ParseFailure, R!LeadingMove, R!Answer, R!Retrieve, UpdateCogmap, R!Runs, Runs
  <2>2. r_objects' = objects' /\ r_views' = views'
    BY <1>10, <2>1, SameParse, SameMerge DEF UpdateCogmap, R!UpdateCogmap
  <2>3. pred_answer' = NoAnswer
    BY <1>10 DEF UpdateCogmap, FailedCall, SetInvalid
  <2>4. r_pred_answer' = NoAnswer
    BY <1>5, <2>1 DEF R!UpdateCogmap, R!FailedCall, R!SetInvalid
  <2> QED BY <1>2, <1>3, <1>4, <2>2, <2>3, <2>4
<1> QED BY <1>6, <1>7, <1>8, <1>9, <1>10 DEF Execute

(* The replay keeps up while the episode is active, and has come to no      *)
(* answer then; afterwards it stays behind, with the episode's last answer. *)
ReplayInv ==
  /\ r_steps \in Nat /\ current_step_count \in Nat /\ r_steps <= current_step_count
  /\ ~is_done_loop => r_steps = current_step_count /\ r_pred_answer = NoAnswer /\ pred_answer = NoAnswer
  /\ SameMap
  /\ won <=> r_pred_answer = GtAnswer
  /\ item # NoItem => (item.correct <=> r_pred_answer = GtAnswer)

LEMMA ReplayStarts == EvaluationInit => ReplayInv
<1> SUFFICES ASSUME EvaluationInit PROVE ReplayInv
  OBVIOUS
<1>1. r_pred_answer = NoAnswer /\ pred_answer = NoAnswer /\ r_steps = 0 /\ current_step_count = 0
  BY DEF EvaluationInit, ReplayInit, ManagerInit, Init
<1>2. SameMap
  BY DEF EvaluationInit, ReplayInit, ManagerInit, Init, SameMap
<1>3. ~won /\ item = NoItem
  BY DEF EvaluationInit
<1> QED BY <1>1, <1>2, <1>3, AnswersAssumption DEF ReplayInv

(* A round that is recorded: both environments take the same step. *)
LEMMA RecordedRound ==
  ASSUME ReplayInv, ~is_done_loop, Round
  PROVE  ReplayInv'
<1>1. PICK r \in Responses :
        Respond(r) /\ R!Execute(ProjectedCode(r)) /\ r_step_codes' = r_step_codes \o CodesOf(r) /\ won' = info'.won
  BY DEF Round, Recorded, Gathered
<1>2. item = NoItem /\ item' = item /\ is_done_loop' = (is_done_loop \/ info'.done)
  BY DEF Round
<1>3. r_steps = current_step_count /\ r_pred_answer = NoAnswer /\ pred_answer = NoAnswer /\ current_step_count \in Nat
  BY DEF ReplayInv
<1>4. r_objects = objects /\ r_views = views /\ r_step_codes = step_codes
  BY <1>3 DEF ReplayInv, SameMap
<1>5. ProjectedCode(r) \in Codes /\ Execute(ProjectedCode(r)) /\ step_codes' = step_codes \o CodesOf(r)
  BY <1>1, ExecuteStep DEF Respond
<1>6. /\ r_objects' = objects' /\ r_views' = views' /\ r_steps' = r_steps + 1
      /\ current_step_count' = current_step_count + 1
      /\ info'.won <=> r_pred_answer' = GtAnswer
      /\ ~info'.done => r_pred_answer' = NoAnswer /\ pred_answer' = NoAnswer
  BY <1>1, <1>3, <1>4, <1>5, SameCode
<1>7. SameMap'
  BY <1>1, <1>4, <1>5, <1>6 DEF SameMap
<1>8. r_steps' = current_step_count' /\ r_steps' \in Nat
  BY <1>3, <1>6
<1>9. ~is_done_loop' => ~info'.done
  BY <1>2
<1>10. won' <=> r_pred_answer' = GtAnswer
  BY <1>1, <1>6
<1> QED BY <1>2, <1>6, <1>7, <1>8, <1>9, <1>10 DEF ReplayInv

LEMMA ReplayInductive == ReplayInv /\ [EvaluationNext]_evars => ReplayInv'
<1> SUFFICES ASSUME ReplayInv, [EvaluationNext]_evars PROVE ReplayInv'
  OBVIOUS
<1>1. CASE Round /\ ~is_done_loop
  BY <1>1, RecordedRound
<1>2. CASE Round /\ is_done_loop
  <2>1. PICK r \in Responses : Respond(r) /\ UNCHANGED <<replay, won>>
    BY <1>2 DEF Round, Recorded
  <2>2. UNCHANGED <<r_steps, r_pred_answer, won, item>>
    BY <1>2, <2>1 DEF Round, replay
  <2>3. is_done_loop'
    BY <1>2 DEF Round
  <2>4. current_step_count' = current_step_count + 1
    BY <2>1, ExecuteStep, StepReports DEF Execute, Report
  <2>5. r_steps < current_step_count'
    BY <2>4 DEF ReplayInv
  <2>6. SameMap'
    BY <2>2, <2>5 DEF ReplayInv, SameMap
  <2> QED BY <2>2, <2>3, <2>4, <2>5, <2>6 DEF ReplayInv
<1>3. CASE Judge
  <2>1. UNCHANGED <<objects, views, pred_answer, current_step_count, step_codes, is_done_loop, won,
                    r_objects, r_views, r_pred_answer, r_steps, r_step_codes>>
    BY <1>3 DEF Judge, mvars, vars, map, replay
  <2>2. item'.correct <=> r_pred_answer = GtAnswer
    BY <1>3 DEF Judge
  <2>3. SameMap'
    BY <2>1 DEF ReplayInv, SameMap
  <2> QED BY <2>1, <2>2, <2>3 DEF ReplayInv
<1>4. CASE UNCHANGED evars
  <2>1. UNCHANGED <<objects, views, pred_answer, current_step_count, step_codes, is_done_loop, won, item,
                    r_objects, r_views, r_pred_answer, r_steps, r_step_codes>>
    BY <1>4 DEF evars, mvars, vars, map, replay
  <2>2. SameMap'
    BY <2>1 DEF ReplayInv, SameMap
  <2> QED BY <2>1, <2>2 DEF ReplayInv
<1> QED BY <1>1, <1>2, <1>3, <1>4 DEF EvaluationNext

(* evaluate.py executes the recorded responses again and comes to the       *)
(* verdict of the rollout, with the map of the episode; and what it counts  *)
(* as correct is what paid in training.                                     *)
THEOREM EvaluationAgrees == EvaluationSpec => []WinsCount
<1>1. EvaluationSpec => []ReplayInv
  BY ReplayStarts, ReplayInductive, PTL DEF EvaluationSpec
<1>2. ReplayInv /\ WinsPay => WinsCount
  BY DEF ReplayInv, WinsCount, CorrectIfWon
<1> QED BY <1>1, <1>2, EvaluationKeepsEpisode, WinningPays, PTL

----------------------------------------------------------------------------
(* The code of an answer is evaluated with the functions of Spatial, on     *)
(* scenes of their own: a grid, a view, a source and a target.  They obey   *)
(* their laws on every grid of integers.                                    *)

(* A scene stays a scene: the turns return one of the four faces and a      *)
(* walk inside the grid keeps the view's position on it.                    *)
THEOREM SceneType == SceneSpec => []SceneTypeOK
<1>1. SceneInit => SceneTypeOK
  BY DEF SceneInit, SceneTypeOK
<1>2. ASSUME SceneTypeOK, [SceneNext]_sceneVars PROVE SceneTypeOK'
  <2>1. CASE TurnRight
    BY <1>2, <2>1 DEF SceneTypeOK, TurnRight, turn_right, Face
  <2>2. CASE TurnLeft
    BY <1>2, <2>2 DEF SceneTypeOK, TurnLeft, turn_left, Face
  <2>3. CASE TurnBack
    BY <1>2, <2>3 DEF SceneTypeOK, TurnBack, turn_back, Face
  <2>4. CASE MoveForward
    BY <1>2, <2>4 DEF SceneTypeOK, MoveForward
  <2>5. CASE UNCHANGED sceneVars
    BY <1>2, <2>5 DEF SceneTypeOK, sceneVars
  <2> QED
    BY <1>2, <2>1, <2>2, <2>3, <2>4, <2>5 DEF SceneNext
<1> QED
  BY <1>1, <1>2, PTL DEF SceneSpec

(* On the grid the coordinates of a point are integers. *)
LEMMA ScenePoint ==
  ASSUME NEW p \in Points
  PROVE  p[1] \in Int /\ p[2] \in Int
BY CoordinateAssumption DEF Points

(* How far a point lies along each face. *)
LEMMA AlongFace ==
  ASSUME NEW s \in Points, NEW t \in Points
  PROVE  /\ Along("up", s, t) = s[2] - t[2]
         /\ Along("down", s, t) = t[2] - s[2]
         /\ Along("left", s, t) = s[1] - t[1]
         /\ Along("right", s, t) = t[1] - s[1]
BY ScenePoint DEF Along, go_straight

(* The axis of each face. *)
LEMMA AxisFace == Axis("up") = 2 /\ Axis("down") = 2 /\ Axis("left") = 1 /\ Axis("right") = 1
BY DEF Axis

(* What lies to the right of the source is what lies ahead after            *)
(* turn_right, and to the left after turn_left, for every scene.            *)
THEOREM SidesAgree == SceneSpec => []SidesFollowTurns
<1>1. ASSUME SceneTypeOK PROVE SidesFollowTurns
  <2>1. source[1] \in Int /\ source[2] \in Int /\ target[1] \in Int /\ target[2] \in Int
    BY <1>1, ScenePoint DEF SceneTypeOK
  <2>2. direction \in {"up", "right", "down", "left"}
    BY <1>1 DEF SceneTypeOK, Face
  <2>3. CASE direction = "up"
    BY <2>1, <2>3 DEF SidesFollowTurns, is_right, is_left, turn_right, turn_left, Along, go_straight
  <2>4. CASE direction = "right"
    BY <2>1, <2>4 DEF SidesFollowTurns, is_right, is_left, turn_right, turn_left, Along, go_straight
  <2>5. CASE direction = "down"
    BY <2>1, <2>5 DEF SidesFollowTurns, is_right, is_left, turn_right, turn_left, Along, go_straight
  <2>6. CASE direction = "left"
    BY <2>1, <2>6 DEF SidesFollowTurns, is_right, is_left, turn_right, turn_left, Along, go_straight
  <2> QED
    BY <2>2, <2>3, <2>4, <2>5, <2>6
<1> QED
  BY <1>1, SceneType, PTL

(* Opposite relations exclude each other, and only an object level with the *)
(* source is in neither, for every scene.                                   *)
THEOREM OppositesAgree == SceneSpec => []OppositesExclude
<1>1. ASSUME SceneTypeOK PROVE OppositesExclude
  <2>1. /\ position \in Points /\ source \in Points /\ target \in Points
        /\ direction \in {"up", "right", "down", "left"}
    BY <1>1 DEF SceneTypeOK, Face
  <2>2. /\ source[1] \in Int /\ source[2] \in Int /\ target[1] \in Int /\ target[2] \in Int
        /\ position[1] \in Int /\ position[2] \in Int
    BY <2>1, ScenePoint
  <2>3. SidesExclude
    <3>1. CASE direction = "up"
      BY <2>1, <2>2, <3>1, AlongFace DEF SidesExclude, is_right, is_left, turn_right
    <3>2. CASE direction = "right"
      BY <2>1, <2>2, <3>2, AlongFace DEF SidesExclude, is_right, is_left, turn_right
    <3>3. CASE direction = "down"
      BY <2>1, <2>2, <3>3, AlongFace DEF SidesExclude, is_right, is_left, turn_right
    <3>4. CASE direction = "left"
      <4>1. Along("up", source, target) = source[2] - target[2]
        BY <2>1, AlongFace
      <4>2. turn_right(direction) = "up"
        BY <3>4 DEF turn_right
      <4> QED
        BY <2>2, <3>4, <4>1, <4>2 DEF SidesExclude, is_right, is_left
    <3> QED
      BY <2>1, <3>1, <3>2, <3>3, <3>4
  <2>4. DepthExcludes
    <3>1. CASE direction = "up"
      BY <2>1, <2>2, <3>1, AlongFace, AxisFace DEF DepthExcludes, is_front, is_back
    <3>2. CASE direction = "right"
      BY <2>1, <2>2, <3>2, AlongFace, AxisFace DEF DepthExcludes, is_front, is_back
    <3>3. CASE direction = "down"
      BY <2>1, <2>2, <3>3, AlongFace, AxisFace DEF DepthExcludes, is_front, is_back
    <3>4. CASE direction = "left"
      <4>1. Along("left", source, target) = source[1] - target[1]
        BY <2>1, AlongFace
      <4> QED
        BY <2>2, <3>4, <4>1, AxisFace DEF DepthExcludes, is_front, is_back
    <3> QED
      BY <2>1, <3>1, <3>2, <3>3, <3>4
  <2> QED
    BY <2>3, <2>4 DEF OppositesExclude
<1> QED
  BY <1>1, SceneType, PTL

(* Seen from a view on either side of the source, front is the view's side  *)
(* of it and back the far side; level with it, one side and the other; and  *)
(* turning around changes neither, for every scene.                         *)
THEOREM DepthAgrees == SceneSpec => []DepthIsFromTheView
<1>1. ASSUME SceneTypeOK PROVE DepthIsFromTheView
  <2>1. /\ position \in Points /\ source \in Points /\ target \in Points
        /\ direction \in {"up", "right", "down", "left"}
    BY <1>1 DEF SceneTypeOK, Face
  <2>2. /\ source[1] \in Int /\ source[2] \in Int /\ target[1] \in Int /\ target[2] \in Int
        /\ position[1] \in Int /\ position[2] \in Int
    BY <2>1, ScenePoint
  <2>3. CASE direction = "up"
    BY <2>1, <2>2, <2>3, AlongFace, AxisFace DEF DepthIsFromTheView, is_front, is_back, turn_back
  <2>4. CASE direction = "right"
    BY <2>1, <2>2, <2>4, AlongFace, AxisFace DEF DepthIsFromTheView, is_front, is_back, turn_back
  <2>5. CASE direction = "down"
    BY <2>1, <2>2, <2>5, AlongFace, AxisFace DEF DepthIsFromTheView, is_front, is_back, turn_back
  <2>6. CASE direction = "left"
    BY <2>1, <2>2, <2>6, AlongFace, AxisFace DEF DepthIsFromTheView, is_front, is_back, turn_back
  <2> QED
    BY <2>1, <2>3, <2>4, <2>5, <2>6
<1> QED
  BY <1>1, SceneType, PTL
=============================================================================
