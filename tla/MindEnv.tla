------------------------------ MODULE MindEnv ------------------------------
(***************************************************************************)
(* One episode of the spatial reasoning environment: CogMapEnv (the        *)
(* cognitive map, its parser and the handlers of the agent's calls) driven *)
(* by MindWorker.step, which numbers the steps, decides when the episode   *)
(* is over and builds the info dictionary the rollout loop reads.          *)
(*                                                                         *)
(* A response of the model is abstracted to its agent code: whether it is  *)
(* well formed, the chain of calls in it and the method names its text     *)
(* mentions.  A position is one coordinate (both are treated alike), the   *)
(* objects are a partial function from names, the views a sequence, for    *)
(* their order and their repetitions matter.                               *)
(***************************************************************************)
EXTENDS Integers, Sequences, FiniteSets

CONSTANTS
  MaxInteractions,  \* MindWorker.max_interactions
  MaxSteps,         \* bound: calls of MindWorker.step (env.max_steps of the rollout)
  ImageIdx,         \* keys of view_idx_to_image_path: the images that are not None
  ObjNames,         \* the object names that can occur
  GridMax,          \* the last row and column of the grid (9 in the code)
  ViewIdx,          \* the view numbers that can occur in a name
  GtAnswer,         \* the right letter
  Answers,          \* the letters extract_answer can return
  Codes             \* bound: the agent codes a response can carry

ASSUME LimitsAssumption ==
  /\ MaxInteractions \in Nat \ {0}
  /\ MaxSteps \in Nat
  /\ GridMax \in Nat

ASSUME ImagesAssumption == IsFiniteSet(ImageIdx) /\ ImageIdx \subseteq Nat \ {0} /\ ImageIdx # {}

Strategies == {"random", "greedy", "adaptive"}
NoPos == -1
NoImage == 0
NoAnswer == "none"

ASSUME AnswersAssumption == GtAnswer \in Answers /\ NoAnswer \notin Answers

Kinds == {"retrieve", "update_cogmap", "answer", "control"}
Moves == {"goto", "face"}
Stages == {"none", "invalid", "retrieve", "update_cogmap", "answer"}
Facings == {"up", "down", "left", "right"}
Grid == 0 .. GridMax
NoIdx == -1  \* a view's name without a number
StoredViews == [idx: ViewIdx, pos: Grid, facing: Facings]

(* What a response can carry: a payload's entries keep the facts that decide *)
(* whether the entry is recognised, stored and accepted by its dataclass.    *)
SentObjects == [name: ObjNames, pos: Int, accepted: BOOLEAN]
SentViews == [imageName: BOOLEAN, idx: ViewIdx \cup {NoIdx}, pos: Int,
              facing: Facings \cup {"back"}, accepted: BOOLEAN]
Calls ==
  [method: Moves] \cup [method: {"answer"}, answer: Answers]
  \cup [method: {"retrieve"}, view: Int]
  \cup [method: {"update_cogmap"}, map: [objs: Seq(SentObjects), views: Seq(SentViews)]]

ASSUME CodesAssumption ==
  /\ ViewIdx \subseteq Nat
  /\ Codes \subseteq [wellFormed: BOOLEAN, calls: Seq(Calls), mentions: SUBSET Kinds]

VARIABLES
  retrieve_strategy,                 \* fixed when the worker is made
  stage, is_done, pred_answer,       \* the outcome of the last calls
  cnt, invalid_cnt, invalid_kind_cnt, repeat_retrieve_cnt,  \* the metrics
  retrieved,                         \* retrieved_image_path (its key)
  objects, views,                    \* the cognitive map
  current_step_count,                \* MindWorker.current_step_count
  info                               \* what the last MindWorker.step returned

map == <<objects, views>>
counters == <<cnt, invalid_cnt, invalid_kind_cnt, repeat_retrieve_cnt>>
vars == <<retrieve_strategy, stage, is_done, pred_answer, counters, retrieved, map, current_step_count, info>>

ZeroCounts == [k \in Kinds |-> 0]

(* The state a fresh MindWorker.reset leaves: an empty map. *)
Init ==
  /\ retrieve_strategy \in Strategies
  /\ stage = "none"
  /\ is_done = FALSE
  /\ pred_answer = NoAnswer
  /\ cnt = ZeroCounts
  /\ invalid_cnt = 0
  /\ invalid_kind_cnt = ZeroCounts
  /\ repeat_retrieve_cnt = 0
  /\ retrieved = NoImage
  /\ objects = [n \in ObjNames |-> NoPos]
  /\ views = <<>>
  /\ current_step_count = 0
  /\ info = [done |-> FALSE, won |-> FALSE, keys |-> {}]

----------------------------------------------------------------------------
(* parse *)

TotalViews == Cardinality(ImageIdx)

(* Only one call may be answer, retrieve or update_cogmap.  The counters of *)
(* goto and face are never incremented, so such calls are not counted.      *)
CountedCalls(code) == {i \in DOMAIN code.calls : code.calls[i].method \notin Moves}

Parses(code) == code.wellFormed /\ Cardinality(CountedCalls(code)) = 1

TheCall(code) == code.calls[CHOOSE i \in CountedCalls(code) : TRUE]

(* A requested view outside 1..gt_total_views is moved to the nearest end. *)
ClampView(v) == IF v < 1 THEN 1 ELSE IF v > TotalViews THEN TotalViews ELSE v

(* The text an unparsable action is recorded with: the code itself, and for *)
(* a wrong number of calls a message that names all three methods.          *)
ReasonKinds(code) ==
  code.mentions \cup (IF code.wellFormed THEN Kinds \ {"control"} ELSE {})

(* The chain starts with goto or face, for which function_mapping has no key. *)
MoveLeads(code) == code.calls[1].method \in Moves
MoveTrails(code) == ~MoveLeads(code) /\ Len(code.calls) > 1

----------------------------------------------------------------------------
(* invalid *)

SetInvalid ==
  /\ stage' = "invalid"
  /\ is_done' = TRUE
  /\ pred_answer' = NoAnswer
  /\ invalid_cnt' = invalid_cnt + 1

(* A call that raises: invalid is given a one-element list, of which no     *)
(* method name is an element, so no counter of a kind moves.                *)
FailedCall == SetInvalid /\ UNCHANGED invalid_kind_cnt

(* Mutant: only the first call of a kind is counted. *)
CountCallsOnce(method) == cnt' = [cnt EXCEPT ![method] = 1]

CountCall(method) == cnt' = [cnt EXCEPT ![method] = @ + 1]

----------------------------------------------------------------------------
(* retrieve *)

KnownViews == {views[i].idx : i \in DOMAIN views}

RemainingViews == (1 .. TotalViews) \ KnownViews

LeastOf(S) == {v \in S : \A w \in S : v <= w}

(* The view each strategy shows; greedy fails when every view is known. *)
RetrieveTargets(requested) ==
  CASE retrieve_strategy = "random" -> IF RemainingViews = {} THEN {1} ELSE RemainingViews
    [] retrieve_strategy = "greedy" -> LeastOf(RemainingViews)
    [] OTHER -> {requested}

(* str(view) in cog_view.name: a substring test on numbers below 100. *)
IsRepeat(requested) ==
  /\ retrieve_strategy = "adaptive"
  /\ \E idx \in KnownViews : requested \in {idx, idx % 10, idx \div 10} \ {0}

ShowView(target) ==
  /\ stage' = "retrieve"
  /\ is_done' = FALSE
  /\ retrieved' = target
  /\ UNCHANGED <<pred_answer, invalid_cnt, invalid_kind_cnt>>

(* The view is shown and a goto or face behind it in the chain then fails. *)
ShowViewThenFail(target) == retrieved' = target /\ FailedCall

CountRepeat(requested) ==
  repeat_retrieve_cnt' = repeat_retrieve_cnt + (IF IsRepeat(requested) THEN 1 ELSE 0)

----------------------------------------------------------------------------
(* update_cogmap *)

Clip(p) == IF p < 0 THEN 0 ELSE IF p > GridMax THEN GridMax ELSE p

(* Mutant: an object already in the map is stored again, at its new place. *)
AddsObjectAgain(objs, j) == \A i \in 1 .. j - 1 : objs[i].name # objs[j].name

(* The first payload object of a name not yet in the map is the one added. *)
AddsObject(objs, j) ==
  /\ objects[objs[j].name] = NoPos
  /\ \A i \in 1 .. j - 1 : objs[i].name # objs[j].name

(* A name is compared as sent but stored as "Image <idx>": only a view sent *)
(* under that very name is recognised as already present.                   *)
AddsView(vs, j) ==
  /\ vs[j].idx \in ViewIdx
  /\ \/ ~vs[j].imageName
     \/ /\ vs[j].idx \notin KnownViews
        /\ \A i \in 1 .. j - 1 : vs[i].idx # vs[j].idx

StoredView(v) ==
  [idx |-> v.idx, pos |-> Clip(v.pos), facing |-> IF v.facing = "back" THEN "down" ELSE v.facing]

(* An entry whose keys the dataclass does not accept raises TypeError. *)
Raises(adds, entries) == {j \in adds : ~entries[j].accepted}

Before(adds, raising) == {j \in adds : \A r \in raising : j < r}

ObjectsAdded(m) == {j \in DOMAIN m.objs : AddsObject(m.objs, j)}
ObjectsRaise(m) == Raises(ObjectsAdded(m), m.objs)
ViewsAdded(m) ==
  IF ObjectsRaise(m) # {} THEN {} ELSE {j \in DOMAIN m.views : AddsView(m.views, j)}
ViewsRaise(m) == Raises(ViewsAdded(m), m.views)

UpdateRaises(m) == ObjectsRaise(m) # {} \/ ViewsRaise(m) # {}

(* What is appended before the first failure stays in the map. *)
MergeObjects(m) ==
  LET added == Before(ObjectsAdded(m), ObjectsRaise(m))
      PosOf(n) == {Clip(m.objs[j].pos) : j \in {i \in added : m.objs[i].name = n}}
  IN  objects' = [n \in ObjNames |->
                    IF PosOf(n) = {} THEN objects[n] ELSE CHOOSE p \in PosOf(n) : TRUE]

(* The k-th element of a set of indexes. *)
Nth(S, k) == CHOOSE j \in S : Cardinality({i \in S : i <= j}) = k

MergeViews(m) ==
  LET added == Before(ViewsAdded(m), ViewsRaise(m))
  IN  views' = views \o [k \in 1 .. Cardinality(added) |-> StoredView(m.views[Nth(added, k)])]

----------------------------------------------------------------------------
(* MindWorker.step: every step ends by numbering itself and reporting. *)

ProgressKeys == {"progress_retrieve", "progress_cogmap", "progress_answer"}

(* evaluate *)
(* Mutant: the kept answer is judged although the task is not completed. *)
EvaluateKeptAnswer(done, answer) == answer = GtAnswer

Evaluate(done, answer) == done /\ answer = GtAnswer

(* Mutant: the report of a finished episode has the keys of its stage only. *)
ReportKeysByStage(done, last) ==
  IF last \in {"retrieve", "update_cogmap", "answer"} THEN ProgressKeys ELSE {}

ReportKeys(done, last) ==
  IF done \/ last \in {"retrieve", "update_cogmap", "answer"} THEN ProgressKeys ELSE {}

(* Mutant: the step limit is exceeded by one. *)
DoneBeyondLimit(completed, n) == completed \/ n > MaxInteractions

(* task_completed or the step limit *)
Done(completed, n) == completed \/ n >= MaxInteractions

Report ==
  /\ current_step_count' = current_step_count + 1
  /\ UNCHANGED retrieve_strategy
  /\ LET done == Done(is_done', current_step_count')
     IN  info' = [done |-> done,
                  won  |-> done /\ Evaluate(is_done', pred_answer'),
                  keys |-> ReportKeys(done, stage')]

(* The rollout takes env.max_steps steps at most. *)
Guard == current_step_count < MaxSteps

(* execute, when parse raises *)
ParseFailure(code) ==
  /\ Guard
  /\ ~Parses(code)
  /\ SetInvalid
  /\ invalid_kind_cnt' = [k \in Kinds |->
       invalid_kind_cnt[k] + (IF k \in ReasonKinds(code) THEN 1 ELSE 0)]
  /\ Report
  /\ UNCHANGED <<cnt, repeat_retrieve_cnt, retrieved, map>>

(* execute, when goto or face leads: the counted call never runs. *)
LeadingMove(code) ==
  /\ Guard
  /\ Parses(code)
  /\ MoveLeads(code)
  /\ CountCall(TheCall(code).method)
  /\ FailedCall
  /\ Report
  /\ UNCHANGED <<repeat_retrieve_cnt, retrieved, map>>

Runs(code, method) ==
  /\ Guard
  /\ Parses(code)
  /\ ~MoveLeads(code)
  /\ TheCall(code).method = method
  /\ CountCall(method)

(* answer *)
Answer(code) ==
  /\ Runs(code, "answer")
  /\ IF MoveTrails(code)
       THEN FailedCall
       ELSE /\ stage' = "answer"
            /\ is_done' = TRUE
            /\ pred_answer' = TheCall(code).answer
            /\ UNCHANGED <<invalid_cnt, invalid_kind_cnt>>
  /\ Report
  /\ UNCHANGED <<repeat_retrieve_cnt, retrieved, map>>

(* retrieve *)
Retrieve(code) ==
  LET requested == ClampView(TheCall(code).view)
      targets == RetrieveTargets(requested)
  IN  /\ Runs(code, "retrieve")
      /\ CountRepeat(requested)
      /\ \/ \E target \in targets \cap ImageIdx :
              IF MoveTrails(code) THEN ShowViewThenFail(target) ELSE ShowView(target)
         \/ /\ targets = {} \/ \E target \in targets : target \notin ImageIdx
            /\ FailedCall
            /\ UNCHANGED retrieved
      /\ Report
      /\ UNCHANGED map

(* update_cogmap *)
UpdateCogmap(code) ==
  /\ Runs(code, "update_cogmap")
  /\ MergeObjects(TheCall(code).map)
  /\ MergeViews(TheCall(code).map)
  /\ retrieved' = IF UpdateRaises(TheCall(code).map) THEN retrieved ELSE NoImage
  /\ IF UpdateRaises(TheCall(code).map) \/ MoveTrails(code)
       THEN FailedCall
       ELSE /\ stage' = "update_cogmap"
            /\ is_done' = FALSE
            /\ UNCHANGED <<pred_answer, invalid_cnt, invalid_kind_cnt>>
  /\ Report
  /\ UNCHANGED repeat_retrieve_cnt

Next ==
  \E code \in Codes :
    \/ ParseFailure(code)
    \/ LeadingMove(code)
    \/ Answer(code)
    \/ Retrieve(code)
    \/ UpdateCogmap(code)

Spec == Init /\ [][Next]_vars

----------------------------------------------------------------------------
(* Properties *)

TypeOK ==
  /\ retrieve_strategy \in Strategies
  /\ stage \in Stages
  /\ is_done \in BOOLEAN
  /\ pred_answer \in Answers \cup {NoAnswer}
  /\ cnt \in [Kinds -> Nat]
  /\ invalid_cnt \in Nat
  /\ invalid_kind_cnt \in [Kinds -> Nat]
  /\ repeat_retrieve_cnt \in Nat
  /\ retrieved \in ImageIdx \cup {NoImage}
  /\ DOMAIN objects = ObjNames
  /\ current_step_count \in Nat
  /\ info \in [done: BOOLEAN, won: BOOLEAN, keys: SUBSET ProgressKeys]

(* Everything stored in the map lies on the grid the renderer draws, under  *)
(* the normal form of a view's name, however wild the payload was.          *)
MapOnGrid ==
  /\ \A n \in ObjNames : objects[n] \in Grid \cup {NoPos}
  /\ views \in Seq(StoredViews)

(* vanilla_multi_turn_loop reads infos[i]['progress_retrieve'] and the two  *)
(* other keys of every environment at every step, without a default: the    *)
(* worker must have put them there whatever the step did, including on      *)
(* environments that are stepped again after they were done.                *)
ReportIsReadable == current_step_count > 0 => info.keys = ProgressKeys

(* An episode is won only by the answer of the very step that reports it:   *)
(* a right answer given earlier, and kept in pred_answer by later retrieve  *)
(* or update_cogmap calls, must not be counted when the step limit ends the *)
(* episode.                                                                 *)
WonByAnsweringNow == info.won => stage = "answer" /\ pred_answer = GtAnswer

(* build_obs chooses the prompt by retrieved_image_path alone: in a live    *)
(* episode it shows an image exactly after a step that retrieved one, also  *)
(* when calls failed half-way or followed a finished episode.               *)
PromptFollowsStage == current_step_count > 0 /\ ~info.done => (stage = "retrieve" <=> retrieved # NoImage)

CountSum == cnt["retrieve"] + cnt["update_cogmap"] + cnt["answer"] + cnt["control"]

(* The metrics account for every step: each is counted under its method, or *)
(* as invalid, or (when the call was counted and then failed) as both.      *)
StepsAccounted ==
  /\ CountSum <= current_step_count
  /\ invalid_cnt <= current_step_count
  /\ current_step_count <= CountSum + invalid_cnt

(* The map only grows: no call, failed or not, moves or drops what an       *)
(* earlier call stored, and only a call to update_cogmap adds to it.        *)
MapOnlyGrows ==
  [][/\ \A n \in ObjNames : objects[n] # NoPos => objects'[n] = objects[n]
     /\ Len(views') >= Len(views) /\ \A i \in DOMAIN views : views'[i] = views[i]
     /\ (map' # map => cnt'["update_cogmap"] = cnt["update_cogmap"] + 1)]_vars

(* The greedy and the random strategy show a view that is not yet in the    *)
(* map as long as one is left, whatever number the model asked for.         *)
ShowsUnknownView ==
  [][retrieve_strategy # "adaptive" /\ stage' = "retrieve" /\ RemainingViews # {}
       => retrieved' \in RemainingViews]_vars

(* What a call does to the map and shows of the scene: nothing stored is    *)
(* lost or moved, and nothing already known is shown while there is more.   *)
CallsKeepTheMap == MapOnlyGrows /\ ShowsUnknownView

(* The loop, the prompt and the metrics read a step's outcome as it was. *)
ReportsRight == MapOnGrid /\ ReportIsReadable /\ PromptFollowsStage /\ StepsAccounted

(* The environment is a worker as the rollout loop assumes it: done from    *)
(* the step limit on, whatever the calls did before, and won only when      *)
(* done.                                                                    *)
W == INSTANCE EnvWorker WITH
       steps <- current_step_count, report <- [done |-> info.done, won |-> info.won]

IsWorker == W!WorkerSpec
============================================================================
