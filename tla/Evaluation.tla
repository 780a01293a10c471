----------------------------- MODULE Evaluation -----------------------------
(***************************************************************************)
(* inference and evaluate.py around one environment.  The rollout loop     *)
(* records the responses of the steps taken while the episode was active;  *)
(* evaluate.py executes them again in an environment of its own, which has *)
(* no worker and always the adaptive strategy, and judges the answer that  *)
(* is left there and the map that was rebuilt.                             *)
(*                                                                         *)
(* The second environment goes along with the first, one recorded response *)
(* at a time; what is reported of it is not looked at.                     *)
(***************************************************************************)
EXTENDS EnvManager

VARIABLES
  is_done_loop,  \* generate_multi_turn_loop's is_done of this environment
  r_retrieve_strategy, r_stage, r_is_done, r_pred_answer, r_cnt, r_invalid_cnt, r_invalid_kind_cnt,
  r_repeat_retrieve_cnt, r_retrieved, r_objects, r_views, r_steps, r_info,
  r_step_codes,
  won,           \* of the last recorded info
  item           \* evaluate.py's line of results.jsonl

replay == <<r_retrieve_strategy, r_stage, r_is_done, r_pred_answer, r_cnt, r_invalid_cnt, r_invalid_kind_cnt,
            r_repeat_retrieve_cnt, r_retrieved, r_objects, r_views, r_steps, r_info, r_step_codes>>

evars == <<mvars, is_done_loop, won, replay, item>>

R == INSTANCE EnvManager WITH
  retrieve_strategy <- r_retrieve_strategy, stage <- r_stage, is_done <- r_is_done, pred_answer <- r_pred_answer,
  cnt <- r_cnt, invalid_cnt <- r_invalid_cnt, invalid_kind_cnt <- r_invalid_kind_cnt,
  repeat_retrieve_cnt <- r_repeat_retrieve_cnt, retrieved <- r_retrieved, objects <- r_objects,
  views <- r_views, current_step_count <- r_steps, info <- r_info, step_codes <- r_step_codes

----------------------------------------------------------------------------
NoItem == [correct |-> FALSE, cogmap |-> 1, retrieve |-> 1]

(* The fresh environment of evaluate.py, with no objects and no question.   *)
ReplayInit ==
  /\ r_retrieve_strategy = "adaptive" /\ r_stage = "none" /\ r_is_done = FALSE /\ r_pred_answer = NoAnswer
  /\ r_cnt = ZeroCounts /\ r_invalid_cnt = 0 /\ r_invalid_kind_cnt = ZeroCounts
  /\ r_repeat_retrieve_cnt = 0 /\ r_retrieved = NoImage
  /\ r_objects = [n \in ObjNames |-> NoPos] /\ r_views = <<>>
  /\ r_steps = 0 /\ r_info = [done |-> FALSE, won |-> FALSE, keys |-> {}]
  /\ r_step_codes = <<>>

EvaluationInit ==
  /\ ManagerInit /\ ReplayInit
  /\ is_done_loop = FALSE /\ won = FALSE /\ item = NoItem

(* Mutant: what is said after the end is recorded too. *)
AllRecorded(done) == TRUE

(* A step is recorded when the episode was active before it. *)
Recorded(done) == ~done

(* gather_generate_data: an episode goes by the last report recorded of it. *)
Gathered(report) == report.won

(* One round of generate_multi_turn_loop. *)
Round ==
  /\ item = NoItem
  /\ \E r \in Responses :
       /\ Respond(r)
       /\ IF Recorded(is_done_loop)
          THEN /\ R!Execute(ProjectedCode(r))
               /\ r_step_codes' = r_step_codes \o CodesOf(r)
               /\ won' = Gathered(info')
          ELSE UNCHANGED <<replay, won>>
  /\ is_done_loop' = (is_done_loop \/ info'.done)
  /\ UNCHANGED item

(* check_progress of evaluate.py: what is wrong in the map, and whether it  *)
(* tells enough to answer, in halves below zero.                            *)
MapPenalty(objs, vs) ==
  LET placed == {n \in ObjNames : objs[n] # NoPos}
      right == {n \in placed \cap DOMAIN GtObjects : objs[n] = GtObjects[n]}
      exact == {i \in DOMAIN vs : vs[i].idx \in DOMAIN GtViews
                                  /\ vs[i].pos = GtViews[vs[i].idx].pos /\ vs[i].facing = GtViews[vs[i].idx].facing}
  IN  CountOf(right) + CountOf(exact) - CountOf(placed) - Len(vs)

RetrievePenalty(objs, vs) == IF CouldAnswer(FreeForm(objs, vs)) THEN 0 ELSE -1

(* The loop is over: all episodes are done, or it has come to max_steps.    *)
Judge ==
  /\ item = NoItem
  /\ is_done_loop \/ current_step_count = MaxSteps
  /\ item' = [correct |-> r_pred_answer = GtAnswer, cogmap |-> MapPenalty(r_objects, r_views),
              retrieve |-> RetrievePenalty(r_objects, r_views)]
  /\ UNCHANGED <<mvars, is_done_loop, won, replay>>

EvaluationNext == Round \/ Judge

EvaluationSpec == EvaluationInit /\ [][EvaluationNext]_evars
----------------------------------------------------------------------------
(* Properties *)

(* While nothing is missing from the record, the replay has the episode's   *)
(* map, whichever views the episode's strategy had shown instead.           *)
SameMap == r_steps = current_step_count => r_objects = objects /\ r_views = views /\ r_step_codes = step_codes

(* evaluate.py counts an episode as correct exactly if its rollout won it.  *)
CorrectIfWon == item # NoItem => (item.correct <=> won)

(* A win pays, in training; and it is what the evaluation finds again.      *)
WinsCount == WinsPay /\ SameMap /\ CorrectIfWon
=============================================================================
