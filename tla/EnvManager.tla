----------------------------- MODULE EnvManager -----------------------------
(***************************************************************************)
(* MindEnvironmentManager around one MindWorker: the response of the model *)
(* is projected to codes, the environment executes the last of them, the   *)
(* worker rewards the episode when it is over, and the observation becomes *)
(* the prompt of the next turn.                                            *)
(*                                                                         *)
(* A response is its form, its reasoning codes and its agent code.  Of a   *)
(* reasoning code only what decides its verdict is kept: the view variable *)
(* it uses, what it says of that view's facing, and whether it is constant.*)
(* Rewards are counted in quarters, the unit of w_prm * 0.5.               *)
(***************************************************************************)
EXTENDS MindEnv

CONSTANTS
  Responses,    \* bound: the responses of the model
  MaxRetrieve,  \* config.data.max_retrieve
  MaxStray,     \* bound: steps taken after an episode, or without obeying its prompts
  UseSac,       \* config.data.use_sac
  GtObjects,    \* the grounded map: the positions of its objects
  GtViews,      \* and of its views, with their facings
  Question      \* what the question names, and whether its options are objects

(* Of answer_preprocess, the letters in the order they are tried. *)
Letters == <<"A", "B", "C", "D">>

Templates == {"MIND", "COGMAP_CONSTRUCTION", "NO_RETRIEVE"}

ReasoningCodes == [view: Nat \ {0}, facing: Facings, constant: BOOLEAN]

VARIABLES
  step_codes,  \* CogMapEnv.step_codes: the reasoning of the whole episode
  prompt,      \* the template of the observation, and the views it speaks of
  is_action_valid,
  reward,      \* what the last step returned, in quarters
  strayed      \* history: steps since the first response not asked for, or the end

mvars == <<vars, step_codes, prompt, is_action_valid, reward, strayed>>

----------------------------------------------------------------------------
(* mind_projection *)

(* The strict parser wants every step to have a code; without it the code   *)
(* elements are taken wherever they stand, but the response is not valid.   *)
(* Either way the last code must call the agent.                            *)
Projects(r) == r.form # "plain" /\ r.callsLast

ValidResponse(r) == Projects(r) /\ r.form = "strict"

(* A last code that mentions answer is replaced by the answer to the first  *)
(* letter that is marked in it as an option, whatever else it says.         *)
Marked(r) == {k \in DOMAIN Letters : Letters[k] \in r.marks}

AnswerOf(r) ==
  [method |-> "answer", answer |-> Letters[CHOOSE k \in Marked(r) : \A j \in Marked(r) : k <= j]]

MentionsAnswer(code) ==
  "answer" \in code.mentions \/ \E i \in DOMAIN code.calls : code.calls[i].method = "answer"

(* Without steps the action is one empty code, which does not parse. *)
ProjectedCode(r) ==
  IF ~Projects(r) THEN [wellFormed |-> FALSE, calls |-> <<>>, mentions |-> r.code.mentions]
  ELSE IF MentionsAnswer(r.code) /\ Marked(r) # {}
       THEN [wellFormed |-> TRUE, calls |-> <<AnswerOf(r)>>, mentions |-> {}]
       ELSE r.code

ASSUME ResponsesAssumption ==
  /\ \A r \in Responses : ProjectedCode(r) \in Codes
  /\ \A r \in Responses : r.marks \subseteq Answers \cap {Letters[k] : k \in DOMAIN Letters}
  /\ \A r \in Responses : r.reasoning \in Seq(ReasoningCodes)

(* execute: the codes that do not call the agent are kept for the end. *)
CodesOf(r) == IF Projects(r) THEN r.reasoning ELSE <<>>

----------------------------------------------------------------------------
(* check_progress: rewards in halves *)

(* evaluate_constant_boolean_expression: what is true of anything, or of    *)
(* itself alone, is no reasoning.                                           *)
Trivial(c) == c.constant

(* export_context numbers the view variables as the views are stored. *)
Denoted(c, vs) == {vs[i] : i \in DOMAIN vs \cap {c.view}}

(* A code that fails, or is trivial, counts as one that does not hold. *)
Holds(c, vs) == ~Trivial(c) /\ \E v \in Denoted(c, vs) : v.facing = c.facing

CountOf(S) == Cardinality(S)

ProgressReward(codes, vs) ==
  LET held == {i \in DOMAIN codes : Holds(codes[i], vs)}
  IN  2 * CountOf(held) - CountOf(DOMAIN codes \ held)

(* Every entry of the map is rewarded for its name, and one that the        *)
(* grounded map has also for its place.                                     *)
CogmapReward(objs, vs) ==
  LET placed == {n \in ObjNames : objs[n] # NoPos}
      known == placed \cap DOMAIN GtObjects
      right == {n \in known : objs[n] = GtObjects[n]}
      seen == {i \in DOMAIN vs : vs[i].idx \in DOMAIN GtViews}
      exact == {i \in seen : vs[i].pos = GtViews[vs[i].idx].pos /\ vs[i].facing = GtViews[vs[i].idx].facing}
      named == CountOf(known) + CountOf(seen)
      rightly == CountOf(right) + CountOf(exact)
  IN  2 * named - (CountOf(placed) + Len(vs) - named) + 2 * rightly - (named - rightly)

(* render_mind_map: every object is drawn, and of the views of one number   *)
(* the last is left in the description.                                     *)
Drawn(vs) == {i \in DOMAIN vs : \A j \in DOMAIN vs : j > i => vs[j].idx # vs[i].idx}

(* What the free-form text of the map names; a number is found in it also   *)
(* as the beginning of another.                                             *)
FreeForm(objs, vs) ==
  [views |-> UNION {{vs[i].idx, vs[i].idx \div 10} : i \in Drawn(vs)},
   objects |-> {n \in ObjNames : objs[n] # NoPos}]

(* could_answer: only a question whose options are objects is examined, for *)
(* no question is ever given the type OTHER.                                *)
CouldAnswer(text) ==
  Question.optionsAreObjects =>
    Question.views \subseteq text.views /\ Question.objects \cup {Question.answer} \subseteq text.objects

RetrieveReward(objs, vs) == IF CouldAnswer(FreeForm(objs, vs)) THEN 2 ELSE -1

----------------------------------------------------------------------------
(* MindWorker.step *)

ResultReward == 20

(* Mutant: an episode that is over is rewarded for its progress, won or not. *)
RewardWhenDone(report, codes, objs, vs) ==
  IF ~report.done THEN 0
  ELSE (IF report.won THEN ResultReward ELSE 0)
       + (IF UseSac THEN ProgressReward(codes, vs) + CogmapReward(objs, vs) + RetrieveReward(objs, vs) ELSE 0)

EpisodeReward(report, codes, objs, vs) ==
  IF ~report.won THEN 0
  ELSE ResultReward
       + (IF UseSac THEN ProgressReward(codes, vs) + CogmapReward(objs, vs) + RetrieveReward(objs, vs) ELSE 0)

----------------------------------------------------------------------------
(* build_obs *)

RetrieveLimit == IF retrieve_strategy = "greedy" THEN TotalViews ELSE MaxRetrieve

(* Mutant: every view is offered, the known ones too. *)
OfferAll(vs) == 1 .. TotalViews

Offered(vs) == (1 .. TotalViews) \ {vs[i].idx : i \in DOMAIN vs}

PromptFor(shown, count, vs) ==
  CASE shown # NoImage -> [template |-> "COGMAP_CONSTRUCTION", views |-> {shown}]
    [] shown = NoImage /\ count["retrieve"] >= RetrieveLimit -> [template |-> "NO_RETRIEVE", views |-> {}]
    [] OTHER -> [template |-> "MIND", views |-> Offered(vs)]

----------------------------------------------------------------------------
(* What the templates ask for *)

Alone(code) == code.wellFormed /\ Len(code.calls) = 1

(* MIND_TEMPLATE: answer, or retrieve one of the views it lists. *)
ObeysMind(code) ==
  \/ code.calls[1].method = "answer"
  \/ code.calls[1].method = "retrieve" /\ code.calls[1].view \in prompt.views

(* COGMAP_CONSTRUCTION_TEMPLATE: complete the map, with the view shown. *)
ObeysConstruction(code) ==
  /\ code.calls[1].method = "update_cogmap"
  /\ LET m == code.calls[1].map IN
     /\ \A j \in DOMAIN m.objs : m.objs[j].accepted
     /\ \A j \in DOMAIN m.views : m.views[j].accepted
     /\ \E j \in DOMAIN m.views : m.views[j].imageName /\ m.views[j].idx \in prompt.views

(* NO_RETRIEVE_TEMPLATE: answer. *)
ObeysNoRetrieve(code) == code.calls[1].method = "answer"

Obeys(code) ==
  /\ Alone(code)
  /\ CASE prompt.template = "MIND" -> ObeysMind(code)
       [] prompt.template = "COGMAP_CONSTRUCTION" -> ObeysConstruction(code)
       [] OTHER -> ObeysNoRetrieve(code)

----------------------------------------------------------------------------
(* MindEnvironmentManager.reset, with a fresh worker *)
ManagerInit ==
  /\ Init
  /\ step_codes = <<>>
  /\ prompt = [template |-> "MIND", views |-> 1 .. TotalViews]
  /\ is_action_valid = FALSE
  /\ reward = 0
  /\ strayed = 0

Execute(code) ==
  \/ ParseFailure(code)
  \/ LeadingMove(code)
  \/ Answer(code)
  \/ Retrieve(code)
  \/ UpdateCogmap(code)

(* MindEnvironmentManager.step *)
Respond(r) ==
  LET code == ProjectedCode(r) IN
  /\ strayed < MaxStray
  /\ Execute(code)
  /\ step_codes' = step_codes \o CodesOf(r)
  /\ is_action_valid' = ValidResponse(r)
  /\ reward' = EpisodeReward(info', step_codes', objects', views')
  /\ prompt' = PromptFor(retrieved', cnt', views')
  /\ strayed' = IF strayed = 0 /\ ~info.done /\ Obeys(code) THEN 0 ELSE strayed + 1

ManagerNext == \E r \in Responses : Respond(r)

ManagerSpec == ManagerInit /\ [][ManagerNext]_mvars

----------------------------------------------------------------------------
(* Properties *)

(* An agent that does what each prompt asks for is never told that its call *)
(* was invalid, is shown no view that is in the map already, whichever      *)
(* strategy chooses it, and comes to its answer before the limit of the     *)
(* steps: prompts, strategies and limits fit together.                      *)
ObeyingSucceeds ==
  strayed = 0 =>
    /\ invalid_cnt = 0
    /\ stage = "retrieve" => retrieved \notin KnownViews
    /\ info.done => stage = "answer"

MapEntries == CountOf({n \in ObjNames : objects[n] # NoPos}) + Len(views)

(* A win is worth more than a loss, whatever the terms for the reasoning    *)
(* and for the map add or take away, as long as there are not as many of    *)
(* them as quarters in the reward of the answer.                            *)
WinsPay ==
  MapEntries + Len(step_codes) + 1 < ResultReward => (reward > 0 <=> info.won) /\ reward >= 0
=============================================================================
