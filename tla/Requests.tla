------------------------------ MODULE Requests ------------------------------
(***************************************************************************)
(* A batch of multi-turn requests on one SGLang engine                     *)
(* (_req_level_generate_sequences): every request is a coroutine that      *)
(* alternates between the engine and its tools until it has its answer,    *)
(* its turns or its room is used up.  An exception of one of them ends the *)
(* whole batch.                                                            *)
(*                                                                         *)
(* Tokens are named for their origin: "ask" (prompt), "head" (assistant    *)
(* prefix), "word" (generated), "tool" (tool message), "end" (suffix).     *)
(***************************************************************************)
EXTENDS ToolPool, SequencesExt

CONSTANTS
  Rows,           \* requests of a batch
  MaxTurns,       \* multi_turn.max_turns
  PromptLength, ResponseLength, \* prompt_length, response_length
  ModelLength,    \* max_model_len
  Merge,          \* format "qwen": the responses of a turn are one message
  AskLengths,     \* bound: lengths of prompts before their "head"
  Words,          \* bound: words of a generated text
  ToolWords,      \* bound: words of a tool's result
  Grants,         \* bound: sets of tools a request may be given
  MaxCalls,       \* bound: tool calls of a turn of a request
  MaxBatches      \* bound: batches

ASSUME RequestsAssumption ==
  /\ PromptLength \in Nat \ {0} /\ ResponseLength \in Nat
  /\ ModelLength \in Nat /\ ModelLength >= PromptLength + ResponseLength
  /\ MaxTurns \in Nat \ {0} /\ Merge \in BOOLEAN /\ MaxBatches \in Nat \ {0}
  /\ AskLengths \subseteq Nat /\ Words \subseteq Nat /\ ToolWords \subseteq Nat
  /\ Grants \subseteq SUBSET Tools /\ MaxCalls \in [Rows -> Nat]
  /\ Calls = UNION {{r} \X (1 .. MaxCalls[r]) : r \in Rows}

VARIABLES
  batches,     \* batches begun
  grant,       \* of a request: the tools of its tools_kwargs
  req,         \* of a request: its state, place in the coroutine, turns, tokens, ...
  instances,   \* <<tool, request>>: entries of a tool's _instance_dict
  failed       \* what raised, "no" while nothing did

vars == <<poolVars, batches, grant, req, instances, failed>>

requestVars == <<batches, grant, req, instances, failed>>

Prompt(n) == [i \in 1 .. n |-> "ask"] \o <<"head">>

Zeros(n) == [i \in 1 .. n |-> 0]

Least(m, n) == IF m < n THEN m ELSE n

(* A prompt that is too long is cut at its end, the "head" first; the       *)
(* messages the engine is asked with stay whole.                            *)
NewRequest(n) ==
  LET ids == SubSeq(Prompt(n), 1, Least(n + 1, PromptLength))
  IN [state |-> "pending", at |-> "loop", turns |-> 0, reason |-> "none", asked |-> <<>>,
      prompt |-> Len(ids), full |-> n + 1, ids |-> ids, mask |-> Zeros(Len(ids))]

NewBatch ==
  /\ \E ask \in [Rows -> AskLengths] : req' = [r \in Rows |-> NewRequest(ask[r])]
  /\ grant' \in [Rows -> Grants]

Init ==
  /\ PoolInit
  /\ batches = 1
  /\ grant \in [Rows -> Grants]
  /\ \E ask \in [Rows -> AskLengths] : req = [r \in Rows |-> NewRequest(ask[r])]
  /\ instances = {} /\ failed = "no"

At(r, place) == failed = "no" /\ req[r].at = place

Turning(r, state) == At(r, "loop") /\ req[r].state = state /\ req[r].turns < MaxTurns

(* _handle_pending_state: an instance of each of the request's tools.       *)
HandlePending(r) ==
  /\ Turning(r, "pending")
  /\ instances' = instances \cup (grant[r] \X {r})
  /\ req' = [req EXCEPT ![r].state = "running"]
  /\ UNCHANGED <<poolVars, batches, grant, failed>>

(* The tokens of get_generation_prompt: the whole messages, with a new      *)
(* "head" unless the prompt's own is still last.                            *)
GenerationLength(q) ==
  q.full + Len(q.ids) - q.prompt + (IF Len(q.ids) = q.prompt THEN 0 ELSE 1)

(* max_new_tokens, which nothing keeps from being negative.                 *)
Room(q) == Least(ResponseLength, ModelLength - GenerationLength(q) - 1)

Fits(q) == GenerationLength(q) + 1 <= ModelLength

Raise(what) ==
  /\ failed' = what
  /\ UNCHANGED <<poolVars, batches, grant, req, instances>>

(* _handle_engine_call up to its await; the sampling parameters it sets are *)
(* left out.  The engine refuses a negative max_new_tokens.                 *)
HandleEngineCall(r) ==
  /\ Turning(r, "running")
  /\ IF Fits(req[r])
       THEN /\ req' = [req EXCEPT ![r].at = "engine"]
            /\ UNCHANGED <<poolVars, batches, grant, instances, failed>>
       ELSE Raise("engine")

(* add_assistant_message: a prefix after a suffix, none after the prompt's  *)
(* own; anything else raises.                                               *)
Appendable(q) == Last(q.ids) \in {"head", "end"}

(* Mutant: the prefix is trained on, too. *)
AddTrainedPrefix(q, words, overlong) ==
  LET head == IF Last(q.ids) = "head" THEN <<>> ELSE <<"head">>
      text == head \o [i \in 1 .. words |-> "word"] \o (IF overlong THEN <<>> ELSE <<"end">>)
  IN [q EXCEPT !.ids = @ \o text, !.mask = @ \o [i \in 1 .. Len(text) |-> 1]]

AddAssistantMessage(q, words, overlong) ==
  LET head == IF Last(q.ids) = "head" THEN <<>> ELSE <<"head">>
      tail == IF overlong THEN <<>> ELSE <<"end">>
      text == [i \in 1 .. words |-> "word"] \o tail
  IN [q EXCEPT !.ids = @ \o head \o text,
               !.mask = @ \o Zeros(Len(head)) \o [i \in 1 .. Len(text) |-> 1]]

(* What the loop does with the engine's answer: over-long, tool calls, tool *)
(* calls that do not parse, or none.                                        *)
Answered(q, kind, words, asked) ==
  LET message == [AddAssistantMessage(q, words, kind = "length") EXCEPT !.turns = q.turns + 1,
                                                                       !.asked = asked]
  IN CASE kind = "length"  -> [message EXCEPT !.reason = "length", !.at = "out"]
       [] kind = "calls"   -> [message EXCEPT !.reason = "tool_calls", !.at = "loop",
                                              !.state = "tool_calling"]
       [] kind = "garbled" -> [message EXCEPT !.reason = "stop", !.at = "out",
                                              !.state = "completed"]
       [] kind = "plain"   -> [message EXCEPT !.reason = "stop", !.at = "out"]

AskedCalls(r) == UNION {[1 .. n -> Tools] : n \in 1 .. MaxCalls[r]}

EngineAnswers(r) ==
  /\ At(r, "engine")
  /\ IF ~Appendable(req[r])
       THEN failed' = "format" /\ UNCHANGED req
       ELSE /\ \/ req' = [req EXCEPT ![r] = Answered(@, "length", Room(@), <<>>)]
               \/ /\ Room(req[r]) > 0
                  /\ \E words \in Words \cap (0 .. Room(req[r]) - 1) :
                       \/ \E kind \in {"plain", "garbled"} :
                            req' = [req EXCEPT ![r] = Answered(@, kind, words, <<>>)]
                       \/ \E asked \in AskedCalls(r) :
                            req' = [req EXCEPT ![r] = Answered(@, "calls", words, asked)]
            /\ UNCHANGED failed
  /\ UNCHANGED <<poolVars, batches, grant, instances>>

CallsOf(r) == {<<r, k>> : k \in DOMAIN req[r].asked}

(* The execute coroutines of the parsed calls; a tool the request was not   *)
(* given has no entry in its tools_kwargs.                                  *)
CallTools(r) ==
  /\ Turning(r, "tool_calling")
  /\ IF req[r].asked = <<>> THEN Raise("message")
     ELSE IF ~(Range(req[r].asked) \subseteq grant[r]) THEN Raise("grant")
     ELSE /\ call' = [c \in Calls |->
                 IF c \in CallsOf(r)
                   THEN [NoCall EXCEPT !.tool = req[r].asked[c[2]], !.phase = "queued"]
                   ELSE call[c]]
          /\ req' = [req EXCEPT ![r].at = "tools"]
          /\ UNCHANGED <<limited, acquiring, tokens, returning, batches, grant,
                         instances, failed>>

(* The sandbox tool strips a result that is None after an exception; the    *)
(* search tool answers with the error.                                      *)
Raises(c) == call[c].tool = "sandbox" /\ call[c].result = "raised"

(* add_tool_response_message.                                               *)
ToolResponse(words, first, last) ==
  (IF first \/ ~Merge THEN <<"tool">> ELSE <<>>) \o [i \in 1 .. words |-> "tool"]
    \o (IF last \/ ~Merge THEN <<"end">> ELSE <<>>)

(* The tokens after the first k responses, in the order of the calls: the   *)
(* loop breaks when there is no room.                                       *)
WithResponses(ids, words, n) ==
  LET after[k \in 0 .. n] ==
        IF k = 0 THEN ids
        ELSE IF k > 1 /\ Len(after[k - 1]) >= ModelLength THEN after[k - 1]
        ELSE after[k - 1] \o ToolResponse(words[k], k = 1, k = n)
  IN after

Responded(q, words) ==
  LET n   == Len(q.asked)
      ids == WithResponses(q.ids, words, n)[n]
      message == [q EXCEPT !.ids = ids, !.mask = @ \o Zeros(Len(ids) - Len(q.ids))]
  IN IF Len(ids) >= ModelLength
       THEN [message EXCEPT !.reason = "stop", !.at = "out"]
       ELSE [message EXCEPT !.state = "running", !.at = "loop"]

GatherTools(r) ==
  /\ At(r, "tools")
  /\ \/ /\ \E c \in CallsOf(r) : call[c].phase = "done" /\ Raises(c)
        /\ Raise("tool")
     \/ /\ \A c \in CallsOf(r) : call[c].phase = "done" /\ ~Raises(c)
        /\ \E words \in [DOMAIN req[r].asked -> ToolWords] :
             req' = [req EXCEPT ![r] = Responded(@, words)]
        /\ call' = [c \in Calls |-> IF c \in CallsOf(r) THEN NoCall ELSE call[c]]
        /\ UNCHANGED <<limited, acquiring, tokens, returning, batches, grant,
                       instances, failed>>

UseUpTurns(r) ==
  /\ At(r, "loop") /\ req[r].turns >= MaxTurns
  /\ req' = [req EXCEPT ![r].at = "out"]
  /\ UNCHANGED <<poolVars, batches, grant, instances, failed>>

(* A request that has used its turns up stops, even with calls left.        *)
FinalReason(q) == IF q.turns >= MaxTurns THEN "stop" ELSE q.reason

(* truncate_output_ids.                                                     *)
Truncated(q) ==
  LET limit == Least(Least(Len(q.ids), PromptLength + ResponseLength), q.prompt + ResponseLength)
  IN [q EXCEPT !.ids = SubSeq(@, 1, limit), !.mask = SubSeq(@, 1, limit)]

(* Mutant: only the tools of the last turn are released. *)
LastTools(r) == Range(req[r].asked) \X {r}

(* calc_reward and release run for every tool of the request, used or not.  *)
ReleasedTools(r) == grant[r] \X {r}

(* Every tool's reward and release, then finalize.                          *)
Finalize(r) ==
  /\ At(r, "out")
  /\ IF FinalReason(req[r]) = "tool_calls" THEN Raise("reason")
     ELSE IF ~(ReleasedTools(r) \subseteq instances) THEN Raise("instance")
     ELSE /\ instances' = instances \ ReleasedTools(r)
          /\ req' = [req EXCEPT ![r] = [Truncated(@) EXCEPT !.at = "done", !.state = "completed"]]
          /\ UNCHANGED <<poolVars, batches, grant, failed>>

Over == failed = "no" /\ \A r \in Rows : req[r].at = "done"

(* The tools' actors end with the worker a batch has failed in.             *)
Pool == failed = "no" /\ PoolNext /\ UNCHANGED requestVars

BeginBatch ==
  /\ Over /\ batches < MaxBatches
  /\ batches' = batches + 1 /\ NewBatch
  /\ UNCHANGED <<poolVars, instances, failed>>

Step(r) ==
  \/ HandlePending(r) \/ HandleEngineCall(r) \/ EngineAnswers(r) \/ CallTools(r)
  \/ GatherTools(r) \/ UseUpTurns(r) \/ Finalize(r)

Next == (\E r \in Rows : Step(r)) \/ Pool \/ BeginBatch

Spec ==
  /\ Init /\ [][Next]_vars
  /\ \A r \in Rows : WF_vars(Step(r))
  /\ WF_vars(Acquire /\ UNCHANGED requestVars) /\ WF_vars(Release /\ UNCHANGED requestVars)
  /\ \A c \in Calls : WF_vars((Start(c) \/ CallSandbox(c) \/ CallSearch(c)) /\ UNCHANGED requestVars)

-----------------------------------------------------------------------------
TypeOK ==
  /\ PoolTypeOK
  /\ batches \in 1 .. MaxBatches
  /\ grant \in [Rows -> Grants]
  /\ \A r \in Rows :
       /\ req[r].state \in {"pending", "running", "tool_calling", "completed"}
       /\ req[r].at \in {"loop", "engine", "tools", "out", "done"}
       /\ req[r].turns \in 0 .. MaxTurns
       /\ req[r].reason \in {"none", "length", "stop", "tool_calls"}
       /\ Len(req[r].ids) = Len(req[r].mask)
  /\ instances \subseteq Tools \X Rows
  /\ failed \in {"no", "engine", "format", "message", "grant", "tool", "reason", "instance"}

(* The exceptions that guard the loop's own logic are never raised: a       *)
(* tool-calling turn has its calls, a finished request a reason finalize    *)
(* accepts, and every tool it releases an instance.                         *)
FinishesInOrder == failed \notin {"message", "reason", "instance"}

(* The loss mask of a finished row marks the words the model wrote and the  *)
(* suffix that ends them, and nothing of the prompt, the prefixes or the    *)
(* tools, however turns and truncation cut the row.                         *)
TrainedOnOwnWords ==
  \A r \in Rows : req[r].at = "done" =>
    LET ids == req[r].ids IN
    \A i \in DOMAIN ids :
      (req[r].mask[i] = 1) =
        (ids[i] = "word" \/ (i > 1 /\ ids[i] = "end" /\ ids[i - 1] \in {"word", "head"}))

(* A row loses nothing it has room for: it is within the response length,   *)
(* and unless it fills it or the engine ran out of room, it ends where a    *)
(* message ends.                                                            *)
RowsEndWell ==
  \A r \in Rows : req[r].at = "done" =>
    LET response == Len(req[r].ids) - req[r].prompt IN
    /\ response <= ResponseLength
    /\ \/ response = ResponseLength \/ req[r].reason = "length"
       \/ Last(req[r].ids) = "end"

(* A tool runs for a request only between its creation and its release, and *)
(* a batch that ends leaves no instance behind.                             *)
InstancesReleased ==
  failed = "no" =>
    /\ \A c \in In({"queued", "waiting", "running", "done"}) : <<call[c].tool, c[1]>> \in instances
    /\ Over => instances = {}

(* What the tools lend comes back: tokens of the bucket and instances.      *)
ToolsComeBack == WithinLimit /\ InstancesReleased

(* Every batch ends, with its rows or with an exception: no request waits   *)
(* for ever for a thread, a token or its turn.                              *)
BatchEnds == []<>(Over \/ failed # "no")

(* A finished row is what its conversation was: all of it that fits, and    *)
(* trained on exactly the model's own words.                                *)
RowsComeOutRight == TypeOK /\ FinishesInOrder /\ TrainedOnOwnWords /\ RowsEndWell
=============================================================================
