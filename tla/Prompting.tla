----------------------------- MODULE Prompting ------------------------------
(***************************************************************************)
(* How a batch for training comes about: the observations are turned into  *)
(* prompts one by one (rollout_loop.preprocess_batch), an engine answers   *)
(* them, and the answers are put behind the prompts (generate_sequences of *)
(* the vLLM, SGLang and HuggingFace rollouts); or the rows are a dataset's *)
(* (sft_dataset).                                                          *)
(***************************************************************************)
EXTENDS PromptRows
LOCAL INSTANCE FiniteSetsExt

CONSTANT Jobs  \* what may be asked for: records [engine, prompts, truncation, mode, n, micro, path]

VARIABLES
    job,     \* what is asked for
    inputs,  \* the observations preprocessed so far
    batch,   \* the rows made so far
    asked,   \* for each of them: what the engine read, and what it answered
    stage    \* "prompt", "generate", "batch" when the rows are there; "failed" on an error

pvars == <<job, inputs, batch, asked, stage>>

(* For the time of a call the engine's own number of answers gives way to 1 *)
(* unless it samples for training.                                          *)
update_sampling_params(n) == IF job.mode = "sample" THEN n ELSE 1
Samples == update_sampling_params(job.n)

PromptingInit ==
    /\ job \in Jobs
    /\ inputs = <<>> /\ batch = <<>> /\ asked = <<>>
    /\ stage = "prompt"

preprocess_batch ==
    /\ stage = "prompt" /\ job.engine # "dataset"
    /\ LET p == Len(inputs) + 1 IN
         IF job.truncation = "error" /\ TooLong(p, job.prompts[p])
         THEN stage' = "failed" /\ UNCHANGED inputs
         ELSE /\ inputs' = Append(inputs, preprocess_single_sample(p, job.prompts[p], job.truncation))
              /\ stage' = IF p = Len(job.prompts) THEN "generate" ELSE stage
    /\ UNCHANGED <<job, batch, asked>>

(* The engine answers the next prompts, n times each. *)
Answered == Len(asked) \div Samples
Source(i) == Answered + ((i - 1) \div Samples) + 1
SampleOf(i) == ((i - 1) % Samples) + 1

Reads(i) ==
    CASE job.engine = "spmd" -> EngineExpands(SpmdReads(inputs[i]), job.prompts[i])
      [] job.engine = "sglang" -> EngineExpands(SglangReads(inputs[i]), job.prompts[i])
      [] job.engine = "requests" -> RequestReads(i, job.prompts[i])
      [] job.engine = "vllm" -> VllmReads(inputs[i])
      [] job.engine = "hf" -> HfReads(inputs[i])

RowsOf(some, answers) ==
    CASE job.engine = "spmd" -> SpmdRows(some, answers, Samples)
      [] job.engine = "sglang" -> SglangRows(some, answers, Samples)
      [] job.engine = "requests" -> RequestRows(some, answers, Samples)
      [] job.engine = "vllm" -> VllmRows(some, answers, Samples)
      [] job.engine = "hf" -> HfRows(some, answers, Samples)

(* An answer that is not ended fills the room there is for it. *)
AnswersTo(i) ==
    LET room == IF job.engine = "requests" THEN RequestRoom(i, job.prompts[i]) ELSE ResponseLength
    IN  [len : 1 .. room, eos : {TRUE}] \union [len : {room}, eos : {FALSE}]

Generate(count) ==
    /\ stage = "generate"
    /\ \E a \in [1 .. count * Samples -> [len : 1 .. ResponseLength, eos : BOOLEAN]] :
         LET answers == [i \in DOMAIN a |-> AnswerIds(Source(i), SampleOf(i), a[i])] IN
           /\ \A i \in DOMAIN a : a[i] \in AnswersTo(Source(i))
           /\ batch' = batch \o RowsOf(SubSeq(inputs, Answered + 1, Answered + count), answers)
           /\ asked' = asked \o [i \in DOMAIN a |-> [read |-> Reads(Source(i)), answer |-> answers[i]]]
    /\ stage' = IF Answered + count = Len(inputs) THEN "batch" ELSE stage
    /\ UNCHANGED <<job, inputs>>

GenerateSpmd == job.engine = "spmd" /\ Generate(Len(inputs))
GenerateVllm == job.engine = "vllm" /\ Generate(Len(inputs))
GenerateSglang == job.engine = "sglang" /\ Generate(Len(inputs))
GenerateRequests == job.engine = "requests" /\ Generate(Len(inputs))

(* The HuggingFace rollout generates one chunk of the prompts at a time.   *)
Chunks == Max({Len(inputs) \div job.micro, 1})
ChunkSize == (Len(inputs) + Chunks - 1) \div Chunks
GenerateHf == job.engine = "hf" /\ Generate(Min({ChunkSize, Len(inputs) - Answered}))

(* The supervised trainer reads its rows; truncation "error" raises where  *)
(* prompt and response do not fit.                                         *)
ReadDataset ==
    /\ stage = "prompt" /\ job.engine = "dataset"
    /\ \E a \in [DOMAIN job.prompts -> {x \in Answers : x.eos}] :
         LET prompt(p) == Expanded(p, job.prompts[p])
             answer(p) == AnswerIds(p, 1, a[p])
         IN  IF job.truncation = "error" /\ \E p \in DOMAIN a : Len(prompt(p)) + Len(answer(p)) > Width
             THEN stage' = "failed" /\ UNCHANGED <<batch, asked>>
             ELSE /\ batch' = [p \in DOMAIN a |-> SupervisedRow(prompt(p), answer(p), job.truncation)]
                  /\ asked' = [p \in DOMAIN a |-> [read |-> prompt(p), answer |-> answer(p)]]
                  /\ stage' = "batch"
    /\ UNCHANGED <<job, inputs>>

PromptingNext ==
    \/ preprocess_batch \/ ReadDataset
    \/ GenerateSpmd \/ GenerateVllm \/ GenerateSglang \/ GenerateRequests \/ GenerateHf

---------------------------------------------------------------------------
(* Where the engine has a token, counted as it does: an image takes as     *)
(* many positions as its longer side.                                      *)
SpanOf(s) == IF IsImage(s) THEN Max({s.h, s.w}) ELSE s.text
EnginePosition(prompt, read, x) ==
    LET seg == read[x][3]
        Span[i \in 0 .. Len(prompt)] == IF i = 0 THEN 0 ELSE Span[i - 1] + SpanOf(prompt[i])
    IN  IF ~HasImage(prompt) THEN x - 1
        ELSE IF IsImage(prompt[seg]) THEN Span[seg - 1] ELSE Span[seg - 1] + read[x][4] - 1
AnswerPosition(prompt, read, k) == EnginePosition(prompt, read, Len(read)) + k

ValidColumns(row) == SelectSeq([c \in DOMAIN row.mask |-> c], LAMBDA c : row.mask[c])

(* Every row trains the model on exactly the tokens the engine read and    *)
(* answered, in their order and, in the first of their dimensions, at the  *)
(* engine's positions: whatever is cut, padded or repeated on the way.     *)
TrainedAsGenerated ==
    stage \notin {"prompt", "generate", "failed"} /\ job.engine # "dataset" =>
      /\ Len(batch) = Len(job.prompts) * Samples
      /\ \A i \in DOMAIN batch :
           LET prompt == job.prompts[((i - 1) \div Samples) + 1]
               read   == asked[i].read
               valid  == ValidColumns(batch[i])
           IN  /\ [x \in DOMAIN valid |-> batch[i].ids[valid[x]]] = read \o asked[i].answer
               /\ \A x \in DOMAIN valid :
                    batch[i].pos[valid[x]] = IF x <= Len(read) THEN EnginePosition(prompt, read, x)
                                             ELSE AnswerPosition(prompt, read, x - Len(read))
               /\ job.engine = "requests" =>
                    {c \in DOMAIN batch[i].loss : batch[i].loss[c]}
                      = {valid[x] : x \in Len(read) + 1 .. Len(valid)}
=============================================================================
