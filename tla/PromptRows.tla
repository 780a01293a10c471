----------------------------- MODULE PromptRows -----------------------------
(***************************************************************************)
(* The rows a batch is made of: an observation turned into a padded        *)
(* prompt (rollout_loop.preprocess_single_sample), an answer put behind it *)
(* (vllm_rollout, vllm_rollout_spmd, sglang_rollout, hf_rollout), and the  *)
(* rows of the supervised dataset.                                         *)
(*                                                                         *)
(* A prompt is a sequence of segments, [text, h, w]: some tokens of text,  *)
(* or an image of h * w merged patches.  A token is                        *)
(* <<prompt, sample, segment, number>>; sample 0 is the prompt itself,     *)
(* number 0 the end of an answer.                                          *)
(***************************************************************************)
EXTENDS Integers, Sequences, FiniteSets
LOCAL INSTANCE SequencesExt
LOCAL INSTANCE FiniteSetsExt

CONSTANTS MaxPrompt,       \* data.max_prompt_length
          ResponseLength,  \* rollout.response_length
          ExtraWidth       \* by how much the Megatron reward model's rows are longer (128)

ASSUME LengthsAssumption == MaxPrompt \in Nat \ {0} /\ ResponseLength \in Nat \ {0} /\ ExtraWidth \in Nat

Width == MaxPrompt + ResponseLength

IsImage(s) == s.h > 0
Size(s) == s.text + s.h * s.w
HasImage(prompt) == \E i \in DOMAIN prompt : IsImage(prompt[i])

Pad == <<0, 0, 0, 0>>
Tokens(p, i, n) == [k \in 1 .. n |-> <<p, 0, i, k>>]
IsEos(t) == t[2] > 0 /\ t[4] = 0

---------------------------------------------------------------------------
(* Prompts. *)

(* What is tokenized for training has an image token for every patch...    *)
Expanded(p, prompt) == FlattenSeq([i \in DOMAIN prompt |-> Tokens(p, i, Size(prompt[i]))])

(* ...and what the engine is given has one for every image, which it       *)
(* expands itself.                                                         *)
Raw(p, prompt) ==
    FlattenSeq([i \in DOMAIN prompt |-> Tokens(p, i, IF IsImage(prompt[i]) THEN 1 ELSE prompt[i].text)])
EngineExpands(ids, prompt) ==
    FlattenSeq([x \in DOMAIN ids |->
      IF IsImage(prompt[ids[x][3]]) THEN Tokens(ids[x][1], ids[x][3], Size(prompt[ids[x][3]])) ELSE <<ids[x]>>])

LastOf(s, n) == SubSeq(s, Len(s) - n + 1, Len(s))
FirstOf(s, n) == SubSeq(s, 1, n)

Cut(s, n, truncation) ==
    CASE truncation = "left" -> LastOf(s, n)
      [] truncation = "right" -> FirstOf(s, n)
      [] truncation = "middle" -> FirstOf(s, n \div 2) \o LastOf(s, n - n \div 2)

pad_sequence_to_length(s, n, left) ==
    LET pads == [k \in 1 .. n - Len(s) |-> Pad]
    IN  IF Len(s) >= n THEN s ELSE IF left THEN pads \o s ELSE s \o pads

postprocess_data(s, n, left, truncation) ==
    IF Len(s) > n THEN Cut(s, n, truncation) ELSE pad_sequence_to_length(s, n, left)

Mask(ids) == [c \in DOMAIN ids |-> ids[c] # Pad]

(* Mutant: the engine keeps the longer half in front. *)
LongHalfFirst(p, prompt, truncation) ==
    LET s == Raw(p, prompt)
    IN  IF Len(s) <= MaxPrompt THEN s
        ELSE IF truncation = "middle" THEN FirstOf(s, MaxPrompt - MaxPrompt \div 2) \o LastOf(s, MaxPrompt \div 2)
        ELSE Cut(s, MaxPrompt, truncation)
raw_prompt_ids(p, prompt, truncation) ==
    IF Len(Raw(p, prompt)) > MaxPrompt THEN Cut(Raw(p, prompt), MaxPrompt, truncation) ELSE Raw(p, prompt)

Before(mask, c) == {d \in DOMAIN mask : d <= c /\ mask[d]}
compute_position_id_with_mask(mask) ==
    [c \in DOMAIN mask |-> IF Before(mask, c) = {} THEN 0 ELSE Cardinality(Before(mask, c)) - 1]

(* The positions of Qwen2-VL, <<temporal, height, width>>: text counts on  *)
(* from the largest position so far, the patches of an image differ in     *)
(* height and width only.                                                  *)
get_rope_index(prompt, mask) ==
    LET Segment(s, from) ==
          [k \in 1 .. Size(s) |->
             IF IsImage(s) THEN <<from, from + ((k - 1) \div s.w), from + ((k - 1) % s.w)>>
             ELSE <<from + k - 1, from + k - 1, from + k - 1>>]
        Span(s) == IF IsImage(s) THEN Max({s.h, s.w}) ELSE s.text
        all == FoldLeft(LAMBDA acc, s : [next |-> acc.next + Span(s), ids |-> acc.ids \o Segment(s, acc.next)],
                        [next |-> 0, ids |-> <<>>], prompt).ids
    IN  [c \in DOMAIN mask |-> IF mask[c] THEN all[Cardinality(Before(mask, c))] ELSE <<1, 1, 1>>]

TooLong(p, prompt) == Len(Expanded(p, prompt)) > MaxPrompt

(* One observation: position_ids[0] is the temporal row of an image        *)
(* prompt's three, and the only row of a text prompt.                      *)
preprocess_single_sample(p, prompt, truncation) ==
    LET ids  == postprocess_data(Expanded(p, prompt), MaxPrompt, TRUE, truncation)
        mask == Mask(ids)
        rope == get_rope_index(prompt, mask)
    IN  [ids |-> ids, mask |-> mask, raw |-> raw_prompt_ids(p, prompt, truncation),
         pos |-> IF HasImage(prompt) THEN [c \in DOMAIN mask |-> rope[c][1]] ELSE compute_position_id_with_mask(mask)]

---------------------------------------------------------------------------
(* Answers. *)

(* An answer ends with the end token, or is cut at the length limit.       *)
Answers == [len : 1 .. ResponseLength, eos : {TRUE}] \union [len : {ResponseLength}, eos : {FALSE}]
AnswerIds(p, q, a) == [k \in 1 .. a.len |-> <<p, q, 0, IF a.eos /\ k = a.len THEN 0 ELSE k>>]

get_response_mask(response) == [k \in DOMAIN response |-> \A j \in 1 .. k - 1 : ~IsEos(response[j])]

Longest(ss) == Max({Len(ss[i]) : i \in DOMAIN ss})
pad_2d_list_to_length(ss, n) == [i \in DOMAIN ss |-> pad_sequence_to_length(ss[i], Max({n, Longest(ss)}), FALSE)]

(* Mutant: the prompts are repeated as a whole. *)
Tiled(s, n) == [i \in 1 .. Len(s) * n |-> s[((i - 1) % Len(s)) + 1]]
repeat_interleave(s, n) == [i \in 1 .. Len(s) * n |-> s[((i - 1) \div n) + 1]]

(* The left padding of a prompt is taken off again for the engine. *)
pre_process_inputs(ids) == SubSeq(ids, Min({c \in DOMAIN ids : ids[c] # Pad}), Len(ids))

WithAnswer(input, response) ==
    [ids |-> input.ids \o response, mask |-> input.mask \o get_response_mask(response),
     pos |-> input.pos \o [k \in DOMAIN response |-> input.pos[MaxPrompt] + k]]

(* What each engine reads, and the rows it makes of the inputs and the     *)
(* answers, n for each input.                                              *)
SpmdReads(input) == input.raw
SpmdRows(inputs, answers, n) ==
    LET responses == pad_2d_list_to_length(answers, ResponseLength)
        repeated  == repeat_interleave(inputs, n)
    IN  [i \in DOMAIN answers |-> WithAnswer(repeated[i], responses[i])]

VllmReads(input) == pre_process_inputs(input.ids)
VllmRows(inputs, answers, n) ==
    LET output   == pad_2d_list_to_length(answers, 0)
        repeated == repeat_interleave(inputs, n)
    IN  [i \in DOMAIN answers |-> WithAnswer(repeated[i], pad_sequence_to_length(output[i], ResponseLength, FALSE))]

(* SGLang, whole batches: the generated tokens are padded to the longest    *)
(* answer, then to the response length; a prompt's columns are repeated     *)
(* only when it has several answers.                                        *)
post_process_outputs(answers) == pad_2d_list_to_length(answers, 0)
SglangReads(input) == input.raw
SglangRows(inputs, answers, n) ==
    LET output   == post_process_outputs(answers)
        response == [i \in DOMAIN output |-> pad_sequence_to_length(output[i], ResponseLength, FALSE)]
        idx      == IF n > 1 THEN repeat_interleave(inputs, n) ELSE inputs
    IN  [i \in DOMAIN answers |-> WithAnswer(idx[i], response[i])]

(* SGLang, request by request: a request takes the padding off its prompt;  *)
(* the engine is asked with the messages themselves, and only for what      *)
(* leaves the model one more token.                                         *)
RequestReads(p, prompt) == Expanded(p, prompt)
RequestRoom(p, prompt) == Min({ResponseLength, Width - Len(RequestReads(p, prompt)) - 1})

Widened(s, n, pad, left) ==
    LET pads == [k \in 1 .. n - Len(s) |-> pad] IN IF left THEN pads \o s ELSE s \o pads

(* The rows are put together from the requests, in the order of their       *)
(* prompts and of the answers to each.                                      *)
RequestRows(inputs, answers, n) ==
    LET asks  == [i \in DOMAIN answers |-> pre_process_inputs(inputs[((i - 1) \div n) + 1].ids)]
        left  == Max({MaxPrompt, Longest(asks)})
        right == Max({ResponseLength, Longest(answers)})
        Ones(s) == [k \in DOMAIN s |-> TRUE]
        Nones(s) == [k \in DOMAIN s |-> FALSE]
    IN  [i \in DOMAIN answers |->
           [ids  |-> Widened(asks[i], left, Pad, TRUE) \o Widened(answers[i], right, Pad, FALSE),
            mask |-> Widened(Ones(asks[i]), left, FALSE, TRUE) \o Widened(Ones(answers[i]), right, FALSE, FALSE),
            loss |-> Widened(Nones(asks[i]), left, FALSE, TRUE) \o Widened(Ones(answers[i]), right, FALSE, FALSE),
            pos  |-> Widened([k \in DOMAIN asks[i] |-> k - 1], left, 0, TRUE)
                       \o [k \in 1 .. right |-> Len(asks[i]) - 1 + k]]]

HfReads(input) == SelectSeq(input.ids, LAMBDA t : t # Pad)
HfRows(inputs, answers, n) ==
    LET repeated  == repeat_interleave(inputs, n)
        output    == pad_2d_list_to_length([i \in DOMAIN answers |-> repeated[i].ids \o answers[i]], 0)
        sequences == [i \in DOMAIN output |-> pad_sequence_to_length(output[i], Width, FALSE)]
    IN  [i \in DOMAIN answers |-> WithAnswer(repeated[i], SubSeq(sequences[i], MaxPrompt + 1, Width))]

---------------------------------------------------------------------------
(* A row of the supervised dataset: the loss is counted where it predicts  *)
(* a token of the response.                                                *)

(* Mutant: the mask starts at the response's first token. *)
LossAtTheToken(prompt, response, truncation) ==
    LET ids == postprocess_data(prompt \o response, Width, FALSE, truncation)
    IN  [ids |-> ids, mask |-> Mask(ids), pos |-> compute_position_id_with_mask(Mask(ids)),
         loss |-> [c \in DOMAIN ids |-> ids[c] # Pad /\ c > Len(prompt)]]
SupervisedRow(prompt, response, truncation) ==
    LET ids == postprocess_data(prompt \o response, Width, FALSE, truncation)
    IN  [ids |-> ids, mask |-> Mask(ids), pos |-> compute_position_id_with_mask(Mask(ids)),
         loss |-> [c \in DOMAIN ids |->
                     /\ ids[c] # Pad
                     /\ Len(prompt) > 1 => c > Min({Len(prompt), Width}) - 1
                     /\ c # Min({Len(prompt) + Len(response), Width})]]

(* A row in the tokens of a reward model that has its own: here one more   *)
(* than it had, padded on the right.                                       *)
OwnTokens(row) == SelectSeq([c \in DOMAIN row.ids |-> IF row.mask[c] THEN row.ids[c] ELSE Pad], LAMBDA t : t # Pad)
Encoded(row) == LET own == OwnTokens(row) IN [k \in 1 .. Len(own) + 1 |-> <<own[Len(own)][1], own[Len(own)][2], 0 - 1, k>>]
ReEncoded(row) ==
    LET ids == postprocess_data(Encoded(row), Width, FALSE, "right")
    IN  [ids |-> ids, mask |-> Mask(ids), pos |-> compute_position_id_with_mask(Mask(ids))]
(* The Megatron reward model makes its rows a little longer.               *)
MegatronReEncoded(row) ==
    LET ids == postprocess_data(Encoded(row), Width + ExtraWidth, FALSE, "right")
    IN  [ids |-> ids, mask |-> Mask(ids), pos |-> [c \in DOMAIN ids |-> c - 1]]
=============================================================================
