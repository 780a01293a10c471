---------------------------- MODULE PackedForward ---------------------------
(***************************************************************************)
(* How a batch's rows go through a model and what comes back: without      *)
(* padding as one sequence, dealt to the ranks of a sequence parallel      *)
(* group (Ulysses) or of a context parallel group (Megatron), attended     *)
(* with the heads dealt instead, scored against the next tokens, gathered, *)
(* put back on their columns, and, for an update, differentiated.          *)
(*                                                                         *)
(* The ranks only meet in collective calls, in which each waits for all,   *)
(* so a step here is one such call of the whole group.                     *)
(***************************************************************************)
EXTENDS Prompting
LOCAL INSTANCE SequencesExt
LOCAL INSTANCE FiniteSetsExt
LOCAL INSTANCE Functions

CONSTANT QHeads  \* attention heads of the model

VARIABLES
    rows,    \* the rows the model is given
    tokens,  \* for each rank: the columns <<row, column>> it holds, Nowhere for padding
    places,  \* for each rank: their position ids
    labels,  \* for each rank: the tokens its outputs are scored against
    keys,    \* for each rank: the keys it holds, [at, pos]
    outs,    \* for each rank: its outputs
    result,  \* for each row: what is returned
    grads    \* for each rank: the weight with which an output's gradient reaches it

fvars == <<rows, tokens, places, labels, keys, outs, result, grads>>
vars == <<pvars, fvars>>

Nowhere == <<0, 0>>
None == [at |-> Nowhere, see |-> <<>>, label |-> Pad]

Init ==
    /\ PromptingInit
    /\ rows = <<>> /\ tokens = <<>> /\ places = <<>> /\ labels = <<>>
    /\ keys = <<>> /\ outs = <<>> /\ result = <<>> /\ grads = <<>>

Sp == job.sp
Ranks == 1 .. Sp
Cat(s) == FlattenSeq(s)
Part(s, j) == SubSeq(s, (j - 1) * (Len(s) \div Sp) + 1, j * (Len(s) \div Sp))

(* What the reward model of another tokenizer is given is encoded again.   *)
Given ==
    IF job.head # "reward" \/ ~job.switch THEN batch
    ELSE [i \in DOMAIN batch |-> IF job.path = "mcore" THEN MegatronReEncoded(batch[i]) ELSE ReEncoded(batch[i])]
Columns(rs) == Cat([r \in DOMAIN rs |-> [c \in DOMAIN rs[r].ids |-> <<r, c>>]])
unpad_input(rs) == SelectSeq(Columns(rs), LAMBDA x : rs[x[1]].mask[x[2]])
IdAt(rs, x) == rs[x[1]].ids[x[2]]
Rolled(s) == [x \in DOMAIN s |-> s[(x % Len(s)) + 1]]

---------------------------------------------------------------------------
(* Ulysses. *)

PadSize(s) == (Sp - (Len(s) % Sp)) % Sp
ulysses_pad(s, filler) == s \o [k \in 1 .. PadSize(s) |-> filler]

PadPositions(s) == s \o [k \in 1 .. PadSize(s) |-> k - 1]

slice_input_tensor(s, j) == Part(s, j)

(* Mutant: the labels are rolled in each rank's own slice. *)
RolledInTheSlice(ids) == [j \in Ranks |-> Rolled(slice_input_tensor(ulysses_pad(ids, Pad), j))]
RolledLabels(ids) == [j \in Ranks |-> slice_input_tensor(ulysses_pad(Rolled(ids), Pad), j)]

(* The fused kernels roll the ids they were given. *)
FusedLabels(ids) == [j \in Ranks |-> Rolled(slice_input_tensor(ulysses_pad(ids, Pad), j))]

PackedPaths == {"text", "vision", "kimi", "fused"}

(* The padding is taken out; a text model's inputs are sliced here, those  *)
(* of a model with images in its decoder.                                  *)
Unpad ==
    /\ stage = "batch" /\ job.path \in PackedPaths
    /\ LET rs  == Given
           at  == unpad_input(rs)
           pos == PadPositions([x \in DOMAIN at |-> rs[at[x][1]].pos[at[x][2]]])
           ids == [x \in DOMAIN at |-> IdAt(rs, at[x])]
           padded == ulysses_pad(at, Nowhere)
       IN  /\ rows' = rs
           /\ tokens' = [j \in Ranks |-> IF job.path = "vision" THEN padded ELSE slice_input_tensor(padded, j)]
           /\ places' = [j \in Ranks |-> IF job.path = "vision" THEN pos ELSE slice_input_tensor(pos, j)]
           /\ labels' = IF job.path = "fused" THEN FusedLabels(ids) ELSE RolledLabels(ids)
    /\ stage' = "packed"
    /\ UNCHANGED <<job, inputs, batch, asked, keys, outs, result, grads>>

(* The patched decoder slices the embeddings, its first call only.         *)
ulysses_wrapped_decoder_forward ==
    /\ stage = "packed" /\ job.path = "vision"
    /\ tokens' = [j \in Ranks |-> slice_input_tensor(tokens[j], j)]
    /\ stage' = "sliced"
    /\ UNCHANGED <<job, inputs, batch, asked, rows, places, labels, keys, outs, result, grads>>

(* Before attention every rank receives the whole sequence and gives away  *)
(* all heads but its own.  Text models turn the keys by their positions    *)
(* before that and gather the positions too; a model with images has all   *)
(* positions on every rank and turns the keys afterwards.                  *)
TextGatherSeq ==
    /\ stage = "packed" /\ job.path \in {"text", "fused"}
    /\ LET turned == Cat([j \in Ranks |-> [x \in DOMAIN tokens[j] |-> [at |-> tokens[j][x], pos |-> places[j][x]]]])
       IN  keys' = [j \in Ranks |-> turned]
    /\ places' = [j \in Ranks |-> Cat(places)]
    /\ stage' = "gathered"
    /\ UNCHANGED <<job, inputs, batch, asked, rows, tokens, labels, outs, result, grads>>

KimiGatherSeq ==
    /\ stage = "packed" /\ job.path = "kimi"
    /\ LET turned == Cat([j \in Ranks |-> [x \in DOMAIN tokens[j] |-> [at |-> tokens[j][x], pos |-> places[j][x]]]])
       IN  keys' = [j \in Ranks |-> turned]
    /\ places' = [j \in Ranks |-> Cat(places)]
    /\ stage' = "gathered"
    /\ UNCHANGED <<job, inputs, batch, asked, rows, tokens, labels, outs, result, grads>>

VisionGatherSeq ==
    /\ stage = "sliced"
    /\ LET whole == Cat(tokens)
       IN  keys' = [j \in Ranks |-> [x \in DOMAIN whole |-> [at |-> whole[x], pos |-> places[j][x]]]]
    /\ stage' = "gathered"
    /\ UNCHANGED <<job, inputs, batch, asked, rows, tokens, places, labels, outs, result, grads>>

(* The heads: a text model repeats its key heads only as often as there    *)
(* are ranks for each, the others once for every query head.               *)
Heads(n) == [h \in 1 .. n |-> h]
KeyHeads(path) ==
    CASE Sp = 1 -> Heads(job.kv)
      [] path \in {"text", "fused"} /\ Sp > 1 -> repeat_interleave(Heads(job.kv), Max({Sp \div job.kv, 1}))
      [] OTHER -> repeat_interleave(Heads(job.kv), QHeads \div job.kv)
(* The key head each of a rank's query heads is matched with.              *)
KeyHeadsOf(j) ==
    LET q == Part(Heads(QHeads), j)
        k == Part(KeyHeads(job.path), j)
    IN  [a \in DOMAIN q |-> k[((a - 1) \div (Len(q) \div Len(k))) + 1]]

(* The rows are told apart by their positions: one begins at every 0, once *)
(* the positions fall anywhere.                                            *)
Falls(pos) == \E x \in 1 .. Len(pos) - 1 : pos[x + 1] < pos[x]
Begin(pos, x) == IF Falls(pos) THEN Max({y \in 1 .. x : pos[y] = 0}) ELSE 1

Attend ==
    /\ stage = "gathered"
    /\ outs' = [j \in Ranks |-> [x \in DOMAIN keys[j] |->
                 LET seen == {keys[j][y] : y \in Begin(places[j], x) .. x}
                     heads == KeyHeadsOf(j)
                 IN  [at |-> keys[j][x].at, see |-> [a \in DOMAIN heads |-> [kv |-> heads[a], seen |-> seen]]]]]
    /\ stage' = "attended"
    /\ UNCHANGED <<job, inputs, batch, asked, rows, tokens, places, labels, keys, result, grads>>

(* After attention the ranks exchange heads for places again.              *)
gather_heads_scatter_seq ==
    /\ stage = "attended"
    /\ outs' = [j \in Ranks |->
                 LET from == (j - 1) * (Len(outs[j]) \div Sp)
                 IN  [x \in 1 .. Len(outs[j]) \div Sp |->
                        [at |-> outs[j][from + x].at, see |-> Cat([i \in Ranks |-> outs[i][from + x].see])]]]
    /\ stage' = "scattered"
    /\ UNCHANGED <<job, inputs, batch, asked, rows, tokens, places, labels, keys, result, grads>>

logprobs_from_logits ==
    /\ stage = "scattered"
    /\ outs' = [j \in Ranks |-> [x \in DOMAIN outs[j] |->
                 [at |-> outs[j][x].at, see |-> outs[j][x].see, label |-> labels[j][x]]]]
    /\ stage' = "scored"
    /\ UNCHANGED <<job, inputs, batch, asked, rows, tokens, places, labels, keys, result, grads>>

gather_outpus_and_unpad(s, n) == SubSeq(Cat(s), 1, Len(Cat(s)) - n)

(* The packed outputs on the columns they came from. *)
pad_input(whole, at) == [x \in Range(at) |-> whole[CHOOSE y \in DOMAIN at : at[y] = x]]
On(full, r, c) == IF <<r, c>> \in DOMAIN full THEN full[<<r, c>>] ELSE None

(* The last valid token, found by its position. *)
EosIndex(row) ==
    LET weight(c) == IF row.mask[c] THEN row.pos[c] ELSE 0
        top == Max({weight(c) : c \in DOMAIN row.ids})
    IN  Min({c \in DOMAIN row.ids : weight(c) = top})

ResponseOutputs(full) == [r \in DOMAIN batch |-> [k \in 1 .. ResponseLength |-> On(full, r, Width - ResponseLength - 1 + k)]]
CriticOutputs(full) == [r \in DOMAIN batch |-> [k \in 1 .. ResponseLength |-> On(full, r, Width - ResponseLength - 1 + k)]]
RewardOutputs(full) ==
    [r \in DOMAIN batch |-> [k \in 1 .. ResponseLength |->
       IF Width - ResponseLength + k = EosIndex(batch[r]) THEN On(full, r, EosIndex(rows[r])) ELSE None]]

(* The Megatron workers' outputs come with all columns; the last column of *)
(* a re-encoded row is found by counting.                                  *)
MegatronOutputs(full) == [r \in DOMAIN batch |-> [k \in 1 .. ResponseLength |-> On(full, r, Width - ResponseLength - 1 + k)]]
MegatronValues(full) ==
    [r \in DOMAIN batch |-> [k \in 1 .. ResponseLength |->
       IF batch[r].mask[Width - ResponseLength - 1 + k] THEN On(full, r, Width - ResponseLength - 1 + k) ELSE None]]
MegatronRewards(full) ==
    LET End(row) == Min({c \in DOMAIN row.ids : Before(row.mask, c) = Before(row.mask, Len(row.ids))})
    IN  [r \in DOMAIN batch |-> [k \in 1 .. ResponseLength |->
           IF Width - ResponseLength + k = EosIndex(batch[r]) THEN On(full, r, End(rows[r])) ELSE None]]

SftOutputs(full) ==
    [r \in DOMAIN batch |-> [c \in 1 .. Width - 1 |-> IF batch[r].loss[c] THEN On(full, r, c) ELSE None]]

Returned(full) ==
    CASE job.head = "actor" -> IF job.path = "mcore" THEN MegatronOutputs(full) ELSE ResponseOutputs(full)
      [] job.head = "critic" -> IF job.path = "mcore" THEN MegatronValues(full) ELSE CriticOutputs(full)
      [] job.head = "reward" -> IF job.path = "mcore" THEN MegatronRewards(full) ELSE RewardOutputs(full)
      [] job.head = "sft" -> SftOutputs(full)

Restore ==
    /\ stage = "scored" /\ job.path # "mcore"
    /\ LET at == unpad_input(rows)
       IN  result' = Returned(pad_input(gather_outpus_and_unpad(outs, PadSize(at)), at))
    /\ stage' = "restored"
    /\ UNCHANGED <<job, inputs, batch, asked, rows, tokens, places, labels, keys, outs, grads>>

---------------------------------------------------------------------------
(* With the padding left in, the model is given the rows and their mask.   *)
GroupOf(q) == ((q - 1) \div (QHeads \div job.kv)) + 1
PlainOutput(rs, r, c) ==
    LET seen == {[at |-> <<r, d>>, pos |-> rs[r].pos[d]] : d \in Before(rs[r].mask, c)}
    IN  [at |-> <<r, c>>, see |-> [q \in 1 .. QHeads |-> [kv |-> GroupOf(q), seen |-> seen]],
         label |-> IF c < Len(rs[r].ids) THEN rs[r].ids[c + 1] ELSE Pad]
ForwardPlain ==
    /\ stage = "batch" /\ job.path = "plain"
    /\ rows' = Given
    /\ tokens' = <<unpad_input(Given)>>
    /\ outs' = <<[x \in DOMAIN tokens'[1] |-> PlainOutput(Given, tokens'[1][x][1], tokens'[1][x][2])]>>
    /\ stage' = "scored"
    /\ UNCHANGED <<job, inputs, batch, asked, places, labels, keys, result, grads>>

---------------------------------------------------------------------------
(* Megatron: each row is padded to the group's alignment and cut into two  *)
(* chunks for each rank, the first from the front and the second from the  *)
(* back, so that every rank has as much to attend to.                      *)

Align == IF Sp > 1 THEN job.tp * Sp * 2 ELSE job.tp
PaddedLen(n) == n + ((Align - (n % Align)) % Align)
Half(n) == (PaddedLen(n) \div Sp) \div 2
Rest(s, n, filler) == s \o [k \in 1 .. n - Len(s) |-> filler]
Slice(s, a, b) == SubSeq(s, a + 1, Min({b, Len(s)}))

(* Mutant: the second chunk is taken from the front too. *)
BothFromTheFront(d, j, filler) ==
    LET h == Half(Len(d)) IN
      IF Sp = 1 THEN Rest(d, PaddedLen(Len(d)), filler)
      ELSE Slice(d, h * j, h * (j + 1)) \o Rest(Slice(d, h * (Sp + j), h * (Sp + j + 1)), h, filler)
(* The part of row d that rank j (from 0) is given. *)
preprocess_packed_seqs(d, j, filler) ==
    LET h == Half(Len(d)) IN
      IF Sp = 1 THEN Rest(d, PaddedLen(Len(d)), filler)
      ELSE Slice(d, h * j, h * (j + 1)) \o Rest(Slice(d, PaddedLen(Len(d)) - h * (j + 1), PaddedLen(Len(d)) - h * j), h, filler)

(* The place in its row that the model takes each of them to have.         *)
ContextPlaces(n, j) ==
    LET h == Half(n) IN
      IF Sp = 1 THEN [k \in 1 .. PaddedLen(n) |-> k - 1]
      ELSE [k \in 1 .. 2 * h |-> IF k <= h THEN h * j + k - 1 ELSE PaddedLen(n) - h * (j + 1) + (k - h) - 1]

Own(rs, r) == SelectSeq([c \in DOMAIN rs[r].ids |-> <<r, c>>], LAMBDA x : rs[x[1]].mask[x[2]])
RowColumns(r) == Own(rows, r)
ResponseLabel(rs, r, c) == IF c \in MaxPrompt .. Width - 1 THEN rs[r].ids[c + 1] ELSE Pad

MegatronPack ==
    /\ stage = "batch" /\ job.path = "mcore"
    /\ rows' = Given
    /\ LET own(r)     == Own(Given, r)
           scores(r)  == [x \in DOMAIN own(r) |-> ResponseLabel(Given, r, own(r)[x][2])]
           all(S(_))  == Cat([r \in DOMAIN Given |-> S(r)])
       IN  /\ tokens' = [j \in Ranks |-> all(LAMBDA r : preprocess_packed_seqs(own(r), j - 1, Nowhere))]
           /\ labels' = [j \in Ranks |-> all(LAMBDA r : preprocess_packed_seqs(scores(r), j - 1, Pad))]
           /\ places' = [j \in Ranks |-> all(LAMBDA r : ContextPlaces(Len(own(r)), j - 1))]
    /\ stage' = "packed"
    /\ UNCHANGED <<job, inputs, batch, asked, keys, outs, result, grads>>

(* Attention goes round the group: every token meets the keys of its row   *)
(* that the model takes to be before it.                                   *)
MegatronAttend ==
    /\ stage = "packed" /\ job.path = "mcore"
    /\ LET key(j, x) == [at |-> tokens[j][x], pos |-> places[j][x]]
           RowOf(x) ==  \* the row whose part of the packed sequence x lies in
             LET n(r) == PaddedLen(Len(RowColumns(r))) \div Sp
                 End[r \in 0 .. Len(rows)] == IF r = 0 THEN 0 ELSE End[r - 1] + n(r)
             IN  CHOOSE r \in DOMAIN rows : End[r - 1] < x /\ x <= End[r]
       IN  outs' = [j \in Ranks |-> [x \in DOMAIN tokens[j] |->
                     LET seen == {key(i, y) : i \in Ranks, y \in {z \in DOMAIN tokens[j] : RowOf(z) = RowOf(x)}}
                     IN  [at |-> tokens[j][x], label |-> labels[j][x],
                          see |-> [q \in 1 .. QHeads |->
                                     [kv |-> GroupOf(q), seen |-> {k \in seen : k.pos <= places[j][x]}]]]]]
    /\ stage' = "scored"
    /\ UNCHANGED <<job, inputs, batch, asked, rows, tokens, places, labels, keys, result, grads>>

(* All ranks' outputs, in the order of the row again. *)
postprocess_packed_seqs(s, r) ==
    LET n == Len(RowColumns(r))
        h == Half(n)
        len == PaddedLen(n)
        Start[i \in 1 .. r] == IF i = 1 THEN 0 ELSE Start[i - 1] + (PaddedLen(Len(RowColumns(i - 1))) \div Sp)
        \* rank and local index (from 0) of place t
        j(t) == IF t < len \div 2 THEN t \div h ELSE (len - 1 - t) \div h
        x(t) == IF t < len \div 2 THEN t % h ELSE h + (t - (len - (j(t) + 1) * h))
    IN  [t \in 1 .. n |-> IF Sp = 1 THEN s[1][Start[r] + t] ELSE s[j(t - 1) + 1][Start[r] + x(t - 1) + 1]]

MegatronRestore ==
    /\ stage = "scored" /\ job.path = "mcore"
    /\ result' = LET full == [x \in Range(unpad_input(rows)) |->
                                postprocess_packed_seqs(outs, x[1])[CHOOSE y \in DOMAIN RowColumns(x[1]) : RowColumns(x[1])[y] = x]]
                 IN  Returned(full)
    /\ stage' = "restored"
    /\ UNCHANGED <<job, inputs, batch, asked, rows, tokens, places, labels, keys, outs, grads>>

---------------------------------------------------------------------------
(* The way back.  Every rank differentiates the loss of the whole batch.   *)

(* Mutant: the actor's outputs are taken by their own columns' mask too. *)
UnderTheirOwnColumn(r, c) ==
    IF job.head = "sft" THEN c < Width /\ batch[r].loss[c]
    ELSE c \in MaxPrompt .. Width - 1 /\ batch[r].mask[c]
(* Whether the loss of an update counts the output at column c of row r,   *)
(* by its mask: the dataset's own; for the FSDP critic that of the output's *)
(* own column; else that of the token the output predicts.                 *)
Counted(r, c) ==
    CASE job.head = "sft" -> c < Width /\ batch[r].loss[c]
      [] job.head = "critic" /\ job.path # "mcore" -> c \in MaxPrompt .. Width - 1 /\ batch[r].mask[c]
      [] OTHER -> c \in MaxPrompt .. Width - 1 /\ batch[r].mask[c + 1]
(* What the loss of the whole batch, as every rank has it, asks of an output. *)
LossGradient(x) == IF x # Nowhere /\ Counted(x[1], x[2]) THEN 1 ELSE 0

(* Mutant: what was gathered is not scaled on the way back. *)
UnscaledBackward(j) ==
    LET at == ulysses_pad(unpad_input(rows), Nowhere)
    IN  Part([x \in DOMAIN at |-> LossGradient(at[x])], j)
(* A rank's own part of the gathered outputs' gradient, times the number   *)
(* of ranks: the average over them that follows divides by it.             *)
GatherBackward(j) ==
    LET at == ulysses_pad(unpad_input(rows), Nowhere)
    IN  Part([x \in DOMAIN at |-> Sp * LossGradient(at[x])], j)

Backward ==
    /\ stage = "restored" /\ job.head # "reward" /\ job.path # "mcore"
    /\ grads' = [j \in Ranks |-> GatherBackward(j)]
    /\ stage' = "done"
    /\ UNCHANGED <<job, inputs, batch, asked, rows, tokens, places, labels, keys, outs, result>>

(* A Megatron rank keeps the graph of its own outputs only; the schedule   *)
(* scales by the size of the group what the reduction divides by it.       *)
MegatronBackward ==
    /\ stage = "restored" /\ job.head # "reward" /\ job.path = "mcore"
    /\ grads' = [j \in Ranks |-> [x \in DOMAIN outs[j] |-> Sp * LossGradient(outs[j][x].at)]]
    /\ stage' = "done"
    /\ UNCHANGED <<job, inputs, batch, asked, rows, tokens, places, labels, keys, outs, result>>

Finished ==
    /\ stage \in {"failed", "done"} \/ (stage = "restored" /\ job.head = "reward")
    /\ UNCHANGED vars

Next ==
    \/ PromptingNext /\ UNCHANGED fvars
    \/ Unpad \/ ulysses_wrapped_decoder_forward \/ TextGatherSeq \/ KimiGatherSeq \/ VisionGatherSeq
    \/ Attend \/ gather_heads_scatter_seq \/ logprobs_from_logits \/ Restore
    \/ ForwardPlain \/ MegatronPack \/ MegatronAttend \/ MegatronRestore
    \/ Backward \/ MegatronBackward \/ Finished

Spec == Init /\ [][Next]_vars

---------------------------------------------------------------------------
(* What a model without any of this would compute at column c of row r:    *)
(* every query head sees, through the key head of its group, exactly the   *)
(* row's own tokens up to there, at their positions.                       *)
Right(o, r, c) ==
    /\ o.at = <<r, c>>
    /\ Len(o.see) = QHeads
    /\ \A q \in 1 .. QHeads :
         /\ o.see[q].kv = GroupOf(q)
         /\ o.see[q].seen = {[at |-> <<r, d>>, pos |-> rows[r].pos[d]] : d \in Before(rows[r].mask, c)}

LastValid(row) == Max({c \in DOMAIN row.ids : row.mask[c]})
AnswerColumns(r) == {c \in MaxPrompt + 1 .. Width : batch[r].mask[c]}
Answering(r, c) == batch[r].ids[c][2] > 0  \* a token of the answer

(* The mask of a supervised row is made from the lengths before the cut:   *)
(* of a row cut on the left it leaves out the first tokens of the answer.  *)
CutOnTheLeft(r) ==
    /\ job.engine = "dataset" /\ job.truncation = "left"
    /\ Len(asked[r].read) + Len(asked[r].answer) > Width

(* However the rows are packed, padded, dealt and gathered, what comes     *)
(* back belongs to the token it is taken for: a log probability or a value *)
(* to the output before the token, with the token itself as the label; a   *)
(* reward to the last token, given for the last token the reward model     *)
(* read; a supervised loss to tokens of the response only, and, unless the *)
(* row was cut on the left, to every one of them that fits.                *)
OutputsBelong ==
    stage \in {"restored", "done"} => \A r \in DOMAIN batch :
      CASE job.head \in {"actor", "critic"} ->
             \A c \in AnswerColumns(r) :
               /\ Right(result[r][c - MaxPrompt], r, c - 1)
               /\ job.head = "actor" => result[r][c - MaxPrompt].label = batch[r].ids[c]
        [] job.head = "reward" ->
             \A c \in MaxPrompt + 1 .. Width :
               IF c = LastValid(batch[r]) THEN Right(result[r][c - MaxPrompt], r, LastValid(rows[r]))
               ELSE result[r][c - MaxPrompt] = None
        [] job.head = "sft" ->
             LET learned == {c \in 2 .. Width : batch[r].loss[c - 1]} IN
               /\ \A c \in learned : /\ Answering(r, c)
                                     /\ Right(result[r][c - 1], r, c - 1)
                                     /\ result[r][c - 1].label = batch[r].ids[c]
               /\ ~CutOnTheLeft(r) => {c \in 2 .. Width : Answering(r, c)} \subseteq learned

Reached(x) ==
    MapThenSumSet(LAMBDA j : MapThenSumSet(LAMBDA y : grads[j][y], {y \in DOMAIN outs[j] : outs[j][y].at = x}), Ranks)

(* The outputs an update is for: those that predict a token of an answer.  *)
(* The FSDP critic's mask is one column late, which adds the value after   *)
(* the end of an answer that ended early; a supervised row cut on the left *)
(* has only those its mask has left.                                       *)
Wanted(r, c) ==
    /\ c < Width
    /\ \/ Answering(r, c + 1) /\ (CutOnTheLeft(r) => batch[r].loss[c])
       \/ job.head = "critic" /\ job.path # "mcore" /\ IsEos(batch[r].ids[c])

(* An update moves the model by the gradient of every output it is for,    *)
(* once, and by that of no other: what reaches the ranks that hold the     *)
(* output, averaged over the group as the reduction does it, is one, or    *)
(* nothing.                                                                *)
GradientsWhole ==
    stage = "done" => \A r \in DOMAIN batch, c \in 1 .. Width :
      Reached(<<r, c>>) = IF Wanted(r, c) THEN Cardinality(Ranks) ELSE 0
=============================================================================
