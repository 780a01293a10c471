------------------------------ MODULE Dispatch ------------------------------
(***************************************************************************)
(* How a batch is cut over the workers of a group and put together again:  *)
(* DataProto's padding, chunk and concat, and the dispatch and collect     *)
(* functions of the modes the workers' methods are registered with.  A     *)
(* batch is the sequence of its rows.                                      *)
(*                                                                         *)
(* With Megatron a rank has a place in four dimensions.  megatron-core     *)
(* counts ranks in the order tensor, context, data, pipeline parallel.     *)
(***************************************************************************)
EXTENDS Integers, SequencesExt

(* The least number of rows that makes n divisible by d. *)
PadSize(n, d) == IF n % d = 0 THEN 0 ELSE d - (n % d)

(* pad_dataproto_to_divisor: the batch's own rows over again, from the      *)
(* first, as many times as it takes.                                        *)
PadToDivisor(batch, d) ==
  [i \in 1 .. Len(batch) + PadSize(Len(batch), d) |-> batch[((i - 1) % Len(batch)) + 1]]

(* unpad_dataproto, and the cut in func_generator *)
Unpad(batch, pad) == SubSeq(batch, 1, Len(batch) - pad)

(* DataProto.padding: the last row, pad times. *)
PadLast(batch, pad) == batch \o [i \in 1 .. pad |-> batch[Len(batch)]]

(* The rows of a chunk, but for the last ones. *)
ChunkSize(n, chunks) == (n + chunks - 1) \div chunks

(* chunk finds a part for every worker. *)
CanChunk(n, chunks) == n > (chunks - 1) * ChunkSize(n, chunks)

(* DataProto.chunk *)
Chunk(batch, chunks) ==
  LET size == ChunkSize(Len(batch), chunks)
  IN  [i \in 1 .. chunks |-> SubSeq(batch, (i - 1) * size + 1, IF i = chunks THEN Len(batch) ELSE i * size)]

(* DataProto.concat *)
Concat(parts) == FlattenSeq(parts)
----------------------------------------------------------------------------
(* Megatron's ranks: a layout is [tp, cp, dp, pp], their product the size   *)
(* of the group.                                                            *)

TpRank(lay, r) == r % lay.tp
CpRank(lay, r) == (r \div lay.tp) % lay.cp
DpRank(lay, r) == (r \div (lay.tp * lay.cp)) % lay.dp
PpRank(lay, r) == r \div (lay.tp * lay.cp * lay.dp)

Size(lay) == lay.tp * lay.cp * lay.dp * lay.pp

Layouts(n) == {lay \in [tp : 1 .. n, cp : 1 .. n, dp : 1 .. n, pp : 1 .. n] : Size(lay) = n}

Modes == {"DP_COMPUTE_PROTO", "MEGATRON_COMPUTE_PROTO", "MEGATRON_PP_AS_DP_PROTO", "ONE_TO_ALL"}

(* The number of parts a mode cuts a batch into. *)
Parts(mode, lay) ==
  CASE mode = "DP_COMPUTE_PROTO" -> Size(lay)
    [] mode = "MEGATRON_COMPUTE_PROTO" -> lay.dp
    [] mode = "MEGATRON_PP_AS_DP_PROTO" -> lay.dp * lay.pp * lay.cp
    [] mode = "ONE_TO_ALL" -> 1

(* Mutant: the stage of a pipeline counts before its data rank. *)
PartByStage(mode, lay, r) ==
  CASE mode = "DP_COMPUTE_PROTO" -> r + 1
    [] mode = "MEGATRON_COMPUTE_PROTO" -> ((PpRank(lay, r) + DpRank(lay, r)) % lay.dp) + 1
    [] mode = "MEGATRON_PP_AS_DP_PROTO" -> PpRank(lay, r) + 1
    [] mode = "ONE_TO_ALL" -> 1

(* The part that goes to rank r. *)
PartOf(mode, lay, r) ==
  CASE mode = "DP_COMPUTE_PROTO" -> r + 1
    [] mode = "MEGATRON_COMPUTE_PROTO" -> DpRank(lay, r) + 1
    [] mode = "MEGATRON_PP_AS_DP_PROTO" ->
         (CpRank(lay, r) * lay.dp + DpRank(lay, r)) * lay.pp + PpRank(lay, r) + 1
    [] mode = "ONE_TO_ALL" -> 1

(* The ranks whose outputs are collected, in the order of the ranks. *)
Collected(mode, lay, r) ==
  CASE mode = "MEGATRON_COMPUTE_PROTO" ->
         TpRank(lay, r) = 0 /\ PpRank(lay, r) = lay.pp - 1 /\ CpRank(lay, r) = 0
    [] mode = "MEGATRON_PP_AS_DP_PROTO" -> TpRank(lay, r) = 0
    [] OTHER -> TRUE

Collect(mode, lay, output) ==
  Concat([i \in 1 .. Size(lay) |-> IF Collected(mode, lay, i - 1) THEN output[i - 1] ELSE << >>])
=============================================================================
