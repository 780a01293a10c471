--------------------------- MODULE SeqlenBalancing ---------------------------
(***************************************************************************)
(* verl/utils/seqlen_balancing.py: how rows of different lengths are       *)
(* parted so that the parts have about as many tokens, by Karmarkar and    *)
(* Karp's differencing.  A row is its number, a set a sequence of rows, a  *)
(* state a sequence of sets, the heaviest first.  `lens` gives the tokens  *)
(* of each row.                                                            *)
(***************************************************************************)
EXTENDS Integers, SequencesExt, FiniteSetsExt

Tokens(lens, set) == SumFunctionOnSet(lens, Range(set))

(* Set.__lt__ *)
SetLess(lens, a, b) ==
  \/ Tokens(lens, a) < Tokens(lens, b)
  \/ /\ Tokens(lens, a) = Tokens(lens, b)
     /\ \/ Len(a) < Len(b)
        \/ /\ Len(a) = Len(b)
           /\ \E k \in DOMAIN a : a[k] < b[k] /\ \A j \in 1 .. k - 1 : a[j] = b[j]

(* The members of a set in an order. *)
InOrder(S, before(_, _)) ==
  [k \in 1 .. Cardinality(S) |-> CHOOSE x \in S : Cardinality({y \in S : before(y, x)}) = k - 1]

(* sorted(sets, reverse=True); equal sets, which are empty, keep their order. *)
(* With SubSeq TLC computes the list once and not at every use of it.         *)
HeaviestFirst(lens, sets) ==
  LET order == InOrder(DOMAIN sets, LAMBDA i, j : SetLess(lens, sets[j], sets[i]) \/ (sets[i] = sets[j] /\ i < j))
  IN  SubSeq([i \in DOMAIN sets |-> sets[order[i]]], 1, Len(sets))

Spread(lens, state) == Tokens(lens, state[1]) - Tokens(lens, state[Len(state)])

(* State.__lt__: the order of the heap *)
StateLess(lens, s, t) ==
  \/ Spread(lens, s) > Spread(lens, t)
  \/ Spread(lens, s) = Spread(lens, t) /\ SetLess(lens, t[1], s[1])

(* Mutant: heavy sets are merged with heavy ones. *)
MergeAlike(lens, s, t) == HeaviestFirst(lens, [i \in DOMAIN s |-> s[i] \o t[i]])

(* State.merge *)
Merge(lens, s, t) == HeaviestFirst(lens, [i \in DOMAIN s |-> s[i] \o t[Len(s) + 1 - i]])

(* The states at the start: k rows of about the same length each, or one. *)
FirstStates(lens, k, equal) ==
  LET order == InOrder(DOMAIN lens, LAMBDA i, j : lens[i] < lens[j] \/ (lens[i] = lens[j] /\ i < j))
  IN  IF equal
      THEN {HeaviestFirst(lens, [i \in 1 .. k |-> <<order[(n * k) + i]>>]) : n \in 0 .. (Len(lens) \div k) - 1}
      ELSE {[i \in 1 .. k |-> IF i = 1 THEN <<r>> ELSE << >>] : r \in DOMAIN lens}

Popped(lens, states) == CHOOSE s \in states : \A t \in states \ {s} : StateLess(lens, s, t)

(* The two states the heap gives first become one. *)
MergeTwo(lens, states) ==
  LET s == Popped(lens, states)
      t == Popped(lens, states \ {s})
  IN  (states \ {s, t}) \union {Merge(lens, s, t)}

karmarkar_karp(lens, k, equal) ==
  LET first == FirstStates(lens, k, equal)
      merges == Cardinality(first) - 1
      heap[i \in 0 .. merges] == IF i = 0 THEN first ELSE MergeTwo(lens, heap[i - 1])
  IN  CHOOSE s \in heap[merges] : TRUE

(* What get_seqlen_balanced_partitions and karmarkar_karp assert of their input... *)
CanPartition(lens, k, equal) == Len(lens) >= k /\ (equal => Len(lens) % k = 0)

(* ...and of what they have found. *)
Partitioned(lens, k, equal, parts) ==
  /\ Len(parts) = k /\ \A i \in 1 .. k : parts[i] # << >>
  /\ UNION {Range(parts[i]) : i \in 1 .. k} = DOMAIN lens
  /\ equal => \A i \in 1 .. k : Len(parts[i]) * k = Len(lens)

get_seqlen_balanced_partitions(lens, k, equal) ==
  LET parts == karmarkar_karp(lens, k, equal) IN [i \in DOMAIN parts |-> InOrder(Range(parts[i]), <)]

ceildiv(a, b) == (a + b - 1) \div b

roundup_divisible(a, b) == ceildiv(a, b) * b

(* The micro-batches one rank needs for its rows. *)
OwnMicroBatches(lens, max_token_len) ==
  Min({Len(lens), ceildiv(SumFunction(lens), max_token_len)})

(* Mutant: the inverse of the order is taken to be the order. *)
ReverseIsOrder(idx_map) == idx_map

get_reverse_idx(idx_map) ==
  [j \in DOMAIN idx_map |-> CHOOSE i \in DOMAIN idx_map : idx_map[i] = j]
=============================================================================
