-------------------------- MODULE TrainStep_proofs --------------------------
(***************************************************************************)
(* A training step on any number of ranks and rows, for every              *)
(* configuration: no rank waits for another for ever, text rows fail no    *)
(* assertion, ranks and micro-batches are bounded, every row has its own   *)
(* numbers beside it, and weighs as much as any other.                     *)
(***************************************************************************)
EXTENDS TrainStep, SeqlenBalancing_proofs

----------------------------------------------------------------------------
(* The number of rows divides *)

LEMMA IsQuotient ==
  ASSUME NEW a \in Nat, NEW d \in Nat \ {0}, NEW q \in Nat, a = d * q
  PROVE  Quot(a, d) = q /\ Rest(a, d) = 0
<1>1. IsDivision(a, d, q, 0)
  <2>1. 0 \in 0 .. d - 1 /\ a = d * q + 0
    OBVIOUS
  <2> QED BY <2>1 DEF IsDivision
<1> QED BY <1>1, Quotient

LEMMA DividedWhole ==
  ASSUME NEW a \in Nat, NEW d \in Nat \ {0}, Rest(a, d) = 0
  PROVE  Quot(a, d) \in Nat /\ a = d * Quot(a, d)
<1>1. PICK q \in Nat : q = Quot(a, d) /\ a = d * q + Rest(a, d)
  BY Division
<1>2. d * q + 0 = d * q
  OBVIOUS
<1> QED BY <1>1, <1>2

LEMMA DividesOn ==
  ASSUME NEW a \in Nat, NEW d \in Nat \ {0}, NEW e \in Nat \ {0}, Rest(a, d) = 0, Rest(d, e) = 0
  PROVE  Rest(a, e) = 0
<1>1. PICK q \in Nat : a = d * q
  BY DividedWhole
<1>2. PICK p \in Nat : d = e * p
  BY DividedWhole
<1>3. a = e * (p * q) /\ p * q \in Nat
  <2>1. (e * p) * q = e * (p * q) /\ p * q \in Nat
    OBVIOUS
  <2> QED BY <1>1, <1>2, <2>1
<1> QED BY <1>3, IsQuotient

LEMMA LeastMultiple ==
  ASSUME NEW a \in Nat \ {0}, NEW b \in Nat \ {0}
  PROVE  lcm(a, b) \in Nat \ {0} /\ Rest(lcm(a, b), a) = 0 /\ Rest(lcm(a, b), b) = 0
<1> DEFINE T == {x \in 1 .. a * b : x % a = 0 /\ x % b = 0}
<1>1. PICK w \in Nat \ {0} : w = a * b
  <2>1. a * b \in Nat /\ a * b # 0
    OBVIOUS
  <2> QED BY <2>1
<1>2. w \in T
  <2>1. w = b * a
    BY <1>1
  <2>2. Rest(w, a) = 0 /\ Rest(w, b) = 0
    BY <1>1, <2>1, IsQuotient
  <2> QED BY <1>1, <2>2 DEF Rest
<1>3. PICK x \in T : \A y \in T : x <= y
  <2>1. T \subseteq Nat
    OBVIOUS
  <2>2. T # {}
    BY <1>2
  <2> HIDE DEF T
  <2> QED BY <2>1, <2>2, LeastNatural
<1>4. x \in 1 .. a * b /\ x % a = 0 /\ x % b = 0 /\ x \in Nat
  BY <1>3
<1>5. ASSUME NEW m \in 1 .. x - 1 PROVE m % a # 0 \/ m % b # 0
  <2>1. SUFFICES ASSUME m % a = 0, m % b = 0 PROVE FALSE
    OBVIOUS
  <2>2. x <= w /\ m < x
    BY <1>1, <1>4
  <2>3. m \in 1 .. a * b
    BY <1>1, <2>2, <1>4
  <2>4. m \in T
    BY <2>1, <2>3
  <2>5. x <= m
    <3> HIDE DEF T
    <3> QED BY <1>3, <2>4
  <2> QED BY <2>2, <2>5, <1>4
<1>6. lcm(a, b) \in 1 .. a * b /\ lcm(a, b) % a = 0 /\ lcm(a, b) % b = 0
  <2> HIDE DEF T
  <2> QED BY <1>4, <1>5 DEF lcm
<1> QED BY <1>6 DEF Rest

----------------------------------------------------------------------------
(* Sizes *)

LEMMA ConfNumbers ==
  ASSUME NEW c, IsConf(c)
  PROVE  /\ c.sp \in Nat \ {0} /\ c.vpp \in Nat \ {0} /\ c.n \in Nat \ {0} /\ c.mini \in Nat \ {0}
         /\ c.micro.old_log_probs \in Nat \ {0} /\ c.micro.ref_log_prob \in Nat \ {0}
         /\ \A i \in 1 .. 5 : c.micro[Calls[i]] \in Nat \ {0}
         /\ c.micro.update_actor \in Nat \ {0}
         /\ c.dynamic \in BOOLEAN /\ c.multi_modal \in BOOLEAN
<1>1. {c.sp, c.vpp, c.train, c.n, c.mini} \union {c.micro[Calls[i]] : i \in DOMAIN Calls} \subseteq Nat \ {0}
  BY DEF IsConf
<1>2. DOMAIN Calls = 1 .. 5
  BY DEF Calls
<1>3. \A i \in 1 .. 5 : c.micro[Calls[i]] \in Nat \ {0}
  BY <1>1, <1>2
<1>4. Calls[1] = "old_log_probs" /\ Calls[2] = "ref_log_prob" /\ Calls[5] = "update_actor"
  BY DEF Calls
<1>5. c.micro[Calls[1]] \in Nat \ {0} /\ c.micro[Calls[2]] \in Nat \ {0} /\ c.micro[Calls[5]] \in Nat \ {0}
  BY <1>3
<1>6. c.dynamic \in BOOLEAN /\ c.multi_modal \in BOOLEAN
  BY DEF IsConf
<1>7. c.micro["old_log_probs"] \in Nat \ {0} /\ c.micro["ref_log_prob"] \in Nat \ {0} /\ c.micro["update_actor"] \in Nat \ {0}
  BY <1>4, <1>5
<1> QED BY <1>1, <1>3, <1>6, <1>7

LEMMA SizeDivisorType ==
  ASSUME NEW c, IsConf(c)
  PROVE  /\ SizeDivisor(c) \in Nat \ {0} /\ Rest(SizeDivisor(c), WorldSize) = 0
         /\ Rest(SizeDivisor(c), WorldSize * c.micro.update_actor) = 0
<1>1. PICK x \in Nat \ {0}, y \in Nat \ {0}, z \in Nat \ {0} :
        x = c.micro.ref_log_prob /\ y = c.micro.old_log_probs /\ z = c.micro.update_actor
  BY ConfNumbers
<1>2. PICK w \in Nat \ {0} : w = WorldSize
  BY StepAssumption
<1>3. PICK p \in Nat \ {0} : p = w * x /\ Rest(p, w) = 0
  <2>1. w * x \in Nat \ {0}
    OBVIOUS
  <2> QED BY <2>1, IsQuotient
<1>4. PICK q \in Nat \ {0} : q = w * y
  <2>1. w * y \in Nat \ {0}
    OBVIOUS
  <2> QED BY <2>1
<1>5. PICK t \in Nat \ {0} : t = w * z
  <2>1. w * z \in Nat \ {0}
    OBVIOUS
  <2> QED BY <2>1
<1>6. PICK u \in Nat \ {0} : u = lcm(p, q) /\ Rest(u, p) = 0
  BY LeastMultiple
<1>7. PICK v \in Nat \ {0} : v = lcm(u, t) /\ Rest(v, u) = 0 /\ Rest(v, t) = 0
  BY LeastMultiple
<1>8. Rest(u, w) = 0
  BY <1>3, <1>6, DividesOn
<1>9. Rest(v, w) = 0
  BY <1>7, <1>8, DividesOn
<1>10. SizeDivisor(c) = v
  BY <1>1, <1>2, <1>3, <1>4, <1>5, <1>6, <1>7 DEF SizeDivisor
<1>11. WorldSize * c.micro.update_actor = t
  BY <1>1, <1>2, <1>5
<1> QED BY <1>2, <1>7, <1>9, <1>10, <1>11

----------------------------------------------------------------------------
(* The rows of a rank *)

(* The ranks of a Ulysses group follow each other. *)
LEMMA GroupOfRank ==
  ASSUME IsConf(conf), NEW r \in Rank
  PROVE  \E a \in Nat : /\ Min(SpGroup(r)) = conf.sp * a /\ Max(SpGroup(r)) + 1 = conf.sp * a + conf.sp
                        /\ conf.sp * a + conf.sp <= WorldSize
                        /\ r \div conf.sp = a
                        /\ \E e \in 0 .. conf.sp - 1 : r % conf.sp = e /\ r = conf.sp * a + e
<1>1. PICK w \in Nat \ {0}, d \in Nat \ {0} : w = WorldSize /\ d = conf.sp
  BY ConfNumbers, StepAssumption
<1>2. Rest(w, d) = 0
  <2>1. CASE conf.backend = "fsdp"
    BY <1>1, <2>1 DEF IsConf, Rest
  <2>2. CASE conf.backend # "fsdp"
    <3>1. d = 1
      BY <1>1, <2>2 DEF IsConf
    <3>2. w = d * w
      BY <3>1
    <3> QED BY <3>2, IsQuotient
  <2> QED BY <2>1, <2>2
<1>3. PICK m \in Nat : w = d * m
  BY <1>2, DividedWhole
<1>4. PICK p \in Nat : p = r /\ p < w
  BY <1>1 DEF Rank
<1>5. PICK a \in Nat, e \in 0 .. d - 1 : a = Quot(p, d) /\ e = Rest(p, d) /\ p = d * a + e
  <2>1. Quot(p, d) \in Nat /\ Rest(p, d) \in 0 .. d - 1 /\ p = d * Quot(p, d) + Rest(p, d)
    BY Division
  <2> QED BY <2>1
<1>6. a < m
  <2>1. p < d * m
    BY <1>3, <1>4
  <2> QED BY <1>5, <2>1, SmallerQuotient
<1>7. d * a + d <= w
  BY <1>3, <1>6, Ordered
<1>8. PICK x \in Nat : x = d * a
  OBVIOUS
<1>9. SpGroup(r) = x .. x + d - 1
  <2>1. \A q \in Rank : q \in Nat /\ q < w
    BY <1>1 DEF Rank
  <2>2. ASSUME NEW q \in SpGroup(r) PROVE q \in x .. x + d - 1
    <3>1. q \in Rank /\ q \div conf.sp = r \div conf.sp
      BY DEF SpGroup
    <3>2. PICK z \in Nat : z = q
      BY <2>1, <3>1
    <3>3. Quot(z, d) = a
      BY <1>1, <1>4, <1>5, <3>1, <3>2 DEF Quot
    <3>4. Rest(z, d) \in 0 .. d - 1 /\ z = d * Quot(z, d) + Rest(z, d)
      BY Division
    <3>5. PICK y \in 0 .. d - 1 : z = x + y
      BY <1>8, <3>3, <3>4
    <3>6. z \in x .. x + d - 1
      BY <3>5
    <3> QED BY <3>2, <3>6
  <2>3. ASSUME NEW q \in x .. x + d - 1 PROVE q \in SpGroup(r)
    <3>1. PICK y \in 0 .. d - 1 : q = x + y
      <4>1. q - x \in 0 .. d - 1 /\ q = x + (q - x)
        OBVIOUS
      <4> QED BY <4>1
    <3>2. q \in Nat /\ q < w
      BY <1>7, <1>8
    <3>3. IsDivision(q, d, a, y)
      BY <1>8, <3>1 DEF IsDivision
    <3>4. Quot(q, d) = a
      BY <3>3, Quotient
    <3>5. q \in Rank
      BY <1>1, <3>2 DEF Rank
    <3>6. q \div conf.sp = r \div conf.sp
      BY <1>1, <1>4, <1>5, <3>4 DEF Quot
    <3> QED BY <3>5, <3>6 DEF SpGroup
  <2> QED BY <2>2, <2>3
<1>10. PICK G : G = SpGroup(r) /\ G = x .. x + d - 1
  BY <1>9
<1>11. Min(G) = x
  <2>1. x \in G /\ \A y \in G : x <= y
    BY <1>10
  <2>2. \A z \in G : z \in Int
    BY <1>10
  <2>3. Min(G) \in G /\ \A y \in G : Min(G) <= y
    BY <2>1 DEF Min
  <2>4. PICK y \in Int : y = Min(G)
    BY <2>2, <2>3
  <2>5. x <= y /\ y <= x
    BY <2>1, <2>3, <2>4
  <2> QED BY <2>4, <2>5
<1>12. Max(G) = x + d - 1
  <2>1. x + d - 1 \in G /\ \A y \in G : x + d - 1 >= y
    BY <1>10
  <2>2. \A z \in G : z \in Int
    BY <1>10
  <2>3. Max(G) \in G /\ \A y \in G : Max(G) >= y
    BY <2>1 DEF Max
  <2>4. PICK y \in Int, z \in Int : y = Max(G) /\ z = x + d - 1
    BY <2>2, <2>3
  <2>5. y >= z
    BY <2>1, <2>3, <2>4
  <2>6. z >= y
    BY <2>1, <2>3, <2>4
  <2> QED BY <2>4, <2>5, <2>6
<1>13. (x + d - 1) + 1 = x + d
  OBVIOUS
<1>14. r \div conf.sp = a /\ r % conf.sp = e
  BY <1>1, <1>4, <1>5 DEF Quot, Rest
<1>15. Min(SpGroup(r)) = conf.sp * a
  BY <1>1, <1>8, <1>10, <1>11
<1>16. Max(SpGroup(r)) + 1 = conf.sp * a + conf.sp
  BY <1>1, <1>8, <1>10, <1>12, <1>13
<1>17. conf.sp * a + conf.sp <= WorldSize
  BY <1>1, <1>7
<1>18. e \in 0 .. conf.sp - 1 /\ r % conf.sp = e /\ r = conf.sp * a + e
  <2>1. conf.sp * a = x
    BY <1>1, <1>8
  <2>2. r = x + e
    BY <1>4, <1>5, <1>8
  <2>3. e \in 0 .. conf.sp - 1
    BY <1>1
  <2> QED BY <1>14, <2>1, <2>2, <2>3
<1> QED BY <1>14, <1>15, <1>16, <1>17, <1>18

Uids == UNION {{c.rows[i].uid : i \in DOMAIN c.rows} : c \in Cases}

Rows == [id : Nat, uid : Uids, tokens : Positions, score : Int, valid : BOOLEAN, progress : Int]

(* The place of the first row a rank works on, less one. *)
FirstOf(a, m) == (conf.sp * a) * m

(* A rank works on as many rows as any other. *)
LEMMA RowsOfRank ==
  ASSUME IsConf(conf), NEW b \in Seq(Rows), b = batch, NEW m \in Nat, Len(b) = WorldSize * m, NEW r \in Rank
  PROVE  /\ RowsOf(r) \in Seq(Rows) /\ Len(RowsOf(r)) = conf.sp * m
         /\ FirstOf(r \div conf.sp, m) \in Nat /\ FirstOf(r \div conf.sp, m) + conf.sp * m <= Len(b)
         /\ \A i \in 1 .. conf.sp * m : RowsOf(r)[i] = b[FirstOf(r \div conf.sp, m) + i]
<1>1. PICK w \in Nat \ {0}, d \in Nat \ {0} : w = WorldSize /\ d = conf.sp
  BY ConfNumbers, StepAssumption
<1>2. PICK a \in Nat : /\ Min(SpGroup(r)) = conf.sp * a /\ Max(SpGroup(r)) + 1 = conf.sp * a + conf.sp
                       /\ conf.sp * a + conf.sp <= WorldSize /\ r \div conf.sp = a
  BY GroupOfRank
<1>3. Quot(Len(b), w) = m
  BY <1>1, IsQuotient
<1>4. PICK x \in Nat, y \in Nat : x = d * a /\ y = d * m
  OBVIOUS
<1>5. RowsOf(r) = SubSeq(b, (x * m) + 1, (x + d) * m)
  BY <1>1, <1>2, <1>3, <1>4 DEF RowsOf, Quot
<1>6. PICK z \in Nat : z = x * m
  OBVIOUS
<1>7. (x + d) * m = z + y
  BY <1>4, <1>6
<1>8. z + y <= Len(b)
  <2>1. x + d <= w
    BY <1>1, <1>2, <1>4
  <2>2. m * (x + d) <= m * w
    BY <2>1, NotLess
  <2>3. m * (x + d) = z + y /\ m * w = w * m
    BY <1>7
  <2> QED BY <1>1, <2>2, <2>3
<1>9. PICK u : u = SubSeq(b, z + 1, z + y)
  OBVIOUS
<1>10. u \in Seq(Rows) /\ Len(u) = (z + y) - z /\ \A i \in 1 .. (z + y) - z : u[i] = b[z + i]
  BY <1>8, <1>9, SectionNamed
<1>11. (z + y) - z = y
  OBVIOUS
<1>12. FirstOf(r \div conf.sp, m) = z
  BY <1>1, <1>2, <1>4, <1>6 DEF FirstOf
<1>13. RowsOf(r) = u
  BY <1>4, <1>5, <1>6, <1>7, <1>9
<1>14. Len(u) = y /\ \A i \in 1 .. y : u[i] = b[z + i]
  BY <1>10, <1>11
<1>15. conf.sp * m = y
  BY <1>1, <1>4
<1> QED BY <1>6, <1>8, <1>10, <1>12, <1>13, <1>14, <1>15

----------------------------------------------------------------------------
(* Cutting *)

Up(a, d) == ceildiv(a, d)

LEMMA Ceiling ==
  ASSUME NEW a \in Nat, NEW d \in Nat \ {0}
  PROVE  Up(a, d) \in Nat /\ a <= d * Up(a, d) /\ d * Up(a, d) < a + d /\ (a > 0 => Up(a, d) > 0)
<1>1. Up(a, d) = ChunkSize(a, d)
  BY DEF Up, ceildiv, ChunkSize
<1>2. PICK c \in Nat : c = Up(a, d) /\ a <= d * c /\ d * c < a + d
  BY <1>1, RoundedUp
<1>3. a > 0 => c > 0
  <2>1. SUFFICES ASSUME a > 0, c = 0 PROVE FALSE
    OBVIOUS
  <2>2. d * c = 0
    BY <2>1
  <2> QED BY <1>2, <2>1, <2>2
<1> QED BY <1>2, <1>3

(* The end of the k-th part *)
Cut0(l, size, k) == IF k * size <= l THEN k * size ELSE l

LEMMA MinOfTwo ==
  ASSUME NEW a \in Int, NEW b \in Int
  PROVE  Min({a, b}) = IF a <= b THEN a ELSE b
<1>1. PICK x \in {a, b} : \A y \in {a, b} : x <= y
  <2>1. CASE a <= b
    BY <2>1
  <2>2. CASE b <= a
    BY <2>2
  <2> QED BY <2>1, <2>2
<1>2. Min({a, b}) \in {a, b} /\ \A y \in {a, b} : Min({a, b}) <= y
  BY <1>1 DEF Min
<1>3. PICK m \in Int : m = Min({a, b})
  BY <1>2
<1> QED BY <1>2, <1>3

(* Where the parts begin and end *)
Ends(l, size) == [k \in 0 .. Up(l, size) |-> Cut0(l, size, k)]

Pieces(U, s, size, p) ==
  /\ p \in [1 .. Up(Len(s), size) -> Seq(U)]
  /\ \A k \in 1 .. Up(Len(s), size) : Len(p[k]) \in 1 .. size
  /\ Consecutive(s, Up(Len(s), size), Ends(Len(s), size), p)
  /\ Ends(Len(s), size)[0] = 0 /\ Ends(Len(s), size)[Up(Len(s), size)] = Len(s)

(* The parts of a size follow each other, none is empty, and they are all. *)
LEMMA SplitPieces ==
  ASSUME NEW U, NEW s \in Seq(U), NEW size \in Nat \ {0}
  PROVE  Pieces(U, s, size, SplitBy(s, size))
<1>1. PICK l \in Nat, c \in Nat : /\ l = Len(s) /\ c = Up(l, size) /\ l <= size * c /\ size * c < l + size
  <2>1. PICK l \in Nat : l = Len(s)
    OBVIOUS
  <2>2. Up(l, size) \in Nat /\ l <= size * Up(l, size) /\ size * Up(l, size) < l + size
    BY Ceiling
  <2> QED BY <2>1, <2>2
<1>2. PICK p : p = SplitBy(s, size)
  OBVIOUS
<1>3. p = [k \in 1 .. c |-> SubSeq(s, ((k - 1) * size) + 1, Min({k * size, l}))]
  BY <1>1, <1>2 DEF SplitBy, Up
<1>4. ASSUME NEW k \in 0 .. c
      PROVE  /\ Cut0(l, size, k) \in Nat /\ Cut0(l, size, k) <= l
             /\ k < c => Cut0(l, size, k) = k * size /\ k * size < l
             /\ k = c => Cut0(l, size, k) = l
  <2>1. PICK x \in Nat : x = k * size /\ x = size * k
    OBVIOUS
  <2>2. k < c => x < l
    <3>1. SUFFICES ASSUME k < c PROVE x < l
      OBVIOUS
    <3>2. size * k + size <= size * c
      BY <3>1, Ordered
    <3>3. PICK y \in Nat : y = size * c
      BY <1>1
    <3> QED BY <1>1, <2>1, <3>2, <3>3
  <2>3. k = c => l <= x
    BY <1>1, <2>1
  <2> QED BY <2>1, <2>2, <2>3 DEF Cut0
<1>5. ASSUME NEW k \in 1 .. c
      PROVE  /\ k - 1 \in 0 .. c /\ k \in 0 .. c
             /\ p[k] = SubSeq(s, Cut0(l, size, k - 1) + 1, Cut0(l, size, k))
             /\ Cut0(l, size, k - 1) < Cut0(l, size, k) /\ Cut0(l, size, k) <= Cut0(l, size, k - 1) + size
  <2>1. k - 1 \in 0 .. c /\ k \in 0 .. c /\ k - 1 < c
    OBVIOUS
  <2>2. PICK x \in Nat, y \in Nat : x = (k - 1) * size /\ y = k * size /\ y = x + size
    OBVIOUS
  <2>3. Cut0(l, size, k - 1) = x /\ x < l
    BY <1>4, <2>1, <2>2
  <2>4. Cut0(l, size, k) = IF y <= l THEN y ELSE l
    BY <2>2 DEF Cut0
  <2>5. Min({k * size, l}) = Cut0(l, size, k)
    BY <2>2, <2>4, MinOfTwo
  <2>6. p[k] = SubSeq(s, Cut0(l, size, k - 1) + 1, Cut0(l, size, k))
    BY <1>3, <2>2, <2>3, <2>5
  <2> QED BY <2>1, <2>2, <2>3, <2>4, <2>6
<1>6. ASSUME NEW k \in 1 .. c PROVE p[k] \in Seq(U) /\ Len(p[k]) \in 1 .. size
  <2>1. PICK x \in Nat, y \in Nat : /\ x = Cut0(l, size, k - 1) /\ y = Cut0(l, size, k) /\ y <= Len(s)
                                    /\ x < y /\ y <= x + size /\ p[k] = SubSeq(s, x + 1, y)
    BY <1>1, <1>4, <1>5
  <2>2. p[k] \in Seq(U) /\ Len(p[k]) = y - x
    <3>1. PICK u : u = p[k]
      OBVIOUS
    <3>2. u = SubSeq(s, x + 1, y)
      BY <2>1, <3>1
    <3>4. x <= y /\ y <= Len(s)
      BY <2>1
    <3>3. u \in Seq(U) /\ Len(u) = y - x
      BY <3>2, <3>4, SectionNamed
    <3> QED BY <3>1, <3>3
  <2>3. y - x \in 1 .. size
    <3>1. x < y /\ y <= x + size
      BY <2>1
    <3> QED BY <3>1
  <2> QED BY <2>2, <2>3
<1>7. p \in [1 .. c -> Seq(U)]
  BY <1>3, <1>6
<1>8. PICK e : e = Ends(l, size) /\ \A k \in 0 .. c : e[k] = Cut0(l, size, k)
  <2>1. PICK e : e = Ends(l, size)
    OBVIOUS
  <2>2. e = [k \in 0 .. c |-> Cut0(l, size, k)]
    BY <1>1, <2>1 DEF Ends
  <2> QED BY <2>1, <2>2
<1>9. e[0] = 0 /\ e[c] = l
  <2>1. 0 \in 0 .. c /\ c \in 0 .. c /\ 0 * size = 0
    OBVIOUS
  <2>2. Cut0(l, size, 0) = 0
    BY <2>1 DEF Cut0
  <2>3. Cut0(l, size, c) = l
    BY <1>4, <2>1
  <2> QED BY <1>8, <2>1, <2>2, <2>3
<1>10. Consecutive(s, c, e, p)
  <2>1. \A i \in 0 .. c : e[i] \in Nat /\ e[0] <= e[i] /\ e[i] <= Len(s)
    BY <1>1, <1>4, <1>8, <1>9
  <2>2. ASSUME NEW i \in 1 .. c PROVE e[i - 1] <= e[i] /\ p[i] = SubSeq(s, e[i - 1] + 1, e[i])
    <3>1. i - 1 \in 0 .. c /\ i \in 0 .. c
      BY <1>5
    <3>2. e[i - 1] = Cut0(l, size, i - 1) /\ e[i] = Cut0(l, size, i)
      BY <1>8, <3>1
    <3>3. e[i - 1] \in Nat /\ e[i] \in Nat
      BY <2>1, <3>1
    <3>4. e[i - 1] < e[i]
      BY <1>5, <3>2
    <3> QED BY <1>5, <3>2, <3>3, <3>4
  <2> QED BY <2>1, <2>2 DEF Consecutive
<1> QED BY <1>1, <1>2, <1>6, <1>7, <1>8, <1>9, <1>10 DEF Pieces

LEMMA PlacesType ==
  ASSUME NEW n \in Nat
  PROVE  Places(n) \in Seq(1 .. n) /\ Len(Places(n)) = n /\ \A i \in 1 .. n : Places(n)[i] = i
BY DEF Places

(* Even chunks are of one size. *)
LEMMA EvenPieces ==
  ASSUME NEW U, NEW s \in Seq(U), NEW k \in Nat \ {0}, Rest(Len(s), k) = 0
  PROVE  /\ Chunk(s, k) \in [1 .. k -> Seq(U)] /\ \A i \in 1 .. k : Len(Chunk(s, k)[i]) = ChunkSize(Len(s), k)
         /\ ChunkSize(Len(s), k) \in Nat /\ Len(s) = k * ChunkSize(Len(s), k)
         /\ Consecutive(s, k, BoundsOf(Len(s), k), Chunk(s, k))
         /\ BoundsOf(Len(s), k)[0] = 0 /\ BoundsOf(Len(s), k)[k] = Len(s)
<1>1. PICK l \in Nat, z \in Nat : l = Len(s) /\ z = ChunkSize(l, k)
  BY RoundedUp
<1>2. l = k * z /\ Cuts(l, k)
  BY <1>1, WholeChunks
<1>3. /\ Chunk(s, k) \in [1 .. k -> Seq(U)]
      /\ Consecutive(s, k, BoundsOf(Len(s), k), Chunk(s, k))
      /\ BoundsOf(Len(s), k)[0] = 0 /\ BoundsOf(Len(s), k)[k] = Len(s)
      /\ \A i \in 1 .. k : Chunk(s, k)[i] = SubSeq(s, Bound(Len(s), k, i - 1) + 1, Bound(Len(s), k, i))
  <2>1. Cuts(Len(s), k)
    BY <1>1, <1>2
  <2> QED BY <2>1, ChunkCut
<1>4. ASSUME NEW i \in 1 .. k PROVE Len(Chunk(s, k)[i]) = z
  <2>1. PICK x \in Nat : x = (i - 1) * z /\ i * z = x + z
    OBVIOUS
  <2>2. Bound(l, k, i - 1) = x /\ Bound(l, k, i) = x + z
    <3>1. Bound(l, k, i - 1) = x
      BY <1>1, <2>1 DEF Bound
    <3>2. Bound(l, k, i) = x + z
      <4>1. CASE i = k
        BY <1>2, <2>1, <4>1 DEF Bound
      <4>2. CASE i # k
        BY <1>1, <2>1, <4>2 DEF Bound
      <4> QED BY <4>1, <4>2
    <3> QED BY <3>1, <3>2
  <2>3. x + z <= l
    <3>1. z * i <= z * k
      BY NotLess
    <3>2. z * i = x + z /\ z * k = l
      BY <1>2, <2>1
    <3> QED BY <3>1, <3>2
  <2>4. PICK u : u = SubSeq(s, x + 1, x + z)
    OBVIOUS
  <2>5. Len(u) = (x + z) - x
    <3>1. PICK y \in Nat : y = x + z /\ x <= y /\ y <= Len(s)
      BY <1>1, <2>3
    <3>2. Len(u) = y - x
      BY <2>4, <3>1, SectionNamed
    <3> QED BY <3>1, <3>2
  <2>6. Chunk(s, k)[i] = u
    BY <1>1, <1>3, <2>2, <2>4
  <2> QED BY <2>5, <2>6
<1> QED BY <1>1, <1>2, <1>3, <1>4

LEMMA GreatestOf ==
  ASSUME NEW m \in Nat, NEW S, S \subseteq 0 .. m, S # {}
  PROVE  Max(S) \in S /\ (\A x \in S : x <= Max(S)) /\ Max(S) \in 0 .. m
<1> DEFINE T == {m - x : x \in S}
<1>1. PICK y \in T : \A z \in T : y <= z
  <2>1. T \subseteq Nat
    BY SMT
  <2>2. T # {}
    OBVIOUS
  <2> HIDE DEF T
  <2> QED BY <2>1, <2>2, LeastNatural
<1>2. PICK x \in S : y = m - x
  OBVIOUS
<1>3. \A z \in S : x >= z
  <2> TAKE z \in S
  <2>1. m - z \in T /\ z \in Int /\ x \in Int
    OBVIOUS
  <2>2. y <= m - z
    <3> HIDE DEF T
    <3> QED BY <1>1, <2>1
  <2> QED BY <1>2, <2>1, <2>2
<1>4. Max(S) \in S /\ \A z \in S : Max(S) >= z
  BY <1>3 DEF Max
<1>5. PICK u \in 0 .. m : u = Max(S)
  BY <1>4
<1>6. \A z \in S : z <= u
  <2> TAKE z \in S
  <2>1. z \in 0 .. m /\ u >= z
    BY <1>4, <1>5
  <2> QED BY <2>1
<1> QED BY <1>4, <1>5, <1>6

----------------------------------------------------------------------------
(* Sizes of mini-batches and micro-batches *)

LEMMA RanksWithRows ==
  ASSUME IsConf(conf)
  PROVE  DataRanks(conf) \in Nat \ {0} /\ WorldSize = conf.sp * DataRanks(conf)
<1>1. PICK w \in Nat \ {0}, d \in Nat \ {0} : w = WorldSize /\ d = conf.sp
  BY ConfNumbers, StepAssumption
<1>2. CASE conf.backend = "fsdp"
  <2>1. Rest(w, d) = 0
    BY <1>1, <1>2 DEF IsConf, Rest
  <2>2. PICK q \in Nat : q = Quot(w, d) /\ w = d * q
    BY <2>1, DividedWhole
  <2>3. q # 0
    <3>1. SUFFICES ASSUME q = 0 PROVE FALSE
      OBVIOUS
    <3>2. d * q = 0
      BY <3>1
    <3> QED BY <2>2, <3>2
  <2>4. DataRanks(conf) = q
    BY <1>1, <1>2, <2>2 DEF DataRanks, FsdpDataRanks, Quot
  <2> QED BY <1>1, <2>2, <2>3, <2>4
<1>3. CASE conf.backend # "fsdp"
  <2>1. d = 1
    BY <1>1, <1>3 DEF IsConf
  <2>2. DataRanks(conf) = w
    BY <1>1, <1>3 DEF DataRanks, MegatronDataRanks
  <2>3. w = d * w
    BY <2>1
  <2> QED BY <1>1, <2>2, <2>3
<1> QED BY <1>2, <1>3

LEMMA MiniSizeType ==
  ASSUME IsConf(conf)
  PROVE  MiniSize \in Nat
<1>1. PICK d \in Nat \ {0}, x \in Nat, y \in Nat : d = DataRanks(conf) /\ x = conf.mini /\ y = conf.n
  BY RanksWithRows, ConfNumbers
<1>2. PICK z \in Nat : z = x * y
  OBVIOUS
<1>3. Quot(z, d) \in Nat
  BY Division
<1> QED BY <1>1, <1>2, <1>3 DEF MiniSize, MiniBatchSize, Quot

LEMMA MicroSizeType ==
  ASSUME IsConf(conf), call \in 1 .. 5
  PROVE  MicroSize \in Nat /\ (conf.given \notin {"total", "both"} => MicroSize > 0)
<1>1. PICK d \in Nat \ {0}, x \in Nat \ {0} : d = DataRanks(conf) /\ x = conf.micro[Calls[call]]
  BY RanksWithRows, ConfNumbers
<1>2. Quot(x, d) \in Nat
  BY Division
<1>3. MicroSize = IF conf.given \in {"total", "both"} THEN Quot(x, d) ELSE x
  BY <1>1 DEF MicroSize, MicroBatchSize, Quot
<1>4. CASE conf.given \in {"total", "both"}
  BY <1>2, <1>3, <1>4
<1>5. CASE conf.given \notin {"total", "both"}
  BY <1>3, <1>5
<1> QED BY <1>4, <1>5

----------------------------------------------------------------------------
(* What a rank has to do *)

(* A list of places of n rows, none empty *)
IsWork(w, n) == w \in Seq(Seq(1 .. n)) /\ \A j \in 1 .. Len(w) : w[j] # << >>

LEMMA FunctionIsWork ==
  ASSUME NEW n \in Nat, NEW k \in Nat, NEW w \in [1 .. k -> Seq(1 .. n)], \A i \in 1 .. k : Len(w[i]) > 0
  PROVE  IsWork(w, n) /\ Len(w) = k
<1>1. w \in Seq(Seq(1 .. n)) /\ Len(w) = k
  OBVIOUS
<1>2. \A i \in 1 .. k : w[i] # << >>
  <2> TAKE i \in 1 .. k
  <2>1. Len(<< >>) = 0
    OBVIOUS
  <2>2. SUFFICES ASSUME w[i] = << >> PROVE FALSE
    OBVIOUS
  <2>3. Len(w[i]) = 0
    BY <2>1, <2>2
  <2> QED BY <2>3
<1> QED BY <1>1, <1>2 DEF IsWork

LEMMA MiniBatchesType ==
  ASSUME IsConf(conf), NEW n \in Nat \ {0}, CanMiniBatch(n)
  PROVE  IsWork(MiniBatches(n), n)
<1>1. PICK size \in Nat \ {0} : size = MiniSize
  BY MiniSizeType DEF CanMiniBatch
<1>2. PICK p \in Seq(1 .. n) : p = Places(n) /\ Len(p) = n
  BY PlacesType
<1>3. CASE conf.multi_modal
  <2>1. PICK k \in Nat : k = Quot(n, size)
    BY Division
  <2>2. k \in Nat \ {0} /\ Rest(n, k) = 0
    BY <1>1, <1>3, <2>1 DEF CanMiniBatch, EvenChunk, Quot, Rest
  <2>3. PICK z \in Nat : /\ Chunk(p, k) \in [1 .. k -> Seq(1 .. n)] /\ n = k * z
                         /\ \A i \in 1 .. k : Len(Chunk(p, k)[i]) = z
    <3>1. Rest(Len(p), k) = 0
      BY <1>2, <2>2
    <3>2. /\ Chunk(p, k) \in [1 .. k -> Seq(1 .. n)] /\ ChunkSize(Len(p), k) \in Nat
          /\ Len(p) = k * ChunkSize(Len(p), k)
          /\ \A i \in 1 .. k : Len(Chunk(p, k)[i]) = ChunkSize(Len(p), k)
      BY <2>2, <3>1, EvenPieces
    <3> QED BY <1>2, <3>2
  <2>4. z # 0
    <3>1. k * 0 = 0
      BY <2>2
    <3> QED BY <2>3, <3>1
  <2>5. IsWork(Chunk(p, k), n)
    <3>1. \A i \in 1 .. k : Len(Chunk(p, k)[i]) > 0
      BY <2>3, <2>4
    <3> QED BY <2>3, <3>1, FunctionIsWork
  <2> QED BY <1>1, <1>2, <1>3, <2>1, <2>5 DEF MiniBatches, Quot
<1>4. CASE ~conf.multi_modal
  <2>1. Pieces(1 .. n, p, size, SplitBy(p, size))
    BY SplitPieces
  <2>2. PICK c \in Nat : c = Up(Len(p), size)
    BY <1>2, Ceiling
  <2>3. SplitBy(p, size) \in [1 .. c -> Seq(1 .. n)] /\ \A k \in 1 .. c : Len(SplitBy(p, size)[k]) \in 1 .. size
    BY <2>1, <2>2 DEF Pieces
  <2>4. IsWork(SplitBy(p, size), n)
    <3>1. \A i \in 1 .. c : Len(SplitBy(p, size)[i]) > 0
      BY <2>3
    <3> QED BY <2>3, <3>1, FunctionIsWork
  <2> QED BY <1>1, <1>2, <1>4, <2>4 DEF MiniBatches
<1> QED BY <1>3, <1>4

EpochsOf(n) == [e \in 1 .. Epochs |-> MiniBatches(n)]

LEMMA WorkType ==
  ASSUME IsConf(conf), NEW n \in Nat \ {0}, NEW name, name \in Updates => CanMiniBatch(n)
  PROVE  IsWork(Work(name, n), n)
<1>1. CASE name \in Updates
  <2>1. PICK mb \in Seq(Seq(1 .. n)) : mb = MiniBatches(n) /\ \A j \in 1 .. Len(mb) : mb[j] # << >>
    BY <1>1, MiniBatchesType DEF IsWork
  <2>2. PICK k \in Nat \ {0} : k = Epochs
    BY StepAssumption
  <2>3. PICK parts \in [1 .. k -> Seq(Seq(1 .. n))] : parts = EpochsOf(n) /\ \A i \in 1 .. k : parts[i] = mb
    <3>1. PICK parts : parts = EpochsOf(n)
      OBVIOUS
    <3>2. parts = [i \in 1 .. k |-> mb]
      BY <2>1, <2>2, <3>1 DEF EpochsOf
    <3> QED BY <3>1, <3>2
  <2>4. PICK w \in Seq(Seq(1 .. n)) : w = Concat(parts)
    <3>1. PICK f \in [1 .. k -> Seq(Seq(1 .. n))] : Concat(parts) = f[k]
      BY ConcatByStep
    <3> QED BY <3>1
  <2>5. Work(name, n) = w
    BY <1>1, <2>3, <2>4 DEF Work, EpochsOf
  <2>6. \A j \in 1 .. Len(w) : w[j] # << >>
    <3> TAKE j \in 1 .. Len(w)
    <3>1. w[j] \in Range(w)
      BY DEF Range
    <3>2. PICK i \in 1 .. k : w[j] \in Range(parts[i])
      BY <2>4, <3>1, ElementsTogether
    <3>3. w[j] \in Range(mb)
      BY <2>3, <3>2
    <3>4. PICK x \in DOMAIN mb : mb[x] = w[j]
      BY <3>3 DEF Range
    <3>5. x \in 1 .. Len(mb)
      BY <3>4, SMTT(30)
    <3> QED BY <2>1, <3>4, <3>5
  <2> QED BY <2>5, <2>6 DEF IsWork
<1>2. CASE name \notin Updates
  <2>1. PICK p \in Seq(1 .. n) : p = Places(n) /\ Len(p) = n
    BY PlacesType
  <2>2. PICK w : w = <<p>> /\ w \in [1 .. 1 -> Seq(1 .. n)] /\ w[1] = p
    <3>1. PICK w : w = <<p>>
      OBVIOUS
    <3>2. w \in Seq(Seq(1 .. n)) /\ Len(w) = 1 /\ w[1] = p
      BY <3>1
    <3>3. w \in [1 .. Len(w) -> Seq(1 .. n)]
      BY <3>2
    <3> QED BY <3>1, <3>2, <3>3
  <2>3. \A i \in 1 .. 1 : Len(w[i]) > 0
    BY <2>1, <2>2
  <2>4. IsWork(w, n)
    BY <2>2, <2>3, FunctionIsWork
  <2> QED BY <1>2, <2>1, <2>2, <2>4 DEF Work
<1> QED BY <1>1, <1>2

(* A rank needs a micro-batch, and no more of them than rows. *)
LEMMA OwnType ==
  ASSUME NEW n \in Nat \ {0}, NEW lens \in [1 .. n -> Nat \ {0}], NEW m \in Nat \ {0}
  PROVE  /\ OwnMicroBatches(lens, m) \in 1 .. n
         /\ OwnMicroBatches(lens, m) = n \/ SumOf(lens, 1 .. n, n) <= m * OwnMicroBatches(lens, m)
<1>0. lens \in [1 .. n -> Int] /\ n \in Nat /\ DOMAIN lens = 1 .. n /\ Len(lens) = n
  OBVIOUS
<1>1. SumFunction(lens) = SumOf(lens, 1 .. n, n)
  <2>1. 1 .. n \in SUBSET (1 .. n)
    OBVIOUS
  <2>2. SumFunctionOnSet(lens, 1 .. n) = SumOf(lens, 1 .. n, n)
    BY <1>0, <2>1, FunctionSum
  <2> QED BY <1>0, <2>2 DEF SumFunction
<1>2. PICK t \in Int : t = SumOf(lens, 1 .. n, n)
  BY <1>0, SumType
<1>3. n <= t
  <2>1. PICK u \in [1 .. n -> Int] : \A i \in 1 .. n : u[i] = 1
    <3>1. [i \in 1 .. n |-> 1] \in [1 .. n -> Int]
      OBVIOUS
    <3> QED BY <3>1
  <2>2. PICK S \in SUBSET (1 .. n) : S = 1 .. n
    OBVIOUS
  <2>3. Cardinality(S) = n
    BY <2>2, FS_Interval
  <2>4. SumOf(u, S, n) = Cardinality(S) * 1
    <3>1. 1 \in Int /\ \A i \in S : u[i] = 1
      BY <2>1
    <3> QED BY <1>0, <3>1, SumEqual, ZenonT(40)
  <2>5. SumOf(u, S, n) <= SumOf(lens, S, n)
    <3>1. \A i \in 1 .. n : i \in S /\ i \in S => u[i] <= lens[i]
      BY <2>1
    <3>2. \A i \in 1 .. n : i \in S /\ i \notin S => u[i] <= 0
      OBVIOUS
    <3>3. \A i \in 1 .. n : i \notin S /\ i \in S => 0 <= lens[i]
      OBVIOUS
    <3> QED BY <1>0, <3>1, <3>2, <3>3, SumMost
  <2>6. n * 1 = n
    OBVIOUS
  <2> QED BY <1>2, <2>2, <2>3, <2>4, <2>5, <2>6
<1>4. PICK c \in Nat : c = Up(t, m) /\ t <= m * c /\ c > 0
  <2>1. t \in Nat /\ t > 0
    BY <1>2, <1>3
  <2>2. Up(t, m) \in Nat /\ t <= m * Up(t, m) /\ (t > 0 => Up(t, m) > 0)
    BY <2>1, Ceiling
  <2> QED BY <2>1, <2>2
<1>5. OwnMicroBatches(lens, m) = Min({n, c})
  BY <1>0, <1>1, <1>2, <1>4 DEF OwnMicroBatches, Up
<1>6. Min({n, c}) = IF n <= c THEN n ELSE c
  BY MinOfTwo
<1>7. CASE n <= c
  BY <1>5, <1>6, <1>7
<1>8. CASE ~(n <= c)
  <2>1. OwnMicroBatches(lens, m) = c /\ c \in 1 .. n
    BY <1>4, <1>5, <1>6, <1>8
  <2> QED BY <1>2, <1>4, <2>1
<1> QED BY <1>7, <1>8

----------------------------------------------------------------------------
(* The course of a call: C.works, the mini-batches it goes through, of      *)
(* C.rows rows, C.micros, the number of micro-batches of each, C.start, the *)
(* number of collectives after each of them, C.owns[q][j], the number rank  *)
(* q needs for the j-th, C.asks and C.steps, the collectives of a           *)
(* mini-batch besides the forward passes.  C.can: there is one.             *)

IsStart(st, mi, m, a, s) ==
  /\ st \in [0 .. m -> Nat] /\ mi \in [1 .. m -> Nat] /\ a \in 0 .. 1 /\ s \in 0 .. 1
  /\ st[0] = 0 /\ \A j \in 1 .. m : st[j] = st[j - 1] + a + mi[j] + s

LEMMA Rising ==
  ASSUME NEW m \in Nat, NEW st, NEW mi, NEW a, NEW s, IsStart(st, mi, m, a, s),
         NEW i \in 0 .. m, NEW j \in 0 .. m, i <= j
  PROVE  st[i] <= st[j]
<1> DEFINE Bad == {x \in 0 .. m : i <= x /\ ~(st[i] <= st[x])}
<1>0. /\ st \in [0 .. m -> Nat] /\ mi \in [1 .. m -> Nat] /\ a \in 0 .. 1 /\ s \in 0 .. 1
      /\ \A x \in 1 .. m : st[x] = st[x - 1] + a + mi[x] + s
  BY DEF IsStart
<1>1. Bad = {}
  <2>1. SUFFICES ASSUME Bad # {} PROVE FALSE
    OBVIOUS
  <2>2. PICK x \in Bad : \A y \in Bad : x <= y
    <3>1. Bad \subseteq Nat
      OBVIOUS
    <3> HIDE DEF Bad
    <3> QED BY <2>1, <3>1, LeastNatural
  <2>3. x \in 0 .. m /\ i <= x /\ ~(st[i] <= st[x])
    BY <2>2
  <2>4. x # i
    <3>1. st[i] \in Nat
      BY <1>0
    <3> QED BY <2>3, <3>1
  <2>5. PICK y \in 0 .. m : y = x - 1 /\ i <= y /\ ~(x <= y) /\ x \in 1 .. m
    BY <2>3, <2>4
  <2>6. st[i] <= st[y]
    <3>1. y \notin Bad
      <4> HIDE DEF Bad
      <4> QED BY <2>2, <2>5
    <3> QED BY <2>5, <3>1
  <2>7. PICK p \in Nat, q \in Nat, u \in Nat, v \in Nat : p = st[i] /\ q = st[y] /\ u = mi[x] /\ v = st[x] /\ v = q + a + u + s
    <3>1. st[x] = st[y] + a + mi[x] + s
      BY <1>0, <2>5
    <3> QED BY <1>0, <2>5, <3>1
  <2>9. a \in Nat /\ s \in Nat /\ p <= q
    <3>1. a \in Nat /\ s \in Nat
      BY <1>0
    <3> QED BY <2>6, <2>7, <3>1
  <2>8. p <= v
    BY <2>7, <2>9
  <2> QED BY <2>3, <2>7, <2>8
<1> QED BY <1>1

(* The collective a rank joins k-th *)
OpAt(k, st, m, a, s) ==
  IF a = 1 /\ (\E j \in 1 .. m : k = st[j - 1] + 1) THEN "all_reduce"
  ELSE IF s = 1 /\ (\E j \in 1 .. m : k = st[j]) THEN "step" ELSE "forward"

LEMMA AskAt ==
  ASSUME NEW m \in Nat, NEW st, NEW mi, NEW a, NEW s, IsStart(st, mi, m, a, s), NEW d \in 0 .. m - 1, a = 1
  PROVE  OpAt(st[d] + 1, st, m, a, s) = "all_reduce"
<1>1. d + 1 \in 1 .. m /\ (d + 1) - 1 = d
  OBVIOUS
<1>2. \E j \in 1 .. m : st[d] + 1 = st[j - 1] + 1
  BY <1>1
<1> QED BY <1>2 DEF OpAt

(* Where a mini-batch's collectives are among the others' *)
Lies(v, u, w, x, y, a, s) ==
  /\ {v, u, w, x, y} \subseteq Nat /\ a \in 0 .. 1 /\ s \in 0 .. 1 /\ w = v + a + u + s
  /\ (x <= v /\ (y <= v \/ y = w)) \/ (w <= x /\ w <= y)

LEMMA Between ==
  ASSUME NEW m \in Nat, NEW st, NEW mi, NEW a, NEW s, IsStart(st, mi, m, a, s), NEW d \in 0 .. m - 1,
         NEW j \in 1 .. m
  PROVE  Lies(st[d], mi[d + 1], st[d + 1], st[j - 1], st[j], a, s)
<1>0. /\ st \in [0 .. m -> Nat] /\ mi \in [1 .. m -> Nat] /\ a \in 0 .. 1 /\ s \in 0 .. 1
      /\ \A x \in 1 .. m : st[x] = st[x - 1] + a + mi[x] + s
  BY DEF IsStart
<1>1. PICK e \in 1 .. m : e = d + 1 /\ e - 1 = d
  OBVIOUS
<1>2. d \in 0 .. m /\ e \in 0 .. m /\ j - 1 \in 0 .. m /\ j \in 0 .. m
  OBVIOUS
<1>3. PICK v \in Nat, u \in Nat, w \in Nat, x \in Nat, y \in Nat : v = st[d] /\ u = mi[e] /\ w = st[e] /\ x = st[j - 1] /\ y = st[j]
  BY <1>0, <1>2
<1>4. w = v + a + u + s
  BY <1>0, <1>1, <1>3
<1>9. (x <= v /\ (y <= v \/ y = w)) \/ (w <= x /\ w <= y) => Lies(st[d], mi[d + 1], st[d + 1], st[j - 1], st[j], a, s)
  <2>1. SUFFICES ASSUME (x <= v /\ (y <= v \/ y = w)) \/ (w <= x /\ w <= y) PROVE Lies(v, u, w, x, y, a, s)
    BY <1>1, <1>3
  <2> QED BY <1>0, <1>4, <2>1 DEF Lies
<1>5. CASE j <= d
  <2>1. j - 1 <= d
    BY <1>5
  <2>2. st[j - 1] <= st[d] /\ st[j] <= st[d]
    BY <1>2, <1>5, <2>1, Rising
  <2>3. x <= v /\ y <= v
    BY <1>3, <2>2
  <2>4. x <= v /\ (y <= v \/ y = w)
    BY <2>3
  <2> QED BY <1>9, <2>4
<1>6. CASE j = e
  <2>1. y = w /\ x = v
    BY <1>1, <1>3, <1>6
  <2>2. x <= v
    BY <1>3, <2>1
  <2> QED BY <1>9, <2>1, <2>2
<1>7. CASE j > e
  <2>1. e <= j - 1 /\ e <= j
    BY <1>7
  <2>2. st[e] <= st[j - 1] /\ st[e] <= st[j]
    BY <1>2, <2>1, Rising
  <2>3. w <= x /\ w <= y
    BY <1>3, <2>2
  <2> QED BY <1>9, <2>3
<1>8. j <= d \/ j = e \/ j > e
  BY <1>1
<1> QED BY <1>5, <1>6, <1>7, <1>8

LEMMA ForwardAt ==
  ASSUME NEW m \in Nat, NEW st, NEW mi, NEW a, NEW s, IsStart(st, mi, m, a, s), NEW d \in 0 .. m - 1,
         NEW n \in 0 .. mi[d + 1] - 1
  PROVE  OpAt(st[d] + a + n + 1, st, m, a, s) = "forward"
<1>1. ASSUME NEW j \in 1 .. m PROVE ~(a = 1 /\ st[d] + a + n + 1 = st[j - 1] + 1) /\ ~(s = 1 /\ st[d] + a + n + 1 = st[j])
  <2>1. PICK v \in Nat, u \in Nat, w \in Nat, x \in Nat, y \in Nat :
           /\ v = st[d] /\ u = mi[d + 1] /\ w = st[d + 1] /\ w = v + a + u + s /\ x = st[j - 1] /\ y = st[j]
           /\ a \in 0 .. 1 /\ s \in 0 .. 1
           /\ (x <= v /\ (y <= v \/ y = w)) \/ (w <= x /\ w <= y)
    <3>1. PICK v, u, w, x, y : v = st[d] /\ u = mi[d + 1] /\ w = st[d + 1] /\ x = st[j - 1] /\ y = st[j]
      OBVIOUS
    <3>2. Lies(v, u, w, x, y, a, s)
      BY <3>1, Between
    <3> QED BY <3>1, <3>2 DEF Lies
  <2>2. n \in 0 .. u - 1
    BY <2>1
  <2>3. ~(a = 1 /\ v + a + n + 1 = x + 1) /\ ~(s = 1 /\ v + a + n + 1 = y)
    BY <2>1, <2>2
  <2> QED BY <2>1, <2>3
<1> QED BY <1>1 DEF OpAt

LEMMA StepAt ==
  ASSUME NEW m \in Nat, NEW st, NEW mi, NEW a, NEW s, IsStart(st, mi, m, a, s), NEW d \in 0 .. m - 1, s = 1
  PROVE  OpAt(st[d + 1], st, m, a, s) = "step"
<1>1. ASSUME NEW j \in 1 .. m PROVE ~(a = 1 /\ st[d + 1] = st[j - 1] + 1)
  <2>1. PICK v \in Nat, u \in Nat, w \in Nat, x \in Nat, y \in Nat :
           /\ v = st[d] /\ u = mi[d + 1] /\ w = st[d + 1] /\ w = v + a + u + s /\ x = st[j - 1] /\ y = st[j]
           /\ a \in 0 .. 1 /\ s \in 0 .. 1
           /\ (x <= v /\ (y <= v \/ y = w)) \/ (w <= x /\ w <= y)
    <3>1. PICK v, u, w, x, y : v = st[d] /\ u = mi[d + 1] /\ w = st[d + 1] /\ x = st[j - 1] /\ y = st[j]
      OBVIOUS
    <3>2. Lies(v, u, w, x, y, a, s)
      BY <3>1, Between
    <3> QED BY <3>1, <3>2 DEF Lies
  <2>3. ~(a = 1 /\ w = x + 1)
    BY <2>1
  <2> QED BY <2>1, <2>3
<1>2. \E j \in 1 .. m : st[d + 1] = st[j]
  <2>1. d + 1 \in 1 .. m
    OBVIOUS
  <2> QED BY <2>1
<1> QED BY <1>1, <1>2 DEF OpAt

Entries == [op : {"all_reduce"}, own : Nat] \cup [op : {"forward", "step"}]

IsCourse(C) ==
  /\ C.rows \in Nat \ {0} /\ IsWork(C.works, C.rows)
  /\ IsStart(C.start, C.micros, Len(C.works), C.asks, C.steps)

(* What rank r has joined is what it joins in every run of the course. *)
LogIs(C, r, lg) ==
  /\ lg \in Seq(Entries) /\ Len(lg) <= C.start[Len(C.works)]
  /\ \A k \in 1 .. Len(lg) : lg[k].op = OpAt(k, C.start, Len(C.works), C.asks, C.steps)
  /\ \A j \in 1 .. Len(C.works) :
       C.asks = 1 /\ C.start[j - 1] + 1 <= Len(lg) => lg[C.start[j - 1] + 1].own = C.owns[r][j]

(* What is left to do is the end of the work. *)
Done(C, td) == Len(C.works) - Len(td)

TodoIs(C, td) ==
  /\ td \in Seq(Seq(1 .. C.rows)) /\ Len(td) <= Len(C.works)
  /\ \A i \in 1 .. Len(td) : td[i] = C.works[Done(C, td) + i]

(* A rank has joined as many collectives as the stage it is at says. *)
RankIs(C, r, sg, td, pl, rn, lg) ==
  /\ sg \in {"called", "next", "asking", "running", "returned"}
  /\ sg = "called" => lg = << >>
  /\ sg # "called" => C.can /\ TodoIs(C, td) /\ LogIs(C, r, lg)
  /\ sg \in {"next", "returned"} => Len(lg) = C.start[Done(C, td)]
  /\ sg = "asking" => td # << >> /\ C.asks = 1 /\ Len(lg) = C.start[Done(C, td)] + 1
  /\ sg = "running" => /\ td # << >> /\ Len(pl) = C.micros[Done(C, td) + 1] /\ rn \in 0 .. Len(pl)
                       /\ Len(lg) = C.start[Done(C, td)] + C.asks + rn
  /\ sg = "returned" => td = << >>

LEMMA WorksLen ==
  ASSUME NEW C, IsCourse(C)
  PROVE  Len(C.works) \in Nat /\ C.works \in Seq(Seq(1 .. C.rows)) /\ C.rows \in Nat \ {0}
BY DEF IsCourse, IsWork

LEMMA DoneType ==
  ASSUME NEW C, IsCourse(C), NEW td, TodoIs(C, td)
  PROVE  /\ Done(C, td) \in 0 .. Len(C.works)
         /\ td = << >> <=> Done(C, td) = Len(C.works)
         /\ td # << >> => Done(C, td) \in 0 .. Len(C.works) - 1 /\ Head(td) = C.works[Done(C, td) + 1]
<1>0. PICK U : U = Seq(1 .. C.rows)
  OBVIOUS
<1>1. PICK m \in Nat : m = Len(C.works) /\ U = Seq(1 .. C.rows)
  BY <1>0, WorksLen
<1>2. PICK t \in Seq(U) : t = td /\ Len(t) <= m
  BY <1>1 DEF TodoIs
<1>3. PICK l \in Nat : l = Len(t) /\ l <= m
  BY <1>2
<1>4. Done(C, td) = m - l
  BY <1>1, <1>2, <1>3 DEF Done
<1>5. t = << >> <=> l = 0
  BY <1>3
<1>6. ASSUME t # << >> PROVE m - l \in 0 .. m - 1 /\ Head(td) = C.works[Done(C, td) + 1]
  <2>1. l > 0
    BY <1>3, <1>5, <1>6
  <2>2. Head(t) = t[1] /\ 1 \in 1 .. Len(t)
    BY <1>3, <2>1
  <2>3. t[1] = C.works[Done(C, td) + 1]
    BY <1>2, <2>2 DEF TodoIs
  <2> QED BY <1>2, <1>3, <2>1, <2>2, <2>3
<1> QED BY <1>1, <1>2, <1>3, <1>4, <1>5, <1>6

LEMMA TailIs ==
  ASSUME NEW C, IsCourse(C), NEW td, TodoIs(C, td), td # << >>
  PROVE  TodoIs(C, Tail(td)) /\ Done(C, Tail(td)) = Done(C, td) + 1
<1>0. PICK U : U = Seq(1 .. C.rows)
  OBVIOUS
<1>1. PICK m \in Nat : m = Len(C.works) /\ U = Seq(1 .. C.rows)
  BY <1>0, WorksLen
<1>2. PICK t \in Seq(U) : t = td /\ Len(t) <= m /\ t # << >>
  BY <1>1 DEF TodoIs
<1>3. PICK l \in Nat : l = Len(t) /\ l <= m /\ l > 0
  BY <1>2
<1>4. PICK x \in Seq(U) : x = Tail(t) /\ Len(x) = l - 1 /\ \A i \in 1 .. l - 1 : x[i] = t[i + 1]
  <2>1. PICK x : x = Tail(t)
    OBVIOUS
  <2>2. x \in Seq(U) /\ Len(x) = Len(t) - 1
    BY <1>2, <2>1
  <2>3. \A i \in 1 .. Len(t) - 1 : Tail(t)[i] = t[i + 1]
    BY <1>2
  <2> QED BY <1>3, <2>1, <2>2, <2>3
<1>5. Done(C, td) = m - l /\ Done(C, x) = m - (l - 1)
  BY <1>1, <1>2, <1>3, <1>4 DEF Done
<1>6. ASSUME NEW i \in 1 .. l - 1 PROVE x[i] = C.works[Done(C, x) + i]
  <2>1. i + 1 \in 1 .. l
    OBVIOUS
  <2>2. t[i + 1] = C.works[Done(C, td) + (i + 1)]
    BY <1>2, <1>3, <2>1 DEF TodoIs
  <2>3. Done(C, td) + (i + 1) = Done(C, x) + i
    BY <1>5
  <2> QED BY <1>4, <2>2, <2>3
<1>7. TodoIs(C, x)
  <2>1. Len(x) <= Len(C.works)
    BY <1>1, <1>3, <1>4
  <2>2. \A i \in 1 .. Len(x) : x[i] = C.works[Done(C, x) + i]
    BY <1>4, <1>6
  <2> QED BY <1>1, <1>4, <2>1, <2>2 DEF TodoIs
<1>8. m - (l - 1) = (m - l) + 1
  BY <1>3
<1> QED BY <1>2, <1>4, <1>5, <1>7, <1>8

LEMMA LogAppend ==
  ASSUME NEW C, IsCourse(C), NEW r, NEW lg, LogIs(C, r, lg), NEW e \in Entries,
         NEW k \in Nat, k = Len(lg) + 1, k <= C.start[Len(C.works)],
         e.op = OpAt(k, C.start, Len(C.works), C.asks, C.steps),
         \A j \in 1 .. Len(C.works) : C.asks = 1 /\ C.start[j - 1] + 1 = k => e.own = C.owns[r][j]
  PROVE  LogIs(C, r, Append(lg, e)) /\ Len(Append(lg, e)) = k
<1>1. PICK m \in Nat : m = Len(C.works)
  BY WorksLen
<1>2. PICK s \in Seq(Entries) : s = lg /\ Len(s) = k - 1
  BY DEF LogIs
<1>3. PICK a \in Seq(Entries) : a = Append(lg, e) /\ Len(a) = k /\ a[k] = e /\ \A i \in 1 .. k - 1 : a[i] = s[i]
  <2>1. PICK a : a = Append(s, e)
    OBVIOUS
  <2>2. a \in Seq(Entries) /\ Len(a) = Len(s) + 1
    BY <2>1
  <2>3. Append(s, e)[Len(s) + 1] = e
    OBVIOUS
  <2>4. \A i \in 1 .. Len(s) : Append(s, e)[i] = s[i]
    OBVIOUS
  <2>5. Len(s) + 1 = k
    BY <1>2
  <2> QED BY <1>2, <2>1, <2>2, <2>3, <2>4, <2>5
<1>4. ASSUME NEW i \in 1 .. k PROVE a[i].op = OpAt(i, C.start, Len(C.works), C.asks, C.steps)
  <2>1. CASE i = k
    BY <1>3, <2>1
  <2>2. CASE i # k
    <3>1. i \in 1 .. k - 1 /\ i \in 1 .. Len(lg)
      BY <1>2, <2>2
    <3>2. s[i].op = OpAt(i, C.start, Len(C.works), C.asks, C.steps)
      BY <1>2, <3>1 DEF LogIs
    <3> QED BY <1>3, <3>1, <3>2
  <2> QED BY <2>1, <2>2
<1>5. \A j \in 1 .. m : j - 1 \in 0 .. m /\ C.start[j - 1] \in Nat
  <2> TAKE j \in 1 .. m
  <2>1. j - 1 \in 0 .. m
    OBVIOUS
  <2>2. C.start \in [0 .. m -> Nat]
    BY <1>1 DEF IsCourse, IsStart
  <2> QED BY <2>1, <2>2
<1>6. ASSUME NEW j \in 1 .. m, C.asks = 1, C.start[j - 1] + 1 <= k PROVE a[C.start[j - 1] + 1].own = C.owns[r][j]
  <2>1. PICK p \in Nat : p = C.start[j - 1] + 1 /\ p \in 1 .. k
    BY <1>5, <1>6
  <2>2. CASE p = k
    BY <1>1, <1>3, <1>6, <2>1, <2>2
  <2>3. CASE p # k
    <3>1. p \in 1 .. k - 1 /\ p <= Len(lg)
      BY <1>2, <2>1, <2>3
    <3>2. s[p].own = C.owns[r][j]
      BY <1>1, <1>2, <1>6, <2>1, <3>1 DEF LogIs
    <3> QED BY <1>3, <2>1, <3>1, <3>2
  <2> QED BY <2>2, <2>3
<1>7. LogIs(C, r, a)
  BY <1>1, <1>3, <1>4, <1>6 DEF LogIs
<1> QED BY <1>3, <1>7

(* The collectives of the next mini-batch *)
LEMMA CourseAt ==
  ASSUME NEW C, IsCourse(C), NEW td, TodoIs(C, td), td # << >>
  PROVE  /\ Done(C, td) \in 0 .. Len(C.works) - 1 /\ Done(C, td) + 1 \in 1 .. Len(C.works)
         /\ C.start[Done(C, td)] \in Nat /\ C.micros[Done(C, td) + 1] \in Nat /\ C.asks \in 0 .. 1 /\ C.steps \in 0 .. 1
         /\ C.start[Done(C, td) + 1] = C.start[Done(C, td)] + C.asks + C.micros[Done(C, td) + 1] + C.steps
         /\ C.start[Done(C, td) + 1] \in Nat /\ C.start[Len(C.works)] \in Nat
         /\ C.start[Done(C, td) + 1] <= C.start[Len(C.works)]
<1>1. PICK m \in Nat : m = Len(C.works)
  BY WorksLen
<1>2. PICK d \in 0 .. m - 1 : d = Done(C, td)
  BY <1>1, DoneType
<1>3. PICK st, mi, a, s : st = C.start /\ mi = C.micros /\ a = C.asks /\ s = C.steps
  OBVIOUS
<1>4. IsStart(st, mi, m, a, s)
  BY <1>1, <1>3 DEF IsCourse
<1>5. d \in 0 .. m /\ d + 1 \in 1 .. m /\ d + 1 \in 0 .. m /\ m \in 0 .. m /\ (d + 1) - 1 = d /\ d + 1 <= m
  OBVIOUS
<1>6. st \in [0 .. m -> Nat] /\ mi \in [1 .. m -> Nat] /\ a \in 0 .. 1 /\ s \in 0 .. 1
  BY <1>4 DEF IsStart
<1>7. st[d + 1] = st[d] + a + mi[d + 1] + s
  BY <1>4, <1>5 DEF IsStart
<1>8. st[d + 1] <= st[m]
  BY <1>4, <1>5, Rising
<1>9. st[d] \in Nat /\ st[d + 1] \in Nat /\ mi[d + 1] \in Nat /\ st[m] \in Nat
  BY <1>5, <1>6
<1> QED BY <1>1, <1>2, <1>3, <1>5, <1>6, <1>7, <1>8, <1>9

LEMMA StartType ==
  ASSUME NEW C, IsCourse(C)
  PROVE  /\ \A j \in 0 .. Len(C.works) : C.start[j] \in Nat
         /\ C.start[0] = 0 /\ C.asks \in 0 .. 1 /\ C.steps \in 0 .. 1
         /\ \A j \in 1 .. Len(C.works) : C.micros[j] \in Nat
<1>1. IsStart(C.start, C.micros, Len(C.works), C.asks, C.steps)
  BY DEF IsCourse
<1> QED BY <1>1, WorksLen DEF IsStart

(* Where every mini-batch begins with a collective no two begin at once. *)
LEMMA OneAt ==
  ASSUME NEW m \in Nat, NEW st, NEW mi, NEW a, NEW s, IsStart(st, mi, m, a, s), a = 1,
         NEW i \in 0 .. m, NEW j \in 0 .. m, st[i] = st[j]
  PROVE  i = j
<1>1. ASSUME NEW x \in 0 .. m, NEW y \in 0 .. m, x < y PROVE st[x] # st[y]
  <2>1. x + 1 \in 1 .. m /\ x + 1 \in 0 .. m /\ x + 1 <= y /\ (x + 1) - 1 = x
    BY <1>1
  <2>2. st[x + 1] <= st[y]
    BY <2>1, Rising
  <2>3. st[x + 1] = st[x] + a + mi[x + 1] + s
    BY <2>1 DEF IsStart
  <2>4. PICK p \in Nat, q \in Nat, u \in Nat, v \in Nat : p = st[x] /\ q = st[x + 1] /\ u = mi[x + 1] /\ v = st[y]
    BY <2>1 DEF IsStart
  <2>5. s \in Nat
    BY DEF IsStart
  <2>6. q = p + 1 + u + s /\ q <= v
    BY <2>2, <2>3, <2>4
  <2> QED BY <2>4, <2>5, <2>6
<1> QED BY <1>1

(* Any other collective than the first of a mini-batch *)
LEMMA LogOther ==
  ASSUME NEW C, IsCourse(C), NEW r, NEW lg, LogIs(C, r, lg), NEW e \in Entries, e.op # "all_reduce",
         NEW k \in Nat, k = Len(lg) + 1, k <= C.start[Len(C.works)],
         e.op = OpAt(k, C.start, Len(C.works), C.asks, C.steps)
  PROVE  LogIs(C, r, Append(lg, e)) /\ Len(Append(lg, e)) = k
<1>1. ASSUME NEW j \in 1 .. Len(C.works), C.asks = 1, C.start[j - 1] + 1 = k PROVE FALSE
  <2>1. OpAt(k, C.start, Len(C.works), C.asks, C.steps) = "all_reduce"
    BY <1>1 DEF OpAt
  <2> QED BY <2>1
<1>2. \A j \in 1 .. Len(C.works) : C.asks = 1 /\ C.start[j - 1] + 1 = k => e.own = C.owns[r][j]
  BY <1>1
<1> QED BY <1>2, LogAppend

LEMMA BeginIs ==
  ASSUME NEW C, IsCourse(C), C.can, NEW r, NEW pl, NEW rn
  PROVE  RankIs(C, r, "next", C.works, pl, rn, << >>)
<1>0. PICK w \in Seq(Seq(1 .. C.rows)) : w = C.works
  BY WorksLen
<1>1. Done(C, w) = 0
  BY <1>0 DEF Done
<1>2. TodoIs(C, w)
  <2>1. \A i \in 1 .. Len(w) : w[i] = C.works[Done(C, w) + i]
    BY <1>0, <1>1
  <2> QED BY <1>0, <2>1 DEF TodoIs
<1>3. LogIs(C, r, << >>)
  <2>1. << >> \in Seq(Entries) /\ Len(<< >>) = 0 /\ 1 .. 0 = {}
    OBVIOUS
  <2>2. C.start[Len(C.works)] \in Nat /\ \A j \in 1 .. Len(C.works) : C.start[j - 1] \in Nat
    <3>1. \A j \in 1 .. Len(C.works) : j - 1 \in 0 .. Len(C.works)
      BY <1>0
    <3>2. Len(C.works) \in 0 .. Len(C.works)
      BY <1>0
    <3> QED BY <3>1, <3>2, StartType
  <2>3. \A j \in 1 .. Len(C.works) : ~(C.start[j - 1] + 1 <= 0)
    BY <2>2
  <2> QED BY <2>1, <2>2, <2>3 DEF LogIs
<1>4. C.start[0] = 0
  BY StartType
<1> QED BY <1>0, <1>1, <1>2, <1>3, <1>4 DEF RankIs

LEMMA AskIs ==
  ASSUME NEW C, IsCourse(C), NEW r, NEW td, NEW pl, NEW rn, NEW lg, RankIs(C, r, "next", td, pl, rn, lg), td # << >>,
         C.asks = 1, NEW e \in Entries, e.op = "all_reduce", e.own = C.owns[r][Done(C, td) + 1]
  PROVE  RankIs(C, r, "asking", td, pl, rn, Append(lg, e))
<1>1. C.can /\ TodoIs(C, td) /\ LogIs(C, r, lg) /\ Len(lg) = C.start[Done(C, td)]
  BY DEF RankIs
<1>2. PICK m \in Nat : m = Len(C.works)
  BY WorksLen
<1>3. PICK d \in 0 .. m - 1, v \in Nat : d = Done(C, td) /\ v = C.start[d]
  BY <1>1, <1>2, CourseAt
<1>4. v + 1 <= C.start[Len(C.works)]
  <2>1. C.start[d + 1] = v + 1 + C.micros[d + 1] + C.steps /\ C.micros[d + 1] \in Nat /\ C.steps \in 0 .. 1
    BY <1>1, <1>3, CourseAt
  <2>2. PICK x \in Nat, y \in Nat : x = C.start[d + 1] /\ y = C.start[Len(C.works)] /\ x <= y
    BY <1>1, <1>3, CourseAt
  <2>3. PICK u \in Nat, s \in Nat : u = C.micros[d + 1] /\ s = C.steps
    BY <2>1
  <2>4. x = v + 1 + u + s
    BY <2>1, <2>2, <2>3
  <2>5. v + 1 <= y
    <3>1. x <= y
      BY <2>2
    <3> QED BY <2>4, <3>1
  <2> QED BY <2>2, <2>5
<1>5. OpAt(v + 1, C.start, Len(C.works), C.asks, C.steps) = "all_reduce"
  BY <1>2, <1>3, AskAt DEF IsCourse
<1>6. ASSUME NEW j \in 1 .. Len(C.works), C.start[j - 1] + 1 = v + 1 PROVE e.own = C.owns[r][j]
  <2>1. j - 1 \in 0 .. m /\ d \in 0 .. m
    BY <1>2
  <2>2. C.start[j - 1] = C.start[d]
    <3>1. C.start[j - 1] \in Nat
      BY <1>2, <2>1, StartType
    <3>2. PICK x \in Nat : x = C.start[j - 1]
      BY <3>1
    <3>3. x + 1 = v + 1
      BY <1>6, <3>2
    <3>4. x = v
      BY <3>3
    <3> QED BY <1>3, <3>2, <3>4
  <2>3. IsStart(C.start, C.micros, m, C.asks, C.steps)
    BY <1>2 DEF IsCourse
  <2>4. j - 1 = d
    BY <2>1, <2>2, <2>3, OneAt
  <2>5. j = d + 1
    BY <2>4, <1>2
  <2> QED BY <1>3, <2>5
<1>7. LogIs(C, r, Append(lg, e)) /\ Len(Append(lg, e)) = v + 1
  <2>1. PICK k \in Nat : k = v + 1
    OBVIOUS
  <2>2. k = Len(lg) + 1 /\ k <= C.start[Len(C.works)]
    BY <1>1, <1>3, <1>4, <2>1
  <2>3. e.op = OpAt(k, C.start, Len(C.works), C.asks, C.steps)
    BY <1>5, <2>1
  <2>4. \A j \in 1 .. Len(C.works) : C.asks = 1 /\ C.start[j - 1] + 1 = k => e.own = C.owns[r][j]
    BY <1>6, <2>1
  <2> QED BY <1>1, <2>1, <2>2, <2>3, <2>4, LogAppend
<1> QED BY <1>1, <1>3, <1>7 DEF RankIs

LEMMA RunIs ==
  ASSUME NEW C, IsCourse(C), NEW r, NEW sg, NEW td, NEW pl, NEW rn, NEW lg, RankIs(C, r, sg, td, pl, rn, lg), td # << >>,
         sg = "asking" \/ (sg = "next" /\ C.asks = 0), NEW np, Len(np) = C.micros[Done(C, td) + 1]
  PROVE  RankIs(C, r, "running", td, np, 0, lg)
<1>1. C.can /\ TodoIs(C, td) /\ LogIs(C, r, lg)
  BY DEF RankIs
<1>2. PICK v \in Nat, u \in Nat : v = C.start[Done(C, td)] /\ u = Len(np)
  BY <1>1, CourseAt
<1>3. Len(lg) = v + C.asks + 0
  <2>1. CASE sg = "asking"
    <3>1. C.asks = 1 /\ Len(lg) = v + 1
      BY <1>2, <2>1 DEF RankIs
    <3> QED BY <3>1
  <2>2. CASE sg = "next" /\ C.asks = 0
    <3>1. Len(lg) = v
      BY <1>2, <2>2 DEF RankIs
    <3> QED BY <2>2, <3>1
  <2> QED BY <2>1, <2>2
<1>4. 0 \in 0 .. Len(np)
  BY <1>2
<1> QED BY <1>1, <1>2, <1>3, <1>4 DEF RankIs

LEMMA ForwardIs ==
  ASSUME NEW C, IsCourse(C), NEW r, NEW td, NEW pl, NEW rn, NEW lg, RankIs(C, r, "running", td, pl, rn, lg), rn < Len(pl),
         NEW e \in Entries, e.op = "forward"
  PROVE  RankIs(C, r, "running", td, pl, rn + 1, Append(lg, e))
<1>1. /\ C.can /\ TodoIs(C, td) /\ LogIs(C, r, lg) /\ td # << >> /\ Len(pl) = C.micros[Done(C, td) + 1]
      /\ rn \in 0 .. Len(pl) /\ Len(lg) = C.start[Done(C, td)] + C.asks + rn
  BY DEF RankIs
<1>2. PICK m \in Nat : m = Len(C.works)
  BY WorksLen
<1>3. PICK d \in 0 .. m - 1 : d = Done(C, td)
  BY <1>1, <1>2, CourseAt
<1>4. PICK v \in Nat, u \in Nat, w \in Nat, y \in Nat, a \in Nat, s \in Nat :
        /\ v = C.start[d] /\ u = C.micros[d + 1] /\ w = C.start[d + 1] /\ y = C.start[Len(C.works)]
        /\ a = C.asks /\ s = C.steps /\ w = v + a + u + s /\ w <= y
  <2>1. C.asks \in Nat /\ C.steps \in Nat
    <3>1. C.asks \in 0 .. 1 /\ C.steps \in 0 .. 1
      BY StartType
    <3> QED BY <3>1
  <2>2. /\ C.start[d] \in Nat /\ C.micros[d + 1] \in Nat /\ C.start[d + 1] \in Nat /\ C.start[Len(C.works)] \in Nat
        /\ C.start[d + 1] = C.start[d] + C.asks + C.micros[d + 1] + C.steps
        /\ C.start[d + 1] <= C.start[Len(C.works)]
    BY <1>1, <1>3, CourseAt
  <2> QED BY <2>1, <2>2
<1>5. PICK n \in Nat : n = rn /\ n \in 0 .. u - 1
  BY <1>1, <1>3, <1>4
<1>6. PICK k \in Nat : k = v + a + n + 1
  OBVIOUS
<1>7. k = Len(lg) + 1
  BY <1>1, <1>3, <1>4, <1>5, <1>6
<1>8. k <= y
  <2>1. w = v + a + u + s /\ w <= y
    BY <1>4
  <2>2. n + 1 <= u
    BY <1>5
  <2> QED BY <1>6, <2>1, <2>2
<1>9. e.op = OpAt(k, C.start, Len(C.works), C.asks, C.steps)
  <2>1. IsStart(C.start, C.micros, m, C.asks, C.steps)
    BY <1>2 DEF IsCourse
  <2>2. n \in 0 .. C.micros[d + 1] - 1
    BY <1>4, <1>5
  <2>3. OpAt(C.start[d] + C.asks + n + 1, C.start, m, C.asks, C.steps) = "forward"
    BY <2>1, <2>2, ForwardAt
  <2> QED BY <1>2, <1>4, <1>6, <2>3
<1>10. LogIs(C, r, Append(lg, e)) /\ Len(Append(lg, e)) = k
  <2>1. e.op # "all_reduce" /\ k <= C.start[Len(C.works)]
    BY <1>4, <1>8
  <2> QED BY <1>1, <1>7, <1>9, <2>1, LogOther
<1>11. k = v + a + (n + 1) /\ n + 1 \in 0 .. Len(pl)
  <2>1. Len(pl) = u
    BY <1>1, <1>3, <1>4
  <2>2. n + 1 \in 0 .. u
    BY <1>5
  <2>3. k = v + a + (n + 1)
    BY <1>6
  <2> QED BY <2>1, <2>2, <2>3
<1> QED BY <1>1, <1>3, <1>4, <1>5, <1>10, <1>11 DEF RankIs

LEMMA StepIs ==
  ASSUME NEW C, IsCourse(C), NEW r, NEW td, NEW pl, NEW rn, NEW lg, RankIs(C, r, "running", td, pl, rn, lg), rn = Len(pl),
         NEW e \in Entries, e.op = "step", NEW after, after = IF C.steps = 1 THEN Append(lg, e) ELSE lg
  PROVE  RankIs(C, r, "next", Tail(td), pl, rn, after)
<1>1. /\ C.can /\ TodoIs(C, td) /\ LogIs(C, r, lg) /\ td # << >> /\ Len(pl) = C.micros[Done(C, td) + 1]
      /\ Len(lg) = C.start[Done(C, td)] + C.asks + rn
  BY DEF RankIs
<1>2. PICK m \in Nat : m = Len(C.works)
  BY WorksLen
<1>3. PICK d \in 0 .. m - 1 : d = Done(C, td)
  BY <1>1, <1>2, CourseAt
<1>4. PICK v \in Nat, u \in Nat, w \in Nat, y \in Nat, a \in Nat, s \in 0 .. 1 :
        /\ v = C.start[d] /\ u = C.micros[d + 1] /\ w = C.start[d + 1] /\ y = C.start[Len(C.works)]
        /\ a = C.asks /\ s = C.steps /\ w = v + a + u + s /\ w <= y
  <2>1. C.asks \in Nat /\ C.steps \in 0 .. 1
    <3>1. C.asks \in 0 .. 1 /\ C.steps \in 0 .. 1
      BY StartType
    <3> QED BY <3>1
  <2>2. /\ C.start[d] \in Nat /\ C.micros[d + 1] \in Nat /\ C.start[d + 1] \in Nat /\ C.start[Len(C.works)] \in Nat
        /\ C.start[d + 1] = C.start[d] + C.asks + C.micros[d + 1] + C.steps
        /\ C.start[d + 1] <= C.start[Len(C.works)]
    BY <1>1, <1>3, CourseAt
  <2> QED BY <2>1, <2>2
<1>5. TodoIs(C, Tail(td)) /\ Done(C, Tail(td)) = d + 1
  BY <1>1, <1>3, TailIs
<1>6. Len(lg) = v + a + u
  BY <1>1, <1>3, <1>4
<1>7. LogIs(C, r, after) /\ Len(after) = w
  <2>1. CASE s = 1
    <3>1. w = Len(lg) + 1 /\ w <= C.start[Len(C.works)]
      BY <1>4, <1>6, <2>1
    <3>2. OpAt(C.start[d + 1], C.start, m, C.asks, C.steps) = "step"
      <4>1. IsStart(C.start, C.micros, m, C.asks, C.steps) /\ C.steps = 1
        BY <1>2, <1>4, <2>1 DEF IsCourse
      <4> QED BY <4>1, StepAt
    <3>3. e.op = OpAt(w, C.start, Len(C.works), C.asks, C.steps) /\ e.op # "all_reduce"
      BY <1>2, <1>4, <3>2
    <3>4. LogIs(C, r, Append(lg, e)) /\ Len(Append(lg, e)) = w
      BY <1>1, <3>1, <3>3, LogOther
    <3> QED BY <1>4, <2>1, <3>4
  <2>2. CASE s # 1
    <3>1. after = lg
      BY <1>4, <2>2
    <3>2. w = v + a + u
      <4>1. s = 0
        BY <2>2
      <4>2. w = v + a + u + s
        BY <1>4
      <4> QED BY <4>1, <4>2
    <3> QED BY <1>1, <1>6, <3>1, <3>2
  <2> QED BY <2>1, <2>2
<1> QED BY <1>1, <1>4, <1>5, <1>7 DEF RankIs

LEMMA FinishIs ==
  ASSUME NEW C, IsCourse(C), NEW r, NEW td, NEW pl, NEW rn, NEW lg, RankIs(C, r, "next", td, pl, rn, lg), td = << >>
  PROVE  RankIs(C, r, "returned", td, pl, rn, lg)
BY DEF RankIs

----------------------------------------------------------------------------
(* The course of the call under way *)

Dynamic == conf.dynamic /\ ~conf.multi_modal

Works == Work(Calls[call], Len(held[0]))

OwnNeed(q, places) == OwnMicroBatches(TokensAt(q, places), MaxTokenLen * conf.sp)

Needs(places) == roundup_divisible(Max({OwnNeed(q, places) : q \in Rank}), conf.vpp)

(* Micro-batches of a fixed size; none where cutting raises. *)
Fixed(n) == IF MicroSize = 0 THEN 0 ELSE IF conf.multi_modal THEN n \div MicroSize ELSE ceildiv(n, MicroSize)

Micros(places) == IF Dynamic THEN Needs(places) ELSE Fixed(Len(places))

Asks == IF Dynamic THEN 1 ELSE 0
Steps == IF Calls[call] \in Updates THEN 1 ELSE 0

Costs == [j \in Nat |-> IF j \in 1 .. Len(Works) THEN Asks + Micros(Works[j]) + Steps ELSE 0]

Course ==
  [rows |-> Len(held[0]), works |-> Works,
   micros |-> [j \in 1 .. Len(Works) |-> Micros(Works[j])],
   start |-> [j \in 0 .. Len(Works) |-> Total(Costs, j)],
   owns |-> [q \in Rank |-> [j \in 1 .. Len(Works) |-> OwnNeed(q, Works[j])]],
   asks |-> Asks, steps |-> Steps,
   can |-> Calls[call] \in Updates => CanMiniBatch(Len(held[0]))]

LEMMA CourseStays ==
  ASSUME conf' = conf, call' = call, held' = held
  PROVE  Course' = Course
BY SMT DEF Course, Works, Work, MiniBatches, MiniSize, OwnNeed, TokensAt, Needs, Fixed, Micros, MicroSize, Asks, Steps,
           Costs, CanMiniBatch, Dynamic

(* The ranks have rows, each as many as any other. *)
HeldAlike ==
  /\ \A r \in Rank : held[r] \in Seq(Rows) /\ Len(held[r]) = Len(held[0])
  /\ Len(held[0]) > 0

LEMMA SomeRank ==
  0 \in Rank /\ \A r \in Rank : r \in Nat
BY StepAssumption DEF Rank

LEMMA TokensAtType ==
  ASSUME HeldAlike, NEW q \in Rank, NEW n \in Nat, n = Len(held[0]), NEW p \in Seq(1 .. n)
  PROVE  TokensAt(q, p) \in [1 .. Len(p) -> 1 .. ResponseLength] /\ TokensAt(q, p) \in [1 .. Len(p) -> Nat \ {0}]
<1>1. PICK h \in Seq(Rows) : h = held[q] /\ Len(h) = n
  BY DEF HeldAlike
<1>2. \A i \in 1 .. n : h[i].tokens \in 1 .. ResponseLength
  <2>1. \A x \in Rows : x.tokens \in 1 .. ResponseLength
    BY DEF Rows, Positions
  <2> QED BY <1>1, <2>1
<1>3. \A i \in 1 .. Len(p) : p[i] \in 1 .. n
  OBVIOUS
<1>4. \A i \in 1 .. Len(p) : h[p[i]].tokens \in 1 .. ResponseLength
  BY <1>2, <1>3
<1>5. TokensAt(q, p) = [i \in 1 .. Len(p) |-> h[p[i]].tokens]
  BY <1>1 DEF TokensAt
<1>6. TokensAt(q, p) \in [1 .. Len(p) -> 1 .. ResponseLength]
  BY <1>4, <1>5
<1>7. \A x \in 1 .. ResponseLength : x \in Nat \ {0}
  OBVIOUS
<1> QED BY <1>6, <1>7

LEMMA MaxTokensType ==
  ASSUME IsConf(conf)
  PROVE  MaxTokenLen * conf.sp \in Nat \ {0}
<1>1. PICK x \in Nat \ {0}, y \in Nat \ {0} : x = MaxTokenLen /\ y = conf.sp
  BY ConfNumbers, StepAssumption
<1>2. x * y \in Nat \ {0}
  OBVIOUS
<1> QED BY <1>1, <1>2

LEMMA NeedsType ==
  ASSUME IsConf(conf), HeldAlike, NEW n \in Nat, n = Len(held[0]), NEW p \in Seq(1 .. n), p # << >>
  PROVE  /\ \A q \in Rank : OwnNeed(q, p) \in 1 .. Len(p) /\ OwnNeed(q, p) <= Needs(p)
         /\ Needs(p) \in Nat \ {0} /\ (conf.vpp = 1 => Needs(p) <= Len(p))
<1>1. PICK l \in Nat \ {0} : l = Len(p)
  <2>1. Len(p) \in Nat /\ Len(p) # 0
    OBVIOUS
  <2> QED BY <2>1
<1>2. PICK m \in Nat \ {0} : m = MaxTokenLen * conf.sp
  BY MaxTokensType
<1>3. ASSUME NEW q \in Rank PROVE OwnNeed(q, p) \in 1 .. l
  <2>1. PICK lens \in [1 .. l -> Nat \ {0}] : lens = TokensAt(q, p)
    BY <1>1, TokensAtType
  <2>2. OwnMicroBatches(lens, m) \in 1 .. l
    BY OwnType
  <2> QED BY <1>2, <2>1, <2>2 DEF OwnNeed
<1>4. PICK S : S = {OwnNeed(q, p) : q \in Rank}
  OBVIOUS
<1>5. S \subseteq 1 .. l /\ S # {} /\ S \subseteq 0 .. l
  <2>1. S \subseteq 1 .. l
    BY <1>3, <1>4
  <2>2. OwnNeed(0, p) \in S
    BY <1>4, SomeRank
  <2> QED BY <2>1, <2>2
<1>6. PICK x \in 1 .. l : x = Max(S) /\ \A y \in S : y <= x
  <2>1. Max(S) \in S /\ \A y \in S : y <= Max(S)
    BY <1>5, GreatestOf
  <2> QED BY <1>5, <2>1
<1>7. PICK v \in Nat \ {0} : v = conf.vpp
  BY ConfNumbers
<1>8. PICK c \in Nat : c = Up(x, v) /\ x <= v * c /\ v * c < x + v /\ c > 0
  <2>1. x \in Nat /\ x > 0
    BY <1>6
  <2>2. Up(x, v) \in Nat /\ x <= v * Up(x, v) /\ v * Up(x, v) < x + v /\ (x > 0 => Up(x, v) > 0)
    BY <2>1, Ceiling
  <2> QED BY <2>1, <2>2
<1>9. PICK z \in Nat : z = v * c
  OBVIOUS
<1>10. Needs(p) = z
  <2>1. c * v = z
    BY <1>9
  <2> QED BY <1>4, <1>6, <1>7, <1>8, <2>1 DEF Needs, roundup_divisible, Up
<1>11. x <= z /\ z < x + v
  BY <1>8, <1>9
<1>12. ASSUME NEW q \in Rank PROVE OwnNeed(q, p) \in 1 .. Len(p) /\ OwnNeed(q, p) <= Needs(p)
  <2>1. PICK y \in 1 .. l : y = OwnNeed(q, p)
    BY <1>3
  <2>2. y \in S
    BY <1>4, <2>1
  <2>3. y <= x
    BY <1>6, <2>2
  <2>4. y <= z
    BY <1>11, <2>3
  <2> QED BY <1>1, <1>10, <2>1, <2>4
<1>13. z # 0
  BY <1>11, <1>6
<1>14. v = 1 => z <= l
  BY <1>6, <1>11
<1> QED BY <1>1, <1>7, <1>10, <1>12, <1>13, <1>14

LEMMA MicrosType ==
  ASSUME IsConf(conf), call \in 1 .. 5, HeldAlike, NEW n \in Nat, n = Len(held[0]), NEW p \in Seq(1 .. n), p # << >>
  PROVE  Micros(p) \in Nat
<1>1. PICK l \in Nat : l = Len(p)
  OBVIOUS
<1>2. PICK z \in Nat : z = MicroSize
  BY MicroSizeType
<1>3. CASE Dynamic
  BY <1>3, NeedsType DEF Micros
<1>4. CASE ~Dynamic
  <2>1. Micros(p) = Fixed(l)
    BY <1>1, <1>4 DEF Micros
  <2>2. CASE z = 0
    BY <1>2, <2>1, <2>2 DEF Fixed
  <2>3. CASE z # 0
    <3>1. Quot(l, z) \in Nat
      BY <2>3, Division
    <3>2. Up(l, z) \in Nat
      BY <2>3, Ceiling
    <3>3. Fixed(l) = IF conf.multi_modal THEN Quot(l, z) ELSE Up(l, z)
      BY <1>2, <2>3 DEF Fixed, Quot, Up
    <3>4. CASE conf.multi_modal
      BY <2>1, <3>1, <3>3, <3>4
    <3>5. CASE ~conf.multi_modal
      BY <2>1, <3>2, <3>3, <3>5
    <3> QED BY <3>4, <3>5
  <2> QED BY <2>2, <2>3
<1> QED BY <1>3, <1>4

LEMMA CourseIs ==
  ASSUME IsConf(conf), call \in 1 .. 5, HeldAlike, Course.can
  PROVE  IsCourse(Course)
<1>1. PICK n \in Nat \ {0} : n = Len(held[0])
  <2>1. held[0] \in Seq(Rows) /\ Len(held[0]) > 0
    BY SomeRank DEF HeldAlike
  <2> QED BY <2>1
<1>2. PICK w : w = Works
  OBVIOUS
<1>3. IsWork(w, n)
  <2>1. PICK name : name = Calls[call]
    OBVIOUS
  <2>2. name \in Updates => CanMiniBatch(n)
    BY <1>1, <2>1 DEF Course
  <2>3. IsWork(Work(name, n), n)
    BY <2>2, WorkType
  <2> QED BY <1>1, <1>2, <2>1, <2>3 DEF Works
<1>4. w \in Seq(Seq(1 .. n)) /\ \A j \in 1 .. Len(w) : w[j] # << >>
  BY <1>3 DEF IsWork
<1>5. PICK m \in Nat : m = Len(w)
  BY <1>4
<1>6. \A j \in 1 .. m : Micros(w[j]) \in Nat
  <2> TAKE j \in 1 .. m
  <2>1. PICK p \in Seq(1 .. n) : p = w[j] /\ p # << >>
    BY <1>4, <1>5
  <2>2. Micros(p) \in Nat
    BY <1>1, <2>1, MicrosType
  <2> QED BY <2>1, <2>2
<1>7. PICK a \in 0 .. 1, s \in 0 .. 1 : a = Asks /\ s = Steps
  BY DEF Asks, Steps
<1>8. PICK mi \in [1 .. m -> Nat] : mi = [j \in 1 .. m |-> Micros(w[j])] /\ \A j \in 1 .. m : mi[j] = Micros(w[j])
  <2>1. PICK mi : mi = [j \in 1 .. m |-> Micros(w[j])]
    OBVIOUS
  <2> QED BY <1>6, <2>1
<1>9. PICK g \in [Nat -> Int] : g = Costs /\ \A j \in Nat : g[j] = IF j \in 1 .. m THEN a + mi[j] + s ELSE 0
  <2>1. PICK g : g = [j \in Nat |-> IF j \in 1 .. m THEN a + mi[j] + s ELSE 0]
    OBVIOUS
  <2>2. g = Costs
    BY <1>2, <1>5, <1>7, <1>8, <2>1 DEF Costs
  <2>3. \A j \in Nat : (IF j \in 1 .. m THEN a + mi[j] + s ELSE 0) \in Int
    BY <1>8
  <2> QED BY <2>1, <2>2, <2>3
<1>10. /\ \A i \in Nat : Total(g, i) \in Int
       /\ Total(g, 0) = 0
       /\ \A i \in Nat : Total(g, i + 1) = Total(g, i) + g[i + 1]
  BY TotalStep
<1>11. PICK st : st = [j \in 0 .. m |-> Total(g, j)] /\ \A j \in 0 .. m : st[j] = Total(g, j)
  <2>1. PICK st : st = [j \in 0 .. m |-> Total(g, j)]
    OBVIOUS
  <2>2. \A j \in 0 .. m : st[j] = Total(g, j)
    BY <2>1
  <2> QED BY <2>1, <2>2
<1>12. ASSUME NEW j \in 1 .. m PROVE st[j] = st[j - 1] + a + mi[j] + s
  <2>1. j - 1 \in Nat /\ (j - 1) + 1 = j /\ j - 1 \in 0 .. m /\ j \in 0 .. m /\ j \in Nat
    OBVIOUS
  <2>2. Total(g, j) = Total(g, j - 1) + g[j]
    BY <1>10, <2>1
  <2>3. g[j] = a + mi[j] + s
    BY <1>9, <2>1
  <2>4. PICK x \in Int, y \in Nat : x = Total(g, j - 1) /\ y = mi[j]
    BY <1>10, <2>1
  <2>5. x + (a + y + s) = x + a + y + s
    OBVIOUS
  <2> QED BY <1>11, <2>1, <2>2, <2>3, <2>4, <2>5
<1>13. st \in [0 .. m -> Nat]
  <2> DEFINE Bad == {j \in 0 .. m : st[j] \notin Nat}
  <2>1. Bad = {}
    <3>1. SUFFICES ASSUME Bad # {} PROVE FALSE
      OBVIOUS
    <3>2. PICK j \in Bad : \A y \in Bad : j <= y
      <4>1. Bad \subseteq Nat
        OBVIOUS
      <4> HIDE DEF Bad
      <4> QED BY <3>1, <4>1, LeastNatural
    <3>3. j \in 0 .. m /\ st[j] \notin Nat
      BY <3>2
    <3>4. j # 0
      <4>1. st[0] = 0
        BY <1>10, <1>11
      <4> QED BY <3>3, <4>1
    <3>5. j \in 1 .. m /\ j - 1 \in 0 .. m /\ ~(j <= j - 1)
      BY <3>3, <3>4
    <3>6. st[j - 1] \in Nat
      <4>1. j - 1 \notin Bad
        <5> HIDE DEF Bad
        <5> QED BY <3>2, <3>5
      <4> QED BY <3>5, <4>1
    <3>7. st[j] = st[j - 1] + a + mi[j] + s /\ mi[j] \in Nat
      BY <1>8, <1>12, <3>5
    <3>8. PICK x \in Nat, y \in Nat : x = st[j - 1] /\ y = mi[j]
      BY <3>6, <3>7
    <3>9. st[j] = x + a + y + s
      BY <3>7, <3>8
    <3>10. x + a + y + s \in Nat
      OBVIOUS
    <3> QED BY <3>3, <3>9, <3>10
  <2>2. \A j \in 0 .. m : st[j] \in Nat
    BY <2>1
  <2> QED BY <1>11, <2>2
<1>14. IsStart(st, mi, m, a, s)
  <2>1. st[0] = 0
    BY <1>10, <1>11
  <2> QED BY <1>7, <1>8, <1>12, <1>13, <2>1 DEF IsStart
<1>15. /\ Course.rows = n /\ Course.works = w /\ Course.micros = mi /\ Course.start = st
       /\ Course.asks = a /\ Course.steps = s
  BY <1>1, <1>2, <1>5, <1>7, <1>8, <1>9, <1>11 DEF Course
<1> QED BY <1>3, <1>5, <1>14, <1>15 DEF IsCourse

----------------------------------------------------------------------------
(* The invariant *)

DriverAt ==
  /\ conf \in {c.conf : c \in Cases} /\ IsConf(conf) /\ Startable(conf)
  /\ batch \in Seq(Rows) /\ Len(batch) > 0
  /\ phase \in {"collected", "adjusted", "ready", "calling", "advised", "done", "failed"}
  /\ call \in 0 .. 5 /\ DOMAIN numbers \subseteq Range(Calls)
  /\ phase \notin {"collected", "failed"} => Rest(Len(batch), WorldSize) = 0 /\ PerGpuKnown(conf)
  /\ phase = "calling" => call > 0

Shapes ==
  /\ DOMAIN held = Rank /\ DOMAIN stage = Rank /\ DOMAIN todo = Rank /\ DOMAIN plan = Rank
  /\ DOMAIN ran = Rank /\ DOMAIN log = Rank /\ DOMAIN trained = Rank
  /\ \A r \in Rank : ran[r] \in 0 .. Len(plan[r]) /\ DOMAIN trained[r] = DOMAIN held[r]

AtRank(r) == RankIs(Course, r, stage[r], todo[r], plan[r], ran[r], log[r])

RanksAt ==
  /\ call = 0 => \A r \in Rank : stage[r] = "idle" /\ log[r] = << >>
  /\ call > 0 => HeldAlike /\ \A r \in Rank : AtRank(r)

Running == DriverAt /\ Shapes /\ RanksAt /\ TextNeverFails

LEMMA CasesAre ==
  ASSUME NEW c \in Cases
  PROVE  /\ IsConf(c.conf) /\ Len(c.rows) \in Nat \ {0} /\ DOMAIN c.rows = 1 .. Len(c.rows)
         /\ \A i \in DOMAIN c.rows : IsRow(c.rows[i])
BY StepAssumption

LEMMA CallsLen ==
  /\ Len(Calls) = 5 /\ DOMAIN Calls = 1 .. 5 /\ \A c \in 1 .. 5 : Calls[c] \in Range(Calls)
BY DEF Calls, Range

LEMMA StartsRunning ==
  ASSUME Init
  PROVE  Running
<1>1. PICK c \in Cases :
        /\ Startable(c.conf) /\ conf = c.conf
        /\ batch = [i \in DOMAIN c.rows |->
                  [id |-> i, uid |-> c.rows[i].uid, tokens |-> c.rows[i].tokens, score |-> c.rows[i].score,
                   valid |-> c.rows[i].valid, progress |-> c.rows[i].progress]]
  BY DEF Init
<1>2. /\ phase = "collected" /\ numbers = << >> /\ call = 0
      /\ held = [r \in Rank |-> << >>] /\ stage = [r \in Rank |-> "idle"]
      /\ todo = [r \in Rank |-> << >>] /\ plan = [r \in Rank |-> << >>] /\ ran = [r \in Rank |-> 0]
      /\ log = [r \in Rank |-> << >>] /\ trained = [r \in Rank |-> << >>]
  BY DEF Init
<1>3. PICK n \in Nat \ {0} : n = Len(c.rows) /\ DOMAIN c.rows = 1 .. n /\ \A i \in 1 .. n : IsRow(c.rows[i])
  BY CasesAre
<1>4. batch \in Seq(Rows) /\ Len(batch) = n
  <2>1. ASSUME NEW i \in 1 .. n
        PROVE  [id |-> i, uid |-> c.rows[i].uid, tokens |-> c.rows[i].tokens, score |-> c.rows[i].score,
                valid |-> c.rows[i].valid, progress |-> c.rows[i].progress] \in Rows
    <3>1. IsRow(c.rows[i])
      BY <1>3
    <3>2. c.rows[i].uid \in Uids
      BY <1>3 DEF Uids
    <3>3. i \in Nat
      OBVIOUS
    <3> QED BY <3>1, <3>2, <3>3 DEF IsRow, Rows
  <2>2. batch \in [1 .. n -> Rows]
    BY <1>1, <1>3, <2>1
  <2> QED BY <2>2
<1>5. DriverAt
  <2>1. conf \in {d.conf : d \in Cases} /\ IsConf(conf) /\ Startable(conf)
    BY <1>1, CasesAre
  <2>2. DOMAIN numbers \subseteq Range(Calls)
    BY <1>2
  <2>3. call \in 0 .. 5 /\ Len(batch) > 0
    BY <1>2, <1>4
  <2> QED BY <1>2, <1>4, <2>1, <2>2, <2>3 DEF DriverAt
<1>6. Shapes
  <2>1. ASSUME NEW r \in Rank PROVE ran[r] \in 0 .. Len(plan[r]) /\ DOMAIN trained[r] = DOMAIN held[r]
    <3>1. ran[r] = 0 /\ plan[r] = << >> /\ trained[r] = << >> /\ held[r] = << >>
      BY <1>2
    <3> QED BY <3>1
  <2> QED BY <1>2, <2>1 DEF Shapes
<1>7. RanksAt
  BY <1>2 DEF RanksAt
<1>8. TextNeverFails
  BY <1>2 DEF TextNeverFails
<1> QED BY <1>5, <1>6, <1>7, <1>8 DEF Running

(* What the driver does alone leaves the ranks as they are. *)
LEMMA RanksStay ==
  ASSUME Shapes, RanksAt, conf' = conf, call' = call,
         UNCHANGED <<held, stage, todo, plan, ran, log, trained>>
  PROVE  Shapes' /\ RanksAt'
<1>1. Course' = Course
  BY CourseStays
<1>2. /\ held' = held /\ stage' = stage /\ todo' = todo /\ plan' = plan /\ ran' = ran /\ log' = log /\ trained' = trained
  OBVIOUS
<1>3. Shapes'
  BY <1>2 DEF Shapes
<1>4. ASSUME NEW r \in Rank, AtRank(r) PROVE AtRank(r)'
  BY <1>1, <1>2, <1>4 DEF AtRank
<1>5. HeldAlike => HeldAlike'
  BY <1>2 DEF HeldAlike
<1>6. RanksAt'
  BY <1>2, <1>4, <1>5, SMTT(30) DEF RanksAt
<1> QED BY <1>3, <1>6

LEMMA WholeBatch ==
  ASSUME DriverAt, phase \notin {"collected", "failed"}
  PROVE  \E n \in Nat \ {0} : \E w \in Nat \ {0} : n = Len(batch) /\ w = WorldSize /\ w <= n /\ Rest(n, w) = 0 /\ batch \in [1 .. n -> Rows]
<1>1. PICK w \in Nat \ {0} : w = WorldSize
  BY StepAssumption
<1>2. PICK n \in Nat \ {0} : n = Len(batch) /\ batch \in [1 .. n -> Rows]
  <2>1. batch \in Seq(Rows) /\ Len(batch) > 0
    BY DEF DriverAt
  <2> QED BY <2>1
<1>3. Rest(n, w) = 0
  BY <1>1, <1>2 DEF DriverAt
<1>4. PICK q \in Nat : n = w * q
  BY <1>3, DividedWhole
<1>5. w <= n
  <2>1. q # 0
    <3>1. w * 0 = 0
      OBVIOUS
    <3> QED BY <1>4, <3>1
  <2>2. 1 <= q
    BY <2>1
  <2>3. w * 1 <= w * q
    BY <2>2, NotLess
  <2>4. w * 1 = w
    OBVIOUS
  <2> QED BY <1>4, <2>3, <2>4
<1> QED BY <1>1, <1>2, <1>3, <1>5, ZenonT(20)

LEMMA BatchTokens ==
  ASSUME NEW n \in Nat \ {0}, batch \in [1 .. n -> Rows]
  PROVE  /\ TokensOf(batch) \in [1 .. n -> 1 .. ResponseLength] /\ TokensOf(batch) \in [1 .. n -> Nat \ {0}]
         /\ \A i \in 1 .. n : TokensOf(batch)[i] = batch[i].tokens
<1>1. \A x \in Rows : x.tokens \in 1 .. ResponseLength
  BY DEF Rows, Positions
<1>2. TokensOf(batch) = [i \in 1 .. n |-> batch[i].tokens]
  BY DEF TokensOf
<1>3. \A i \in 1 .. n : batch[i].tokens \in 1 .. ResponseLength
  BY <1>1
<1>4. \A i \in 1 .. n : batch[i].tokens \in Nat \ {0}
  BY <1>3
<1> QED BY <1>2, <1>3, <1>4

(* A batch that divides can be balanced. *)
LEMMA CanBalance ==
  ASSUME DriverAt, phase \notin {"collected", "failed"}, NEW parts, NEW lens,
         lens = TokensOf(batch), parts = get_seqlen_balanced_partitions(lens, WorldSize, TRUE)
  PROVE  /\ CanPartition(lens, WorldSize, TRUE) /\ Partitioned(lens, WorldSize, TRUE, parts)
         /\ Rearrangement(Concat(parts), Len(batch))
<1>1. PICK n \in Nat \ {0}, w \in Nat \ {0} : n = Len(batch) /\ w = WorldSize /\ w <= n /\ Rest(n, w) = 0 /\ batch \in [1 .. n -> Rows]
  BY WholeBatch
<1>2. lens \in [1 .. n -> 1 .. ResponseLength] /\ lens \in [1 .. n -> Nat \ {0}]
  BY <1>1, BatchTokens
<1>3. PICK g \in Nat : g = ResponseLength
  BY ResponseLengthAssumption
<1>4. Gap(lens, n, g)
  <2>1. lens \in [1 .. n -> 1 .. g]
    BY <1>2, <1>3
  <2> QED BY <2>1, GapExists
<1>5. /\ CanPartition(lens, w, TRUE)
      /\ Partitioned(lens, w, TRUE, get_seqlen_balanced_partitions(lens, w, TRUE))
      /\ EqualParts(lens, n, w, g, get_seqlen_balanced_partitions(lens, w, TRUE))
  BY <1>1, <1>2, <1>4, BatchParted
<1>6. Rearrangement(Concat(parts), n)
  BY <1>1, <1>5 DEF EqualParts
<1> QED BY <1>1, <1>5, <1>6

----------------------------------------------------------------------------
(* The driver's steps *)

LEMMA RunningAdjusts ==
  ASSUME Running, AdjustBatch
  PROVE  Running'
<1>1. DriverAt /\ Shapes /\ RanksAt
  BY DEF Running
<1>2. phase = "collected" /\ UNCHANGED <<conf, numbers, adv, call>> /\ UNCHANGED <<held, stage, todo, plan, ran, log, trained>>
  BY DEF AdjustBatch, ranks
<1>3. Shapes' /\ RanksAt'
  BY <1>1, <1>2, RanksStay
<1>4. CASE PerGpuKnown(conf)
  <2>1. /\ phase' = "adjusted"
        /\ \E copies \in [1 .. PadSize(Len(batch), SizeDivisor(conf)) -> DOMAIN batch] :
             batch' = batch \o [i \in DOMAIN copies |-> batch[copies[i]]]
    BY <1>4 DEF AdjustBatch
  <2>2. PICK d \in Nat \ {0}, w \in Nat \ {0} : d = SizeDivisor(conf) /\ w = WorldSize /\ Rest(d, w) = 0
    <3>1. IsConf(conf)
      BY <1>1 DEF DriverAt
    <3> QED BY <3>1, SizeDivisorType, StepAssumption
  <2>3. PICK b \in Seq(Rows), n \in Nat : b = batch /\ n = Len(b) /\ n > 0
    BY <1>1 DEF DriverAt
  <2>4. PICK p \in Nat : p = PadSize(n, d) /\ Rest(n + p, d) = 0
    <3>1. PadSize(n, d) \in 0 .. d - 1 /\ Rest(n + PadSize(n, d), d) = 0
      BY PadSizeRange
    <3> QED BY <3>1
  <2>5. PICK copies \in [1 .. p -> 1 .. n] : batch' = b \o [i \in DOMAIN copies |-> b[copies[i]]]
    <3>1. PadSize(Len(batch), SizeDivisor(conf)) = p /\ DOMAIN batch = 1 .. n
      BY <2>2, <2>3, <2>4
    <3> QED BY <2>1, <2>3, <3>1
  <2>6. PICK more : more = [i \in 1 .. p |-> b[copies[i]]]
    OBVIOUS
  <2>7. more \in Seq(Rows) /\ Len(more) = p
    <3>1. \A i \in 1 .. p : b[copies[i]] \in Rows
      BY <2>3
    <3>2. more \in [1 .. p -> Rows]
      BY <2>6, <3>1
    <3> QED BY <3>2
  <2>8. batch' = b \o more
    BY <2>5, <2>6
  <2>9. batch' \in Seq(Rows) /\ Len(batch') = n + p
    <3>1. b \o more \in Seq(Rows) /\ Len(b \o more) = Len(b) + Len(more)
      BY <2>7, Joined
    <3> QED BY <2>3, <2>7, <2>8, <3>1
  <2>10. Rest(n + p, w) = 0
    <3>1. n + p \in Nat
      OBVIOUS
    <3> QED BY <2>2, <2>4, <3>1, DividesOn
  <2>11. n + p > 0
    BY <2>3
  <2>12. DriverAt'
    <3>1. /\ conf' \in {c.conf : c \in Cases} /\ IsConf(conf') /\ Startable(conf') /\ PerGpuKnown(conf')
          /\ call' \in 0 .. 5 /\ DOMAIN (numbers') \subseteq Range(Calls)
      BY <1>1, <1>2, <1>4 DEF DriverAt
    <3>2. Rest(Len(batch'), WorldSize) = 0 /\ Len(batch') > 0
      BY <2>2, <2>9, <2>10, <2>11
    <3> QED BY <2>1, <2>9, <3>1, <3>2 DEF DriverAt
  <2>13. TextNeverFails'
    BY <2>1 DEF TextNeverFails
  <2> QED BY <1>3, <2>12, <2>13 DEF Running
<1>5. CASE ~PerGpuKnown(conf)
  <2>1. phase' = "failed" /\ batch' = batch
    BY <1>5 DEF AdjustBatch
  <2>2. DriverAt'
    BY <1>1, <1>2, <2>1 DEF DriverAt
  <2>3. TextNeverFails'
    BY <1>2, <1>5 DEF TextNeverFails
  <2> QED BY <1>3, <2>2, <2>3 DEF Running
<1> QED BY <1>4, <1>5

LEMMA RunningBalances ==
  ASSUME Running, BalanceBatch
  PROVE  Running'
<1>1. DriverAt /\ Shapes /\ RanksAt
  BY DEF Running
<1>2. phase = "adjusted" /\ UNCHANGED <<conf, numbers, adv, call>> /\ UNCHANGED <<held, stage, todo, plan, ran, log, trained>>
  BY DEF BalanceBatch, ranks
<1>3. Shapes' /\ RanksAt'
  BY <1>1, <1>2, RanksStay
<1>4. phase \notin {"collected", "failed"} /\ Rest(Len(batch), WorldSize) = 0 /\ PerGpuKnown(conf)
  BY <1>1, <1>2 DEF DriverAt
<1>5. PICK lens : lens = TokensOf(batch)
  OBVIOUS
<1>6. PICK parts : parts = get_seqlen_balanced_partitions(lens, WorldSize, TRUE)
  BY ZenonT(20)
<1>7. /\ CanPartition(lens, WorldSize, TRUE) /\ Partitioned(lens, WorldSize, TRUE, parts)
      /\ Rearrangement(Concat(parts), Len(batch))
  BY <1>1, <1>4, <1>5, <1>6, CanBalance
<1>8. PICK b \in Seq(Rows), n \in Nat : b = batch /\ n = Len(b) /\ n > 0
  BY <1>1 DEF DriverAt
<1>9. phase' = "ready" /\ (batch' = batch \/ batch' = Balanced(batch, parts))
  <2>1. CASE ~conf.balance
    BY <2>1 DEF BalanceBatch
  <2>2. CASE conf.balance
    BY <1>5, <1>6, <1>7, <2>2 DEF BalanceBatch
  <2> QED BY <2>1, <2>2
<1>10. batch' \in Seq(Rows) /\ Len(batch') = n
  <2>1. CASE batch' = batch
    BY <1>8, <2>1
  <2>2. CASE batch' = Balanced(batch, parts)
    <3>1. PICK idx \in [1 .. n -> 1 .. n] : idx = Concat(parts)
      BY <1>7, <1>8 DEF Rearrangement
    <3>2. Balanced(batch, parts) = [i \in 1 .. n |-> b[idx[i]]]
      BY <1>8, <3>1 DEF Balanced
    <3>3. \A i \in 1 .. n : b[idx[i]] \in Rows
      BY <1>8, <3>1
    <3>4. batch' \in [1 .. n -> Rows]
      BY <2>2, <3>2, <3>3
    <3> QED BY <3>4
  <2> QED BY <1>9, <2>1, <2>2
<1>11. DriverAt'
  <2>1. /\ conf' \in {c.conf : c \in Cases} /\ IsConf(conf') /\ Startable(conf') /\ PerGpuKnown(conf')
        /\ call' \in 0 .. 5 /\ DOMAIN (numbers') \subseteq Range(Calls)
    BY <1>1, <1>2, <1>4 DEF DriverAt
  <2>2. Rest(Len(batch'), WorldSize) = 0 /\ Len(batch') > 0
    BY <1>4, <1>8, <1>10
  <2> QED BY <1>9, <1>10, <2>1, <2>2 DEF DriverAt
<1>12. TextNeverFails'
  BY <1>9 DEF TextNeverFails
<1> QED BY <1>3, <1>11, <1>12 DEF Running

LEMMA RunningReturns ==
  ASSUME Running, Return
  PROVE  Running'
<1>1. DriverAt /\ Shapes /\ RanksAt
  BY DEF Running
<1>2. phase = "calling" /\ UNCHANGED <<conf, batch, adv, call>> /\ UNCHANGED <<held, stage, todo, plan, ran, log, trained>>
  BY DEF Return, ranks
<1>3. Shapes' /\ RanksAt'
  BY <1>1, <1>2, RanksStay
<1>4. phase' \in {"done", "advised", "ready"} /\ DOMAIN (numbers') \subseteq Range(Calls)
  <2>1. call \in 1 .. 5 /\ DOMAIN numbers \subseteq Range(Calls)
    BY <1>1, <1>2 DEF DriverAt
  <2>2. CASE Calls[call] \in Updates
    BY <2>1, <2>2 DEF Return
  <2>3. CASE Calls[call] \notin Updates
    <3>1. /\ numbers' = [c \in DOMAIN numbers \union {Calls[call]} |->
                           IF c = Calls[call] THEN CollectedNumbers ELSE numbers[c]]
          /\ phase' = "ready"
      BY <2>3 DEF Return
    <3>2. DOMAIN (numbers') = DOMAIN numbers \union {Calls[call]}
      BY <3>1
    <3>3. Calls[call] \in Range(Calls)
      BY <2>1, CallsLen
    <3> QED BY <2>1, <3>1, <3>2, <3>3
  <2> QED BY <2>2, <2>3
<1>5. DriverAt'
  BY <1>1, <1>2, <1>4 DEF DriverAt
<1>6. TextNeverFails'
  BY <1>4 DEF TextNeverFails
<1> QED BY <1>3, <1>5, <1>6 DEF Running

LEMMA RunningAdvises ==
  ASSUME Running, ComputeAdvantage
  PROVE  Running'
<1>1. DriverAt /\ Shapes /\ RanksAt
  BY DEF Running
<1>2. phase = "ready" /\ UNCHANGED <<conf, call>> /\ UNCHANGED <<held, stage, todo, plan, ran, log, trained>>
  BY DEF ComputeAdvantage, ranks
<1>3. Shapes' /\ RanksAt'
  BY <1>1, <1>2, RanksStay
<1>4. PICK b \in Seq(Rows), n \in Nat : b = batch /\ n = Len(b) /\ n > 0
  BY <1>1 DEF DriverAt
<1>5. CASE ~CanEstimate
  <2>1. phase' = "failed" /\ batch' = batch /\ numbers' = numbers
    BY <1>5 DEF ComputeAdvantage
  <2>2. DriverAt'
    BY <1>1, <1>2, <2>1 DEF DriverAt
  <2>3. TextNeverFails'
    <3>1. ~CanEstimate'
      BY <1>2, <1>5, <2>1 DEF CanEstimate
    <3> QED BY <3>1 DEF TextNeverFails
  <2> QED BY <1>3, <2>2, <2>3 DEF Running
<1>6. CASE CanEstimate
  <2>1. PICK pick \in IF UseCritic(conf) /\ conf.pf_ppo THEN compute_pf_ppo_reweight_data(batch) ELSE {Places(Len(batch))} :
          /\ phase' = "advised" /\ batch' = Drawn(batch, pick)
          /\ numbers' = [c \in DOMAIN numbers |-> Drawn(numbers[c], pick)]
    BY <1>6 DEF ComputeAdvantage
  <2>2. pick \in [1 .. n -> 1 .. n]
    <3>1. Places(Len(batch)) \in [1 .. n -> 1 .. n]
      BY <1>4 DEF Places
    <3>2. compute_pf_ppo_reweight_data(batch) = [1 .. n -> 1 .. n]
      BY <1>4 DEF compute_pf_ppo_reweight_data
    <3> QED BY <2>1, <3>1, <3>2
  <2>3. batch' \in Seq(Rows) /\ Len(batch') = n
    <3>1. batch' = [i \in 1 .. n |-> b[pick[i]]]
      BY <1>4, <2>1, <2>2 DEF Drawn
    <3>2. \A i \in 1 .. n : b[pick[i]] \in Rows
      BY <1>4, <2>2
    <3>3. batch' \in [1 .. n -> Rows]
      BY <3>1, <3>2
    <3> QED BY <3>3
  <2>4. DOMAIN (numbers') = DOMAIN numbers
    BY <2>1
  <2>5. Rest(Len(batch), WorldSize) = 0 /\ PerGpuKnown(conf)
    BY <1>1, <1>2 DEF DriverAt
  <2>6. DriverAt'
    <3>1. /\ conf' \in {c.conf : c \in Cases} /\ IsConf(conf') /\ Startable(conf') /\ PerGpuKnown(conf')
          /\ call' \in 0 .. 5 /\ DOMAIN (numbers') \subseteq Range(Calls)
      BY <1>1, <1>2, <2>4, <2>5 DEF DriverAt
    <3>2. Rest(Len(batch'), WorldSize) = 0 /\ Len(batch') > 0
      BY <1>4, <2>3, <2>5
    <3> QED BY <2>1, <2>3, <3>1, <3>2 DEF DriverAt
  <2>7. TextNeverFails'
    BY <2>1 DEF TextNeverFails
  <2> QED BY <1>3, <2>6, <2>7 DEF Running
<1> QED BY <1>5, <1>6

(* A call follows the one before it. *)
LEMMA NextCallType ==
  ASSUME call \in 0 .. 4
  PROVE  NextCall \in call + 1 .. 5
<1>1. PICK S : S = {c \in call + 1 .. Len(Calls) : Made(c)}
  OBVIOUS
<1>2. S \subseteq call + 1 .. 5
  BY <1>1, CallsLen
<1>3. 5 \in S
  <2>1. Made(5)
    <3>1. Calls[5] = "update_actor"
      BY DEF Calls
    <3> QED BY <3>1 DEF Made
  <2>2. 5 \in call + 1 .. Len(Calls)
    BY CallsLen
  <2> QED BY <1>1, <2>1, <2>2
<1>4. PICK y \in S : \A z \in S : y <= z
  <2>1. S \subseteq Nat
    BY <1>2
  <2> QED BY <1>3, <2>1, LeastNatural
<1>5. Min(S) \in S
  BY <1>4 DEF Min
<1> QED BY <1>1, <1>2, <1>5 DEF NextCall

LEMMA RunningCalls ==
  ASSUME Running, Call
  PROVE  Running'
<1>1. DriverAt /\ Shapes
  BY DEF Running
<1>2. /\ phase \in {"ready", "advised"} /\ call < Len(Calls) /\ call' = NextCall /\ phase' = "calling"
      /\ held' = [r \in Rank |-> RowsOf(r)] /\ stage' = [r \in Rank |-> "called"]
      /\ log' = [r \in Rank |-> << >>]
      /\ trained' = [r \in Rank |-> [i \in 1 .. Len(held'[r]) |-> 0]]
      /\ UNCHANGED <<conf, batch, numbers, adv, todo, plan, ran>>
  BY DEF Call
<1>3. call' \in 1 .. 5
  <2>1. call \in 0 .. 4
    BY <1>1, <1>2, CallsLen DEF DriverAt
  <2>2. NextCall \in call + 1 .. 5
    BY <2>1, NextCallType
  <2> QED BY <1>2, <2>1, <2>2
<1>4. PICK n \in Nat \ {0}, w \in Nat \ {0} : n = Len(batch) /\ w = WorldSize /\ w <= n /\ Rest(n, w) = 0 /\ batch \in [1 .. n -> Rows]
  BY <1>1, <1>2, WholeBatch
<1>5. PICK m \in Nat : n = w * m /\ m # 0
  <2>1. PICK m \in Nat : n = w * m
    <3>1. Quot(n, w) \in Nat /\ n = w * Quot(n, w)
      BY <1>4, DividedWhole
    <3> QED BY <3>1
  <2>2. m # 0
    <3>1. w * 0 = 0
      OBVIOUS
    <3> QED BY <2>1, <3>1
  <2> QED BY <2>1, <2>2
<1>6. IsConf(conf)
  BY <1>1 DEF DriverAt
<1>7. PICK l \in Nat : l = conf.sp * m /\ l > 0
  <2>1. PICK x \in Nat \ {0} : x = conf.sp
    BY <1>6, ConfNumbers
  <2>2. x * m \in Nat /\ x * m # 0
    BY <1>5
  <2> QED BY <2>1, <2>2
<1>8. ASSUME NEW r \in Rank PROVE RowsOf(r) \in Seq(Rows) /\ Len(RowsOf(r)) = l
  <2>1. PICK b \in Seq(Rows) : b = batch /\ Len(b) = WorldSize * m
    BY <1>4, <1>5
  <2> QED BY <1>6, <1>7, <2>1, RowsOfRank
<1>9. HeldAlike'
  <2>1. \A r \in Rank : held'[r] \in Seq(Rows) /\ Len(held'[r]) = l
    BY <1>2, <1>8
  <2> QED BY <1>7, <2>1, SomeRank DEF HeldAlike
<1>10. Shapes'
  <2>1. ASSUME NEW r \in Rank PROVE DOMAIN (trained'[r]) = DOMAIN (held'[r])
    <3>1. held'[r] \in Seq(Rows)
      BY <1>2, <1>8
    <3>2. DOMAIN (held'[r]) = 1 .. Len(held'[r])
      BY <3>1
    <3>3. trained'[r] = [i \in 1 .. Len(held'[r]) |-> 0]
      BY <1>2
    <3> QED BY <3>2, <3>3
  <2>2. \A r \in Rank : ran'[r] \in 0 .. Len(plan'[r])
    BY <1>1, <1>2 DEF Shapes
  <2>3. /\ DOMAIN (held') = Rank /\ DOMAIN (stage') = Rank /\ DOMAIN (log') = Rank /\ DOMAIN (trained') = Rank
        /\ DOMAIN (todo') = Rank /\ DOMAIN (plan') = Rank /\ DOMAIN (ran') = Rank
    BY <1>1, <1>2 DEF Shapes
  <2> QED BY <2>1, <2>2, <2>3 DEF Shapes
<1>11. RanksAt'
  <2>1. ASSUME NEW r \in Rank PROVE AtRank(r)'
    <3>1. stage'[r] = "called" /\ log'[r] = << >>
      BY <1>2
    <3>2. RankIs(Course', r, stage'[r], todo'[r], plan'[r], ran'[r], log'[r])
      BY <3>1 DEF RankIs
    <3> QED BY <3>2 DEF AtRank
  <2>2. call' # 0
    BY <1>3
  <2> QED BY <1>9, <2>1, <2>2 DEF RanksAt
<1>12. DriverAt'
  <2>1. phase' = "calling" /\ call' > 0 /\ call' \in 0 .. 5
    BY <1>2, <1>3
  <2>2. Rest(Len(batch), WorldSize) = 0 /\ PerGpuKnown(conf)
    BY <1>1, <1>2 DEF DriverAt
  <2> QED BY <1>1, <1>2, <2>1, <2>2 DEF DriverAt
<1>13. TextNeverFails'
  BY <1>2 DEF TextNeverFails
<1> QED BY <1>10, <1>11, <1>12, <1>13 DEF Running

----------------------------------------------------------------------------
(* The ranks' steps *)

(* A step of r leaves the driver and the other ranks as they are. *)
Moves(r) ==
  /\ UNCHANGED <<conf, phase, batch, numbers, call, held>>
  /\ DOMAIN stage' = Rank /\ DOMAIN todo' = Rank /\ DOMAIN plan' = Rank /\ DOMAIN ran' = Rank
  /\ DOMAIN log' = Rank /\ DOMAIN trained' = Rank
  /\ \A q \in Rank : q # r => /\ stage'[q] = stage[q] /\ todo'[q] = todo[q] /\ plan'[q] = plan[q] /\ ran'[q] = ran[q]
                              /\ log'[q] = log[q]
  /\ \A q \in Rank : DOMAIN (trained'[q]) = DOMAIN trained[q]

LEMMA AtCall ==
  ASSUME Running, phase = "calling"
  PROVE  /\ DriverAt /\ Shapes /\ IsConf(conf) /\ call \in 1 .. 5 /\ HeldAlike /\ PerGpuKnown(conf) /\ Startable(conf)
         /\ \A r \in Rank : AtRank(r)
<1>1. DriverAt /\ Shapes /\ RanksAt
  BY DEF Running
<1>2. IsConf(conf) /\ Startable(conf) /\ call \in 0 .. 5 /\ call > 0 /\ PerGpuKnown(conf)
  BY <1>1 DEF DriverAt
<1>3. call \in 1 .. 5
  BY <1>2
<1> QED BY <1>1, <1>2, <1>3 DEF RanksAt

LEMMA RankMoves ==
  ASSUME Running, phase = "calling", NEW r \in Rank, Moves(r),
         RankIs(Course, r, stage'[r], todo'[r], plan'[r], ran'[r], log'[r]),
         ran'[r] \in 0 .. Len(plan'[r])
  PROVE  Running'
<1>1. DriverAt /\ Shapes /\ call \in 1 .. 5 /\ HeldAlike /\ \A q \in Rank : AtRank(q)
  BY AtCall
<1>2. /\ conf' = conf /\ phase' = phase /\ batch' = batch /\ numbers' = numbers /\ call' = call /\ held' = held
  BY DEF Moves
<1>3. Course' = Course
  BY <1>2, CourseStays
<1>4. DriverAt'
  BY <1>1, <1>2 DEF DriverAt
<1>5. Shapes'
  <2>1. ASSUME NEW q \in Rank PROVE ran'[q] \in 0 .. Len(plan'[q]) /\ DOMAIN (trained'[q]) = DOMAIN (held'[q])
    <3>1. DOMAIN (trained'[q]) = DOMAIN (held'[q])
      BY <1>1, <1>2 DEF Moves, Shapes
    <3>2. CASE q = r
      BY <3>1, <3>2
    <3>3. CASE q # r
      <4>1. ran'[q] = ran[q] /\ plan'[q] = plan[q]
        BY <3>3 DEF Moves
      <4>2. ran[q] \in 0 .. Len(plan[q])
        BY <1>1 DEF Shapes
      <4> QED BY <3>1, <4>1, <4>2
    <3> QED BY <3>2, <3>3
  <2>2. /\ DOMAIN (held') = Rank /\ DOMAIN (stage') = Rank /\ DOMAIN (log') = Rank /\ DOMAIN (trained') = Rank
        /\ DOMAIN (todo') = Rank /\ DOMAIN (plan') = Rank /\ DOMAIN (ran') = Rank
    BY <1>1, <1>2 DEF Shapes, Moves
  <2> QED BY <2>1, <2>2 DEF Shapes
<1>6. ASSUME NEW q \in Rank PROVE AtRank(q)'
  <2>1. RankIs(Course, q, stage'[q], todo'[q], plan'[q], ran'[q], log'[q])
    <3>1. CASE q = r
      BY <3>1
    <3>2. CASE q # r
      <4>1. stage'[q] = stage[q] /\ todo'[q] = todo[q] /\ plan'[q] = plan[q] /\ ran'[q] = ran[q] /\ log'[q] = log[q]
        BY <3>2 DEF Moves
      <4>2. RankIs(Course, q, stage[q], todo[q], plan[q], ran[q], log[q])
        BY <1>1 DEF AtRank
      <4> QED BY <4>1, <4>2
    <3> QED BY <3>1, <3>2
  <2> QED BY <1>3, <2>1 DEF AtRank
<1>7. HeldAlike'
  BY <1>1, <1>2 DEF HeldAlike
<1>8. RanksAt'
  <2>1. call' # 0
    BY <1>1, <1>2
  <2> QED BY <1>6, <1>7, <2>1 DEF RanksAt
<1>9. TextNeverFails'
  BY <1>2 DEF TextNeverFails
<1> QED BY <1>4, <1>5, <1>8, <1>9 DEF Running

LEMMA RunningRaises ==
  ASSUME Running, NEW r \in Rank, Raise(r), conf.multi_modal \/ conf.backend = "megatron"
  PROVE  Running'
<1>1. DriverAt /\ Shapes /\ RanksAt
  BY DEF Running
<1>2. /\ phase' = "failed" /\ UNCHANGED <<conf, batch, numbers, call>>
      /\ UNCHANGED <<held, stage, todo, plan, ran, log, trained>>
  BY DEF Raise, ranks
<1>3. Shapes' /\ RanksAt'
  BY <1>1, <1>2, RanksStay
<1>4. DriverAt'
  BY <1>1, <1>2 DEF DriverAt
<1>5. TextNeverFails'
  BY <1>2 DEF TextNeverFails
<1> QED BY <1>3, <1>4, <1>5 DEF Running

LEMMA Backends ==
  ASSUME IsConf(conf)
  PROVE  conf.backend = "fsdp" \/ conf.backend = "megatron"
BY DEF IsConf

LEMMA RunningBegins ==
  ASSUME Running, NEW r \in Rank, Begin(r)
  PROVE  Running'
<1>1. phase = "calling" /\ stage[r] = "called"
  BY DEF Begin
<1>2. /\ Shapes /\ IsConf(conf) /\ call \in 1 .. 5 /\ HeldAlike /\ PerGpuKnown(conf) /\ Startable(conf)
      /\ \A q \in Rank : AtRank(q)
  BY <1>1, AtCall
<1>3. Len(held[r]) = Len(held[0])
  BY <1>2 DEF HeldAlike
<1>4. log[r] = << >>
  BY <1>1, <1>2 DEF AtRank, RankIs
<1>5. CASE Calls[call] \in Updates => CanMiniBatch(Len(held[r]))
  <2>1. /\ todo' = [todo EXCEPT ![r] = Work(Calls[call], Len(held[r]))]
        /\ stage' = [stage EXCEPT ![r] = "next"]
        /\ UNCHANGED <<driver, held, plan, ran, order, log, trained>>
    BY <1>5 DEF Begin
  <2>2. Course.can /\ Course.works = Work(Calls[call], Len(held[r]))
    BY <1>3, <1>5 DEF Course, Works
  <2>3. IsCourse(Course)
    BY <1>2, <2>2, CourseIs
  <2>4. RankIs(Course, r, "next", Course.works, plan[r], ran[r], << >>)
    BY <2>2, <2>3, BeginIs
  <2>5. Moves(r)
    BY <1>2, <2>1 DEF Moves, Shapes, driver
  <2>6. stage'[r] = "next" /\ todo'[r] = Course.works /\ plan'[r] = plan[r] /\ ran'[r] = ran[r] /\ log'[r] = << >>
    BY <1>2, <1>4, <2>1, <2>2 DEF Shapes
  <2>7. RankIs(Course, r, stage'[r], todo'[r], plan'[r], ran'[r], log'[r])
    BY <2>4, <2>6
  <2>8. ran'[r] \in 0 .. Len(plan'[r])
    BY <1>2, <2>6 DEF Shapes
  <2> QED BY <1>1, <2>5, <2>7, <2>8, RankMoves
<1>6. CASE ~(Calls[call] \in Updates => CanMiniBatch(Len(held[r])))
  <2>1. Raise(r) /\ ~CanMiniBatch(Len(held[r]))
    BY <1>6 DEF Begin
  <2>2. conf.multi_modal \/ conf.backend = "megatron"
    <3>1. SUFFICES ASSUME ~conf.multi_modal, conf.backend # "megatron" PROVE FALSE
      OBVIOUS
    <3>2. conf.backend = "fsdp"
      BY <1>2, <3>1, Backends
    <3>3. MiniSize > 0
      BY <1>2, <3>2 DEF Startable, FsdpStarts, MiniSize
    <3>4. CanMiniBatch(Len(held[r]))
      BY <3>1, <3>2, <3>3 DEF CanMiniBatch
    <3> QED BY <2>1, <3>4
  <2> QED BY <2>1, <2>2, RunningRaises
<1> QED BY <1>5, <1>6

LEMMA RunningAsks ==
  ASSUME Running, NEW r \in Rank, Ask(r)
  PROVE  Running'
<1>1. /\ phase = "calling" /\ stage[r] = "next" /\ todo[r] # << >> /\ Dynamic
      /\ log' = [log EXCEPT ![r] = Append(@, [op |-> "all_reduce", own |-> OwnNeed(r, Head(todo[r]))])]
      /\ stage' = [stage EXCEPT ![r] = "asking"]
      /\ UNCHANGED <<driver, held, todo, plan, ran, order, trained>>
  BY DEF Ask, Join, Dynamic, OwnNeed
<1>2. /\ Shapes /\ IsConf(conf) /\ call \in 1 .. 5 /\ HeldAlike /\ \A q \in Rank : AtRank(q)
  BY <1>1, AtCall
<1>3. RankIs(Course, r, "next", todo[r], plan[r], ran[r], log[r])
  BY <1>1, <1>2 DEF AtRank
<1>4. Course.can /\ TodoIs(Course, todo[r])
  BY <1>3 DEF RankIs
<1>5. IsCourse(Course)
  BY <1>2, <1>4, CourseIs
<1>6. Course.asks = 1
  BY <1>1 DEF Course, Asks
<1>7. PICK j : j = Done(Course, todo[r]) + 1
  OBVIOUS
<1>8. j \in 1 .. Len(Works) /\ Head(todo[r]) = Works[j] /\ Course.works = Works
  <2>1. Course.works = Works
    BY DEF Course
  <2>2. j \in 1 .. Len(Course.works)
    BY <1>1, <1>4, <1>5, <1>7, CourseAt
  <2>3. Head(todo[r]) = Course.works[j]
    BY <1>1, <1>4, <1>5, <1>7, DoneType
  <2> QED BY <2>1, <2>2, <2>3
<1>9. Course.owns[r][j] = OwnNeed(r, Works[j])
  <2>1. Course.owns = [q \in Rank |-> [i \in 1 .. Len(Works) |-> OwnNeed(q, Works[i])]]
    BY DEF Course
  <2> QED BY <1>8, <2>1
<1>10. OwnNeed(r, Works[j]) \in Nat
  <2>1. PICK n \in Nat \ {0} : n = Len(held[0]) /\ Course.rows = n
    <3>1. Course.rows = Len(held[0])
      BY DEF Course
    <3> QED BY <1>5, <3>1, WorksLen
  <2>2. IsWork(Works, n)
    BY <1>5, <1>8, <2>1 DEF IsCourse
  <2>3. PICK p \in Seq(1 .. n) : p = Works[j] /\ p # << >>
    BY <1>8, <2>2 DEF IsWork
  <2>4. OwnNeed(r, p) \in 1 .. Len(p)
    BY <1>2, <2>1, <2>3, NeedsType
  <2> QED BY <2>3, <2>4
<1>11. PICK e \in Entries : e = [op |-> "all_reduce", own |-> OwnNeed(r, Head(todo[r]))] /\ e.op = "all_reduce" /\ e.own = OwnNeed(r, Works[j])
  <2>1. PICK x \in Nat : x = OwnNeed(r, Head(todo[r])) /\ x = OwnNeed(r, Works[j])
    BY <1>8, <1>10
  <2>2. [op |-> "all_reduce", own |-> x] \in Entries
    BY DEF Entries
  <2> QED BY <2>1, <2>2
<1>12. RankIs(Course, r, "asking", todo[r], plan[r], ran[r], Append(log[r], e))
  <2>1. e.own = Course.owns[r][Done(Course, todo[r]) + 1]
    BY <1>7, <1>9, <1>11
  <2> QED BY <1>1, <1>3, <1>5, <1>6, <1>11, <2>1, AskIs
<1>13. Moves(r)
  BY <1>1, <1>2 DEF Moves, Shapes, driver
<1>14. stage'[r] = "asking" /\ todo'[r] = todo[r] /\ plan'[r] = plan[r] /\ ran'[r] = ran[r] /\ log'[r] = Append(log[r], e)
  BY <1>1, <1>2, <1>11 DEF Shapes
<1>15. RankIs(Course, r, stage'[r], todo'[r], plan'[r], ran'[r], log'[r])
  BY <1>12, <1>14
<1>16. ran'[r] \in 0 .. Len(plan'[r])
  BY <1>2, <1>14 DEF Shapes
<1> QED BY <1>1, <1>13, <1>15, <1>16, RankMoves

(* The mini-batch a rank is at *)
AtMiniBatch(r, n, p) ==
  /\ n \in Nat \ {0} /\ n = Len(held[0]) /\ p \in Seq(1 .. n) /\ p = Head(todo[r]) /\ p # << >>
  /\ IsCourse(Course) /\ TodoIs(Course, todo[r])
  /\ Course.micros[Done(Course, todo[r]) + 1] = Micros(p)
  /\ Course.start[Done(Course, todo[r])] \in Nat
  /\ Done(Course, todo[r]) + 1 \in 1 .. Len(Course.works)
  /\ \A q \in Rank : Course.owns[q][Done(Course, todo[r]) + 1] = OwnNeed(q, p)

LEMMA AtHead ==
  ASSUME Running, phase = "calling", NEW r \in Rank, stage[r] \in {"next", "asking", "running"}, todo[r] # << >>
  PROVE  \E n, p : AtMiniBatch(r, n, p)
<1>1. IsConf(conf) /\ call \in 1 .. 5 /\ HeldAlike /\ AtRank(r)
  BY AtCall
<1>2. Course.can /\ TodoIs(Course, todo[r])
  BY <1>1 DEF AtRank, RankIs
<1>3. IsCourse(Course)
  BY <1>1, <1>2, CourseIs
<1>4. PICK n \in Nat \ {0} : n = Len(held[0]) /\ Course.rows = n
  <2>1. Course.rows = Len(held[0])
    BY DEF Course
  <2> QED BY <1>3, <2>1, WorksLen
<1>5. PICK j : j = Done(Course, todo[r]) + 1
  OBVIOUS
<1>6. j \in 1 .. Len(Works) /\ Head(todo[r]) = Works[j] /\ Course.works = Works /\ Course.start[Done(Course, todo[r])] \in Nat
  <2>1. Course.works = Works
    BY DEF Course
  <2>2. j \in 1 .. Len(Course.works) /\ Course.start[Done(Course, todo[r])] \in Nat
    BY <1>2, <1>3, <1>5, CourseAt
  <2>3. Head(todo[r]) = Course.works[j]
    BY <1>2, <1>3, <1>5, DoneType
  <2> QED BY <2>1, <2>2, <2>3
<1>7. PICK p \in Seq(1 .. n) : p = Works[j] /\ p # << >>
  <2>1. IsWork(Works, n)
    BY <1>3, <1>4, <1>6 DEF IsCourse
  <2> QED BY <1>6, <2>1 DEF IsWork
<1>8. Course.micros[j] = Micros(p)
  <2>1. Course.micros = [i \in 1 .. Len(Works) |-> Micros(Works[i])]
    BY DEF Course
  <2> QED BY <1>6, <1>7, <2>1
<1>9. \A q \in Rank : Course.owns[q][j] = OwnNeed(q, p)
  <2>1. Course.owns = [q \in Rank |-> [i \in 1 .. Len(Works) |-> OwnNeed(q, Works[i])]]
    BY DEF Course
  <2> QED BY <1>6, <1>7, <2>1
<1>10. AtMiniBatch(r, n, p)
  BY <1>2, <1>3, <1>4, <1>5, <1>6, <1>7, <1>8, <1>9 DEF AtMiniBatch
<1> QED BY <1>10

(* What the ranks settle on is what the rows of all of them need. *)
LEMMA SettledIs ==
  ASSUME Running, phase = "calling", NEW r \in Rank, stage[r] = "asking", Synced(r), NEW p, p = Head(todo[r])
  PROVE  Settled(r) = Needs(p) /\ Dynamic
<1>1. \A q \in Rank : AtRank(q)
  BY AtCall
<1>2. RankIs(Course, r, "asking", todo[r], plan[r], ran[r], log[r])
  BY <1>1 DEF AtRank
<1>3. Course.can /\ TodoIs(Course, todo[r]) /\ todo[r] # << >> /\ Course.asks = 1
  BY <1>2 DEF RankIs
<1>4. PICK j : j = Done(Course, todo[r]) + 1
  OBVIOUS
<1>5. /\ IsCourse(Course) /\ Course.start[Done(Course, todo[r])] \in Nat /\ j \in 1 .. Len(Course.works)
      /\ \A q \in Rank : Course.owns[q][j] = OwnNeed(q, p)
  <2>1. PICK n, y : AtMiniBatch(r, n, y)
    BY <1>3, AtHead
  <2> QED BY <1>4, <2>1 DEF AtMiniBatch
<1>6. PICK at \in Nat : at = Course.start[Done(Course, todo[r])] + 1 /\ Len(log[r]) = at
  BY <1>2, <1>5 DEF RankIs
<1>7. ASSUME NEW q \in Rank PROVE log[q][at].own = OwnNeed(q, p)
  <2>1. RankIs(Course, q, stage[q], todo[q], plan[q], ran[q], log[q])
    BY <1>1 DEF AtRank
  <2>2. Len(log[q]) >= at
    BY <1>6 DEF Synced
  <2>3. stage[q] # "called"
    <3>1. SUFFICES ASSUME stage[q] = "called" PROVE FALSE
      OBVIOUS
    <3>2. log[q] = << >>
      BY <2>1, <3>1 DEF RankIs
    <3>3. Len(log[q]) = 0
      BY <3>2
    <3>4. at >= 1
      BY <1>5, <1>6
    <3> QED BY <2>2, <3>3, <3>4
  <2>4. LogIs(Course, q, log[q])
    BY <2>1, <2>3 DEF RankIs
  <2>5. PICK l \in Nat : l = Len(log[q]) /\ at <= l
    <3>1. Len(log[q]) \in Nat
      BY <2>4 DEF LogIs
    <3> QED BY <2>2, <3>1
  <2>6. Course.start[j - 1] + 1 = at
    <3>1. j - 1 = Done(Course, todo[r])
      <4>1. Done(Course, todo[r]) \in Nat
        BY <1>3, <1>5, DoneType, WorksLen
      <4> QED BY <1>4, <4>1
    <3> QED BY <1>6, <3>1
  <2>7. log[q][Course.start[j - 1] + 1].own = Course.owns[q][j]
    BY <1>3, <1>5, <2>4, <2>5, <2>6 DEF LogIs
  <2> QED BY <1>5, <2>6, <2>7
<1>8. {log[q][at].own : q \in Rank} = {OwnNeed(q, p) : q \in Rank}
  BY <1>7
<1>9. Settled(r) = Needs(p)
  BY <1>6, <1>8 DEF Settled, Needs
<1>10. Dynamic
  BY <1>3 DEF Course, Asks
<1> QED BY <1>9, <1>10

LEMMA Parted ==
  ASSUME IsConf(conf), HeldAlike, NEW q \in Rank, NEW n \in Nat, n = Len(held[0]), NEW p \in Seq(1 .. n), p # << >>,
         NEW k \in Nat \ {0}, NEW lens, lens = TokensAt(q, p)
  PROVE  /\ CanPartition(lens, k, FALSE) <=> k <= Len(p)
         /\ k <= Len(p) => /\ Partitioned(lens, k, FALSE, get_seqlen_balanced_partitions(lens, k, FALSE))
                           /\ UnequalParts(lens, Len(p), k, ResponseLength, get_seqlen_balanced_partitions(lens, k, FALSE))
<1>1. PICK l \in Nat \ {0} : l = Len(p)
  <2>1. Len(p) \in Nat /\ Len(p) # 0
    OBVIOUS
  <2> QED BY <2>1
<1>2. lens \in [1 .. l -> 1 .. ResponseLength] /\ lens \in [1 .. l -> Nat \ {0}]
  BY <1>1, TokensAtType
<1>3. Len(lens) = l
  BY <1>2
<1>4. CanPartition(lens, k, FALSE) <=> k <= l
  BY <1>3 DEF CanPartition
<1>5. ASSUME k <= l
      PROVE  /\ Partitioned(lens, k, FALSE, get_seqlen_balanced_partitions(lens, k, FALSE))
             /\ UnequalParts(lens, l, k, ResponseLength, get_seqlen_balanced_partitions(lens, k, FALSE))
  <2>1. PICK b \in Int : b = ResponseLength
    BY ResponseLengthAssumption
  <2>2. \A i \in 1 .. l : lens[i] <= b
    <3> TAKE i \in 1 .. l
    <3>1. lens[i] \in 1 .. b
      BY <1>2, <2>1
    <3> QED BY <3>1
  <2>3. /\ Partitioned(lens, k, FALSE, get_seqlen_balanced_partitions(lens, k, FALSE))
        /\ UnequalParts(lens, l, k, b, get_seqlen_balanced_partitions(lens, k, FALSE))
    BY <1>2, <1>5, <2>2, RowsParted
  <2> QED BY <2>1, <2>3
<1> QED BY <1>1, <1>4, <1>5

LEMMA RunningRearranges ==
  ASSUME Running, NEW r \in Rank, Rearrange(r)
  PROVE  Running'
<1>1. phase = "calling" /\ stage[r] = "asking" /\ Synced(r)
  BY DEF Rearrange
<1>2. /\ Shapes /\ IsConf(conf) /\ call \in 1 .. 5 /\ HeldAlike /\ \A q \in Rank : AtRank(q)
  BY <1>1, AtCall
<1>3. RankIs(Course, r, "asking", todo[r], plan[r], ran[r], log[r])
  BY <1>1, <1>2 DEF AtRank
<1>4. todo[r] # << >>
  BY <1>3 DEF RankIs
<1>5. PICK n, p :
        /\ n \in Nat \ {0} /\ n = Len(held[0]) /\ p \in Seq(1 .. n) /\ p = Head(todo[r]) /\ p # << >>
        /\ IsCourse(Course) /\ TodoIs(Course, todo[r])
        /\ Course.micros[Done(Course, todo[r]) + 1] = Micros(p)
  BY <1>1, <1>4, AtHead DEF AtMiniBatch
<1>6. PICK k \in Nat \ {0} : k = Settled(r) /\ k = Needs(p) /\ (conf.vpp = 1 => k <= Len(p)) /\ k = Micros(p)
  <2>1. Settled(r) = Needs(p) /\ Dynamic
    BY <1>1, <1>5, SettledIs
  <2>2. Needs(p) \in Nat \ {0} /\ (conf.vpp = 1 => Needs(p) <= Len(p))
    BY <1>2, <1>5, NeedsType
  <2> QED BY <2>1, <2>2 DEF Micros
<1>7. PICK lens : lens = TokensAt(r, p)
  OBVIOUS
<1>8. PICK parts : parts = get_seqlen_balanced_partitions(lens, k, FALSE)
  OBVIOUS
<1>9. /\ CanPartition(lens, k, FALSE) <=> k <= Len(p)
      /\ k <= Len(p) => Partitioned(lens, k, FALSE, parts) /\ UnequalParts(lens, Len(p), k, ResponseLength, parts)
  BY <1>2, <1>5, <1>7, <1>8, Parted
<1>10. CASE k <= Len(p)
  <2>1. /\ plan' = [plan EXCEPT ![r] = Rearranged(p, parts)]
        /\ stage' = [stage EXCEPT ![r] = "running"]
        /\ ran' = [ran EXCEPT ![r] = 0]
        /\ UNCHANGED <<driver, held, todo, order, log, trained>>
    <3>1. CanPartition(lens, k, FALSE) /\ Partitioned(lens, k, FALSE, parts)
      BY <1>9, <1>10
    <3>2. /\ lens = TokensAt(r, Head(todo[r])) /\ parts = get_seqlen_balanced_partitions(lens, Settled(r), FALSE)
          /\ CanPartition(lens, Settled(r), FALSE) /\ Partitioned(lens, Settled(r), FALSE, parts)
      BY <1>5, <1>6, <1>7, <1>8, <3>1
    <3> QED BY <1>5, <3>2 DEF Rearrange
  <2>2. parts \in [1 .. k -> Seq(1 .. Len(p))]
    BY <1>9, <1>10 DEF UnequalParts
  <2>3. PICK np : np = Rearranged(p, parts)
    OBVIOUS
  <2>4. Len(np) = k
    <3>1. np = [j \in 1 .. k |-> [i \in DOMAIN parts[j] |-> p[parts[j][i]]]]
      BY <2>2, <2>3 DEF Rearranged
    <3> QED BY <3>1
  <2>5. RankIs(Course, r, "running", todo[r], np, 0, log[r])
    <3>1. Len(np) = Course.micros[Done(Course, todo[r]) + 1]
      BY <1>5, <1>6, <2>4
    <3> QED BY <1>3, <1>4, <1>5, <3>1, RunIs
  <2>6. Moves(r)
    BY <1>2, <2>1 DEF Moves, Shapes, driver
  <2>7. stage'[r] = "running" /\ todo'[r] = todo[r] /\ plan'[r] = np /\ ran'[r] = 0 /\ log'[r] = log[r]
    BY <1>2, <2>1, <2>3 DEF Shapes
  <2>8. RankIs(Course, r, stage'[r], todo'[r], plan'[r], ran'[r], log'[r])
    BY <2>5, <2>7
  <2>9. ran'[r] \in 0 .. Len(plan'[r])
    BY <2>4, <2>7
  <2> QED BY <1>1, <2>6, <2>8, <2>9, RankMoves
<1>11. CASE ~(k <= Len(p))
  <2>1. Raise(r)
    <3>1. ~CanPartition(lens, Settled(r), FALSE) /\ lens = TokensAt(r, Head(todo[r]))
      BY <1>5, <1>6, <1>7, <1>9, <1>11
    <3> QED BY <3>1 DEF Rearrange
  <2>2. conf.backend = "megatron"
    <3>1. conf.vpp # 1
      BY <1>6, <1>11
    <3> QED BY <1>2, <3>1, Backends DEF IsConf
  <2> QED BY <2>1, <2>2, RunningRaises
<1> QED BY <1>10, <1>11

LEMMA RunningCuts ==
  ASSUME Running, NEW r \in Rank, Cut(r)
  PROVE  Running'
<1>1. phase = "calling" /\ stage[r] = "next" /\ todo[r] # << >> /\ ~Dynamic
  BY DEF Cut, Dynamic
<1>2. /\ DriverAt /\ Shapes /\ IsConf(conf) /\ call \in 1 .. 5 /\ HeldAlike /\ PerGpuKnown(conf) /\ Startable(conf)
      /\ \A q \in Rank : AtRank(q)
  BY <1>1, AtCall
<1>3. RankIs(Course, r, "next", todo[r], plan[r], ran[r], log[r])
  BY <1>1, <1>2 DEF AtRank
<1>4. PICK n, p :
        /\ n \in Nat \ {0} /\ n = Len(held[0]) /\ p \in Seq(1 .. n) /\ p = Head(todo[r]) /\ p # << >>
        /\ IsCourse(Course) /\ TodoIs(Course, todo[r])
        /\ Course.micros[Done(Course, todo[r]) + 1] = Micros(p)
  BY <1>1, AtHead DEF AtMiniBatch
<1>5. PICK z \in Nat : z = MicroSize /\ (conf.given \notin {"total", "both"} => z > 0)
  BY <1>2, MicroSizeType
<1>6. PICK l \in Nat \ {0} : l = Len(p)
  <2>1. Len(p) \in Nat /\ Len(p) # 0
    BY <1>4
  <2> QED BY <2>1
<1>7. Course.asks = 0
  BY <1>1 DEF Course, Asks
<1>8. CASE z > 0 /\ (conf.multi_modal => EvenChunk(l, l \div z))
  <2>1. PICK np : np = IF conf.multi_modal THEN Chunk(p, l \div z) ELSE SplitBy(p, z)
    OBVIOUS
  <2>2. /\ plan' = [plan EXCEPT ![r] = np]
        /\ stage' = [stage EXCEPT ![r] = "running"]
        /\ ran' = [ran EXCEPT ![r] = 0]
        /\ UNCHANGED <<driver, held, todo, order, log, trained>>
    BY <1>4, <1>5, <1>6, <1>8, <2>1 DEF Cut
  <2>3. PICK m \in Nat : Len(np) = m /\ m = Micros(p)
    <3>1. Micros(p) = Fixed(l)
      BY <1>1, <1>6 DEF Micros
    <3>2. CASE conf.multi_modal
      <4>1. PICK q \in Nat : q = Quot(l, z)
        BY <1>5, <1>6, <1>8, Division
      <4>2. np = Chunk(p, q) /\ Fixed(l) = q
        BY <1>5, <1>8, <2>1, <3>2, <4>1 DEF Fixed, Quot
      <4>3. Len(np) = q
        <5>1. DOMAIN Chunk(p, q) = 1 .. q
          BY DEF Chunk
        <5> QED BY <4>1, <4>2, <5>1 DEF Chunk
      <4> QED BY <3>1, <4>2, <4>3
    <3>3. CASE ~conf.multi_modal
      <4>1. PICK q \in Nat : q = Up(l, z)
        BY <1>5, <1>6, <1>8, Ceiling
      <4>2. np = SplitBy(p, z) /\ Fixed(l) = q
        BY <1>5, <1>8, <2>1, <3>3, <4>1 DEF Fixed, Up
      <4>3. Len(np) = q
        BY <1>6, <4>1, <4>2 DEF SplitBy, Up
      <4> QED BY <3>1, <4>2, <4>3
    <3> QED BY <3>2, <3>3
  <2>4. RankIs(Course, r, "running", todo[r], np, 0, log[r])
    <3>1. Len(np) = Course.micros[Done(Course, todo[r]) + 1]
      BY <1>4, <2>3
    <3> QED BY <1>1, <1>3, <1>4, <1>7, <3>1, RunIs
  <2>6. Moves(r)
    BY <1>2, <2>2 DEF Moves, Shapes, driver
  <2>7. stage'[r] = "running" /\ todo'[r] = todo[r] /\ plan'[r] = np /\ ran'[r] = 0 /\ log'[r] = log[r]
    BY <1>2, <2>2 DEF Shapes
  <2>8. RankIs(Course, r, stage'[r], todo'[r], plan'[r], ran'[r], log'[r])
    BY <2>4, <2>7
  <2>9. ran'[r] \in 0 .. Len(plan'[r])
    BY <2>3, <2>7
  <2> QED BY <1>1, <2>6, <2>8, <2>9, RankMoves
<1>9. CASE ~(z > 0 /\ (conf.multi_modal => EvenChunk(l, l \div z)))
  <2>1. Raise(r)
    BY <1>4, <1>5, <1>6, <1>9 DEF Cut
  <2>2. conf.multi_modal \/ conf.backend = "megatron"
    <3>1. SUFFICES ASSUME ~conf.multi_modal PROVE FALSE
      OBVIOUS
    <3>2. conf.given \in {"total", "both"}
      BY <1>5, <1>9, <3>1
    <3>3. OneForm(conf)
      <4>1. ~conf.dynamic
        BY <1>1, <3>1 DEF Dynamic
      <4> QED BY <1>2, <4>1 DEF Startable, Valid
    <3> QED BY <1>2, <3>2, <3>3 DEF OneForm, PerGpuKnown
  <2> QED BY <2>1, <2>2, RunningRaises
<1> QED BY <1>8, <1>9

LEMMA RunningForwards ==
  ASSUME Running, NEW r \in Rank, Forward(r)
  PROVE  Running'
<1>0. ASSUME ~AccumulationKnown PROVE Running'
  <2>1. Raise(r)
    BY <1>0 DEF Forward
  <2>2. conf.multi_modal
    <3>1. phase = "calling"
      BY DEF Forward
    <3>2. conf.multi_modal \in BOOLEAN
      BY <3>1, AtCall, ConfNumbers
    <3> QED BY <1>0, <3>2 DEF AccumulationKnown
  <2> QED BY <2>1, <2>2, RunningRaises
<1>00. SUFFICES ASSUME AccumulationKnown PROVE Running'
  BY <1>0
<1>1. phase = "calling" /\ stage[r] = "running" /\ ran[r] < Len(plan[r])
  BY DEF Forward
<1>2. /\ Shapes /\ IsConf(conf) /\ call \in 1 .. 5 /\ HeldAlike /\ \A q \in Rank : AtRank(q)
  BY <1>1, AtCall
<1>3. RankIs(Course, r, "running", todo[r], plan[r], ran[r], log[r])
  BY <1>1, <1>2 DEF AtRank
<1>4. todo[r] # << >>
  BY <1>3 DEF RankIs
<1>5. IsCourse(Course)
  BY <1>1, <1>4, AtHead DEF AtMiniBatch
<1>6. PICK e \in Entries : e = [op |-> "forward"] /\ e.op = "forward"
  <2>1. [op |-> "forward"] \in [op : {"forward", "step"}]
    OBVIOUS
  <2>2. [op |-> "forward"].op = "forward"
    OBVIOUS
  <2> QED BY <2>1, <2>2 DEF Entries
<1>7. /\ log' = [log EXCEPT ![r] = Append(@, e)] /\ ran' = [ran EXCEPT ![r] = @ + 1]
      /\ UNCHANGED <<driver, held, stage, todo, plan>>
  BY <1>00, <1>6 DEF Forward, Join
<1>8. DOMAIN trained' = Rank /\ \A q \in Rank : DOMAIN (trained'[q]) = DOMAIN trained[q]
  <2>1. DOMAIN trained = Rank
    BY <1>2 DEF Shapes
  <2>2. PICK part : part = plan[r][ran[r] + 1]
    OBVIOUS
  <2>3. trained' = IF Calls[call] \notin Updates THEN trained
                   ELSE [trained EXCEPT ![r] =
                           [i \in DOMAIN @ |-> @[i] + IF i \in {part[k] : k \in DOMAIN part} THEN Weight(r, part, i) ELSE 0]]
    BY <1>00, <2>2 DEF Forward
  <2>4. CASE Calls[call] \notin Updates
    BY <2>1, <2>3, <2>4
  <2>5. CASE Calls[call] \in Updates
    <3>1. PICK f : f = [i \in DOMAIN trained[r] |->
                          trained[r][i] + IF i \in {part[k] : k \in DOMAIN part} THEN Weight(r, part, i) ELSE 0]
      OBVIOUS
    <3>2. DOMAIN f = DOMAIN trained[r]
      BY <3>1
    <3>3. trained' = [trained EXCEPT ![r] = f]
      BY <2>3, <2>5, <3>1
    <3> QED BY <2>1, <3>2, <3>3
  <2> QED BY <2>4, <2>5
<1>9. RankIs(Course, r, "running", todo[r], plan[r], ran[r] + 1, Append(log[r], e))
  BY <1>1, <1>3, <1>5, <1>6, ForwardIs
<1>10. Moves(r)
  BY <1>2, <1>7, <1>8 DEF Moves, Shapes, driver
<1>11. stage'[r] = "running" /\ todo'[r] = todo[r] /\ plan'[r] = plan[r] /\ ran'[r] = ran[r] + 1 /\ log'[r] = Append(log[r], e)
  BY <1>1, <1>2, <1>7 DEF Shapes
<1>12. RankIs(Course, r, stage'[r], todo'[r], plan'[r], ran'[r], log'[r])
  BY <1>9, <1>11
<1>13. ran'[r] \in 0 .. Len(plan'[r])
  BY <1>9, <1>11 DEF RankIs
<1> QED BY <1>1, <1>10, <1>12, <1>13, RankMoves

LEMMA RunningSteps ==
  ASSUME Running, NEW r \in Rank, Step(r)
  PROVE  Running'
<1>1. phase = "calling" /\ stage[r] = "running" /\ ran[r] = Len(plan[r])
  BY DEF Step
<1>2. /\ Shapes /\ IsConf(conf) /\ call \in 1 .. 5 /\ HeldAlike /\ \A q \in Rank : AtRank(q)
  BY <1>1, AtCall
<1>3. RankIs(Course, r, "running", todo[r], plan[r], ran[r], log[r])
  BY <1>1, <1>2 DEF AtRank
<1>4. todo[r] # << >>
  BY <1>3 DEF RankIs
<1>5. IsCourse(Course)
  BY <1>1, <1>4, AtHead DEF AtMiniBatch
<1>6. PICK e \in Entries : e = [op |-> "step"] /\ e.op = "step"
  <2>1. [op |-> "step"] \in [op : {"forward", "step"}]
    OBVIOUS
  <2>2. [op |-> "step"].op = "step"
    OBVIOUS
  <2> QED BY <2>1, <2>2 DEF Entries
<1>7. /\ log' = IF Calls[call] \in Updates THEN [log EXCEPT ![r] = Append(@, e)] ELSE log
      /\ todo' = [todo EXCEPT ![r] = Tail(@)] /\ stage' = [stage EXCEPT ![r] = "next"]
      /\ UNCHANGED <<driver, held, plan, ran, order, trained>>
  BY <1>6 DEF Step, Join
<1>8. PICK after : after = IF Course.steps = 1 THEN Append(log[r], e) ELSE log[r]
  OBVIOUS
<1>9. RankIs(Course, r, "next", Tail(todo[r]), plan[r], ran[r], after)
  BY <1>1, <1>3, <1>5, <1>6, <1>8, StepIs
<1>10. Moves(r)
  BY <1>2, <1>7 DEF Moves, Shapes, driver
<1>11. stage'[r] = "next" /\ todo'[r] = Tail(todo[r]) /\ plan'[r] = plan[r] /\ ran'[r] = ran[r]
  BY <1>1, <1>2, <1>7 DEF Shapes
<1>12. log'[r] = after
  <2>1. Course.steps = IF Calls[call] \in Updates THEN 1 ELSE 0
    BY DEF Course, Steps
  <2>2. CASE Calls[call] \in Updates
    BY <1>2, <1>7, <1>8, <2>1, <2>2 DEF Shapes
  <2>3. CASE Calls[call] \notin Updates
    BY <1>2, <1>7, <1>8, <2>1, <2>3 DEF Shapes
  <2> QED BY <2>2, <2>3
<1>13. RankIs(Course, r, stage'[r], todo'[r], plan'[r], ran'[r], log'[r])
  BY <1>9, <1>11, <1>12
<1>14. ran'[r] \in 0 .. Len(plan'[r])
  BY <1>2, <1>11 DEF Shapes
<1> QED BY <1>1, <1>10, <1>13, <1>14, RankMoves

LEMMA RunningFinishes ==
  ASSUME Running, NEW r \in Rank, Finish(r)
  PROVE  Running'
<1>1. phase = "calling" /\ stage[r] = "next" /\ todo[r] = << >>
  BY DEF Finish
<1>2. /\ Shapes /\ IsConf(conf) /\ call \in 1 .. 5 /\ HeldAlike /\ \A q \in Rank : AtRank(q)
  BY <1>1, AtCall
<1>3. RankIs(Course, r, "next", todo[r], plan[r], ran[r], log[r])
  BY <1>1, <1>2 DEF AtRank
<1>4. CASE conf.dynamic /\ conf.multi_modal /\ Calls[call] \notin Updates
  <2>1. Raise(r)
    BY <1>4 DEF Finish
  <2> QED BY <1>4, <2>1, RunningRaises
<1>5. CASE ~(conf.dynamic /\ conf.multi_modal /\ Calls[call] \notin Updates)
  <2>1. stage' = [stage EXCEPT ![r] = "returned"] /\ UNCHANGED <<driver, held, todo, plan, ran, order, log, trained>>
    BY <1>5 DEF Finish
  <2>2. IsCourse(Course)
    <3>1. Course.can
      BY <1>3 DEF RankIs
    <3> QED BY <1>2, <3>1, CourseIs
  <2>3. RankIs(Course, r, "returned", todo[r], plan[r], ran[r], log[r])
    BY <1>1, <1>3, <2>2, FinishIs
  <2>4. Moves(r)
    BY <1>2, <2>1 DEF Moves, Shapes, driver
  <2>5. stage'[r] = "returned" /\ todo'[r] = todo[r] /\ plan'[r] = plan[r] /\ ran'[r] = ran[r] /\ log'[r] = log[r]
    BY <1>2, <2>1 DEF Shapes
  <2>6. RankIs(Course, r, stage'[r], todo'[r], plan'[r], ran'[r], log'[r])
    BY <2>3, <2>5
  <2>7. ran'[r] \in 0 .. Len(plan'[r])
    BY <1>2, <2>5 DEF Shapes
  <2> QED BY <1>1, <2>4, <2>6, <2>7, RankMoves
<1> QED BY <1>4, <1>5

LEMMA RunningStays ==
  ASSUME Running, UNCHANGED vars
  PROVE  Running'
<1>1. DriverAt /\ Shapes /\ RanksAt /\ TextNeverFails
  BY DEF Running
<1>2. UNCHANGED <<conf, phase, batch, numbers, adv, call>> /\ UNCHANGED <<held, stage, todo, plan, ran, log, trained>>
  BY DEF vars, driver, ranks
<1>3. Shapes' /\ RanksAt'
  BY <1>1, <1>2, RanksStay
<1>4. DriverAt'
  BY <1>1, <1>2 DEF DriverAt
<1>5. TextNeverFails'
  BY <1>1, <1>2 DEF TextNeverFails, CanEstimate
<1> QED BY <1>3, <1>4, <1>5 DEF Running

LEMMA RunningInductive ==
  ASSUME Running, [Next]_vars
  PROVE  Running'
<1>1. ASSUME NEW r \in Rank, RankStep(r) PROVE Running'
  <2>1. CASE Begin(r)
    BY <2>1, RunningBegins
  <2>2. CASE Ask(r)
    BY <2>2, RunningAsks
  <2>3. CASE Rearrange(r)
    BY <2>3, RunningRearranges
  <2>4. CASE Cut(r)
    BY <2>4, RunningCuts
  <2>5. CASE Forward(r)
    BY <2>5, RunningForwards
  <2>6. CASE Step(r)
    BY <2>6, RunningSteps
  <2>7. CASE Finish(r)
    BY <2>7, RunningFinishes
  <2> QED BY <1>1, <2>1, <2>2, <2>3, <2>4, <2>5, <2>6, <2>7 DEF RankStep
<1>2. CASE AdjustBatch
  BY <1>2, RunningAdjusts
<1>3. CASE BalanceBatch
  BY <1>3, RunningBalances
<1>4. CASE Call
  BY <1>4, RunningCalls
<1>5. CASE Return
  BY <1>5, RunningReturns
<1>6. CASE ComputeAdvantage
  BY <1>6, RunningAdvises
<1>7. CASE UNCHANGED vars
  BY <1>7, RunningStays
<1>8. CASE Over
  <2>1. UNCHANGED vars
    BY <1>8 DEF Over
  <2> QED BY <2>1, RunningStays
<1> QED BY <1>1, <1>2, <1>3, <1>4, <1>5, <1>6, <1>7, <1>8 DEF Next, DriverStep

LEMMA LogsMatch ==
  ASSUME NEW C, IsCourse(C), NEW q, NEW r, NEW lq, NEW lr, LogIs(C, q, lq), LogIs(C, r, lr)
  PROVE  /\ \A k \in DOMAIN lq \intersect DOMAIN lr : lq[k].op = lr[k].op
         /\ Len(lq) = C.start[Len(C.works)] => Len(lr) <= Len(lq)
<1>1. PICK x \in Seq(Entries), y \in Seq(Entries) : x = lq /\ y = lr
  BY DEF LogIs
<1>2. ASSUME NEW k \in DOMAIN x \intersect DOMAIN y PROVE x[k].op = y[k].op
  <2>1. k \in 1 .. Len(lq) /\ k \in 1 .. Len(lr)
    BY <1>1
  <2>2. lq[k].op = OpAt(k, C.start, Len(C.works), C.asks, C.steps) /\ lr[k].op = OpAt(k, C.start, Len(C.works), C.asks, C.steps)
    BY <2>1 DEF LogIs
  <2> QED BY <1>1, <2>2
<1>3. Len(lr) <= C.start[Len(C.works)]
  BY DEF LogIs
<1> QED BY <1>1, <1>2, <1>3

LEMMA RunningMatches ==
  ASSUME Running
  PROVE  CollectivesMatch
<1>1. RanksAt /\ DriverAt
  BY DEF Running
<1>2. CASE call = 0
  <2>1. \A r \in Rank : stage[r] = "idle" /\ log[r] = << >>
    BY <1>1, <1>2 DEF RanksAt
  <2>2. DOMAIN << >> = {}
    OBVIOUS
  <2> QED BY <2>1, <2>2 DEF CollectivesMatch
<1>3. CASE call # 0
  <2>1. call \in 1 .. 5 /\ HeldAlike /\ IsConf(conf) /\ \A r \in Rank : AtRank(r)
    <3>1. call \in 0 .. 5 /\ IsConf(conf)
      BY <1>1 DEF DriverAt
    <3>2. call > 0
      BY <1>3, <3>1
    <3> QED BY <1>1, <3>1, <3>2 DEF RanksAt
  <2>2. ASSUME NEW q \in Rank, NEW r \in Rank
        PROVE  /\ \A k \in DOMAIN log[q] \intersect DOMAIN log[r] : log[q][k].op = log[r][k].op
               /\ stage[q] = "returned" => Len(log[r]) <= Len(log[q])
    <3>1. RankIs(Course, q, stage[q], todo[q], plan[q], ran[q], log[q]) /\ RankIs(Course, r, stage[r], todo[r], plan[r], ran[r], log[r])
      BY <2>1 DEF AtRank
    <3>2. CASE stage[q] = "called"
      <4>1. log[q] = << >>
        BY <3>1, <3>2 DEF RankIs
      <4> QED BY <3>2, <4>1
    <3>3. CASE stage[q] # "called"
      <4>1. Course.can /\ LogIs(Course, q, log[q]) /\ TodoIs(Course, todo[q])
        BY <3>1, <3>3 DEF RankIs
      <4>2. IsCourse(Course)
        BY <2>1, <4>1, CourseIs
      <4>3. PICK m \in Nat : m = Len(log[q])
        BY <4>1 DEF LogIs
      <4>4. CASE stage[r] = "called"
        <5>1. log[r] = << >>
          BY <3>1, <4>4 DEF RankIs
        <5>2. Len(<< >>) = 0 /\ DOMAIN << >> = {}
          OBVIOUS
        <5>3. Len(log[r]) <= Len(log[q])
          BY <4>3, <5>1, <5>2
        <5> QED BY <5>1, <5>2, <5>3
      <4>5. CASE stage[r] # "called"
        <5>1. LogIs(Course, r, log[r])
          BY <3>1, <4>5 DEF RankIs
        <5>2. /\ \A k \in DOMAIN log[q] \intersect DOMAIN log[r] : log[q][k].op = log[r][k].op
              /\ Len(log[q]) = Course.start[Len(Course.works)] => Len(log[r]) <= Len(log[q])
          BY <4>1, <4>2, <5>1, LogsMatch
        <5>3. ASSUME stage[q] = "returned" PROVE Len(log[q]) = Course.start[Len(Course.works)]
          <6>1. todo[q] = << >> /\ Len(log[q]) = Course.start[Done(Course, todo[q])]
            BY <3>1, <5>3 DEF RankIs
          <6>2. Done(Course, todo[q]) = Len(Course.works)
            BY <4>1, <4>2, <6>1, DoneType
          <6> QED BY <6>1, <6>2
        <5> QED BY <5>2, <5>3
      <4> QED BY <4>4, <4>5
    <3> QED BY <3>2, <3>3
  <2> QED BY <2>2 DEF CollectivesMatch
<1> QED BY <1>2, <1>3

LEMMA RunningTyped ==
  ASSUME Running
  PROVE  TypeOK
<1>1. DriverAt /\ Shapes /\ RanksAt
  BY DEF Running
<1>2. ASSUME NEW r \in Rank PROVE stage[r] \in {"idle", "called", "next", "asking", "running", "returned"}
  <2>1. CASE call = 0
    BY <1>1, <2>1 DEF RanksAt
  <2>2. CASE call # 0
    <3>1. call > 0
      BY <1>1, <2>2 DEF DriverAt
    <3> QED BY <1>1, <3>1 DEF RanksAt, AtRank, RankIs
  <2> QED BY <2>1, <2>2
<1>3. /\ conf \in {c.conf : c \in Cases} /\ call \in 0 .. Len(Calls) /\ DOMAIN numbers \subseteq Range(Calls)
      /\ phase \in {"collected", "adjusted", "ready", "calling", "advised", "done", "failed"}
  BY <1>1, CallsLen DEF DriverAt
<1>4. \A r \in Rank : ran[r] \in 0 .. Len(plan[r]) /\ DOMAIN trained[r] = DOMAIN held[r]
  BY <1>1 DEF Shapes
<1> QED BY <1>2, <1>3, <1>4 DEF TypeOK

(* The driver, the ranks and what they have joined are where the course of  *)
(* the call says, in every state of a step: the inductive invariant.        *)
THEOREM StepInduction == Spec => []Running
<1>1. Init => Running
  BY StartsRunning
<1>2. Running /\ [Next]_vars => Running'
  BY RunningInductive
<1> QED BY <1>1, <1>2, PTL DEF Spec

(* No rank waits in a collective another never joins, and a step of text    *)
(* rows on FSDP workers fails on none of fit's and the workers' assertions. *)
THEOREM StepInStep == Spec => []InStep
<1>1. Running => InStep
  <2>1. Running => TextNeverFails
    BY DEF Running
  <2> QED BY <2>1, RunningTyped, RunningMatches DEF InStep
<1> QED BY <1>1, StepInduction, PTL

----------------------------------------------------------------------------
(* Sums over other numbers of the same rows *)

Image(p, P) == {p[x] : x \in P}

(* Rows counted where they are sum up to no more than rows counted as often *)
(* as they are named, and to as much where none is named twice.             *)
LEMMA SumOfImage ==
  ASSUME NEW l \in Nat, NEW n \in Nat, NEW f \in [1 .. n -> Nat], NEW p \in [1 .. l -> 1 .. n], NEW g \in [1 .. l -> Nat],
         \A x \in 1 .. l : g[x] = f[p[x]], NEW P \in SUBSET (1 .. l)
  PROVE  /\ SumOf(f, Image(p, P), n) <= SumOf(g, P, l)
         /\ (\A x, y \in P : p[x] = p[y] => x = y) => SumOf(f, Image(p, P), n) = SumOf(g, P, l)
<1> DEFINE Once1 == \A x, y \in P : p[x] = p[y] => x = y
           Less(j) == /\ SumOf(f, Image(p, P \cap 1 .. j), n) <= SumOf(g, P \cap 1 .. j, l)
                      /\ Once1 => SumOf(f, Image(p, P \cap 1 .. j), n) = SumOf(g, P \cap 1 .. j, l)
           Bad == {j \in 0 .. l : ~Less(j)}
<1>0. f \in [1 .. n -> Int] /\ g \in [1 .. l -> Int]
  OBVIOUS
<1>1. Less(0)
  <2>1. P \cap 1 .. 0 = {} /\ Image(p, {}) = {}
    BY DEF Image
  <2>2. PICK z : z = SumOf(f, {}, n) /\ z = SumOf(g, {}, l) /\ z = 0
    BY <1>0, SumEmpty
  <2>3. z <= z
    BY <2>2
  <2> QED BY <2>1, <2>2, <2>3
<1>2. ASSUME NEW j \in 1 .. l, Less(j - 1) PROVE Less(j)
  <2>1. PICK A \in SUBSET (1 .. l), B \in SUBSET (1 .. n) : A = P \cap 1 .. j - 1 /\ B = Image(p, A)
    <3>1. PICK A \in SUBSET (1 .. l) : A = P \cap 1 .. j - 1
      OBVIOUS
    <3>2. Image(p, A) \in SUBSET (1 .. n)
      BY DEF Image
    <3> QED BY <3>1, <3>2
  <2>2. PICK a \in Int, b \in Int : a = SumOf(g, A, l) /\ b = SumOf(f, B, n) /\ b <= a /\ (Once1 => b = a)
    <3>1. SumOf(g, A, l) \in Int /\ SumOf(f, B, n) \in Int
      BY <1>0, SumType
    <3> QED BY <1>2, <2>1, <3>1
  <2>3. CASE j \notin P
    <3>1. P \cap 1 .. j = A
      BY <2>1, <2>3, SMTT(30)
    <3> QED BY <2>1, <2>2, <3>1
  <2>4. CASE j \in P
    <3>1. PICK C \in SUBSET (1 .. l), y \in 1 .. n : C = P \cap 1 .. j /\ y = p[j] /\ j \in C /\ C \ {j} = A
      <4>1. PICK C : C = P \cap 1 .. j
        OBVIOUS
      <4>2. \A x : x \in C <=> (x \in A \/ x = j)
        <5>1. \A x : x \in 1 .. j <=> (x \in 1 .. j - 1 \/ x = j)
          OBVIOUS
        <5>2. C = P \cap (1 .. j) /\ A = P \cap (1 .. j - 1)
          BY <2>1, <4>1
        <5> QED BY <2>4, <5>1, <5>2
      <4>3. j \notin A
        BY <2>1
      <4>4. C \in SUBSET (1 .. l) /\ j \in C /\ C \ {j} = A
        BY <4>2, <4>3
      <4>5. p[j] \in 1 .. n
        OBVIOUS
      <4> QED BY <4>1, <4>4, <4>5
    <3>2. SumOf(g, C, l) = g[j] + SumOf(g, A, l)
      <4>1. SumOf(g, C, l) = g[j] + SumOf(g, C \ {j}, l)
        BY <1>0, <3>1, SumMore
      <4> QED BY <3>1, <4>1
    <3>3. PICK v \in Nat : v = g[j] /\ v = f[y]
      BY <3>1
    <3>4. Image(p, C) = B \cup {y}
      BY <2>1, <3>1, ZenonT(40) DEF Image
    <3>5. CASE y \in B
      <4>1. B \cup {y} = B
        BY <3>5
      <4>2. b <= v + a
        BY <2>2, <3>3
      <4>3. ~Once1
        <5>1. PICK x \in A : p[x] = y
          BY <2>1, <3>5 DEF Image
        <5>2. x \in P /\ j \in P /\ x # j
          BY <2>1, <2>4, <5>1
        <5> QED BY <3>1, <5>1, <5>2
      <4>4. SumOf(f, Image(p, C), n) = b /\ SumOf(g, C, l) = v + a
        BY <2>2, <3>2, <3>3, <3>4, <4>1
      <4> QED BY <3>1, <4>2, <4>3, <4>4
    <3>6. CASE y \notin B
      <4>1. (B \cup {y}) \ {y} = B /\ y \in B \cup {y}
        BY <3>6
      <4>2. SumOf(f, B \cup {y}, n) = f[y] + SumOf(f, (B \cup {y}) \ {y}, n)
        BY <1>0, <4>1, SumMore
      <4>3. SumOf(f, Image(p, C), n) = v + b /\ SumOf(g, C, l) = v + a
        BY <2>2, <3>2, <3>3, <3>4, <4>1, <4>2
      <4>4. v + b <= v + a /\ (Once1 => v + b = v + a)
        BY <2>2
      <4> QED BY <3>1, <4>3, <4>4
    <3> QED BY <3>5, <3>6
  <2> QED BY <2>3, <2>4
<1>3. Bad = {}
  <2> HIDE DEF Less
  <2>1. SUFFICES ASSUME Bad # {} PROVE FALSE
    OBVIOUS
  <2>2. PICK j \in Bad : \A y \in Bad : j <= y
    <3>1. Bad \subseteq Nat
      OBVIOUS
    <3> HIDE DEF Bad
    <3> QED BY <2>1, <3>1, LeastNatural
  <2>3. j \in 0 .. l /\ ~Less(j)
    BY <2>2
  <2>4. j # 0
    BY <1>1, <2>3
  <2>5. j \in 1 .. l /\ j - 1 \in 0 .. l /\ ~(j <= j - 1)
    BY <2>3, <2>4
  <2>6. Less(j - 1)
    <3>1. j - 1 \notin Bad
      <4> HIDE DEF Bad
      <4> QED BY <2>2, <2>5
    <3> QED BY <2>5, <3>1
  <2> QED BY <1>2, <2>3, <2>5, <2>6
<1>4. Less(l)
  <2> HIDE DEF Less
  <2>1. l \in 0 .. l
    OBVIOUS
  <2>2. l \notin Bad
    <3> HIDE DEF Bad
    <3> QED BY <1>3
  <2> QED BY <2>1, <2>2
<1>5. P \cap 1 .. l = P
  OBVIOUS
<1> QED BY <1>4, <1>5

TokensOfParts(lens, parts, k) == [i \in 1 .. k |-> Tokens(lens, parts[i])]

HasAll(parts, k, l) == \A x \in 1 .. l : x \in RowsIn(parts, k)

(* The tokens of all rows are those of all parts. *)
LEMMA SumOfParts ==
  ASSUME NEW l \in Nat, NEW lens \in [1 .. l -> Int], NEW k \in Nat, NEW parts \in [1 .. k -> Seq(1 .. l)],
         Apart(parts, k), HasAll(parts, k, l)
  PROVE  /\ TokensOfParts(lens, parts, k) \in [1 .. k -> Int]
         /\ SumOf(lens, 1 .. l, l) = SumOf(TokensOfParts(lens, parts, k), 1 .. k, k)
<1> DEFINE First(j) == UNION {Range(parts[i]) : i \in 1 .. j}
<1>1. PICK t \in [1 .. k -> Int] : t = TokensOfParts(lens, parts, k) /\ \A i \in 1 .. k : t[i] = SumOf(lens, Range(parts[i]), l)
  <2>1. \A i \in 1 .. k : Tokens(lens, parts[i]) \in Int /\ Tokens(lens, parts[i]) = SumOf(lens, Range(parts[i]), l)
    <3> TAKE i \in 1 .. k
    <3>1. PICK a \in Seq(1 .. l) : a = parts[i]
      OBVIOUS
    <3>2. Tokens(lens, a) \in Int /\ Tokens(lens, a) = SumOf(lens, Range(a), l)
      BY TokensType, TokensSum
    <3> QED BY <3>1, <3>2
  <2>2. PICK t : t = TokensOfParts(lens, parts, k)
    OBVIOUS
  <2>3. t = [i \in 1 .. k |-> Tokens(lens, parts[i])]
    BY <2>2 DEF TokensOfParts
  <2>4. t \in [1 .. k -> Int] /\ \A i \in 1 .. k : t[i] = SumOf(lens, Range(parts[i]), l)
    BY <2>1, <2>3
  <2> QED BY <2>2, <2>4
<1> DEFINE Good(j) == SumOf(lens, First(j), l) = SumOf(t, 1 .. j, k)
           Bad == {j \in 0 .. k : ~Good(j)}
<1>2. Good(0)
  <2>1. First(0) = {} /\ 1 .. 0 = {}
    OBVIOUS
  <2>2. SumOf(lens, {}, l) = 0 /\ SumOf(t, {}, k) = 0
    BY SumEmpty
  <2> QED BY <2>1, <2>2
<1>3. ASSUME NEW j \in 1 .. k, Good(j - 1) PROVE Good(j)
  <2>1. PICK A, B : A = First(j - 1) /\ B = Range(parts[j])
    OBVIOUS
  <2>2. First(j) = A \cup B
    <3>1. 1 .. j = (1 .. j - 1) \cup {j}
      OBVIOUS
    <3> QED BY <2>1, <3>1
  <2>3. \A x \in 1 .. l : ~(x \in A /\ x \in B)
    <3> SUFFICES ASSUME NEW x \in 1 .. l, x \in A, x \in B PROVE FALSE
      OBVIOUS
    <3>1. PICK i \in 1 .. j - 1 : x \in Range(parts[i])
      BY <2>1
    <3>2. PICK u \in DOMAIN parts[i], v \in DOMAIN parts[j] : parts[i][u] = x /\ parts[j][v] = x
      BY <2>1, <3>1 DEF Range
    <3>3. i \in 1 .. k /\ i # j
      OBVIOUS
    <3> QED BY <3>2, <3>3 DEF Apart
  <2>4. SumOf(lens, A \cup B, l) = SumOf(lens, A, l) + SumOf(lens, B, l)
    BY <2>3, SumApart
  <2>5. SumOf(t, 1 .. j, k) = t[j] + SumOf(t, 1 .. j - 1, k)
    <3>1. PICK C : C = 1 .. j /\ j \in C /\ C \ {j} = 1 .. j - 1
      BY SMTT(30)
    <3>2. SumOf(t, C, k) = t[j] + SumOf(t, C \ {j}, k)
      BY <3>1, SumMore, ZenonT(40)
    <3> QED BY <3>1, <3>2
  <2>6. SumOf(lens, A, l) = SumOf(t, 1 .. j - 1, k) /\ SumOf(lens, B, l) = t[j]
    BY <1>1, <1>3, <2>1
  <2>7. PICK x \in Int, y \in Int : x = SumOf(t, 1 .. j - 1, k) /\ y = t[j]
    <3>1. SumOf(t, 1 .. j - 1, k) \in Int
      BY SumType
    <3>2. t[j] \in Int
      OBVIOUS
    <3> QED BY <3>1, <3>2
  <2>8. SumOf(t, 1 .. j, k) = y + x /\ SumOf(lens, First(j), l) = x + y
    <3> HIDE DEF First
    <3> QED BY <2>2, <2>4, <2>5, <2>6, <2>7
  <2>9. y + x = x + y
    BY <2>7
  <2> QED BY <2>8, <2>9
<1>4. Bad = {}
  <2> HIDE DEF Good
  <2>1. SUFFICES ASSUME Bad # {} PROVE FALSE
    OBVIOUS
  <2>2. PICK j \in Bad : \A y \in Bad : j <= y
    <3>1. Bad \subseteq Nat
      OBVIOUS
    <3> HIDE DEF Bad
    <3> QED BY <2>1, <3>1, LeastNatural
  <2>3. j \in 0 .. k /\ ~Good(j)
    BY <2>2
  <2>4. j # 0
    BY <1>2, <2>3
  <2>5. j \in 1 .. k /\ j - 1 \in 0 .. k /\ ~(j <= j - 1)
    BY <2>3, <2>4
  <2>6. Good(j - 1)
    <3>1. j - 1 \notin Bad
      <4> HIDE DEF Bad
      <4> QED BY <2>2, <2>5
    <3> QED BY <2>5, <3>1
  <2> QED BY <1>3, <2>3, <2>5, <2>6
<1>5. Good(k)
  <2> HIDE DEF Good
  <2>1. k \in 0 .. k
    OBVIOUS
  <2>2. k \notin Bad
    <3> HIDE DEF Bad
    <3> QED BY <1>4
  <2> QED BY <2>1, <2>2
<1>6. SumOf(lens, First(k), l) = SumOf(lens, 1 .. l, l)
  <2>1. \A x \in 1 .. l : x \in First(k) <=> x \in 1 .. l
    BY DEF HasAll, RowsIn
  <2>2. \A x \in 1 .. l : x \in First(k) => lens[x] = lens[x]
    OBVIOUS
  <2> HIDE DEF First
  <2> QED BY <2>1, <2>2, SumSame
<1> QED BY <1>1, <1>5, <1>6

(* One number that is above what all have makes the sum more. *)
LEMMA OneMore ==
  ASSUME NEW k \in Nat, NEW t \in [1 .. k -> Int], NEW m \in Int, \A i \in 1 .. k : m <= t[i],
         NEW j \in 1 .. k, m < t[j]
  PROVE  SumOf(t, 1 .. k, k) > m * k
<1>1. PICK u \in [1 .. k -> Int] : \A i \in 1 .. k : u[i] = m
  <2>1. [i \in 1 .. k |-> m] \in [1 .. k -> Int]
    OBVIOUS
  <2> QED BY <2>1
<1>2. PICK S \in SUBSET (1 .. k) : S = 1 .. k /\ j \in S
  OBVIOUS
<1>3. SumOf(u, S, k) = m * k
  <2>1. \A i \in S : u[i] = m
    BY <1>1
  <2>2. SumOf(u, S, k) = Cardinality(S) * m
    BY <2>1, SumEqual
  <2>3. Cardinality(S) = k
    BY <1>2, FS_Interval
  <2>4. k * m = m * k
    OBVIOUS
  <2> QED BY <2>2, <2>3, <2>4
<1>4. SumOf(u, S \ {j}, k) <= SumOf(t, S \ {j}, k)
  <2>1. PICK R : R = S \ {j}
    OBVIOUS
  <2>2. \A i \in 1 .. k : i \in R /\ i \in R => u[i] <= t[i]
    BY <1>1
  <2>3. \A i \in 1 .. k : i \in R /\ i \notin R => u[i] <= 0
    OBVIOUS
  <2>4. \A i \in 1 .. k : i \notin R /\ i \in R => 0 <= t[i]
    OBVIOUS
  <2>5. SumOf(u, R, k) <= SumOf(t, R, k)
    BY <2>2, <2>3, <2>4, SumMost
  <2> QED BY <2>1, <2>5
<1>5. SumOf(u, S, k) = u[j] + SumOf(u, S \ {j}, k) /\ SumOf(t, S, k) = t[j] + SumOf(t, S \ {j}, k)
  BY <1>2, SumMore, ZenonT(40)
<1>6. PICK a \in Int, b \in Int, c \in Int : a = SumOf(u, S \ {j}, k) /\ b = SumOf(t, S \ {j}, k) /\ c = t[j] /\ a <= b /\ m < c
  BY <1>4, SumType
<1>7. PICK x \in Int, y \in Int : x = SumOf(u, S, k) /\ y = SumOf(t, S, k)
  BY SumType
<1>8. x = m + a /\ y = c + b
  BY <1>1, <1>5, <1>6, <1>7
<1>9. y > x
  BY <1>6, <1>8, SMTT(30)
<1>10. PICK z \in Int : z = m * k
  OBVIOUS
<1>11. x = z
  BY <1>3, <1>7, <1>10
<1> QED BY <1>2, <1>7, <1>9, <1>10, <1>11

LEMMA MembersOf ==
  ASSUME NEW U, NEW a \in Seq(U)
  PROVE  \A i \in DOMAIN a : a[i] \in U
OBVIOUS

LEMMA RangeIn ==
  ASSUME NEW U, NEW a \in Seq(U)
  PROVE  Range(a) \in SUBSET U
BY MembersOf DEF Range

(* A part of one row has that row's tokens. *)
LEMMA OneRowEach ==
  ASSUME NEW l \in Nat \ {0}, NEW lens \in [1 .. l -> Nat \ {0}], NEW b \in Int, \A i \in 1 .. l : lens[i] <= b,
         NEW parts, UnequalParts(lens, l, l, b, parts), NEW j \in 1 .. l
  PROVE  Tokens(lens, parts[j]) <= b
<1>0. /\ parts \in [1 .. l -> Seq(1 .. l)] /\ Apart(parts, l) /\ \A i \in 1 .. l : parts[i] # << >>
      /\ HasAll(parts, l, l)
  BY DEF UnequalParts, HasAll
<1>1. PICK u \in [1 .. l -> Int] : \A i \in 1 .. l : u[i] = 1
  <2>1. [i \in 1 .. l |-> 1] \in [1 .. l -> Int]
    OBVIOUS
  <2> QED BY <2>1
<1>2. PICK t \in [1 .. l -> Int] : t = TokensOfParts(u, parts, l) /\ SumOf(u, 1 .. l, l) = SumOf(t, 1 .. l, l)
  BY <1>0, SumOfParts, ZenonT(40)
<1>3. SumOf(u, 1 .. l, l) = l
  <2>1. PICK S \in SUBSET (1 .. l) : S = 1 .. l
    OBVIOUS
  <2>2. SumOf(u, S, l) = Cardinality(S) * 1
    <3>1. 1 \in Int /\ \A i \in S : u[i] = 1
      BY <1>1
    <3> QED BY <3>1, SumEqual
  <2>3. Cardinality(S) = l
    BY <2>1, FS_Interval
  <2> QED BY <2>1, <2>2, <2>3
<1>4. ASSUME NEW i \in 1 .. l
      PROVE  /\ IsFiniteSet(Range(parts[i])) /\ Cardinality(Range(parts[i])) \in Nat \ {0}
             /\ t[i] = Cardinality(Range(parts[i])) /\ Range(parts[i]) \in SUBSET (1 .. l)
  <2>1. PICK a \in Seq(1 .. l) : a = parts[i] /\ a # << >>
    BY <1>0
  <2>2. PICK R \in SUBSET (1 .. l) : R = Range(a) /\ R # {}
    <3>1. Range(a) \in SUBSET (1 .. l)
      BY RangeIn
    <3>2. 1 \in DOMAIN a
      BY <2>1, SMTT(30)
    <3>3. a[1] \in Range(a)
      BY <3>2 DEF Range
    <3> QED BY <3>1, <3>3
  <2>3. t[i] = Tokens(u, a)
    BY <1>2, <2>1 DEF TokensOfParts
  <2>4. Tokens(u, a) = SumOf(u, R, l)
    BY <2>2, TokensSum
  <2>5. IsFiniteSet(R) /\ Cardinality(R) \in Nat /\ SumOf(u, R, l) = Cardinality(R) * 1
    <3>1. 1 \in Int /\ \A x \in R : u[x] = 1
      BY <1>1
    <3> QED BY <3>1, SumEqual
  <2>6. Cardinality(R) # 0
    BY <2>2, <2>5, FS_EmptySet
  <2>7. Cardinality(R) * 1 = Cardinality(R)
    BY <2>5
  <2> QED BY <2>1, <2>2, <2>3, <2>4, <2>5, <2>6, <2>7
<1>5. t[j] = 1
  <2>1. SUFFICES ASSUME t[j] # 1 PROVE FALSE
    OBVIOUS
  <2>2. 1 < t[j]
    <3>1. t[j] \in Nat \ {0}
      BY <1>4
    <3> QED BY <2>1, <3>1
  <2>3. \A i \in 1 .. l : 1 <= t[i]
    <3> TAKE i \in 1 .. l
    <3>1. t[i] \in Nat \ {0}
      BY <1>4
    <3> QED BY <3>1
  <2>4. 1 \in Int
    OBVIOUS
  <2>5. SumOf(t, 1 .. l, l) > 1 * l
    BY <2>2, <2>3, <2>4, OneMore
  <2>6. 1 * l = l
    OBVIOUS
  <2>7. l > l
    BY <1>2, <1>3, <2>5, <2>6
  <2> QED BY <2>7
<1>6. PICK x : Range(parts[j]) = {x}
  BY <1>4, <1>5, FS_Singleton
<1>7. x \in 1 .. l
  BY <1>4, <1>6
<1>8. Tokens(lens, parts[j]) = lens[x]
  <2>1. PICK a \in Seq(1 .. l) : a = parts[j] /\ Range(a) = {x}
    BY <1>0, <1>6
  <2>2. lens \in [1 .. l -> Int]
    OBVIOUS
  <2>3. Tokens(lens, a) = SumOf(lens, Range(a), l)
    BY <2>2, TokensSum
  <2>4. SumOf(lens, {x}, l) = lens[x]
    BY <1>7, <2>2, SumOne
  <2> QED BY <2>1, <2>3, <2>4
<1> QED BY <1>7, <1>8

IsTokens(lens, parts, k, t) == \A i \in 1 .. k : t[i] = Tokens(lens, parts[i])

LEMMA SumOfFound ==
  ASSUME NEW l \in Nat, NEW lens \in [1 .. l -> Int], NEW k \in Nat, NEW b,
         NEW parts, UnequalParts(lens, l, k, b, parts)
  PROVE  \E t \in [1 .. k -> Int] : IsTokens(lens, parts, k, t) /\ SumOf(lens, 1 .. l, l) = SumOf(t, 1 .. k, k)
<1>1. parts \in [1 .. k -> Seq(1 .. l)] /\ Apart(parts, k) /\ HasAll(parts, k, l)
  BY DEF UnequalParts, HasAll
<1>3. PICK t : t = TokensOfParts(lens, parts, k)
  OBVIOUS
<1>4. t \in [1 .. k -> Int] /\ SumOf(lens, 1 .. l, l) = SumOf(t, 1 .. k, k)
  <2>1. /\ TokensOfParts(lens, parts, k) \in [1 .. k -> Int]
        /\ SumOf(lens, 1 .. l, l) = SumOf(TokensOfParts(lens, parts, k), 1 .. k, k)
    BY <1>1, SumOfParts
  <2> QED BY <1>3, <2>1
<1>5. IsTokens(lens, parts, k, t)
  BY <1>3 DEF TokensOfParts, IsTokens
<1> QED BY <1>4, <1>5

(* As many parts as a rank needs, or more, are small enough. *)
LEMMA PartsBounded ==
  ASSUME NEW l \in Nat \ {0}, NEW lens \in [1 .. l -> Nat \ {0}], NEW b \in Int, \A i \in 1 .. l : lens[i] <= b,
         NEW m \in Nat \ {0}, NEW k \in Nat \ {0}, k <= l, OwnMicroBatches(lens, m) <= k,
         NEW parts, UnequalParts(lens, l, k, b, parts), NEW j \in 1 .. k
  PROVE  Tokens(lens, parts[j]) < m + b
<1>0. lens \in [1 .. l -> Int] /\ l \in Nat
  OBVIOUS
<1>00. k \in Nat
  OBVIOUS
<1>1. b >= 1
  <2>1. 1 \in 1 .. l
    OBVIOUS
  <2>2. lens[1] >= 1 /\ lens[1] <= b /\ lens[1] \in Int
    BY <2>1
  <2> QED BY <2>2
<1>2. CASE k = l
  <2>1. Tokens(lens, parts[j]) <= b
    BY <1>2, OneRowEach
  <2>2. Tokens(lens, parts[j]) \in Int
    <3>1. PICK a \in Seq(1 .. l) : a = parts[j]
      BY DEF UnequalParts
    <3> QED BY <1>0, <3>1, TokensType
  <2> QED BY <2>1, <2>2
<1>3. CASE k # l
  <2>12. Within(lens, k, b, parts)
    BY DEF UnequalParts
  <2>1. PICK o \in Nat : o = OwnMicroBatches(lens, m) /\ o <= k /\ SumOf(lens, 1 .. l, l) <= m * o
    <3>1. /\ OwnMicroBatches(lens, m) \in 1 .. l
          /\ OwnMicroBatches(lens, m) = l \/ SumOf(lens, 1 .. l, l) <= m * OwnMicroBatches(lens, m)
      BY OwnType
    <3>2. OwnMicroBatches(lens, m) # l
      BY <1>3
    <3> QED BY <3>1, <3>2
  <2>2. PICK t \in [1 .. k -> Int] : IsTokens(lens, parts, k, t) /\ SumOf(lens, 1 .. l, l) = SumOf(t, 1 .. k, k)
    BY <1>0, <1>00, SumOfFound
  <2>3. \A i \in 1 .. k : t[i] = Tokens(lens, parts[i])
    BY <2>2 DEF IsTokens
  <2>4. SUFFICES ASSUME ~(t[j] < m + b) PROVE FALSE
    BY <2>3
  <2>5. PICK c \in Int : c = t[j] /\ c >= m + b
    BY <2>4
  <2>6. ASSUME NEW i \in 1 .. k PROVE m <= t[i]
    <3>1. PICK e \in Int : e = t[i]
      OBVIOUS
    <3>2. c - e <= b
      BY <2>3, <2>5, <2>12, <3>1 DEF Within
    <3> QED BY <2>5, <3>1, <3>2
  <2>7. m < t[j]
    BY <1>1, <2>5
  <2>8. SumOf(t, 1 .. k, k) > m * k
    <3>1. m \in Int
      OBVIOUS
    <3> QED BY <2>6, <2>7, <3>1, OneMore
  <2>9. m * o <= m * k
    BY <2>1, NotLess
  <2>10. PICK x \in Int, y \in Int, z \in Int : x > y /\ z <= y /\ x <= z
    <3>1. SumOf(t, 1 .. k, k) \in Int /\ m * k \in Int /\ m * o \in Int
      BY SumType
    <3> QED BY <2>1, <2>2, <2>8, <2>9, <3>1
  <2> QED BY <2>10
<1> QED BY <1>2, <1>3

(* The tokens of all rows of a rank bound those of each. *)
LEMMA LongestRow ==
  ASSUME HeldAlike, NEW q \in Rank, NEW n \in Nat \ {0}, n = Len(held[0])
  PROVE  /\ TokensAt(q, Places(n)) \in [1 .. n -> Nat \ {0}]
         /\ \A i \in 1 .. n : TokensAt(q, Places(n))[i] = held[q][i].tokens
         /\ Max(Range(TokensAt(q, Places(n)))) \in Int
         /\ \A i \in 1 .. n : TokensAt(q, Places(n))[i] <= Max(Range(TokensAt(q, Places(n))))
<1>1. PICK p \in Seq(1 .. n) : p = Places(n) /\ Len(p) = n /\ \A i \in 1 .. n : p[i] = i
  BY PlacesType
<1>2. PICK f : f = TokensAt(q, p)
  OBVIOUS
<1>3. f \in [1 .. n -> 1 .. ResponseLength] /\ f \in [1 .. n -> Nat \ {0}]
  BY <1>1, <1>2, TokensAtType
<1>4. \A i \in 1 .. n : f[i] = held[q][i].tokens
  <2>1. f = [i \in 1 .. n |-> held[q][p[i]].tokens]
    BY <1>1, <1>2 DEF TokensAt
  <2> QED BY <1>1, <2>1
<1>5. PICK S : S = Range(f)
  OBVIOUS
<1>6. PICK m \in Nat : m = ResponseLength
  BY ResponseLengthAssumption
<1>7. S \subseteq 0 .. m /\ S # {}
  <2>1. \A x \in S : x \in 0 .. m
    <3> TAKE x \in S
    <3>1. PICK i \in 1 .. n : x = f[i]
      BY <1>3, <1>5 DEF Range
    <3>2. f[i] \in 1 .. m
      BY <1>3, <1>6
    <3> QED BY <3>1, <3>2
  <2>2. f[1] \in S
    BY <1>3, <1>5 DEF Range
  <2> QED BY <2>1, <2>2
<1>8. (\A x \in S : x <= Max(S)) /\ Max(S) \in 0 .. m
  BY <1>7, GreatestOf
<1>9. \A i \in 1 .. n : f[i] \in S
  BY <1>3, <1>5 DEF Range
<1>10. \A i \in 1 .. n : f[i] <= Max(S)
  BY <1>8, <1>9
<1>11. Max(S) \in Int
  BY <1>8
<1> QED BY <1>1, <1>2, <1>3, <1>4, <1>5, <1>10, <1>11

(* The places a part of the rows has. *)
Mapped(p, a) == [i \in DOMAIN a |-> p[a[i]]]

SameTokens(f, lens, p, l) == \A i \in 1 .. l : lens[i] = f[p[i]]

(* Rows named twice are counted once. *)
LEMMA MappedTokens ==
  ASSUME NEW l \in Nat, NEW n \in Nat, NEW f \in [1 .. n -> Nat], NEW lens \in [1 .. l -> Nat],
         NEW p \in [1 .. l -> 1 .. n], SameTokens(f, lens, p, l), NEW a \in Seq(1 .. l)
  PROVE  /\ Tokens(f, Mapped(p, a)) \in Int /\ Tokens(lens, a) \in Int
         /\ Tokens(f, Mapped(p, a)) <= Tokens(lens, a)
         /\ (\A x, y \in 1 .. l : p[x] = p[y] => x = y) => Tokens(f, Mapped(p, a)) = Tokens(lens, a)
<1>1. PICK y : y = Mapped(p, a)
  OBVIOUS
<1>2. y \in Seq(1 .. n) /\ Range(y) = Image(p, Range(a)) /\ Range(a) \in SUBSET (1 .. l)
  <2>1. DOMAIN a = 1 .. Len(a) /\ Len(a) \in Nat
    OBVIOUS
  <2>2. \A i \in DOMAIN a : a[i] \in 1 .. l
    <3>1. PICK U : U = 1 .. l
      OBVIOUS
    <3>2. a \in Seq(U)
      BY <3>1
    <3>3. \A i \in DOMAIN a : a[i] \in U
      BY <3>2, MembersOf
    <3> QED BY <3>1, <3>3
  <2>3. DOMAIN y = DOMAIN a /\ \A i \in DOMAIN a : y[i] = p[a[i]]
    BY <1>1 DEF Mapped
  <2>4. \A i \in 1 .. Len(a) : p[a[i]] \in 1 .. n
    BY <2>1, <2>2
  <2>5. y = [i \in 1 .. Len(a) |-> p[a[i]]]
    BY <1>1, <2>1 DEF Mapped
  <2>6. y \in [1 .. Len(a) -> 1 .. n]
    BY <2>4, <2>5
  <2>7. y \in Seq(1 .. n) /\ Len(y) = Len(a)
    <3>1. PICK c \in Nat : c = Len(a)
      BY <2>1
    <3>2. PICK z \in [1 .. c -> 1 .. n] : z = y
      BY <2>6, <3>1
    <3>3. z \in Seq(1 .. n) /\ Len(z) = c
      OBVIOUS
    <3> QED BY <3>1, <3>2, <3>3
  <2>8. Range(y) = Image(p, Range(a))
    <3>1. ASSUME NEW v \in Range(y) PROVE v \in Image(p, Range(a))
      <4>1. PICK i \in DOMAIN a : v = p[a[i]]
        BY <2>3, ZenonT(40) DEF Range
      <4>2. a[i] \in Range(a)
        BY DEF Range
      <4> QED BY <4>1, <4>2 DEF Image
    <3>2. ASSUME NEW v \in Image(p, Range(a)) PROVE v \in Range(y)
      <4>1. PICK x \in Range(a) : v = p[x]
        BY DEF Image
      <4>2. PICK i \in DOMAIN a : x = a[i]
        BY DEF Range
      <4>3. y[i] \in Range(y)
        BY <2>3 DEF Range
      <4> QED BY <2>3, <4>1, <4>2, <4>3
    <3> QED BY <3>1, <3>2
  <2>9. Range(a) \in SUBSET (1 .. l)
    BY <2>2 DEF Range
  <2> QED BY <2>7, <2>8, <2>9
<1>3. f \in [1 .. n -> Int] /\ lens \in [1 .. l -> Int]
  OBVIOUS
<1>4. Tokens(f, y) = SumOf(f, Range(y), n) /\ Tokens(f, y) \in Int
  BY <1>2, <1>3, TokensSum, TokensType
<1>5. Tokens(lens, a) = SumOf(lens, Range(a), l) /\ Tokens(lens, a) \in Int
  BY <1>3, TokensSum, TokensType
<1>6. \A x \in 1 .. l : lens[x] = f[p[x]]
  BY DEF SameTokens
<1>7. PICK P \in SUBSET (1 .. l) : P = Range(a)
  BY <1>2
<1>8. /\ SumOf(f, Image(p, P), n) <= SumOf(lens, P, l)
      /\ (\A x, z \in P : p[x] = p[z] => x = z) => SumOf(f, Image(p, P), n) = SumOf(lens, P, l)
  BY <1>6, SumOfImage, ZenonT(40)
<1>9. (\A x, z \in 1 .. l : p[x] = p[z] => x = z) => \A x, z \in P : p[x] = p[z] => x = z
  OBVIOUS
<1> QED BY <1>1, <1>2, <1>4, <1>5, <1>7, <1>8, <1>9

BoundedAt(r) ==
  phase = "calling" /\ stage[r] = "running" /\ conf.dynamic /\ ~conf.multi_modal =>
    \A k \in DOMAIN plan[r] :
      Tokens(TokensAt(r, Places(Len(held[r]))), plan[r][k])
        < (MaxTokenLen * conf.sp) + Max(Range(TokensAt(r, Places(Len(held[r])))))

LEMMA RearrangedBounded ==
  ASSUME IsConf(conf), HeldAlike, NEW q \in Rank, NEW n \in Nat \ {0}, n = Len(held[0]), NEW p \in Seq(1 .. n), p # << >>,
         NEW k \in Nat \ {0}, k <= Len(p), OwnNeed(q, p) <= k, NEW lens, lens = TokensAt(q, p),
         NEW parts, UnequalParts(lens, Len(p), k, Max(Range(TokensAt(q, Places(n)))), parts), NEW j \in 1 .. k
  PROVE  Tokens(TokensAt(q, Places(n)), Rearranged(p, parts)[j]) < (MaxTokenLen * conf.sp) + Max(Range(TokensAt(q, Places(n))))
<1>1. PICK l \in Nat \ {0} : l = Len(p)
  <2>1. Len(p) \in Nat /\ Len(p) # 0
    OBVIOUS
  <2> QED BY <2>1
<1>2. lens \in [1 .. l -> Nat \ {0}]
  BY <1>1, TokensAtType
<1>3. PICK f \in [1 .. n -> Nat \ {0}], b \in Int :
        /\ f = TokensAt(q, Places(n)) /\ b = Max(Range(f)) /\ \A i \in 1 .. n : f[i] <= b
        /\ \A i \in 1 .. n : f[i] = held[q][i].tokens
  <2>1. PICK f : f = TokensAt(q, Places(n))
    OBVIOUS
  <2>2. /\ f \in [1 .. n -> Nat \ {0}] /\ (\A i \in 1 .. n : f[i] = held[q][i].tokens)
        /\ Max(Range(f)) \in Int /\ \A i \in 1 .. n : f[i] <= Max(Range(f))
    BY <2>1, LongestRow
  <2> QED BY <2>1, <2>2
<1>4. PICK pl \in [1 .. l -> 1 .. n] : pl = p
  BY <1>1, SMTT(30)
<1>5. \A i \in 1 .. l : lens[i] = f[pl[i]]
  <2>1. lens = [i \in 1 .. l |-> held[q][pl[i]].tokens]
    BY <1>1, <1>4 DEF TokensAt
  <2> QED BY <1>3, <1>4, <2>1
<1>6. \A i \in 1 .. l : lens[i] <= b
  BY <1>3, <1>4, <1>5
<1>7. PICK m \in Nat \ {0} : m = MaxTokenLen * conf.sp
  BY MaxTokensType
<1>8. UnequalParts(lens, l, k, b, parts)
  BY <1>1, <1>3
<1>9. OwnMicroBatches(lens, m) <= k
  BY <1>7 DEF OwnNeed
<1>10. Tokens(lens, parts[j]) < m + b
  BY <1>1, <1>2, <1>6, <1>8, <1>9, PartsBounded
<1>11. PICK a \in Seq(1 .. l) : a = parts[j]
  BY <1>8 DEF UnequalParts
<1>12. Rearranged(p, parts)[j] = Mapped(pl, a)
  <2>1. DOMAIN parts = 1 .. k
    BY <1>8 DEF UnequalParts
  <2> QED BY <1>4, <1>11, <2>1 DEF Rearranged, Mapped
<1>13. /\ Tokens(f, Mapped(pl, a)) \in Int /\ Tokens(lens, a) \in Int
       /\ Tokens(f, Mapped(pl, a)) <= Tokens(lens, a)
  <2>1. SameTokens(f, lens, pl, l)
    BY <1>5 DEF SameTokens
  <2>2. l \in Nat /\ n \in Nat
    OBVIOUS
  <2>3. f \in [1 .. n -> Nat] /\ lens \in [1 .. l -> Nat]
    BY <1>2
  <2> QED BY <2>1, <2>2, <2>3, MappedTokens
<1>14. PICK u \in Int, v \in Int : u = Tokens(f, Mapped(pl, a)) /\ v = Tokens(lens, a) /\ u <= v /\ v < m + b
  BY <1>10, <1>11, <1>13
<1>15. u < m + b
  BY <1>14
<1> QED BY <1>3, <1>7, <1>12, <1>14, <1>15

LEMMA BoundedStays ==
  ASSUME NEW q \in Rank, BoundedAt(q), phase' = phase, conf' = conf, held' = held,
         stage'[q] = stage[q], plan'[q] = plan[q]
  PROVE  BoundedAt(q)'
<1>1. \A places : TokensAt(q, places)' = TokensAt(q, places)
  BY DEF TokensAt
<1>2. TokensAt(q, Places(Len(held[q])))' = TokensAt(q, Places(Len(held[q])))
  BY <1>1 DEF TokensAt, Places
<1>3. SUFFICES ASSUME phase = "calling" /\ stage[q] = "running" /\ conf.dynamic /\ ~conf.multi_modal,
                      NEW k \in DOMAIN plan[q]
               PROVE  Tokens(TokensAt(q, Places(Len(held[q]))), plan[q][k])
                        < (MaxTokenLen * conf.sp) + Max(Range(TokensAt(q, Places(Len(held[q])))))
  BY <1>2 DEF BoundedAt
<1> QED BY <1>3 DEF BoundedAt

LEMMA NotRunningBounded ==
  ASSUME NEW q \in Rank, stage'[q] # "running"
  PROVE  BoundedAt(q)'
BY DEF BoundedAt

LEMMA RearrangeBounded ==
  ASSUME Running, NEW r \in Rank, Rearrange(r), phase' = "calling"
  PROVE  BoundedAt(r)'
<1>1. phase = "calling" /\ stage[r] = "asking" /\ Synced(r)
  BY DEF Rearrange
<1>2. /\ Shapes /\ IsConf(conf) /\ HeldAlike /\ \A q \in Rank : AtRank(q)
  BY <1>1, AtCall
<1>3. todo[r] # << >>
  <2>1. RankIs(Course, r, "asking", todo[r], plan[r], ran[r], log[r])
    BY <1>1, <1>2 DEF AtRank
  <2> QED BY <2>1 DEF RankIs
<1>4. PICK n, p : n \in Nat \ {0} /\ n = Len(held[0]) /\ p \in Seq(1 .. n) /\ p = Head(todo[r]) /\ p # << >>
  BY <1>1, <1>3, AtHead DEF AtMiniBatch
<1>5. PICK k \in Nat \ {0} : k = Settled(r) /\ OwnNeed(r, p) <= k
  <2>1. Settled(r) = Needs(p)
    BY <1>1, <1>4, SettledIs
  <2>2. Needs(p) \in Nat \ {0} /\ OwnNeed(r, p) <= Needs(p)
    BY <1>2, <1>4, NeedsType
  <2> QED BY <2>1, <2>2
<1>6. PICK lens : lens = TokensAt(r, p)
  OBVIOUS
<1>7. PICK parts : parts = get_seqlen_balanced_partitions(lens, k, FALSE)
  OBVIOUS
<1>8. /\ CanPartition(lens, k, FALSE)
      /\ plan' = [plan EXCEPT ![r] = Rearranged(p, parts)]
      /\ UNCHANGED <<driver, held>>
  <2>1. ~Raise(r)
    <3>1. "calling" # "failed"
      OBVIOUS
    <3> QED BY <3>1 DEF Raise
  <2>2. lens = TokensAt(r, Head(todo[r])) /\ parts = get_seqlen_balanced_partitions(lens, Settled(r), FALSE)
    BY <1>4, <1>5, <1>6, <1>7
  <2>3. /\ CanPartition(lens, Settled(r), FALSE)
        /\ plan' = [plan EXCEPT ![r] = Rearranged(Head(todo[r]), parts)]
        /\ UNCHANGED <<driver, held>>
    BY <2>1, <2>2 DEF Rearrange
  <2> QED BY <1>4, <1>5, <2>3
<1>9. PICK l \in Nat \ {0} : l = Len(p)
  <2>1. Len(p) \in Nat /\ Len(p) # 0
    BY <1>4
  <2> QED BY <2>1
<1>10. k <= l
  <2>1. CanPartition(lens, k, FALSE) <=> k <= Len(p)
    BY <1>2, <1>4, <1>6, Parted
  <2> QED BY <1>8, <1>9, <2>1
<1>11. PICK f, b : /\ f = TokensAt(r, Places(n)) /\ f \in [1 .. n -> Nat \ {0}] /\ b \in Int /\ b = Max(Range(f))
                   /\ (\A i \in 1 .. n : f[i] <= b) /\ \A i \in 1 .. n : f[i] = held[r][i].tokens
  <2>1. PICK f : f = TokensAt(r, Places(n))
    OBVIOUS
  <2>2. /\ f \in [1 .. n -> Nat \ {0}] /\ (\A i \in 1 .. n : f[i] = held[r][i].tokens)
        /\ Max(Range(f)) \in Int /\ \A i \in 1 .. n : f[i] <= Max(Range(f))
    BY <1>2, <1>4, <2>1, LongestRow
  <2> QED BY <2>1, <2>2
<1>12. lens \in [1 .. l -> Nat \ {0}]
  BY <1>2, <1>4, <1>6, <1>9, TokensAtType
<1>13. \A i \in 1 .. l : lens[i] <= b
  <2> TAKE i \in 1 .. l
  <2>1. PICK c \in 1 .. n : c = p[i]
    BY <1>4, <1>9, SMTT(30)
  <2>2. lens[i] = held[r][c].tokens
    <3>1. i \in DOMAIN p
      BY <1>4, <1>9
    <3> QED BY <1>6, <2>1, <3>1 DEF TokensAt
  <2> QED BY <1>11, <2>1, <2>2
<1>14. UnequalParts(lens, Len(p), k, Max(Range(TokensAt(r, Places(n)))), parts)
  <2>1. UnequalParts(lens, l, k, b, parts)
    BY <1>7, <1>10, <1>11, <1>12, <1>13, RowsParted
  <2> QED BY <1>9, <1>11, <2>1
<1>15. ASSUME NEW j \in 1 .. k
       PROVE  Tokens(TokensAt(r, Places(n)), Rearranged(p, parts)[j])
                < (MaxTokenLen * conf.sp) + Max(Range(TokensAt(r, Places(n))))
  <2>1. k <= Len(p)
    BY <1>9, <1>10
  <2> QED BY <1>2, <1>4, <1>5, <1>6, <1>14, <2>1, RearrangedBounded
<1>16. DOMAIN Rearranged(p, parts) = 1 .. k
  <2>1. DOMAIN parts = 1 .. k
    BY <1>14 DEF UnequalParts
  <2> QED BY <2>1 DEF Rearranged
<1>17. Len(held[r]) = n
  BY <1>2, <1>4 DEF HeldAlike
<1>18. plan'[r] = Rearranged(p, parts) /\ held' = held /\ conf' = conf
  BY <1>2, <1>8 DEF Shapes, driver
<1>19. TokensAt(r, Places(Len(held[r])))' = TokensAt(r, Places(n))
  BY <1>17, <1>18 DEF TokensAt, Places
<1>20. \A j \in DOMAIN plan'[r] : Tokens(TokensAt(r, Places(Len(held[r])))', plan'[r][j])
                < (MaxTokenLen * conf.sp) + Max(Range(TokensAt(r, Places(Len(held[r])))'))
  BY <1>15, <1>16, <1>18, <1>19
<1> QED BY <1>18, <1>20 DEF BoundedAt

Bounded == \A r \in Rank : BoundedAt(r)

LEMMA BoundedSteps ==
  ASSUME Running, Bounded, [Next]_vars
  PROVE  Bounded'
<1>1. SUFFICES ASSUME NEW q \in Rank PROVE BoundedAt(q)'
  BY DEF Bounded
<1>2. BoundedAt(q)
  BY DEF Bounded
<1>3. Shapes
  BY DEF Running
<1>4. SUFFICES ASSUME phase' = "calling" PROVE BoundedAt(q)'
  BY DEF BoundedAt
<1>5. "calling" \notin {"adjusted", "failed", "ready", "advised", "done"}
  OBVIOUS
<1>6. ASSUME NEW r \in Rank, Raise(r) PROVE FALSE
  BY <1>4, <1>5, <1>6 DEF Raise
<1>7. ASSUME NEW r \in Rank, RankStep(r) PROVE BoundedAt(q)'
  <2>1. phase = "calling"
    BY <1>7 DEF RankStep, Begin, Ask, Rearrange, Cut, Forward, Step, Finish
  <2>2. UNCHANGED <<driver, held>>
    BY <1>6, <1>7 DEF RankStep, Begin, Ask, Rearrange, Cut, Forward, Step, Finish
  <2>3. conf' = conf /\ held' = held /\ phase' = phase
    BY <2>2 DEF driver
  <2>4. CASE stage'[q] = stage[q] /\ plan'[q] = plan[q]
    BY <1>2, <2>3, <2>4, BoundedStays
  <2>5. CASE Begin(r)
    <3>1. stage' = [stage EXCEPT ![r] = "next"] /\ plan' = plan
      BY <1>6, <2>5 DEF Begin
    <3>2. q = r => stage'[q] # "running"
      BY <1>3, <3>1 DEF Shapes
    <3>3. q # r => stage'[q] = stage[q] /\ plan'[q] = plan[q]
      BY <1>3, <3>1 DEF Shapes
    <3> QED BY <2>4, <3>2, <3>3, NotRunningBounded
  <2>6. CASE Ask(r)
    <3>1. stage' = [stage EXCEPT ![r] = "asking"] /\ plan' = plan
      BY <2>6 DEF Ask
    <3>2. q = r => stage'[q] # "running"
      BY <1>3, <3>1 DEF Shapes
    <3>3. q # r => stage'[q] = stage[q] /\ plan'[q] = plan[q]
      BY <1>3, <3>1 DEF Shapes
    <3> QED BY <2>4, <3>2, <3>3, NotRunningBounded
  <2>7. CASE Rearrange(r)
    <3>1. PICK np : stage' = [stage EXCEPT ![r] = "running"] /\ plan' = [plan EXCEPT ![r] = np]
      BY <1>6, <2>7 DEF Rearrange
    <3>2. q # r => stage'[q] = stage[q] /\ plan'[q] = plan[q]
      BY <1>3, <3>1 DEF Shapes
    <3> QED BY <1>4, <2>4, <2>7, <3>2, RearrangeBounded
  <2>8. CASE Cut(r)
    <3>1. PICK np : stage' = [stage EXCEPT ![r] = "running"] /\ plan' = [plan EXCEPT ![r] = np]
      BY <1>6, <2>8 DEF Cut
    <3>2. q # r => stage'[q] = stage[q] /\ plan'[q] = plan[q]
      BY <1>3, <3>1 DEF Shapes
    <3>3. ~(conf.dynamic /\ ~conf.multi_modal)
      BY <2>8 DEF Cut
    <3>4. BoundedAt(r)'
      BY <2>3, <3>3 DEF BoundedAt
    <3> QED BY <2>4, <3>2, <3>4
  <2>9. CASE Forward(r)
    <3>1. stage' = stage /\ plan' = plan
      BY <1>6, <2>9 DEF Forward
    <3> QED BY <2>4, <3>1
  <2>10. CASE Step(r)
    <3>1. stage' = [stage EXCEPT ![r] = "next"] /\ plan' = plan
      BY <2>10 DEF Step
    <3>2. q = r => stage'[q] # "running"
      BY <1>3, <3>1 DEF Shapes
    <3>3. q # r => stage'[q] = stage[q] /\ plan'[q] = plan[q]
      BY <1>3, <3>1 DEF Shapes
    <3> QED BY <2>4, <3>2, <3>3, NotRunningBounded
  <2>11. CASE Finish(r)
    <3>1. stage' = [stage EXCEPT ![r] = "returned"] /\ plan' = plan
      BY <1>6, <2>11 DEF Finish
    <3>2. q = r => stage'[q] # "running"
      BY <1>3, <3>1 DEF Shapes
    <3>3. q # r => stage'[q] = stage[q] /\ plan'[q] = plan[q]
      BY <1>3, <3>1 DEF Shapes
    <3> QED BY <2>4, <3>2, <3>3, NotRunningBounded
  <2> QED BY <1>7, <2>5, <2>6, <2>7, <2>8, <2>9, <2>10, <2>11, SMTT(30) DEF RankStep
<1>8. CASE AdjustBatch
  BY <1>4, <1>5, <1>8 DEF AdjustBatch
<1>9. CASE BalanceBatch
  BY <1>4, <1>5, <1>9 DEF BalanceBatch
<1>10. CASE Call
  <2>1. stage' = [r \in Rank |-> "called"]
    BY <1>10 DEF Call
  <2>2. stage'[q] # "running"
    BY <2>1
  <2> QED BY <2>2, NotRunningBounded
<1>11. CASE Return
  BY <1>4, <1>5, <1>11 DEF Return
<1>12. CASE ComputeAdvantage
  BY <1>4, <1>5, <1>12 DEF ComputeAdvantage
<1>13. CASE UNCHANGED vars
  <2>1. phase' = phase /\ conf' = conf /\ held' = held /\ stage' = stage /\ plan' = plan
    BY <1>13 DEF vars, driver, ranks
  <2> QED BY <1>2, <2>1, BoundedStays
<1>14. CASE Over
  <2>1. phase' = phase /\ conf' = conf /\ held' = held /\ stage' = stage /\ plan' = plan
    BY <1>14 DEF Over, vars, driver, ranks
  <2> QED BY <1>2, <2>1, BoundedStays
<1> QED BY <1>7, <1>8, <1>9, <1>10, <1>11, <1>12, <1>13, <1>14 DEF Next, DriverStep

LEMMA LeastOf ==
  ASSUME NEW S, S \subseteq Nat, S # {}
  PROVE  Min(S) \in S /\ (\A x \in S : Min(S) <= x) /\ Min(S) \in Nat
<1>1. PICK x \in S : \A y \in S : x <= y
  BY LeastNatural
<1>2. Min(S) \in S /\ \A y \in S : Min(S) <= y
  BY <1>1 DEF Min
<1> QED BY <1>2

(* Numbers no two of which are further apart than d *)
LEMMA Closest ==
  ASSUME NEW S, S \subseteq Int, S # {}, NEW d \in Int, \A x, y \in S : x - y <= d
  PROVE  Max(S) - Min(S) <= d
<1>1. PICK a \in S : a \in Int
  OBVIOUS
<1> DEFINE T == {(a + d) - x : x \in S}
           V == {x - (a - d) : x \in S}
<1>2. ASSUME NEW x \in S PROVE (a + d) - x \in Nat /\ x - (a - d) \in Nat
  <2>1. x - a <= d /\ a - x <= d /\ x \in Int
    BY <1>1
  <2> QED BY <1>1, <2>1
<1>3. Max(S) \in S
  <2>1. PICK y \in T : \A z \in T : y <= z
    <3>1. T \subseteq Nat /\ T # {}
      BY <1>1, <1>2
    <3> HIDE DEF T
    <3> QED BY <3>1, LeastNatural
  <2>2. PICK x \in S : y = (a + d) - x
    OBVIOUS
  <2>3. \A z \in S : x >= z
    <3> TAKE z \in S
    <3>1. (a + d) - z \in T /\ z \in Int /\ x \in Int
      OBVIOUS
    <3>2. y <= (a + d) - z
      <4> HIDE DEF T
      <4> QED BY <2>1, <3>1
    <3> QED BY <1>1, <2>2, <3>1, <3>2
  <2> QED BY <2>3 DEF Max
<1>4. Min(S) \in S
  <2>1. PICK y \in V : \A z \in V : y <= z
    <3>1. V \subseteq Nat /\ V # {}
      BY <1>1, <1>2
    <3> HIDE DEF V
    <3> QED BY <3>1, LeastNatural
  <2>2. PICK x \in S : y = x - (a - d)
    OBVIOUS
  <2>3. \A z \in S : x <= z
    <3> TAKE z \in S
    <3>1. z - (a - d) \in V /\ z \in Int /\ x \in Int
      OBVIOUS
    <3>2. y <= z - (a - d)
      <4> HIDE DEF V
      <4> QED BY <2>1, <3>1
    <3> QED BY <1>1, <2>2, <3>1, <3>2
  <2> QED BY <2>3 DEF Min
<1>5. PICK u \in S, v \in S : u = Max(S) /\ v = Min(S)
  BY <1>3, <1>4
<1>6. u - v <= d
  OBVIOUS
<1>7. PICK y \in Int, z \in Int : y = Max(S) /\ z = Min(S) /\ y - z <= d
  <2>1. u \in Int /\ v \in Int
    OBVIOUS
  <2> QED BY <1>5, <1>6, <2>1
<1> QED BY <1>7

(* How much a size can be exceeded by the next larger one *)
Above(sizes, a) == {b \in sizes : b > a}

Gaps(sizes) == {Min(Above(sizes, a)) - a : a \in sizes \ {Max(sizes)}}

SizesOf(b) == {b[i].tokens : i \in DOMAIN b}

LoadOf(b, r, c) == Tokens(TokensOf(b), [i \in 1 .. c |-> (r * c) + i])

SumsOf(b) == {LoadOf(b, r, Len(b) \div WorldSize) : r \in Rank}

EvenLoads(b) == Max(SumsOf(b)) - Min(SumsOf(b)) <= (WorldSize - 1) * Max(Gaps(SizesOf(b)) \union {0})

LEMMA EvenIs ==
  RanksBalanced <=> (phase = "ready" /\ conf.balance => EvenLoads(batch))
BY DEF RanksBalanced, EvenLoads, SumsOf, LoadOf, SizesOf, Gaps, Above

LEMMA NextLarger ==
  ASSUME NEW m \in Nat, NEW S, S \subseteq 0 .. m, NEW a \in S, NEW c \in S, a < c,
         NEW least, least = Min(Above(S, a))
  PROVE  a # Max(S) /\ least \in S /\ least > a /\ least <= c /\ least \in 0 .. m
<1>1. PICK T : T = {b \in S : b > a} /\ T = Above(S, a)
  BY DEF Above
<1>2. T \subseteq Nat /\ T # {}
  <2>1. a \in Int /\ c \in Int /\ c > a
    OBVIOUS
  <2>2. c \in T
    BY <1>1, <2>1
  <2>3. \A x \in T : x \in 0 .. m
    BY <1>1
  <2> QED BY <2>2, <2>3
<1>3. Min(T) \in T /\ \A x \in T : Min(T) <= x
  BY <1>2, LeastOf
<1>4. c \in T
  <2>1. a \in Int /\ c \in Int /\ c > a
    OBVIOUS
  <2> QED BY <1>1, <2>1
<1>5. a # Max(S)
  <2>1. \A x \in S : x <= Max(S)
    <3>1. S # {}
      OBVIOUS
    <3> QED BY <3>1, GreatestOf
  <2>2. c <= Max(S)
    BY <2>1
  <2>3. ~(c <= a)
    <3>1. a \in Int /\ c \in Int
      OBVIOUS
    <3> QED BY <3>1
  <2> QED BY <2>2, <2>3
<1> QED BY <1>1, <1>3, <1>4, <1>5

LEMMA GapsType ==
  ASSUME NEW m \in Nat, NEW S, S \subseteq 0 .. m
  PROVE  Gaps(S) \union {0} \subseteq 0 .. m
<1>1. ASSUME NEW a \in S, a # Max(S) PROVE Min(Above(S, a)) - a \in 0 .. m
  <2>1. (\A x \in S : x <= Max(S)) /\ Max(S) \in S
    <3>1. S # {}
      BY <1>1
    <3> QED BY <3>1, GreatestOf
  <2>2. PICK c \in S : c = Max(S) /\ a < c
    <3>1. PICK c \in S : c = Max(S) /\ a <= c
      BY <2>1
    <3>2. a \in Int /\ c \in Int /\ a # c
      BY <1>1, <3>1
    <3> QED BY <3>1, <3>2
  <2>3. PICK l : l = Min(Above(S, a))
    OBVIOUS
  <2>4. l \in 0 .. m /\ l > a
    BY <2>2, <2>3, NextLarger
  <2>5. a \in 0 .. m
    OBVIOUS
  <2>6. l - a \in 0 .. m
    BY <2>4, <2>5
  <2> QED BY <2>3, <2>6
<1>2. 0 \in 0 .. m
  OBVIOUS
<1> QED BY <1>1, <1>2 DEF Gaps

LEMMA LargestGap ==
  ASSUME NEW m \in Nat, NEW n \in Nat \ {0}, NEW lens \in [1 .. n -> 0 .. m], NEW S, S = Range(lens),
         NEW g, g = Max(Gaps(S) \union {0})
  PROVE  g \in Nat /\ Gap(lens, n, g)
<1>1. S \subseteq 0 .. m /\ \A i \in 1 .. n : lens[i] \in S
  BY DEF Range
<1>2. PICK G : G = Gaps(S) \union {0}
  OBVIOUS
<1>3. G \subseteq 0 .. m /\ G # {}
  BY <1>1, <1>2, GapsType
<1>4. (\A x \in G : x <= Max(G)) /\ Max(G) \in 0 .. m
  BY <1>3, GreatestOf
<1>7. g = Max(G)
  BY <1>2
<1>8. PICK h \in Nat : h = Max(G) /\ \A x \in G : x <= h
  BY <1>4
<1>5. g \in Nat /\ \A x \in G : x <= g
  BY <1>7, <1>8
<1>6. ASSUME NEW x \in 1 .. n, NEW y \in 1 .. n, lens[x] < lens[y],
             \A z \in 1 .. n : ~(lens[x] < lens[z] /\ lens[z] < lens[y])
      PROVE  lens[y] - lens[x] <= g
  <2>1. PICK a \in S, c \in S : a = lens[x] /\ c = lens[y] /\ a < c
    BY <1>1, <1>6
  <2>2. PICK l : l = Min(Above(S, a))
    OBVIOUS
  <2>3. a # Max(S) /\ l \in S /\ l > a /\ l <= c
    <3>1. S \subseteq 0 .. m
      BY <1>1
    <3>2. a < c
      BY <2>1
    <3> QED BY <2>2, <3>1, <3>2, NextLarger
  <2>4. l = c
    <3>1. PICK z \in 1 .. n : l = lens[z]
      BY <2>3 DEF Range
    <3>2. ~(a < l /\ l < c)
      BY <1>6, <2>1, <3>1
    <3>3. a \in Int /\ l \in Int /\ c \in Int
      BY <1>1, <2>3
    <3> QED BY <2>3, <3>2, <3>3
  <2>5. l - a \in Gaps(S)
    BY <2>2, <2>3 DEF Gaps
  <2>6. l - a <= g
    BY <1>2, <1>5, <2>5
  <2> QED BY <2>1, <2>4, <2>6
<1> QED BY <1>5, <1>6 DEF Gap

OneToOne(p, l) == \A x, y \in 1 .. l : p[x] = p[y] => x = y

LEMMA MappedAlike ==
  ASSUME NEW n \in Nat, NEW f \in [1 .. n -> Nat], NEW lens \in [1 .. n -> Nat],
         NEW p \in [1 .. n -> 1 .. n], SameTokens(f, lens, p, n), NEW a \in Seq(1 .. n), OneToOne(p, n)
  PROVE  Tokens(f, Mapped(p, a)) = Tokens(lens, a)
<1>1. (\A x, y \in 1 .. n : p[x] = p[y] => x = y) => Tokens(f, Mapped(p, a)) = Tokens(lens, a)
  BY MappedTokens
<1> QED BY <1>1 DEF OneToOne

Moved(b, idx, n) == [i \in 1 .. n |-> b[idx[i]]]

(* Rows in another order have the same sizes. *)
LEMMA SameSizes ==
  ASSUME NEW n \in Nat, NEW b \in [1 .. n -> Rows], NEW idx, Rearrangement(idx, n), NEW c, c = Moved(b, idx, n)
  PROVE  \A z : z \in SizesOf(c) <=> z \in Range(TokensOf(b))
<1>1. idx \in [1 .. n -> 1 .. n] /\ \A x \in 1 .. n : \E i \in 1 .. n : idx[i] = x
  BY DEF Rearrangement
<1>2. DOMAIN c = 1 .. n /\ DOMAIN b = 1 .. n /\ \A i \in 1 .. n : c[i] = b[idx[i]]
  BY DEF Moved
<1>3. ASSUME NEW z \in SizesOf(c) PROVE z \in SizesOf(b)
  <2>1. PICK i \in 1 .. n : z = c[i].tokens
    BY <1>2 DEF SizesOf
  <2>2. idx[i] \in 1 .. n /\ z = b[idx[i]].tokens
    BY <1>1, <1>2, <2>1
  <2> QED BY <1>2, <2>2 DEF SizesOf
<1>4. ASSUME NEW z \in SizesOf(b) PROVE z \in SizesOf(c)
  <2>1. PICK x \in 1 .. n : z = b[x].tokens
    BY <1>2 DEF SizesOf
  <2>2. PICK i \in 1 .. n : idx[i] = x
    BY <1>1
  <2>3. z = c[i].tokens
    BY <1>2, <2>1, <2>2
  <2> QED BY <1>2, <2>3 DEF SizesOf
<1>5. SizesOf(b) = Range(TokensOf(b))
  BY <1>2 DEF SizesOf, TokensOf, Range
<1> QED BY <1>3, <1>4, <1>5

BlockOf(m, c) == [i \in 1 .. c |-> BlockPlace(m, c, i)]

(* The rows of a rank are those of its part. *)
LEMMA LoadMapped ==
  ASSUME NEW n \in Nat, NEW b \in [1 .. n -> Rows], NEW lens \in [1 .. n -> Nat], lens = TokensOf(b),
         NEW k \in Nat, NEW c \in Nat,
         NEW idx, Rearrangement(idx, n), InBlocks(n, c, k), NEW new, new = Moved(b, idx, n),
         NEW m, m \in 0 .. k - 1
  PROVE  LoadOf(new, m, c) = Tokens(lens, Mapped(idx, BlockOf(m, c)))
<1>1. idx \in [1 .. n -> 1 .. n] /\ \A i, j \in 1 .. n : idx[i] = idx[j] => i = j
  BY DEF Rearrangement
<1>2. PICK p \in [1 .. n -> 1 .. n] : p = idx /\ \A i, j \in 1 .. n : p[i] = p[j] => i = j
  BY <1>1
<1>3. PICK f \in [1 .. n -> Nat] : f = TokensOf(new) /\ \A i \in 1 .. n : f[i] = lens[p[i]]
  <2>1. new \in [1 .. n -> Rows] /\ \A i \in 1 .. n : new[i] = b[p[i]]
    <3>1. new = [i \in 1 .. n |-> b[p[i]]]
      BY <1>2 DEF Moved
    <3> QED BY <3>1
  <2>2. PICK f : f = TokensOf(new)
    OBVIOUS
  <2>3. DOMAIN new = 1 .. n /\ DOMAIN b = 1 .. n
    BY <2>1
  <2>4. f = [i \in 1 .. n |-> new[i].tokens]
    BY <2>2, <2>3 DEF TokensOf
  <2>5. \A i \in 1 .. n : lens[i] = b[i].tokens
    BY <2>3 DEF TokensOf
  <2>6. \A i \in 1 .. n : f[i] = lens[p[i]]
    <3> TAKE i \in 1 .. n
    <3>1. PICK x \in 1 .. n : x = p[i]
      BY <1>2
    <3>2. f[i] = new[i].tokens /\ new[i] = b[x]
      BY <2>1, <2>4, <3>1
    <3> QED BY <2>5, <3>1, <3>2
  <2>7. f \in [1 .. n -> Nat]
    <3>1. \A i \in 1 .. n : f[i] \in Nat
      BY <2>6
    <3> QED BY <2>4, <3>1
  <2> QED BY <2>2, <2>6, <2>7
<1>4. PICK a \in Seq(1 .. n) : a = [i \in 1 .. c |-> BlockPlace(m, c, i)] /\ Len(a) = c /\ \A i \in 1 .. c : a[i] = BlockPlace(m, c, i)
  <2>1. \A i \in 1 .. c : BlockPlace(m, c, i) \in 1 .. n
    BY DEF InBlocks
  <2>2. PICK a : a = [i \in 1 .. c |-> BlockPlace(m, c, i)]
    OBVIOUS
  <2>3. a \in [1 .. c -> 1 .. n]
    BY <2>1, <2>2
  <2>4. PICK z \in [1 .. c -> 1 .. n] : z = a
    BY <2>3
  <2>5. z \in Seq(1 .. n) /\ Len(z) = c
    OBVIOUS
  <2> QED BY <2>2, <2>4, <2>5
<1>5. a = [i \in 1 .. c |-> (m * c) + i]
  BY <1>4 DEF BlockPlace
<1>6. SameTokens(lens, f, p, n)
  BY <1>3 DEF SameTokens
<1>7. Tokens(lens, Mapped(p, a)) = Tokens(f, a)
  <2>1. lens \in [1 .. n -> Nat] /\ f \in [1 .. n -> Nat] /\ p \in [1 .. n -> 1 .. n] /\ OneToOne(p, n)
    BY <1>2 DEF OneToOne
  <2> QED BY <1>6, <2>1, MappedAlike
<1>8. a = BlockOf(m, c)
  BY <1>4 DEF BlockOf
<1> QED BY <1>2, <1>3, <1>5, <1>7, <1>8 DEF LoadOf

IsPart(parts, k, m, c, q) == m \in 0 .. k - 1 /\ q = parts[m + 1] /\ Len(q) = c
LaidOut(idx, n, parts, k, c) == Rearrangement(idx, n) /\ Laid(idx, parts, k, c) /\ InBlocks(n, c, k)

SameLoad(new, m, c, lens, q) == LoadOf(new, m, c) = Tokens(lens, q)

LEMMA LoadOfRank ==
  ASSUME NEW n \in Nat, NEW b \in [1 .. n -> Rows], NEW lens \in [1 .. n -> Nat], lens = TokensOf(b),
         NEW k \in Nat, NEW c \in Nat, NEW parts,
         NEW idx, LaidOut(idx, n, parts, k, c), NEW new, new = Moved(b, idx, n),
         NEW m, NEW q \in Seq(1 .. n), IsPart(parts, k, m, c, q)
  PROVE  SameLoad(new, m, c, lens, q)
<1>0. /\ Rearrangement(idx, n) /\ Laid(idx, parts, k, c) /\ InBlocks(n, c, k)
      /\ m \in 0 .. k - 1 /\ q = parts[m + 1] /\ Len(q) = c
  BY DEF LaidOut, IsPart
<1>1. LoadOf(new, m, c) = Tokens(lens, Mapped(idx, BlockOf(m, c)))
  BY <1>0, LoadMapped, SMTT(30)
<1>2. \A i \in 1 .. c : idx[BlockPlace(m, c, i)] = q[i]
  BY <1>0 DEF Laid
<1>3. q = [i \in 1 .. c |-> q[i]]
  <2>1. DOMAIN q = 1 .. c
    BY <1>0
  <2>2. q = [i \in DOMAIN q |-> q[i]]
    OBVIOUS
  <2> QED BY <2>1, <2>2, Zenon
<1>4. Mapped(idx, BlockOf(m, c)) = [i \in 1 .. c |-> q[i]]
  <2>1. DOMAIN BlockOf(m, c) = 1 .. c /\ \A i \in 1 .. c : BlockOf(m, c)[i] = BlockPlace(m, c, i)
    BY DEF BlockOf
  <2>2. Mapped(idx, BlockOf(m, c)) = [i \in 1 .. c |-> idx[BlockOf(m, c)[i]]]
    BY <2>1 DEF Mapped
  <2> QED BY <1>2, <2>1, <2>2
<1> QED BY <1>1, <1>3, <1>4 DEF SameLoad

(* The rows b, whose tokens are lens, laid out anew as the parts say. *)
MovedRows(new, b, lens, idx, n, parts, k, c) ==
  /\ n \in Nat /\ k \in Nat /\ c \in Nat /\ b \in [1 .. n -> Rows] /\ lens \in [1 .. n -> Nat] /\ lens = TokensOf(b)
  /\ LaidOut(idx, n, parts, k, c) /\ parts \in [1 .. k -> Seq(1 .. n)] /\ new = Moved(b, idx, n)

LEMMA LoadOfPart ==
  ASSUME NEW new, NEW b, NEW lens, NEW idx, NEW n, NEW parts, NEW k, NEW c, MovedRows(new, b, lens, idx, n, parts, k, c),
         NEW m, NEW q, IsPart(parts, k, m, c, q)
  PROVE  SameLoad(new, m, c, lens, q)
<1>1. /\ n \in Nat /\ k \in Nat /\ c \in Nat /\ b \in [1 .. n -> Rows] /\ lens \in [1 .. n -> Nat] /\ lens = TokensOf(b)
      /\ LaidOut(idx, n, parts, k, c) /\ new = Moved(b, idx, n)
  BY DEF MovedRows
<1>2. q \in Seq(1 .. n)
  <2>1. m \in 0 .. k - 1 /\ q = parts[m + 1] /\ parts \in [1 .. k -> Seq(1 .. n)] /\ k \in Nat
    BY DEF MovedRows, IsPart
  <2>2. m + 1 \in 1 .. k
    BY <2>1
  <2> QED BY <2>1, <2>2
<1> QED BY <1>1, <1>2, LoadOfRank

LEMMA LoadsEven ==
  ASSUME NEW n \in Nat \ {0}, NEW w \in Nat \ {0}, w = WorldSize, w <= n, Rest(n, w) = 0, NEW b \in [1 .. n -> Rows],
         NEW lens, lens = TokensOf(b), lens \in [1 .. n -> 1 .. ResponseLength], NEW parts,
         parts = get_seqlen_balanced_partitions(lens, w, TRUE), NEW new, new = Balanced(b, parts)
  PROVE  EvenLoads(new)
<1>1. PICK m \in Nat : m = ResponseLength
  BY ResponseLengthAssumption
<1>2. lens \in [1 .. n -> 0 .. m] /\ lens \in [1 .. n -> Nat \ {0}] /\ lens \in [1 .. n -> Int] /\ lens \in [1 .. n -> Nat]
  BY <1>1
<1>3. PICK S : S = Range(lens)
  OBVIOUS
<1>4. PICK g : g = Max(Gaps(S) \union {0})
  OBVIOUS
<1>5. g \in Nat /\ Gap(lens, n, g)
  BY <1>2, <1>3, <1>4, LargestGap, SMTT(30)
<1>6. EqualParts(lens, n, w, g, parts)
  BY <1>2, <1>5, BatchParted
<1>7. parts \in [1 .. w -> Seq(1 .. n)] /\ Rearrangement(Concat(parts), n) /\ Within(lens, w, (w - 1) * g, parts)
  BY <1>6 DEF EqualParts
<1>8. PICK c \in Nat \ {0} : n = w * c /\ \A i \in 1 .. w : Len(parts[i]) = c
  BY <1>6 DEF EqualParts, EqualSizes
<1>9. PICK idx : idx = Concat(parts)
  OBVIOUS
<1>10. Rearrangement(idx, n) /\ Laid(idx, parts, w, c)
  <2>1. Laid(Concat(parts), parts, w, c)
    <3>1. \A i \in 1 .. w : Len(parts[i]) = c
      BY <1>8
    <3>2. c \in Nat
      OBVIOUS
    <3> QED BY <1>7, <3>1, <3>2, ConcatEqual
  <2> QED BY <1>7, <1>9, <2>1
<1>11. InBlocks(n, c, w)
  <2>1. n = c * w
    BY <1>8
  <2>2. Quot(n, c) = w /\ Rest(n, c) = 0
    BY <2>1, IsQuotient
  <2>3. InBlocks(n, c, Quot(n, c))
    BY <2>2, InBlock
  <2> QED BY <2>2, <2>3
<1>12. new = Moved(b, idx, n)
  BY <1>9 DEF Balanced, Moved
<1>13. Len(new) = n /\ Len(new) \div WorldSize = c
  <2>1. Len(new) = n
    <3>1. DOMAIN new = 1 .. n
      BY <1>12 DEF Moved
    <3>2. PICK z \in [1 .. n -> Rows] : z = new
      BY <1>10, <1>12 DEF Rearrangement, Moved
    <3>3. Len(z) = n
      OBVIOUS
    <3> QED BY <3>2, <3>3
  <2>2. Quot(n, w) = c
    BY <1>8, IsQuotient
  <2> QED BY <2>1, <2>2 DEF Quot
<1>14. SumsOf(new) = {LoadOf(new, r, c) : r \in Rank}
  BY <1>13 DEF SumsOf
<1>15. ASSUME NEW r \in Rank
       PROVE  LoadOf(new, r, c) = Tokens(lens, parts[r + 1]) /\ r + 1 \in 1 .. w
  <2>1. r \in 0 .. w - 1
    BY DEF Rank
  <2>2. r + 1 \in 1 .. w
    BY <2>1
  <2>3. Len(parts[r + 1]) = c
    BY <1>8, <2>2
  <2>4. n \in Nat /\ w \in Nat /\ c \in Nat
    OBVIOUS
  <2>5. LoadOf(new, r, c) = Tokens(lens, parts[r + 1])
    <3>1. lens \in [1 .. n -> Nat] /\ parts \in [1 .. w -> Seq(1 .. n)]
      BY <1>2, <1>7
    <3>2. LaidOut(idx, n, parts, w, c)
      BY <1>10, <1>11 DEF LaidOut
    <3>3. PICK q \in Seq(1 .. n) : q = parts[r + 1] /\ Len(q) = c
      BY <1>7, <2>2, <2>3
    <3>5. IsPart(parts, w, r, c, q)
      BY <2>1, <3>3 DEF IsPart
    <3>4. LoadOf(new, r, c) = Tokens(lens, q)
      <4>1. MovedRows(new, b, lens, idx, n, parts, w, c)
        BY <1>12, <2>4, <3>1, <3>2 DEF MovedRows
      <4>2. SameLoad(new, r, c, lens, q)
        BY <3>5, <4>1, LoadOfPart
      <4> QED BY <4>2 DEF SameLoad
    <3> QED BY <3>3, <3>4
  <2> QED BY <2>2, <2>5
<1>16. \A x : x \in SumsOf(new) <=> \E r \in Rank : x = Tokens(lens, parts[r + 1])
  BY <1>14, <1>15
<1>17. PICK d \in Int : d = (w - 1) * g
  BY <1>5
<1>18. PICK T : T = SumsOf(new)
  OBVIOUS
<1>19. T \subseteq Int /\ T # {} /\ \A x, y \in T : x - y <= d
  <2>1. ASSUME NEW r \in Rank PROVE Tokens(lens, parts[r + 1]) \in Int
    <3>1. parts[r + 1] \in Seq(1 .. n)
      BY <1>7, <1>15
    <3> QED BY <1>2, <3>1, TokensType
  <2>2. \A r, q \in Rank : Tokens(lens, parts[r + 1]) - Tokens(lens, parts[q + 1]) <= d
    BY <1>7, <1>15, <1>17 DEF Within
  <2>3. 0 \in Rank
    BY SomeRank
  <2>4. \A x \in T : \E r \in Rank : x = Tokens(lens, parts[r + 1])
    BY <1>16, <1>18
  <2>5. T # {}
    BY <1>16, <1>18, <2>3
  <2>6. T \subseteq Int
    BY <2>1, <2>4
  <2>7. ASSUME NEW x \in T, NEW y \in T PROVE x - y <= d
    <3>1. PICK r \in Rank : x = Tokens(lens, parts[r + 1])
      BY <2>4
    <3>2. PICK q \in Rank : y = Tokens(lens, parts[q + 1])
      BY <2>4
    <3> QED BY <2>2, <3>1, <3>2
  <2> QED BY <2>5, <2>6, <2>7
<1>20. Max(T) - Min(T) <= d
  BY <1>19, Closest
<1>21. SizesOf(new) = S
  <2>1. \A z : z \in SizesOf(new) <=> z \in Range(TokensOf(b))
    <3>1. n \in Nat /\ Rearrangement(idx, n)
      BY <1>10
    <3> QED BY <1>12, <3>1, SameSizes
  <2> QED BY <1>3, <2>1
<1> QED BY <1>4, <1>17, <1>18, <1>20, <1>21 DEF EvenLoads

(* The ranks' parts of a balanced batch stay even until the advantages are   *)
(* there.                                                                    *)
Even == conf.balance /\ (phase = "ready" \/ (phase = "calling" /\ Calls[call] \notin Updates)) => EvenLoads(batch)

LEMMA BalancedIsEven ==
  ASSUME Running, BalanceBatch
  PROVE  Even'
<1>1. PICK lens : lens = TokensOf(batch)
  OBVIOUS
<1>2. PICK parts : parts = get_seqlen_balanced_partitions(lens, WorldSize, TRUE)
  BY ZenonT(30)
<1>3. DriverAt /\ phase \notin {"collected", "failed"}
  BY DEF Running, BalanceBatch
<1>4. CanPartition(lens, WorldSize, TRUE) /\ Partitioned(lens, WorldSize, TRUE, parts)
  BY <1>1, <1>2, <1>3, CanBalance
<1>5. conf' = conf /\ phase' \in {"ready", "failed"}
  BY DEF BalanceBatch
<1>6. SUFFICES ASSUME conf.balance PROVE EvenLoads(batch')
  BY <1>5 DEF Even, EvenLoads, SumsOf, SizesOf, Gaps, LoadOf, Above
<1>7. batch' = Balanced(batch, parts)
  BY <1>1, <1>2, <1>4, <1>6 DEF BalanceBatch
<1>8. PICK n \in Nat \ {0} : \E w \in Nat \ {0} : n = Len(batch) /\ w = WorldSize /\ w <= n /\ Rest(n, w) = 0 /\ batch \in [1 .. n -> Rows]
  BY <1>3, WholeBatch
<1>9. PICK w \in Nat \ {0} : n = Len(batch) /\ w = WorldSize /\ w <= n /\ Rest(n, w) = 0 /\ batch \in [1 .. n -> Rows]
  BY <1>8
<1>10. PICK b \in [1 .. n -> Rows] : b = batch
  BY <1>9, SMTT(30)
<1>11. lens = TokensOf(b) /\ lens \in [1 .. n -> 1 .. ResponseLength]
  BY <1>1, <1>9, <1>10, BatchTokens
<1>12. parts = get_seqlen_balanced_partitions(lens, w, TRUE)
  BY <1>2, <1>9
<1>13. PICK new : new = Balanced(b, parts)
  OBVIOUS
<1>14. EvenLoads(new)
  BY <1>9, <1>11, <1>12, <1>13, LoadsEven
<1> QED BY <1>7, <1>10, <1>13, <1>14

LEMMA EvenStays ==
  ASSUME Even, conf' = conf, phase' = phase, call' = call, batch' = batch
  PROVE  Even'
<1>1. PICK b : b = batch
  OBVIOUS
<1>2. EvenLoads(b) <=> EvenLoads(batch)
  BY <1>1
<1>3. EvenLoads(b) <=> EvenLoads(batch)'
  BY <1>1 DEF EvenLoads, SumsOf, SizesOf, Gaps, LoadOf, Above
<1> QED BY <1>2, <1>3 DEF Even

LEMMA EvenSteps ==
  ASSUME Running, Even, [Next]_vars
  PROVE  Even'
<1>0. EvenLoads(batch)' <=> EvenLoads(batch')
  BY DEF EvenLoads, SumsOf, SizesOf, Gaps, LoadOf, Above
<1>1. ASSUME NEW r \in Rank, RankStep(r) PROVE Even'
  <2>1. UNCHANGED driver \/ phase' = "failed"
    BY <1>1 DEF RankStep, Begin, Ask, Rearrange, Cut, Forward, Step, Finish, Raise
  <2>2. CASE UNCHANGED driver
    BY <2>2, EvenStays DEF driver
  <2>3. CASE phase' = "failed"
    BY <2>3 DEF Even
  <2> QED BY <2>1, <2>2, <2>3
<1>2. CASE AdjustBatch
  <2>1. phase' = "adjusted" \/ phase' = "failed"
    BY <1>2 DEF AdjustBatch
  <2> QED BY <2>1 DEF Even
<1>3. CASE BalanceBatch
  BY <1>3, BalancedIsEven
<1>4. CASE Call
  <2>1. phase' = "calling" /\ conf' = conf /\ batch' = batch /\ call' = NextCall /\ phase \in {"ready", "advised"}
        /\ (Calls[NextCall] \in Updates <=> phase = "advised")
    BY <1>4 DEF Call
  <2>2. CASE phase = "ready"
    <3>1. conf.balance => EvenLoads(batch)
      BY <2>2 DEF Even
    <3> QED BY <1>0, <2>1, <3>1 DEF Even
  <2>3. CASE phase = "advised"
    <3>1. Calls[call'] \in Updates /\ phase' # "ready"
      BY <2>1, <2>3
    <3>2. (Calls[call] \in Updates)'
      BY <3>1 DEF Calls, Updates
    <3> QED BY <3>1, <3>2 DEF Even
  <2> QED BY <2>1, <2>2, <2>3
<1>5. CASE Return
  <2>1. conf' = conf /\ batch' = batch /\ call' = call /\ phase = "calling"
    BY <1>5 DEF Return
  <2>2. CASE Calls[call] \in Updates
    <3>1. phase' \in {"done", "advised"}
      BY <1>5, <2>2 DEF Return
    <3> QED BY <3>1 DEF Even
  <2>3. CASE Calls[call] \notin Updates
    <3>1. conf.balance => EvenLoads(batch)
      BY <2>1, <2>3 DEF Even
    <3> QED BY <1>0, <2>1, <3>1 DEF Even
  <2> QED BY <2>2, <2>3
<1>6. CASE ComputeAdvantage
  <2>1. phase' = "failed" \/ phase' = "advised"
    BY <1>6 DEF ComputeAdvantage
  <2> QED BY <2>1 DEF Even
<1>7. CASE UNCHANGED vars
  BY <1>7, EvenStays DEF vars, driver
<1>8. CASE Over
  BY <1>8, EvenStays DEF Over, vars, driver
<1> QED BY <1>1, <1>2, <1>3, <1>4, <1>5, <1>6, <1>7, <1>8 DEF Next, DriverStep

LEMMA StartsEven ==
  ASSUME Init
  PROVE  Even /\ Bounded
<1>1. phase = "collected"
  BY DEF Init
<1> QED BY <1>1 DEF Even, Bounded, BoundedAt

(* However the rows differ in length, what one forward pass has to do is     *)
(* bounded by the tokens a micro-batch should have and the longest row.      *)
THEOREM StepBounded == Spec => []MicroBatchesBounded
<1>1. Init => Running /\ Bounded
  BY StartsRunning, StartsEven
<1>2. Running /\ Bounded /\ [Next]_vars => Running' /\ Bounded'
  BY RunningInductive, BoundedSteps
<1>3. Bounded => MicroBatchesBounded
  BY DEF MicroBatchesBounded, Bounded, BoundedAt
<1> QED BY <1>1, <1>2, <1>3, PTL DEF Spec

(* What the ranks have to do for a balanced batch differs by no more than    *)
(* rows next to each other in the order of their tokens.                     *)
THEOREM StepRanksBalanced == Spec => []RanksBalanced
<1>1. Init => Running /\ Even
  BY StartsRunning, StartsEven
<1>2. Running /\ Even /\ [Next]_vars => Running' /\ Even'
  BY RunningInductive, EvenSteps
<1>3. Even => RanksBalanced
  BY EvenIs DEF Even
<1> QED BY <1>1, <1>2, <1>3, PTL DEF Spec

----------------------------------------------------------------------------
(* The order the rows are run in *)

(* The micro-batches have every row once. *)
IsMixed(n, p, k) == p \in [1 .. k -> Seq(1 .. n)] /\ Apart(p, k) /\ \A x \in 1 .. n : x \in RowsIn(p, k)

(* The rows of the first m micro-batches have been run, each once. *)
MixedTo(n, p, m, o) ==
  /\ o \in Seq(1 .. n)
  /\ \A i, j \in DOMAIN o : o[i] = o[j] => i = j
  /\ \A x : x \in Range(o) <=> \E j \in 1 .. m : x \in Range(p[j])

LEMMA RangeIs ==
  ASSUME NEW f, NEW x
  PROVE  x \in Range(f) <=> \E i \in DOMAIN f : f[i] = x
BY DEF Range

LEMMA MixedStart ==
  ASSUME NEW n \in Nat, NEW p
  PROVE  MixedTo(n, p, 0, << >>)
<1>1. << >> \in Seq(1 .. n) /\ DOMAIN << >> = {}
  OBVIOUS
<1>2. \A x : x \notin Range(<< >>)
  BY <1>1, RangeIs
<1>3. 1 .. 0 = {}
  OBVIOUS
<1> QED BY <1>1, <1>2, <1>3 DEF MixedTo

(* The members of two sequences together are those of either. *)
LEMMA JoinedRange ==
  ASSUME NEW U, NEW s \in Seq(U), NEW t \in Seq(U), NEW x
  PROVE  x \in Range(s \o t) <=> x \in Range(s) \/ x \in Range(t)
<1>1. PICK a \in Nat, c \in Nat : a = Len(s) /\ c = Len(t)
  OBVIOUS
<1>2. PICK u : u = s \o t
  OBVIOUS
<1>3. /\ u \in Seq(U) /\ Len(u) = a + c /\ (\A i \in 1 .. a : u[i] = s[i])
      /\ \A i \in a + 1 .. a + c : u[i] = t[i - a]
  BY <1>1, <1>2, Joined
<1>4. DOMAIN u = 1 .. a + c /\ DOMAIN s = 1 .. a /\ DOMAIN t = 1 .. c
  BY <1>1, <1>3
<1>5. ASSUME x \in Range(u) PROVE x \in Range(s) \/ x \in Range(t)
  <2>1. PICK i \in 1 .. a + c : u[i] = x
    BY <1>4, <1>5, RangeIs
  <2>2. CASE i <= a
    <3>1. i \in 1 .. a
      BY <2>2
    <3>2. s[i] = x
      BY <1>3, <2>1, <3>1
    <3> QED BY <1>4, <3>1, <3>2, RangeIs
  <2>3. CASE ~(i <= a)
    <3>1. i \in a + 1 .. a + c /\ i - a \in 1 .. c
      BY <2>3
    <3>2. t[i - a] = x
      BY <1>3, <2>1, <3>1
    <3> QED BY <1>4, <3>1, <3>2, RangeIs
  <2> QED BY <2>2, <2>3
<1>6. ASSUME x \in Range(s) PROVE x \in Range(u)
  <2>1. PICK i \in 1 .. a : s[i] = x
    BY <1>4, <1>6, RangeIs
  <2>2. i \in 1 .. a + c /\ u[i] = x
    BY <1>3, <2>1
  <2> QED BY <1>4, <2>2, RangeIs
<1>7. ASSUME x \in Range(t) PROVE x \in Range(u)
  <2>1. PICK i \in 1 .. c : t[i] = x
    BY <1>4, <1>7, RangeIs
  <2>2. PICK j \in a + 1 .. a + c : j = a + i /\ j - a = i
    <3>1. a + i \in a + 1 .. a + c /\ (a + i) - a = i
      OBVIOUS
    <3> QED BY <3>1
  <2>3. u[j] = x /\ j \in 1 .. a + c
    BY <1>3, <2>1, <2>2
  <2> QED BY <1>4, <2>3, RangeIs
<1> QED BY <1>2, <1>5, <1>6, <1>7

LEMMA MixedNext ==
  ASSUME NEW n \in Nat, NEW k \in Nat, NEW p, IsMixed(n, p, k), NEW m \in Nat, m < k, NEW o, MixedTo(n, p, m, o),
         NEW q, q = p[m + 1]
  PROVE  MixedTo(n, p, m + 1, o \o q)
<1>1. m + 1 \in 1 .. k
  OBVIOUS
<1>2. PICK U : U = 1 .. n
  OBVIOUS
<1>3. PICK s \in Seq(U) : s = o
  BY <1>2 DEF MixedTo
<1>4. PICK t \in Seq(U) : t = q /\ t = p[m + 1]
  BY <1>1, <1>2 DEF IsMixed
<1>5. PICK a \in Nat, c \in Nat : a = Len(s) /\ c = Len(t)
  OBVIOUS
<1>6. PICK u : u = s \o t
  OBVIOUS
<1>7. /\ u \in Seq(U) /\ Len(u) = a + c /\ (\A i \in 1 .. a : u[i] = s[i])
      /\ \A i \in a + 1 .. a + c : u[i] = t[i - a]
  BY <1>5, <1>6, Joined
<1>8. DOMAIN u = 1 .. a + c /\ DOMAIN s = 1 .. a /\ DOMAIN t = 1 .. c
  BY <1>5, <1>7
<1>9. ASSUME NEW x PROVE x \in Range(u) <=> \E j \in 1 .. m + 1 : x \in Range(p[j])
  <2>1. x \in Range(u) <=> x \in Range(s) \/ x \in Range(t)
    BY <1>6, JoinedRange
  <2>2. x \in Range(s) <=> \E j \in 1 .. m : x \in Range(p[j])
    BY <1>3 DEF MixedTo
  <2>3. \A j : j \in 1 .. m + 1 <=> j \in 1 .. m \/ j = m + 1
    OBVIOUS
  <2> QED BY <1>4, <2>1, <2>2, <2>3
<1>10. \A i, j \in 1 .. a : s[i] = s[j] => i = j
  BY <1>3, <1>8 DEF MixedTo
<1>11. \A i, j \in 1 .. c : t[i] = t[j] => i = j
  BY <1>1, <1>4, <1>8 DEF IsMixed, Apart
<1>12. ASSUME NEW i \in 1 .. a, NEW j \in 1 .. c PROVE s[i] # t[j]
  <2>1. SUFFICES ASSUME s[i] = t[j] PROVE FALSE
    OBVIOUS
  <2>2. s[i] \in Range(s)
    BY <1>8, RangeIs
  <2>3. PICK l \in 1 .. m : s[i] \in Range(p[l])
    BY <1>3, <2>2 DEF MixedTo
  <2>4. PICK y \in DOMAIN p[l] : p[l][y] = s[i]
    BY <2>3, RangeIs
  <2>5. PICK z : z = m + 1 /\ z \in 1 .. k /\ l \in 1 .. k /\ l # z /\ j \in DOMAIN p[z] /\ p[z][j] = t[j]
    BY <1>1, <1>4, <1>8
  <2>6. p[l][y] = p[z][j]
    BY <2>1, <2>4, <2>5
  <2> QED BY <2>4, <2>5, <2>6 DEF IsMixed, Apart
<1>13. ASSUME NEW i \in 1 .. a + c, NEW j \in 1 .. a + c, u[i] = u[j] PROVE i = j
  <2>1. \A x \in 1 .. a + c : (x <= a /\ x \in 1 .. a /\ u[x] = s[x]) \/ (~(x <= a) /\ x - a \in 1 .. c /\ u[x] = t[x - a])
    <3> TAKE x \in 1 .. a + c
    <3>1. CASE x <= a
      <4>1. x \in 1 .. a
        BY <3>1
      <4> QED BY <1>7, <3>1, <4>1
    <3>2. CASE ~(x <= a)
      <4>1. x \in a + 1 .. a + c /\ x - a \in 1 .. c
        BY <3>2
      <4> QED BY <1>7, <3>2, <4>1
    <3> QED BY <3>1, <3>2
  <2>2. CASE i <= a /\ j <= a
    BY <1>10, <1>13, <2>1, <2>2
  <2>3. CASE i <= a /\ ~(j <= a)
    BY <1>12, <1>13, <2>1, <2>3
  <2>4. CASE ~(i <= a) /\ j <= a
    BY <1>12, <1>13, <2>1, <2>4
  <2>5. CASE ~(i <= a) /\ ~(j <= a)
    <3>1. i - a = j - a
      BY <1>11, <1>13, <2>1, <2>5
    <3> QED BY <3>1
  <2> QED BY <2>2, <2>3, <2>4, <2>5
<1>14. MixedTo(n, p, m + 1, u)
  BY <1>2, <1>7, <1>8, <1>9, <1>13 DEF MixedTo
<1> QED BY <1>3, <1>4, <1>6, <1>14

LEMMA Interval ==
  ASSUME NEW l \in Nat
  PROVE  IsFiniteSet(1 .. l) /\ Cardinality(1 .. l) = l
<1>1. IsFiniteSet(1 .. l) /\ Cardinality(1 .. l) = IF 1 > l THEN 0 ELSE l - 1 + 1
  BY FS_Interval
<1>2. 1 > l => l = 0
  OBVIOUS
<1>3. ~(1 > l) => l - 1 + 1 = l
  OBVIOUS
<1> QED BY <1>1, <1>2, <1>3

LEMMA MixedEnd ==
  ASSUME NEW n \in Nat, NEW k \in Nat, NEW p, IsMixed(n, p, k), NEW o, MixedTo(n, p, k, o)
  PROVE  Rearrangement(o, n)
<1>1. PICK l \in Nat : l = Len(o)
  BY DEF MixedTo
<1>2. DOMAIN o = 1 .. l /\ o \in [1 .. l -> 1 .. n]
  BY <1>1 DEF MixedTo
<1>3. ASSUME NEW x \in 1 .. n PROVE \E i \in 1 .. l : o[i] = x
  <2>1. PICK j \in 1 .. k : x \in Range(p[j])
    BY DEF IsMixed, RowsIn
  <2>2. x \in Range(o)
    BY <2>1 DEF MixedTo
  <2> QED BY <1>2, <2>2, RangeIs
<1>4. \A i, j \in 1 .. l : o[i] = o[j] => i = j
  BY <1>2 DEF MixedTo
<1>5. l = n
  <2>1. IsFiniteSet(1 .. l) /\ Cardinality(1 .. l) = l /\ Cardinality(1 .. n) = n
    BY Interval
  <2>2. o \in Surjection(1 .. l, 1 .. n)
    BY <1>2, <1>3 DEF Surjection
  <2>3. o \in Injection(1 .. l, 1 .. n)
    BY <1>2, <1>4 DEF Injection, IsInjective
  <2> QED BY <2>1, <2>2, <2>3, FS_Surjection
<1> QED BY <1>2, <1>3, <1>4, <1>5 DEF Rearrangement

(* The micro-batches follow each other, and the rows of the first m have     *)
(* been run one after the other.                                             *)
InTurn(n, p, k, b) ==
  p \in [1 .. k -> Seq(1 .. n)] /\ Consecutive(Places(n), k, b, p) /\ b[0] = 0 /\ b[k] = n

InTurnTo(b, m, o) == o = Places(b[m])

LEMMA EndsOf ==
  ASSUME NEW n \in Nat, NEW k \in Nat, NEW p, NEW b, InTurn(n, p, k, b), NEW m \in 0 .. k
  PROVE  b[m] \in 0 .. n /\ (m < k => b[m + 1] \in 0 .. n /\ b[m] <= b[m + 1] /\ p[m + 1] = SubSeq(Places(n), b[m] + 1, b[m + 1]))
<1>1. Len(Places(n)) = n
  BY PlacesType
<1>2. \A i \in 0 .. k : b[i] \in Nat /\ b[i] <= n
  BY <1>1 DEF InTurn, Consecutive
<1>3. ASSUME m < k PROVE b[m] <= b[m + 1] /\ p[m + 1] = SubSeq(Places(n), b[m] + 1, b[m + 1]) /\ m + 1 \in 0 .. k
  <2>1. PICK i \in 1 .. k : i = m + 1 /\ i - 1 = m /\ i \in 0 .. k
    BY <1>3
  <2>2. b[i - 1] <= b[i] /\ p[i] = SubSeq(Places(n), b[i - 1] + 1, b[i])
    BY DEF InTurn, Consecutive
  <2> QED BY <2>1, <2>2
<1> QED BY <1>2, <1>3

LEMMA InTurnNext ==
  ASSUME NEW n \in Nat, NEW k \in Nat, NEW p, NEW b, InTurn(n, p, k, b), NEW m \in Nat, m < k,
         NEW o, InTurnTo(b, m, o), NEW q, q = p[m + 1]
  PROVE  InTurnTo(b, m + 1, o \o q)
<1>1. m \in 0 .. k
  OBVIOUS
<1>2. b[m] \in 0 .. n /\ b[m + 1] \in 0 .. n /\ b[m] <= b[m + 1] /\ p[m + 1] = SubSeq(Places(n), b[m] + 1, b[m + 1])
  BY <1>1, EndsOf
<1>3. PICK x \in Nat, y \in Nat : x = b[m] /\ y = b[m + 1] /\ x <= y /\ y <= n
  BY <1>2
<1>0. PICK U : U = 1 .. n
  OBVIOUS
<1>4. PICK s \in Seq(U) : s = Places(n) /\ Len(s) = n /\ \A i \in 1 .. n : s[i] = i
  BY <1>0, PlacesType
<1>5. q = SubSeq(s, x + 1, y) /\ y <= Len(s)
  BY <1>2, <1>3, <1>4
<1>6. q \in Seq(U) /\ Len(q) = y - x /\ \A i \in 1 .. y - x : q[i] = s[x + i]
  <2>1. /\ SubSeq(s, x + 1, y) \in Seq(U) /\ Len(SubSeq(s, x + 1, y)) = y - x
        /\ \A i \in 1 .. y - x : SubSeq(s, x + 1, y)[i] = s[x + i]
    <3>1. x <= y /\ y <= Len(s)
      BY <1>3, <1>5
    <3> QED BY <3>1, Section, SMTT(30)
  <2> QED BY <1>5, <2>1
<1>7. o \in Seq(U) /\ Len(o) = x /\ \A i \in 1 .. x : o[i] = i
  <2>1. o = Places(x)
    BY <1>3 DEF InTurnTo
  <2>2. Places(x) \in Seq(1 .. x) /\ Len(Places(x)) = x /\ \A i \in 1 .. x : Places(x)[i] = i
    BY PlacesType
  <2>3. Places(x) \in [1 .. x -> 1 .. n]
    BY <1>3 DEF Places
  <2> QED BY <1>0, <2>1, <2>2, <2>3
<1>8. PICK u : u = o \o q
  OBVIOUS
<1>9. /\ u \in Seq(U) /\ Len(u) = Len(o) + Len(q) /\ (\A i \in 1 .. Len(o) : u[i] = o[i])
      /\ \A i \in Len(o) + 1 .. Len(o) + Len(q) : u[i] = q[i - Len(o)]
  <2>1. PICK d \in Seq(U), e \in Seq(U) : d = o /\ e = q
    BY <1>6, <1>7
  <2>2. /\ d \o e \in Seq(U) /\ Len(d \o e) = Len(d) + Len(e) /\ (\A i \in 1 .. Len(d) : (d \o e)[i] = d[i])
        /\ \A i \in Len(d) + 1 .. Len(d) + Len(e) : (d \o e)[i] = e[i - Len(d)]
    BY Joined
  <2> QED BY <1>8, <2>1, <2>2
<1>10. x + (y - x) = y
  BY <1>3
<1>11. u \in Seq(U) /\ Len(u) = y /\ (\A i \in 1 .. x : u[i] = i) /\ \A i \in x + 1 .. y : u[i] = q[i - x]
  BY <1>6, <1>7, <1>9, <1>10
<1>12. ASSUME NEW i \in 1 .. y PROVE u[i] = i
  <2>1. CASE i <= x
    <3>1. i \in 1 .. x
      BY <2>1
    <3> QED BY <1>11, <3>1
  <2>2. CASE ~(i <= x)
    <3>0. x \in Nat /\ y \in Nat /\ y <= n
      BY <1>3
    <3>1. i \in x + 1 .. y /\ i - x \in 1 .. y - x /\ x + (i - x) = i /\ i \in 1 .. n
      BY <3>0, <2>2, SMTT(30)
    <3>2. q[i - x] = s[x + (i - x)]
      BY <1>6, <3>1
    <3>3. s[x + (i - x)] = i
      BY <1>4, <3>1
    <3> QED BY <1>11, <3>1, <3>2, <3>3
  <2> QED BY <2>1, <2>2
<1>13. u = Places(y)
  <2>1. u = [i \in 1 .. y |-> u[i]]
    BY <1>11
  <2> QED BY <1>12, <2>1 DEF Places
<1> QED BY <1>3, <1>8, <1>13 DEF InTurnTo

MixedRun(n, p, m, o) == \E k \in Nat : k = Len(p) /\ IsMixed(n, p, k) /\ MixedTo(n, p, m, o)

TurnRun(n, p, m, o) == \E k \in Nat : \E b : k = Len(p) /\ InTurn(n, p, k, b) /\ InTurnTo(b, m, o)

(* The rows run so far are those of the first m micro-batches. *)
RunTo(a, n, p, m, o) == (a = 1 => MixedRun(n, p, m, o)) /\ (a # 1 => TurnRun(n, p, m, o))

(* All rows have been run, in their own order unless they were rearranged. *)
AllRun(a, n, o) == Rearrangement(o, n) /\ (a # 1 => o = Places(n))

LEMMA RunNext ==
  ASSUME NEW a, NEW n \in Nat, NEW p, NEW m \in Nat, m < Len(p), NEW o, RunTo(a, n, p, m, o), NEW q, q = p[m + 1]
  PROVE  RunTo(a, n, p, m + 1, o \o q)
<1>1. ASSUME MixedRun(n, p, m, o) PROVE MixedRun(n, p, m + 1, o \o q)
  <2>1. PICK k \in Nat : k = Len(p) /\ IsMixed(n, p, k) /\ MixedTo(n, p, m, o)
    BY <1>1 DEF MixedRun
  <2>2. m < k
    BY <2>1
  <2>3. MixedTo(n, p, m + 1, o \o q)
    BY <2>1, <2>2, MixedNext
  <2> QED BY <2>1, <2>3 DEF MixedRun
<1>2. ASSUME TurnRun(n, p, m, o) PROVE TurnRun(n, p, m + 1, o \o q)
  <2>0. PICK k \in Nat : \E c : k = Len(p) /\ InTurn(n, p, k, c) /\ InTurnTo(c, m, o)
    BY <1>2 DEF TurnRun
  <2>1. PICK b : k = Len(p) /\ InTurn(n, p, k, b) /\ InTurnTo(b, m, o)
    BY <2>0
  <2>2. m < k
    BY <2>1
  <2>3. InTurnTo(b, m + 1, o \o q)
    BY <2>1, <2>2, InTurnNext
  <2> QED BY <2>1, <2>3 DEF TurnRun
<1> QED BY <1>1, <1>2 DEF RunTo

LEMMA OwnOrder ==
  ASSUME NEW n \in Nat, NEW o, o = Places(n)
  PROVE  Rearrangement(o, n)
<1>1. o \in [1 .. n -> 1 .. n] /\ \A i \in 1 .. n : o[i] = i
  BY DEF Places
<1>2. \A x \in 1 .. n : \E i \in 1 .. n : o[i] = x
  BY <1>1
<1>3. \A i, j \in 1 .. n : o[i] = o[j] => i = j
  BY <1>1
<1> QED BY <1>1, <1>2, <1>3 DEF Rearrangement

LEMMA RunEnd ==
  ASSUME NEW a, NEW n \in Nat, NEW p, NEW m, m = Len(p), NEW o, RunTo(a, n, p, m, o)
  PROVE  AllRun(a, n, o)
<1>1. ASSUME MixedRun(n, p, m, o) PROVE Rearrangement(o, n)
  <2>1. PICK k \in Nat : k = Len(p) /\ IsMixed(n, p, k) /\ MixedTo(n, p, m, o)
    BY <1>1 DEF MixedRun
  <2>2. MixedTo(n, p, k, o)
    BY <2>1
  <2> QED BY <2>1, <2>2, MixedEnd
<1>2. ASSUME TurnRun(n, p, m, o) PROVE o = Places(n)
  <2>0. PICK k \in Nat : \E c : k = Len(p) /\ InTurn(n, p, k, c) /\ InTurnTo(c, m, o)
    BY <1>2 DEF TurnRun
  <2>1. PICK b : k = Len(p) /\ InTurn(n, p, k, b) /\ InTurnTo(b, m, o)
    BY <2>0
  <2>2. b[m] = n
    BY <2>1 DEF InTurn
  <2> QED BY <2>1, <2>2 DEF InTurnTo
<1>3. CASE a = 1
  BY <1>1, <1>3 DEF RunTo, AllRun
<1>4. CASE a # 1
  <2>1. o = Places(n)
    BY <1>2, <1>4 DEF RunTo
  <2>2. Rearrangement(o, n)
    BY <2>1, OwnOrder
  <2> QED BY <2>1, <2>2 DEF AllRun
<1> QED BY <1>3, <1>4

LEMMA NonePlaces == Places(0) = << >>
<1>1. 1 .. 0 = {}
  OBVIOUS
<1>2. Places(0) = [i \in {} |-> i]
  BY <1>1 DEF Places
<1> QED BY <1>2

LEMMA SplitTurns ==
  ASSUME NEW n \in Nat, NEW z \in Nat \ {0}
  PROVE  InTurn(n, SplitBy(Places(n), z), Up(n, z), Ends(n, z)) /\ Len(SplitBy(Places(n), z)) = Up(n, z)
<1>1. PICK U : U = 1 .. n
  OBVIOUS
<1>2. PICK s \in Seq(U) : s = Places(n) /\ Len(s) = n
  BY <1>1, PlacesType
<1>3. PICK p : p = SplitBy(s, z)
  OBVIOUS
<1>4. Pieces(U, s, z, p)
  BY <1>3, SplitPieces
<1>5. PICK k \in Nat : k = Up(n, z)
  BY Ceiling
<1>6. PICK b : b = Ends(n, z)
  OBVIOUS
<1>7. p \in [1 .. k -> Seq(U)] /\ Consecutive(s, k, b, p) /\ b[0] = 0 /\ b[k] = n
  BY <1>2, <1>4, <1>5, <1>6 DEF Pieces
<1>8. InTurn(n, p, k, b)
  BY <1>1, <1>2, <1>7 DEF InTurn
<1>9. Len(p) = k
  BY <1>7
<1> QED BY <1>2, <1>3, <1>5, <1>6, <1>8, <1>9

LEMMA SplitInTurn ==
  ASSUME NEW n \in Nat, NEW z \in Nat \ {0}
  PROVE  TurnRun(n, SplitBy(Places(n), z), 0, << >>)
<1>1. PICK k \in Nat : k = Up(n, z)
  BY Ceiling
<1>2. PICK b : b = Ends(n, z)
  OBVIOUS
<1>3. PICK p : p = SplitBy(Places(n), z)
  OBVIOUS
<1>4. k = Len(p) /\ InTurn(n, p, k, b)
  BY <1>1, <1>2, <1>3, SplitTurns
<1>5. InTurnTo(b, 0, << >>)
  BY <1>4, NonePlaces DEF InTurn, InTurnTo
<1> QED BY <1>3, <1>4, <1>5 DEF TurnRun

LEMMA ChunkTurns ==
  ASSUME NEW n \in Nat, NEW k \in Nat \ {0}, Rest(n, k) = 0
  PROVE  InTurn(n, Chunk(Places(n), k), k, BoundsOf(n, k)) /\ Len(Chunk(Places(n), k)) = k
<1>1. PICK U : U = 1 .. n
  OBVIOUS
<1>2. PICK s \in Seq(U) : s = Places(n) /\ Len(s) = n
  BY <1>1, PlacesType
<1>3. PICK p : p = Chunk(s, k)
  OBVIOUS
<1>4. PICK b : b = BoundsOf(n, k)
  OBVIOUS
<1>5. p \in [1 .. k -> Seq(U)] /\ Consecutive(s, k, b, p) /\ b[0] = 0 /\ b[k] = n
  <2>1. Rest(Len(s), k) = 0
    BY <1>2
  <2>2. /\ Chunk(s, k) \in [1 .. k -> Seq(U)] /\ Consecutive(s, k, BoundsOf(Len(s), k), Chunk(s, k))
        /\ BoundsOf(Len(s), k)[0] = 0 /\ BoundsOf(Len(s), k)[k] = Len(s)
    BY <2>1, EvenPieces
  <2> QED BY <1>2, <1>3, <1>4, <2>2
<1>6. InTurn(n, p, k, b)
  BY <1>1, <1>2, <1>5 DEF InTurn
<1>7. Len(p) = k
  BY <1>5
<1> QED BY <1>2, <1>3, <1>4, <1>6, <1>7

LEMMA ChunkInTurn ==
  ASSUME NEW n \in Nat, NEW k \in Nat \ {0}, Rest(n, k) = 0
  PROVE  TurnRun(n, Chunk(Places(n), k), 0, << >>)
<1>1. PICK b : b = BoundsOf(n, k)
  OBVIOUS
<1>2. PICK p : p = Chunk(Places(n), k)
  OBVIOUS
<1>3. k = Len(p) /\ InTurn(n, p, k, b) /\ k \in Nat
  BY <1>1, <1>2, ChunkTurns
<1>4. InTurnTo(b, 0, << >>)
  BY <1>3, NonePlaces DEF InTurn, InTurnTo
<1> QED BY <1>2, <1>3, <1>4 DEF TurnRun

LEMMA PartsMixed ==
  ASSUME NEW n \in Nat, NEW lens, NEW k \in Nat, NEW g, NEW parts, UnequalParts(lens, n, k, g, parts)
  PROVE  MixedRun(n, Rearranged(Places(n), parts), 0, << >>)
<1>1. parts \in [1 .. k -> Seq(1 .. n)] /\ Apart(parts, k) /\ \A r \in 1 .. n : r \in RowsIn(parts, k)
  BY DEF UnequalParts
<1>2. Rearranged(Places(n), parts) = parts
  <2>1. ASSUME NEW j \in 1 .. k PROVE [i \in DOMAIN parts[j] |-> Places(n)[parts[j][i]]] = parts[j]
    <3>1. PICK a \in Seq(1 .. n) : a = parts[j]
      BY <1>1
    <3>2. ASSUME NEW i \in DOMAIN a PROVE Places(n)[a[i]] = a[i]
      <4>1. a[i] \in 1 .. n
        BY MembersOf
      <4> QED BY <4>1, PlacesType
    <3>3. a = [i \in DOMAIN a |-> a[i]]
      OBVIOUS
    <3>4. [i \in DOMAIN a |-> Places(n)[a[i]]] = [i \in DOMAIN a |-> a[i]]
      BY <3>2
    <3> QED BY <3>1, <3>3, <3>4
  <2>2. DOMAIN parts = 1 .. k
    BY <1>1
  <2>3. Rearranged(Places(n), parts) = [j \in 1 .. k |-> [i \in DOMAIN parts[j] |-> Places(n)[parts[j][i]]]]
    BY <2>2 DEF Rearranged
  <2>4. parts = [j \in 1 .. k |-> parts[j]]
    BY <1>1
  <2>5. [j \in 1 .. k |-> [i \in DOMAIN parts[j] |-> Places(n)[parts[j][i]]]] = [j \in 1 .. k |-> parts[j]]
    BY <2>1
  <2> QED BY <2>3, <2>4, <2>5
<1>3. IsMixed(n, parts, k)
  BY <1>1 DEF IsMixed
<1>4. Len(parts) = k
  BY <1>1
<1>5. MixedTo(n, parts, 0, << >>)
  BY MixedStart
<1> QED BY <1>2, <1>3, <1>4, <1>5 DEF MixedRun

(* The order of the rows a rank has run, as the stage it is at says. *)
OrderAt(a, n, sg, td, pl, rn, o) ==
  /\ sg = "called" => o = << >>
  /\ sg \in {"next", "asking"} /\ td # << >> => o = << >>
  /\ sg = "running" => RunTo(a, n, pl, rn, o)
  /\ sg = "next" /\ td = << >> => AllRun(a, n, o)
  /\ sg = "returned" => AllRun(a, n, o)

OrderedAt(r) == OrderAt(Asks, Len(held[0]), stage[r], todo[r], plan[r], ran[r], order[r])

RunOrders ==
  /\ DOMAIN order = Rank
  /\ phase = "calling" /\ Calls[call] \notin Updates => \A r \in Rank : OrderedAt(r)

OrderedNext(r) == OrderAt(Asks, Len(held[0]), stage'[r], todo'[r], plan'[r], ran'[r], order'[r])

Keeps(r) ==
  /\ UNCHANGED <<conf, phase, call, held>> /\ DOMAIN order' = Rank
  /\ \A q \in Rank : q # r => /\ stage'[q] = stage[q] /\ todo'[q] = todo[q] /\ plan'[q] = plan[q] /\ ran'[q] = ran[q]
                              /\ order'[q] = order[q]

LEMMA OrdersKept ==
  ASSUME RunOrders, phase = "calling", Calls[call] \notin Updates, NEW r \in Rank, Keeps(r), OrderedNext(r)
  PROVE  RunOrders'
<1>1. UNCHANGED <<conf, phase, call, held>> /\ DOMAIN order' = Rank
  BY DEF Keeps
<1>2. Asks' = Asks
  BY <1>1 DEF Asks, Dynamic
<1>3. ASSUME NEW q \in Rank PROVE OrderedNext(q)
  <2>1. CASE q = r
    BY <2>1
  <2>2. CASE q # r
    <3>1. stage'[q] = stage[q] /\ todo'[q] = todo[q] /\ plan'[q] = plan[q] /\ ran'[q] = ran[q] /\ order'[q] = order[q]
      BY <2>2 DEF Keeps
    <3>2. OrderAt(Asks, Len(held[0]), stage[q], todo[q], plan[q], ran[q], order[q])
      BY DEF RunOrders, OrderedAt
    <3> QED BY <3>1, <3>2 DEF OrderedNext
  <2> QED BY <2>1, <2>2
<1>4. ASSUME NEW q \in Rank PROVE OrderedAt(q)'
  BY <1>1, <1>2, <1>3 DEF OrderedNext, OrderedAt
<1> QED BY <1>1, <1>4 DEF RunOrders

(* All that is to do in a call that computes numbers is to run all rows once. *)
LEMMA OnlyWork ==
  ASSUME Running, phase = "calling", Calls[call] \notin Updates, NEW r \in Rank, stage[r] # "called", todo[r] # << >>
  PROVE  Head(todo[r]) = Places(Len(held[0])) /\ Tail(todo[r]) = << >>
<1>1. IsConf(conf) /\ call \in 1 .. 5 /\ HeldAlike /\ RankIs(Course, r, stage[r], todo[r], plan[r], ran[r], log[r])
  BY AtCall DEF AtRank
<1>2. TodoIs(Course, todo[r])
  BY <1>1 DEF RankIs
<1>3. PICK w : w = Places(Len(held[0]))
  OBVIOUS
<1>4. Course.works = <<w>>
  <2>1. Course.works = Works
    BY DEF Course
  <2> QED BY <1>3, <2>1 DEF Works, Work
<1>5. PICK U : U = Seq(1 .. Course.rows)
  OBVIOUS
<1>6. PICK t \in Seq(U) : t = todo[r] /\ Len(t) <= 1
  <2>1. Len(<<w>>) = 1
    OBVIOUS
  <2> QED BY <1>2, <1>4, <1>5, <2>1 DEF TodoIs
<1>7. Len(t) = 1
  <2>1. t # << >>
    BY <1>6
  <2>2. Len(t) = 0 => t = << >>
    OBVIOUS
  <2>3. PICK l \in Nat : l = Len(t) /\ l <= 1 /\ l # 0
    <3>1. Len(t) \in Nat
      OBVIOUS
    <3>2. Len(t) # 0
      BY <2>1, <2>2
    <3> QED BY <1>6, <3>1, <3>2
  <2>4. l = 1
    BY <2>3
  <2> QED BY <2>3, <2>4
<1>8. t[1] = w
  <2>1. \A i \in 1 .. Len(todo[r]) : todo[r][i] = Course.works[Done(Course, todo[r]) + i]
    BY <1>2 DEF TodoIs
  <2>2. Done(Course, todo[r]) = 0
    <3>1. Len(<<w>>) = 1
      OBVIOUS
    <3> QED BY <1>4, <1>6, <1>7, <3>1 DEF Done
  <2>3. t[1] = <<w>>[0 + 1]
    BY <1>4, <1>6, <1>7, <2>1, <2>2
  <2> QED BY <2>3
<1>9. Head(t) = t[1] /\ Tail(t) = << >>
  BY <1>7
<1> QED BY <1>3, <1>6, <1>8, <1>9

LEMMA BeginOrders ==
  ASSUME Running, RunOrders, Calls[call] \notin Updates, NEW r \in Rank, Begin(r)
  PROVE  RunOrders'
<1>1. phase = "calling" /\ stage[r] = "called"
  BY DEF Begin
<1>2. Shapes /\ HeldAlike
  BY <1>1, AtCall
<1>3. /\ todo' = [todo EXCEPT ![r] = Work(Calls[call], Len(held[r]))]
      /\ stage' = [stage EXCEPT ![r] = "next"]
      /\ UNCHANGED <<conf, phase, call, held, plan, ran, order>>
  BY DEF Begin, driver
<1>4. PICK w : w = Places(Len(held[r]))
  OBVIOUS
<1>5. Work(Calls[call], Len(held[r])) = <<w>>
  BY <1>4 DEF Work
<1>6. stage'[r] = "next" /\ todo'[r] # << >> /\ order'[r] = << >>
  <2>1. todo'[r] = <<w>> /\ <<w>> # << >>
    BY <1>2, <1>3, <1>5 DEF Shapes
  <2>2. order[r] = << >>
    BY <1>1 DEF RunOrders, OrderedAt, OrderAt
  <2> QED BY <1>2, <1>3, <2>1, <2>2 DEF Shapes
<1>7. OrderedNext(r)
  BY <1>6 DEF OrderedNext, OrderAt
<1>8. Keeps(r)
  BY <1>2, <1>3 DEF Keeps, Shapes, RunOrders
<1> QED BY <1>1, <1>7, <1>8, OrdersKept

LEMMA AskOrders ==
  ASSUME Running, RunOrders, Calls[call] \notin Updates, NEW r \in Rank, Ask(r)
  PROVE  RunOrders'
<1>1. phase = "calling" /\ stage[r] = "next" /\ todo[r] # << >>
  BY DEF Ask
<1>2. Shapes /\ HeldAlike
  BY <1>1, AtCall
<1>3. stage' = [stage EXCEPT ![r] = "asking"] /\ UNCHANGED <<conf, phase, call, held, todo, plan, ran, order>>
  BY DEF Ask, driver
<1>4. stage'[r] = "asking" /\ todo'[r] = todo[r] /\ order'[r] = order[r]
  BY <1>2, <1>3 DEF Shapes
<1>5. order[r] = << >>
  BY <1>1 DEF RunOrders, OrderedAt, OrderAt
<1>6. OrderedNext(r)
  BY <1>4, <1>5 DEF OrderedNext, OrderAt
<1>7. Keeps(r)
  BY <1>2, <1>3 DEF Keeps, Shapes, RunOrders
<1> QED BY <1>1, <1>6, <1>7, OrdersKept

LEMMA RearrangeOrders ==
  ASSUME Running, RunOrders, Calls[call] \notin Updates, NEW r \in Rank, Rearrange(r), ~Raise(r)
  PROVE  RunOrders'
<1>1. phase = "calling" /\ stage[r] = "asking" /\ Synced(r)
  BY DEF Rearrange
<1>2. /\ Shapes /\ IsConf(conf) /\ call \in 1 .. 5 /\ HeldAlike /\ \A q \in Rank : AtRank(q)
  BY <1>1, AtCall
<1>3. todo[r] # << >>
  BY <1>1, <1>2 DEF AtRank, RankIs
<1>4. PICK n \in Nat \ {0} : n = Len(held[0])
  <2>1. PICK m, y : AtMiniBatch(r, m, y)
    BY <1>1, <1>3, AtHead
  <2> QED BY <2>1 DEF AtMiniBatch
<1>5. PICK p \in Seq(1 .. n) : p = Places(n) /\ p = Head(todo[r]) /\ Len(p) = n /\ p # << >>
  <2>1. Head(todo[r]) = Places(n)
    BY <1>1, <1>3, <1>4, OnlyWork
  <2>2. Places(n) \in Seq(1 .. n) /\ Len(Places(n)) = n
    BY <1>4, PlacesType
  <2>3. PICK p \in Seq(1 .. n) : p = Places(n) /\ Len(p) = n
    BY <2>2
  <2>4. p # << >>
    BY <2>3
  <2> QED BY <2>1, <2>3, <2>4
<1>6. PICK k \in Nat \ {0} : k = Settled(r)
  <2>1. Settled(r) = Needs(p) /\ Dynamic
    BY <1>1, <1>5, SettledIs
  <2>2. Needs(p) \in Nat \ {0}
    BY <1>2, <1>4, <1>5, NeedsType
  <2> QED BY <2>1, <2>2
<1>7. PICK lens : lens = TokensAt(r, p)
  OBVIOUS
<1>8. PICK parts : parts = get_seqlen_balanced_partitions(lens, k, FALSE)
  OBVIOUS
<1>9. /\ CanPartition(lens, k, FALSE)
      /\ plan' = [plan EXCEPT ![r] = Rearranged(p, parts)]
      /\ stage' = [stage EXCEPT ![r] = "running"]
      /\ ran' = [ran EXCEPT ![r] = 0]
      /\ UNCHANGED <<conf, phase, call, held, todo, order>>
  BY <1>5, <1>6, <1>7, <1>8 DEF Rearrange, driver
<1>10. UnequalParts(lens, n, k, ResponseLength, parts)
  <2>1. /\ CanPartition(lens, k, FALSE) <=> k <= Len(p)
        /\ k <= Len(p) => UnequalParts(lens, Len(p), k, ResponseLength, parts)
    BY <1>2, <1>4, <1>5, <1>7, <1>8, Parted
  <2> QED BY <1>5, <1>9, <2>1
<1>11. MixedRun(n, Rearranged(p, parts), 0, << >>)
  <2>1. MixedRun(n, Rearranged(Places(n), parts), 0, << >>)
    BY <1>10, PartsMixed
  <2> QED BY <1>5, <2>1
<1>12. Asks = 1
  <2>1. Dynamic
    BY <1>1, <1>5, SettledIs
  <2> QED BY <2>1 DEF Asks
<1>13. stage'[r] = "running" /\ plan'[r] = Rearranged(p, parts) /\ ran'[r] = 0 /\ order'[r] = order[r]
  BY <1>2, <1>9 DEF Shapes
<1>14. order[r] = << >>
  BY <1>1, <1>3 DEF RunOrders, OrderedAt, OrderAt
<1>15. RunTo(Asks, Len(held[0]), plan'[r], ran'[r], order'[r])
  BY <1>4, <1>11, <1>12, <1>13, <1>14 DEF RunTo
<1>16. OrderedNext(r)
  BY <1>13, <1>15 DEF OrderedNext, OrderAt
<1>17. Keeps(r)
  BY <1>2, <1>9 DEF Keeps, Shapes, RunOrders
<1> QED BY <1>1, <1>16, <1>17, OrdersKept

LEMMA CutOrders ==
  ASSUME Running, RunOrders, Calls[call] \notin Updates, NEW r \in Rank, Cut(r), ~Raise(r)
  PROVE  RunOrders'
<1>1. phase = "calling" /\ stage[r] = "next" /\ todo[r] # << >> /\ ~Dynamic
  BY DEF Cut, Dynamic
<1>2. /\ Shapes /\ IsConf(conf) /\ call \in 1 .. 5 /\ HeldAlike /\ DriverAt
  BY <1>1, AtCall
<1>3. PICK n \in Nat \ {0} : n = Len(held[0])
  <2>1. PICK m, y : AtMiniBatch(r, m, y)
    BY <1>1, AtHead
  <2> QED BY <2>1 DEF AtMiniBatch
<1>4. PICK p : p = Places(n) /\ p = Head(todo[r])
  BY <1>1, <1>3, OnlyWork
<1>5. Len(p) = n
  BY <1>3, <1>4, PlacesType
<1>6. PICK z \in Nat : z = MicroSize
  BY <1>2, MicroSizeType DEF DriverAt
<1>7. PICK np : np = IF conf.multi_modal THEN Chunk(p, n \div z) ELSE SplitBy(p, z)
  OBVIOUS
<1>8. /\ z > 0 /\ (conf.multi_modal => EvenChunk(n, n \div z))
      /\ plan' = [plan EXCEPT ![r] = np]
      /\ stage' = [stage EXCEPT ![r] = "running"]
      /\ ran' = [ran EXCEPT ![r] = 0]
      /\ UNCHANGED <<conf, phase, call, held, todo, order>>
  BY <1>4, <1>5, <1>6, <1>7 DEF Cut, driver
<1>9. TurnRun(n, np, 0, << >>)
  <2>1. CASE conf.multi_modal
    <3>1. PICK k \in Nat : k = Quot(n, z)
      <4>1. n \in Nat /\ z \in Nat \ {0}
        BY <1>8
      <4>2. Quot(n, z) \in Nat
        BY <4>1, Division
      <4> QED BY <4>2
    <3>2. k = n \div z
      BY <3>1 DEF Quot
    <3>3. k > 0 /\ Rest(n, k) = 0
      BY <1>8, <2>1, <3>2 DEF EvenChunk, Rest
    <3>4. k \in Nat \ {0} /\ n \in Nat
      BY <3>3
    <3>5. TurnRun(n, Chunk(Places(n), k), 0, << >>)
      BY <3>3, <3>4, ChunkInTurn
    <3> QED BY <1>4, <1>7, <2>1, <3>2, <3>5
  <2>2. CASE ~conf.multi_modal
    <3>1. TurnRun(n, SplitBy(Places(n), z), 0, << >>)
      <4>1. z \in Nat \ {0}
        BY <1>8
      <4> QED BY <4>1, SplitInTurn
    <3> QED BY <1>4, <1>7, <2>2, <3>1
  <2> QED BY <2>1, <2>2
<1>10. Asks # 1
  BY <1>1 DEF Asks
<1>11. stage'[r] = "running" /\ plan'[r] = np /\ ran'[r] = 0 /\ order'[r] = order[r]
  BY <1>2, <1>8 DEF Shapes
<1>12. order[r] = << >>
  BY <1>1 DEF RunOrders, OrderedAt, OrderAt
<1>13. RunTo(Asks, Len(held[0]), plan'[r], ran'[r], order'[r])
  BY <1>3, <1>9, <1>10, <1>11, <1>12 DEF RunTo
<1>14. OrderedNext(r)
  BY <1>11, <1>13 DEF OrderedNext, OrderAt
<1>15. Keeps(r)
  BY <1>2, <1>8 DEF Keeps, Shapes, RunOrders
<1> QED BY <1>1, <1>14, <1>15, OrdersKept

LEMMA ForwardOrders ==
  ASSUME Running, RunOrders, Calls[call] \notin Updates, NEW r \in Rank, Forward(r), ~Raise(r)
  PROVE  RunOrders'
<1>1. phase = "calling" /\ stage[r] = "running" /\ ran[r] < Len(plan[r])
  BY DEF Forward
<1>2. Shapes /\ HeldAlike
  BY <1>1, AtCall
<1>3. PICK q : q = plan[r][ran[r] + 1]
  OBVIOUS
<1>4. /\ order' = [order EXCEPT ![r] = @ \o q] /\ ran' = [ran EXCEPT ![r] = @ + 1]
      /\ UNCHANGED <<conf, phase, call, held, stage, todo, plan>>
  BY <1>3 DEF Forward, driver
<1>5. stage'[r] = "running" /\ plan'[r] = plan[r] /\ ran'[r] = ran[r] + 1 /\ order'[r] = order[r] \o q
  BY <1>1, <1>2, <1>4 DEF Shapes, RunOrders
<1>6. PICK n \in Nat : n = Len(held[0])
  <2>1. 0 \in Rank
    BY SomeRank
  <2>2. held[0] \in Seq(Rows)
    BY <1>2, <2>1 DEF HeldAlike
  <2> QED BY <2>2
<1>7. PICK m \in Nat : m = ran[r] /\ m < Len(plan[r])
  BY <1>1, <1>2 DEF Shapes
<1>8. RunTo(Asks, n, plan[r], m, order[r])
  BY <1>1, <1>6, <1>7 DEF RunOrders, OrderedAt, OrderAt
<1>9. RunTo(Asks, n, plan[r], m + 1, order[r] \o q)
  BY <1>3, <1>7, <1>8, RunNext
<1>10. OrderedNext(r)
  BY <1>5, <1>6, <1>7, <1>9 DEF OrderedNext, OrderAt
<1>11. Keeps(r)
  BY <1>2, <1>4 DEF Keeps, Shapes, RunOrders
<1> QED BY <1>1, <1>10, <1>11, OrdersKept

LEMMA StepOrders ==
  ASSUME Running, RunOrders, Calls[call] \notin Updates, NEW r \in Rank, Step(r)
  PROVE  RunOrders'
<1>1. phase = "calling" /\ stage[r] = "running" /\ ran[r] = Len(plan[r])
  BY DEF Step
<1>2. Shapes /\ HeldAlike /\ AtRank(r)
  BY <1>1, AtCall
<1>3. todo' = [todo EXCEPT ![r] = Tail(@)] /\ stage' = [stage EXCEPT ![r] = "next"]
      /\ UNCHANGED <<conf, phase, call, held, plan, ran, order>>
  BY DEF Step, driver
<1>4. todo[r] # << >>
  BY <1>1, <1>2 DEF AtRank, RankIs
<1>5. Tail(todo[r]) = << >>
  BY <1>1, <1>4, OnlyWork
<1>6. stage'[r] = "next" /\ todo'[r] = << >> /\ order'[r] = order[r]
  BY <1>2, <1>3, <1>5 DEF Shapes
<1>7. PICK n \in Nat : n = Len(held[0])
  <2>1. 0 \in Rank
    BY SomeRank
  <2>2. held[0] \in Seq(Rows)
    BY <1>2, <2>1 DEF HeldAlike
  <2> QED BY <2>2
<1>8. RunTo(Asks, n, plan[r], ran[r], order[r])
  BY <1>1, <1>7 DEF RunOrders, OrderedAt, OrderAt
<1>9. AllRun(Asks, n, order[r])
  BY <1>1, <1>8, RunEnd
<1>10. OrderedNext(r)
  BY <1>6, <1>7, <1>9 DEF OrderedNext, OrderAt
<1>11. Keeps(r)
  BY <1>2, <1>3 DEF Keeps, Shapes, RunOrders
<1> QED BY <1>1, <1>10, <1>11, OrdersKept

LEMMA FinishOrders ==
  ASSUME Running, RunOrders, Calls[call] \notin Updates, NEW r \in Rank, Finish(r), ~Raise(r)
  PROVE  RunOrders'
<1>1. phase = "calling" /\ stage[r] = "next" /\ todo[r] = << >>
  BY DEF Finish
<1>2. Shapes /\ HeldAlike
  BY <1>1, AtCall
<1>3. stage' = [stage EXCEPT ![r] = "returned"] /\ UNCHANGED <<conf, phase, call, held, todo, plan, ran, order>>
  BY DEF Finish, driver
<1>4. stage'[r] = "returned" /\ order'[r] = order[r]
  BY <1>2, <1>3 DEF Shapes
<1>5. AllRun(Asks, Len(held[0]), order[r])
  BY <1>1 DEF RunOrders, OrderedAt, OrderAt
<1>6. OrderedNext(r)
  BY <1>4, <1>5 DEF OrderedNext, OrderAt
<1>7. Keeps(r)
  BY <1>2, <1>3 DEF Keeps, Shapes, RunOrders
<1> QED BY <1>1, <1>6, <1>7, OrdersKept

IdsOf(b) == [i \in DOMAIN b |-> b[i].id]

LEMMA IdsType ==
  ASSUME NEW b \in Seq(Rows), NEW t, t = IdsOf(b)
  PROVE  t \in Seq(Nat) /\ Len(t) = Len(b) /\ \A i \in 1 .. Len(b) : t[i] = b[i].id
<1>1. PICK n \in Nat : n = Len(b) /\ DOMAIN b = 1 .. n
  OBVIOUS
<1>2. \A i \in 1 .. n : b[i].id \in Nat
  <2>1. \A x \in Rows : x.id \in Nat
    BY DEF Rows
  <2>2. \A i \in 1 .. n : b[i] \in Rows
    BY <1>1, MembersOf
  <2> QED BY <2>1, <2>2
<1>3. t = [i \in 1 .. n |-> b[i].id]
  BY <1>1 DEF IdsOf
<1>4. t \in [1 .. n -> Nat] /\ \A i \in 1 .. n : t[i] = b[i].id
  BY <1>2, <1>3
<1>5. PICK u \in [1 .. n -> Nat] : u = t
  BY <1>4
<1>6. u \in Seq(Nat) /\ Len(u) = n
  OBVIOUS
<1> QED BY <1>1, <1>4, <1>5, <1>6

(* The numbers of a call whose rows came in another order, put back. *)
LEMMA PutBack ==
  ASSUME NEW n \in Nat, NEW o, Rearrangement(o, n), NEW h \in Seq(Rows), Len(h) = n,
         NEW out, out = [i \in DOMAIN o |-> h[o[i]].id]
  PROVE  [i \in DOMAIN out |-> out[get_reverse_idx(o)[i]]] = IdsOf(h)
<1>1. DOMAIN o = 1 .. n /\ DOMAIN out = 1 .. n /\ DOMAIN h = 1 .. n
  BY DEF Rearrangement
<1>2. PICK v : v = get_reverse_idx(o)
  OBVIOUS
<1>3. ASSUME NEW i \in 1 .. n PROVE out[v[i]] = h[i].id
  <2>1. \E j \in 1 .. n : o[j] = i
    BY DEF Rearrangement
  <2>2. v[i] = CHOOSE j \in 1 .. n : o[j] = i
    BY <1>1, <1>2 DEF get_reverse_idx
  <2>3. v[i] \in 1 .. n /\ o[v[i]] = i
    BY <2>1, <2>2
  <2>4. out[v[i]] = h[o[v[i]]].id
    BY <1>1, <2>3
  <2> QED BY <2>3, <2>4
<1>4. [i \in DOMAIN out |-> out[v[i]]] = [i \in 1 .. n |-> h[i].id]
  BY <1>1, <1>3
<1> QED BY <1>1, <1>2, <1>4, SMTT(30) DEF IdsOf

LEMMA ResultIs ==
  ASSUME NEW r \in Rank, NEW n \in Nat, AllRun(Asks, n, order[r]), held[r] \in Seq(Rows), Len(held[r]) = n
  PROVE  ResultOf(r) = IdsOf(held[r])
<1>1. PICK o : o = order[r] /\ Rearrangement(o, n)
  BY DEF AllRun
<1>2. PICK h \in Seq(Rows) : h = held[r] /\ Len(h) = n
  OBVIOUS
<1>3. PICK out : out = [i \in DOMAIN o |-> h[o[i]].id]
  OBVIOUS
<1>4. ResultOf(r) = IF conf.dynamic THEN [i \in DOMAIN out |-> out[get_reverse_idx(o)[i]]] ELSE out
  BY <1>1, <1>2, <1>3 DEF ResultOf
<1>5. CASE conf.dynamic
  <2>1. [i \in DOMAIN out |-> out[get_reverse_idx(o)[i]]] = IdsOf(h)
    BY <1>1, <1>2, <1>3, PutBack
  <2> QED BY <1>2, <1>4, <1>5, <2>1
<1>6. CASE ~conf.dynamic
  <2>1. Asks # 1
    BY <1>6 DEF Asks, Dynamic
  <2>2. o = Places(n)
    BY <1>1, <2>1 DEF AllRun
  <2>3. DOMAIN o = 1 .. n /\ \A i \in 1 .. n : o[i] = i
    BY <2>2 DEF Places
  <2>4. out = [i \in 1 .. n |-> h[i].id]
    BY <1>3, <2>3
  <2>5. DOMAIN h = 1 .. n
    BY <1>2
  <2>6. out = IdsOf(h)
    BY <2>4, <2>5 DEF IdsOf
  <2> QED BY <1>2, <1>4, <1>6, <2>6
<1> QED BY <1>5, <1>6

LEMMA PartIs ==
  ASSUME IsConf(conf), NEW b \in Seq(Rows), b = batch, NEW m \in Nat, Len(b) = WorldSize * m, NEW r \in Rank,
         NEW res, res = IdsOf(RowsOf(r)), NEW u, u = PartOfGroup(r, res)
  PROVE  u \in Seq(Nat) /\ Len(u) = m /\ \A i \in 1 .. m : u[i] = b[BlockPlace(r, m, i)].id
<1>1. PICK w \in Nat \ {0}, d \in Nat \ {0} : w = WorldSize /\ d = conf.sp
  BY ConfNumbers, StepAssumption
<1>2. PICK a \in Nat : r \div conf.sp = a /\ \E e \in 0 .. conf.sp - 1 : r % conf.sp = e /\ r = conf.sp * a + e
  BY GroupOfRank
<1>3. PICK e \in 0 .. d - 1 : r % d = e /\ r = d * a + e
  BY <1>1, <1>2
<1>4. /\ RowsOf(r) \in Seq(Rows) /\ Len(RowsOf(r)) = conf.sp * m
      /\ \A i \in 1 .. conf.sp * m : RowsOf(r)[i] = b[FirstOf(r \div conf.sp, m) + i]
  BY RowsOfRank
<1>5. PICK l \in Nat, f \in Nat : l = d * m /\ f = (d * a) * m
  OBVIOUS
<1>6. PICK h \in Seq(Rows) : h = RowsOf(r) /\ Len(h) = l /\ \A i \in 1 .. l : h[i] = b[f + i]
  BY <1>1, <1>2, <1>4, <1>5 DEF FirstOf
<1>7. res \in Seq(Nat) /\ Len(res) = l /\ \A i \in 1 .. l : res[i] = h[i].id
  BY <1>6, IdsType, ZenonT(40)
<1>8. PICK x \in Nat : x = e * m
  OBVIOUS
<1>9. x + m <= l
  <2>1. e + 1 <= d
    OBVIOUS
  <2>2. m * e + m <= m * d
    BY Ordered
  <2>3. m * e = x /\ m * d = l
    BY <1>5, <1>8
  <2> QED BY <2>2, <2>3
<1>10. Quot(Len(b), w) = m
  BY <1>1, IsQuotient
<1>11. u = SubSeq(res, x + 1, x + m)
  <2>1. (e + 1) * m = x + m
    BY <1>8
  <2> QED BY <1>1, <1>3, <1>8, <1>10, <2>1 DEF PartOfGroup, Quot
<1>12. u \in Seq(Nat) /\ Len(u) = m /\ \A i \in 1 .. m : u[i] = res[x + i]
  <2>1. PICK s \in Seq(Nat) : s = res /\ Len(s) = l
    BY <1>7
  <2>2. PICK y \in Nat : y = x + m /\ x <= y /\ y <= Len(s) /\ y - x = m
    BY <1>9, <2>1
  <2>3. /\ SubSeq(s, x + 1, y) \in Seq(Nat) /\ Len(SubSeq(s, x + 1, y)) = y - x
        /\ \A i \in 1 .. y - x : SubSeq(s, x + 1, y)[i] = s[x + i]
    BY <2>2, Section
  <2> QED BY <1>11, <2>1, <2>2, <2>3
<1>13. ASSUME NEW i \in 1 .. m PROVE u[i] = b[BlockPlace(r, m, i)].id
  <2>1. x + i \in 1 .. l
    BY <1>9
  <2>2. u[i] = h[x + i].id
    BY <1>7, <1>12, <2>1
  <2>3. h[x + i] = b[f + (x + i)]
    BY <1>6, <2>1
  <2>4. f + (x + i) = BlockPlace(r, m, i)
    <3>1. r * m = (d * a + e) * m
      BY <1>3
    <3>2. (d * a + e) * m = (d * a) * m + e * m
      OBVIOUS
    <3>3. PICK g \in Nat : g = r * m /\ g = f + x
      BY <1>5, <1>8, <3>1, <3>2
    <3>4. f + (x + i) = g + i
      BY <3>3
    <3> QED BY <3>3, <3>4 DEF BlockPlace
  <2> QED BY <2>2, <2>3, <2>4
<1> QED BY <1>12, <1>13

LEMMA CollectedIs ==
  ASSUME DriverAt, phase \notin {"collected", "failed"},
         \A r \in Rank : ResultOf(r) = IdsOf(RowsOf(r))
  PROVE  CollectedNumbers = IdsOf(batch)
<1>1. PICK n \in Nat \ {0} : \E w \in Nat \ {0} : n = Len(batch) /\ w = WorldSize /\ w <= n /\ Rest(n, w) = 0 /\ batch \in [1 .. n -> Rows]
  BY WholeBatch
<1>2. PICK w \in Nat \ {0} : n = Len(batch) /\ w = WorldSize /\ w <= n /\ Rest(n, w) = 0 /\ batch \in [1 .. n -> Rows]
  BY <1>1
<1>3. PICK m \in Nat : m = Quot(n, w) /\ n = w * m
  <2>1. Quot(n, w) \in Nat /\ n = w * Quot(n, w)
    BY <1>2, InBlock
  <2> QED BY <2>1
<1>4. m # 0
  <2>1. SUFFICES ASSUME m = 0 PROVE FALSE
    OBVIOUS
  <2>2. w * 0 = 0
    OBVIOUS
  <2> QED BY <1>3, <2>1, <2>2
<1>5. InBlocks(n, m, w)
  <2>1. m \in Nat \ {0} /\ n = m * w
    BY <1>3, <1>4
  <2>2. Quot(n, m) = w /\ Rest(n, m) = 0
    BY <2>1, IsQuotient
  <2>3. InBlocks(n, m, Quot(n, m))
    BY <2>1, <2>2, InBlock
  <2> QED BY <2>2, <2>3
<1>6. PICK b \in Seq(Rows) : b = batch /\ Len(b) = n
  BY <1>2 DEF DriverAt
<1>7. PICK p : p = [i \in 1 .. WorldSize |-> PartOfGroup(i - 1, ResultOf(i - 1))]
  OBVIOUS
<1>8. ASSUME NEW i \in 1 .. w
      PROVE  p[i] \in Seq(Nat) /\ Len(p[i]) = m /\ \A j \in 1 .. m : p[i][j] = b[BlockPlace(i - 1, m, j)].id
  <2>1. PICK r \in Rank : r = i - 1
    <3>1. i - 1 \in 0 .. w - 1
      OBVIOUS
    <3> QED BY <1>2, <3>1 DEF Rank
  <2>2. PICK u : u = p[i] /\ u = PartOfGroup(r, IdsOf(RowsOf(r)))
    BY <1>2, <1>7, <2>1
  <2>3. Len(b) = WorldSize * m /\ IsConf(conf)
    BY <1>2, <1>3, <1>6 DEF DriverAt
  <2>4. u \in Seq(Nat) /\ Len(u) = m /\ \A j \in 1 .. m : u[j] = b[BlockPlace(r, m, j)].id
    BY <1>6, <2>2, <2>3, PartIs
  <2> QED BY <2>1, <2>2, <2>4
<1>9. PICK parts \in [1 .. w -> Seq(Nat)] : parts = p
  BY <1>2, <1>7, <1>8, ZenonT(40)
<1>10. PICK t \in Seq(Nat) : t = Concat(parts) /\ Laid(t, parts, w, m)
  <2>1. \A i \in 1 .. w : Len(parts[i]) = m
    BY <1>8, <1>9
  <2>2. Concat(parts) \in Seq(Nat) /\ Laid(Concat(parts), parts, w, m)
    BY <2>1, ConcatEqual
  <2> QED BY <2>2
<1>11. Len(t) = n
  BY <1>3, <1>10 DEF Laid
<1>12. ASSUME NEW x \in 1 .. n PROVE t[x] = b[x].id
  <2>1. PICK k \in 0 .. w - 1, j \in 1 .. m : x = BlockPlace(k, m, j)
    BY <1>5 DEF InBlocks
  <2>2. t[x] = parts[k + 1][j]
    BY <1>10, <2>1 DEF Laid
  <2>3. PICK i \in 1 .. w : i = k + 1 /\ i - 1 = k
    <3>1. k + 1 \in 1 .. w /\ (k + 1) - 1 = k
      OBVIOUS
    <3> QED BY <3>1
  <2> QED BY <1>8, <1>9, <2>1, <2>2, <2>3
<1>13. t = IdsOf(b)
  <2>1. PICK v : v = IdsOf(b)
    OBVIOUS
  <2>2. v \in Seq(Nat) /\ Len(v) = n /\ \A i \in 1 .. n : v[i] = b[i].id
    BY <1>6, <2>1, IdsType, SMTT(30)
  <2>3. \A i \in 1 .. Len(t) : t[i] = v[i]
    BY <1>11, <1>12, <2>2
  <2>4. t = v
    BY <1>11, <2>2, <2>3, SameSequence
  <2> QED BY <2>1, <2>4
<1> QED BY <1>6, <1>7, <1>9, <1>10, <1>13 DEF CollectedNumbers

----------------------------------------------------------------------------
(* The rows keep their numbers *)

HeldRight == phase = "calling" => \A r \in Rank : held[r] = RowsOf(r)

NumbersRight ==
  /\ phase \in {"collected", "adjusted"} => DOMAIN numbers = {}
  /\ \A c \in DOMAIN numbers : numbers[c] = IdsOf(batch)

Kept == RunOrders /\ HeldRight /\ NumbersRight

LEMMA ReturnedRight ==
  ASSUME Running, Kept, Return, Calls[call] \notin Updates
  PROVE  CollectedNumbers = IdsOf(batch)
<1>1. phase = "calling" /\ \A r \in Rank : stage[r] = "returned"
  BY DEF Return
<1>2. DriverAt /\ HeldAlike
  BY <1>1, AtCall
<1>3. phase \notin {"collected", "failed"}
  BY <1>1
<1>4. ASSUME NEW r \in Rank PROVE ResultOf(r) = IdsOf(RowsOf(r))
  <2>1. held[r] \in Seq(Rows) /\ Len(held[r]) = Len(held[0])
    BY <1>2 DEF HeldAlike
  <2>2. PICK n \in Nat : n = Len(held[0]) /\ Len(held[r]) = n
    BY <2>1
  <2>3. AllRun(Asks, n, order[r])
    BY <1>1, <2>2 DEF Kept, RunOrders, OrderedAt, OrderAt
  <2>4. ResultOf(r) = IdsOf(held[r])
    BY <2>1, <2>2, <2>3, ResultIs
  <2>5. held[r] = RowsOf(r)
    BY <1>1 DEF Kept, HeldRight
  <2> QED BY <2>4, <2>5
<1> QED BY <1>2, <1>3, <1>4, CollectedIs

LEMMA RowsStay ==
  ASSUME conf' = conf, batch' = batch
  PROVE  \A r \in Rank : RowsOf(r)' = RowsOf(r)
BY DEF RowsOf, SpGroup

LEMMA RankKeeps ==
  ASSUME Running, Kept, NEW r \in Rank, RankStep(r)
  PROVE  Kept'
<1>1. phase = "calling" /\ RunOrders /\ HeldRight /\ NumbersRight
  BY DEF Kept, RankStep, Begin, Ask, Rearrange, Cut, Forward, Step, Finish
<1>2. CASE Raise(r)
  <2>1. phase' = "failed" /\ batch' = batch /\ numbers' = numbers /\ order' = order
    BY <1>2 DEF Raise, ranks
  <2> QED BY <1>1, <2>1 DEF Kept, RunOrders, HeldRight, NumbersRight
<1>3. CASE ~Raise(r)
  <2>1. UNCHANGED driver /\ held' = held /\ DOMAIN (order') = Rank
    <3>1. UNCHANGED driver /\ held' = held
      BY <1>3 DEF RankStep, Begin, Ask, Rearrange, Cut, Forward, Step, Finish
    <3>2. order' = order \/ \E q : order' = [order EXCEPT ![r] = @ \o q]
      BY <1>3 DEF RankStep, Begin, Ask, Rearrange, Cut, Forward, Step, Finish
    <3>3. DOMAIN order = Rank
      BY <1>1 DEF RunOrders
    <3> QED BY <3>1, <3>2, <3>3
  <2>2. conf' = conf /\ phase' = phase /\ batch' = batch /\ numbers' = numbers /\ call' = call
    BY <2>1 DEF driver
  <2>3. RunOrders'
    <3>1. CASE Calls[call] \in Updates
      <4>1. (Calls[call] \in Updates)'
        BY <2>2, <3>1 DEF Calls, Updates
      <4> QED BY <2>1, <4>1 DEF RunOrders
    <3>2. CASE Calls[call] \notin Updates
      BY <1>1, <1>3, <3>2, BeginOrders, AskOrders, RearrangeOrders, CutOrders, ForwardOrders, StepOrders, FinishOrders DEF RankStep
    <3> QED BY <3>1, <3>2
  <2>4. HeldRight'
    BY <1>1, <2>1, <2>2, RowsStay DEF HeldRight
  <2>5. NumbersRight'
    BY <1>1, <2>2 DEF NumbersRight
  <2> QED BY <2>3, <2>4, <2>5 DEF Kept
<1> QED BY <1>2, <1>3

(* Rows without numbers keep none, wherever no call is under way. *)
LEMMA NoneKept ==
  ASSUME Kept, DOMAIN numbers = {}, numbers' = numbers, order' = order, phase' # "calling"
  PROVE  Kept'
<1>1. NumbersRight'
  BY DEF NumbersRight
<1>2. RunOrders' /\ HeldRight'
  BY DEF Kept, RunOrders, HeldRight
<1> QED BY <1>1, <1>2 DEF Kept

LEMMA AdjustKeeps ==
  ASSUME Kept, AdjustBatch
  PROVE  Kept'
<1>1. phase = "collected" /\ numbers' = numbers /\ order' = order /\ phase' # "calling"
  BY DEF AdjustBatch, ranks
<1>2. DOMAIN numbers = {}
  BY <1>1 DEF Kept, NumbersRight
<1> QED BY <1>1, <1>2, NoneKept

LEMMA BalanceKeeps ==
  ASSUME Kept, BalanceBatch
  PROVE  Kept'
<1>1. phase = "adjusted" /\ numbers' = numbers /\ order' = order /\ phase' # "calling"
  BY DEF BalanceBatch, ranks
<1>2. DOMAIN numbers = {}
  BY <1>1 DEF Kept, NumbersRight
<1> QED BY <1>1, <1>2, NoneKept

LEMMA CallKeeps ==
  ASSUME Kept, Call
  PROVE  Kept'
<1>1. /\ phase' = "calling" /\ held' = [r \in Rank |-> RowsOf(r)] /\ stage' = [r \in Rank |-> "called"]
      /\ order' = [r \in Rank |-> << >>] /\ conf' = conf /\ batch' = batch /\ numbers' = numbers
  BY DEF Call
<1>2. HeldRight'
  BY <1>1, RowsStay DEF HeldRight
<1>3. RunOrders'
  <2>1. ASSUME NEW r \in Rank PROVE OrderedAt(r)'
    <3>1. stage'[r] = "called" /\ order'[r] = << >>
      BY <1>1
    <3> QED BY <3>1 DEF OrderedAt, OrderAt
  <2> QED BY <1>1, <2>1 DEF RunOrders
<1>4. NumbersRight'
  BY <1>1 DEF Kept, NumbersRight
<1> QED BY <1>2, <1>3, <1>4 DEF Kept

LEMMA ReturnKeeps ==
  ASSUME Running, Kept, Return
  PROVE  Kept'
<1>1. phase' \in {"done", "advised", "ready"} /\ batch' = batch /\ order' = order
  BY DEF Return, ranks
<1>2. RunOrders' /\ HeldRight'
  BY <1>1 DEF Kept, RunOrders, HeldRight
<1>3. CASE Calls[call] \in Updates
  <2>1. numbers' = numbers
    BY <1>3 DEF Return
  <2>2. NumbersRight'
    BY <1>1, <2>1 DEF Kept, NumbersRight
  <2> QED BY <1>2, <2>2 DEF Kept
<1>4. CASE Calls[call] \notin Updates
  <2>1. CollectedNumbers = IdsOf(batch)
    BY <1>4, ReturnedRight
  <2>2. numbers' = [c \in DOMAIN numbers \union {Calls[call]} |-> IF c = Calls[call] THEN CollectedNumbers ELSE numbers[c]]
    BY <1>4 DEF Return
  <2>3. ASSUME NEW c \in DOMAIN (numbers') PROVE numbers'[c] = IdsOf(batch)
    <3>1. CASE c = Calls[call]
      BY <2>1, <2>2, <3>1
    <3>2. CASE c # Calls[call]
      <4>1. c \in DOMAIN numbers /\ numbers'[c] = numbers[c]
        BY <2>2, <2>3, <3>2
      <4> QED BY <4>1 DEF Kept, NumbersRight
    <3> QED BY <3>1, <3>2
  <2>4. NumbersRight'
    BY <1>1, <2>3 DEF NumbersRight
  <2> QED BY <1>2, <2>4 DEF Kept
<1> QED BY <1>3, <1>4

LEMMA AdvantageKeeps ==
  ASSUME Running, Kept, ComputeAdvantage
  PROVE  Kept'
<1>1. phase' \in {"failed", "advised"} /\ order' = order
  BY DEF ComputeAdvantage, ranks
<1>2. RunOrders' /\ HeldRight'
  BY <1>1 DEF Kept, RunOrders, HeldRight
<1>3. CASE ~CanEstimate
  <2>1. batch' = batch /\ numbers' = numbers
    BY <1>3 DEF ComputeAdvantage
  <2>2. NumbersRight'
    BY <1>1, <2>1 DEF Kept, NumbersRight
  <2> QED BY <1>2, <2>2 DEF Kept
<1>4. CASE CanEstimate
  <2>1. PICK b \in Seq(Rows), n \in Nat : b = batch /\ n = Len(b)
    BY DEF Running, DriverAt
  <2>2. PICK pick \in IF UseCritic(conf) /\ conf.pf_ppo THEN compute_pf_ppo_reweight_data(batch) ELSE {Places(Len(batch))} :
          /\ batch' = Drawn(batch, pick) /\ numbers' = [c \in DOMAIN numbers |-> Drawn(numbers[c], pick)]
    BY <1>4 DEF ComputeAdvantage
  <2>3. pick \in [1 .. n -> 1 .. n]
    <3>1. Places(Len(batch)) \in [1 .. n -> 1 .. n]
      BY <2>1 DEF Places
    <3>2. compute_pf_ppo_reweight_data(batch) = [1 .. n -> 1 .. n]
      BY <2>1 DEF compute_pf_ppo_reweight_data
    <3> QED BY <2>2, <3>1, <3>2
  <2>4. IdsOf(Drawn(b, pick)) = Drawn(IdsOf(b), pick)
    <3>1. DOMAIN b = 1 .. n
      BY <2>1
    <3>2. \A i \in 1 .. n : [j \in 1 .. n |-> b[j].id][pick[i]] = b[pick[i]].id
      BY <2>3
    <3>3. [i \in 1 .. n |-> [j \in 1 .. n |-> b[j].id][pick[i]]] = [i \in 1 .. n |-> b[pick[i]].id]
      BY <3>2
    <3>4. Drawn(IdsOf(b), pick) = [i \in 1 .. n |-> [j \in 1 .. n |-> b[j].id][pick[i]]]
      BY <2>3, <3>1 DEF Drawn, IdsOf
    <3>5. Drawn(b, pick) = [i \in 1 .. n |-> b[pick[i]]]
      BY <2>3 DEF Drawn
    <3>6. IdsOf(Drawn(b, pick)) = [i \in 1 .. n |-> b[pick[i]].id]
      BY <3>5 DEF IdsOf
    <3> QED BY <3>3, <3>4, <3>6
  <2>5. ASSUME NEW c \in DOMAIN (numbers') PROVE numbers'[c] = IdsOf(batch')
    <3>1. c \in DOMAIN numbers /\ numbers'[c] = Drawn(numbers[c], pick)
      BY <2>2, <2>5
    <3>2. numbers[c] = IdsOf(b)
      BY <2>1, <3>1 DEF Kept, NumbersRight
    <3>3. numbers'[c] = Drawn(IdsOf(b), pick)
      BY <3>1, <3>2
    <3>4. batch' = Drawn(b, pick)
      BY <2>1, <2>2
    <3> QED BY <2>4, <3>3, <3>4
  <2>6. NumbersRight'
    <3>1. IdsOf(batch)' = IdsOf(batch')
      BY DEF IdsOf
    <3> QED BY <1>1, <2>5, <3>1 DEF NumbersRight
  <2> QED BY <1>2, <2>6 DEF Kept
<1> QED BY <1>3, <1>4

LEMMA StutterKeeps ==
  ASSUME Kept, UNCHANGED vars
  PROVE  Kept'
<1>1. /\ conf' = conf /\ phase' = phase /\ batch' = batch /\ numbers' = numbers /\ call' = call
      /\ held' = held /\ stage' = stage /\ todo' = todo /\ plan' = plan /\ ran' = ran /\ order' = order
  BY DEF vars, driver, ranks
<1>2. RunOrders'
  <2>1. Asks' = Asks
    BY <1>1 DEF Asks, Dynamic
  <2> QED BY <1>1, <2>1 DEF Kept, RunOrders, OrderedAt, Calls, Updates
<1>3. HeldRight'
  BY <1>1, RowsStay DEF Kept, HeldRight
<1>4. NumbersRight'
  BY <1>1 DEF Kept, NumbersRight
<1> QED BY <1>2, <1>3, <1>4 DEF Kept

LEMMA KeptSteps ==
  ASSUME Running, Kept, [Next]_vars
  PROVE  Kept'
<1>1. ASSUME NEW r \in Rank, RankStep(r) PROVE Kept'
  BY <1>1, RankKeeps
<1>2. CASE UNCHANGED vars
  BY <1>2, StutterKeeps
<1>3. CASE Over
  <2>1. UNCHANGED vars
    BY <1>3 DEF Over
  <2> QED BY <2>1, StutterKeeps
<1>4. CASE DriverStep
  BY <1>4, AdjustKeeps, BalanceKeeps, CallKeeps, ReturnKeeps, AdvantageKeeps DEF DriverStep
<1> QED BY <1>1, <1>2, <1>3, <1>4 DEF Next

LEMMA StartsKept ==
  ASSUME Init
  PROVE  Kept
<1>1. phase = "collected" /\ numbers = << >> /\ order = [r \in Rank |-> << >>]
  BY DEF Init
<1>2. DOMAIN numbers = {}
  BY <1>1
<1> QED BY <1>1, <1>2 DEF Kept, RunOrders, HeldRight, NumbersRight

LEMMA KeptRows ==
  ASSUME Running, Kept
  PROVE  RowsKeepTheirNumbers
<1>1. PICK b \in Seq(Rows) : b = batch
  BY DEF Running, DriverAt
<1>2. ASSUME NEW c \in DOMAIN numbers, NEW i \in DOMAIN batch
      PROVE  Len(numbers[c]) = Len(batch) /\ numbers[c][i] = batch[i].id
  <2>1. PICK t : t = numbers[c] /\ t = IdsOf(b)
    BY <1>1 DEF Kept, NumbersRight
  <2>2. t \in Seq(Nat) /\ Len(t) = Len(b) /\ \A j \in 1 .. Len(b) : t[j] = b[j].id
    BY <2>1, IdsType
  <2>3. i \in 1 .. Len(b)
    BY <1>1
  <2> QED BY <1>1, <2>1, <2>2, <2>3
<1> QED BY <1>2 DEF RowsKeepTheirNumbers

(* Balancing moves rows and nothing else: whatever the sizes, every row that *)
(* was balanced over the ranks, gathered, cut in any of the ways and put     *)
(* together again has its own numbers beside it, and what one rank, and one  *)
(* forward pass, has to do is bounded by the rows themselves.                *)
THEOREM StepBalanced == Spec => []BalancedRight
<1>1. Init => Running /\ Kept
  BY StartsRunning, StartsKept
<1>2. Running /\ Kept /\ [Next]_vars => Running' /\ Kept'
  BY RunningInductive, KeptSteps
<1>3. Running /\ Kept => RowsKeepTheirNumbers
  BY KeptRows
<1>4. Spec => []RowsKeepTheirNumbers
  BY <1>1, <1>2, <1>3, PTL DEF Spec
<1>5. RowsKeepTheirNumbers /\ RanksBalanced /\ MicroBatchesBounded => BalancedRight
  BY DEF BalancedRight
<1> QED BY <1>4, <1>5, StepBounded, StepRanksBalanced, PTL

----------------------------------------------------------------------------
(* How often a row is run *)

LEMMA DifferenceDivides ==
  ASSUME NEW z \in Nat \ {0}, NEW a \in Nat, NEW c \in Nat, a <= c, Rest(a, z) = 0, Rest(c, z) = 0
  PROVE  c - a \in Nat /\ Rest(c - a, z) = 0
<1>1. PICK x \in Nat, y \in Nat : a = z * x /\ c = z * y
  BY DividedWhole
<1>2. x <= y
  <2>1. SUFFICES ASSUME y < x PROVE FALSE
    BY <1>1
  <2>2. z * y + z <= z * x
    BY <2>1, Ordered
  <2> QED BY <1>1, <2>2
<1>3. PICK q \in Nat : q = y - x /\ y = x + q
  BY <1>2
<1>4. c - a = z * q /\ c - a \in Nat
  <2>1. z * (x + q) = z * x + z * q /\ z * q \in Nat
    OBVIOUS
  <2> QED BY <1>1, <1>3, <2>1
<1> QED BY <1>4, IsQuotient

(* The places from after x up to y *)
IsStretch(q, n, x, y) ==
  /\ q \in Seq(1 .. n) /\ Len(q) = y - x /\ \A i \in 1 .. y - x : q[i] = x + i
  /\ \A i : i \in Range(q) <=> i \in x + 1 .. y

LEMMA PlacesSection ==
  ASSUME NEW n \in Nat, NEW x \in Nat, NEW y \in Nat, x <= y, y <= n, NEW q, q = SubSeq(Places(n), x + 1, y)
  PROVE  IsStretch(q, n, x, y)
<1>0. PICK U : U = 1 .. n
  OBVIOUS
<1>1. PICK s \in Seq(U) : s = Places(n) /\ Len(s) = n /\ \A i \in 1 .. n : s[i] = i
  BY <1>0, PlacesType
<1>2. q \in Seq(U) /\ Len(q) = y - x /\ \A i \in 1 .. y - x : q[i] = s[x + i]
  BY <1>1, SectionNamed
<1>3. PICK c \in Nat : c = y - x /\ y = x + c
  OBVIOUS
<1>4. \A i \in 1 .. c : q[i] = x + i
  <2> TAKE i \in 1 .. c
  <2>1. x + i \in 1 .. n
    BY <1>3
  <2> QED BY <1>1, <1>2, <1>3, <2>1
<1>5. DOMAIN q = 1 .. c
  BY <1>2, <1>3
<1>6. ASSUME NEW i, i \in Range(q) PROVE i \in x + 1 .. y
  <2>1. PICK j \in 1 .. c : q[j] = i
    BY <1>5, <1>6, RangeIs
  <2>2. i = x + j
    BY <1>4, <2>1
  <2>3. x + j \in x + 1 .. y
    BY <1>3
  <2> QED BY <2>2, <2>3
<1>7. ASSUME NEW i, i \in x + 1 .. y PROVE i \in Range(q)
  <2>1. PICK j \in 1 .. c : j = i - x /\ x + j = i
    <3>1. i - x \in 1 .. c /\ x + (i - x) = i
      BY <1>3, <1>7
    <3> QED BY <3>1
  <2> QED BY <1>4, <1>5, <2>1, RangeIs
<1> QED BY <1>0, <1>2, <1>3, <1>4, <1>6, <1>7 DEF IsStretch

(* How often a row is run in d mini-batches, when l of them, which end at b, *)
(* are an epoch.                                                             *)
TimesOf(l, b, d, i) == Quot(d, l) + IF i <= b[Rest(d, l)] THEN 1 ELSE 0

OneIf(c) == IF c THEN 1 ELSE 0

LEMMA TimesWhole ==
  ASSUME NEW l \in Nat \ {0}, NEW b, b[0] = 0, NEW e \in Nat, NEW i \in Nat \ {0}
  PROVE  TimesOf(l, b, l * e, i) = e
<1>1. PICK d \in Nat : d = l * e
  OBVIOUS
<1>2. Quot(d, l) = e /\ Rest(d, l) = 0
  BY <1>1, IsQuotient
<1>3. ~(i <= 0) /\ e + 0 = e
  OBVIOUS
<1> QED BY <1>1, <1>2, <1>3 DEF TimesOf

LEMMA TimesNone ==
  ASSUME NEW l \in Nat \ {0}, NEW b, b[0] = 0, NEW i \in Nat \ {0}
  PROVE  TimesOf(l, b, 0, i) = 0
<1>1. l * 0 = 0
  OBVIOUS
<1>2. TimesOf(l, b, l * 0, i) = 0
  BY TimesWhole
<1> QED BY <1>1, <1>2

LEMMA TimesNext ==
  ASSUME NEW n \in Nat, NEW l \in Nat \ {0}, NEW p, NEW b, InTurn(n, p, l, b), NEW d \in Nat, NEW i \in 1 .. n
  PROVE  /\ TimesOf(l, b, d, i) \in Nat
         /\ TimesOf(l, b, d + 1, i) = TimesOf(l, b, d, i) + OneIf(i \in Range(p[Rest(d, l) + 1]))
<1>1. PICK e \in Nat, x \in 0 .. l - 1 : e = Quot(d, l) /\ x = Rest(d, l) /\ d = l * e + x
  <2>1. Quot(d, l) \in Nat /\ Rest(d, l) \in 0 .. l - 1 /\ d = l * Quot(d, l) + Rest(d, l)
    BY Division
  <2> QED BY <2>1
<1>2. x \in 0 .. l /\ x < l /\ x \in Nat
  OBVIOUS
<1>3. PICK u \in Nat, v \in Nat : u = b[x] /\ v = b[x + 1] /\ u <= v /\ v <= n /\ p[x + 1] = SubSeq(Places(n), u + 1, v)
  <2>1. b[x] \in 0 .. n /\ b[x + 1] \in 0 .. n /\ b[x] <= b[x + 1] /\ p[x + 1] = SubSeq(Places(n), b[x] + 1, b[x + 1])
    BY <1>2, EndsOf
  <2>2. PICK u : u = b[x]
    OBVIOUS
  <2>3. PICK v : v = b[x + 1]
    OBVIOUS
  <2>4. u \in Nat /\ v \in Nat /\ u <= v /\ v <= n
    BY <2>1, <2>2, <2>3
  <2> QED BY <2>1, <2>2, <2>3, <2>4
<1>4. i \in Range(p[x + 1]) <=> i \in u + 1 .. v
  <2>1. PICK q : q = p[x + 1]
    OBVIOUS
  <2>2. q = SubSeq(Places(n), u + 1, v)
    BY <1>3, <2>1
  <2>3. \A j : j \in Range(q) <=> j \in u + 1 .. v
    <3>1. u \in Nat /\ v \in Nat /\ u <= v /\ v <= n
      BY <1>3
    <3>2. IsStretch(q, n, u, v)
      BY <2>2, <3>1, PlacesSection
    <3> QED BY <3>2 DEF IsStretch
  <2> QED BY <2>1, <2>3
<1>5. i \in Range(p[x + 1]) <=> u < i /\ i <= v
  <2>1. i \in Nat
    OBVIOUS
  <2> QED BY <1>3, <1>4, <2>1
<1>6. TimesOf(l, b, d, i) = e + OneIf(i <= u)
  BY <1>1, <1>3 DEF TimesOf, OneIf
<1>7. TimesOf(l, b, d + 1, i) = e + OneIf(i <= v)
  <2>1. CASE x + 1 < l
    <3>1. IsDivision(d + 1, l, e, x + 1)
      <4>1. x + 1 \in 0 .. l - 1
        BY <1>2, <2>1
      <4>2. PICK y \in Nat : y = l * e
        OBVIOUS
      <4>3. d + 1 = l * e + (x + 1)
        BY <1>1, <1>2, <4>2
      <4> QED BY <4>1, <4>3 DEF IsDivision
    <3>2. Quot(d + 1, l) = e /\ Rest(d + 1, l) = x + 1
      BY <3>1, Quotient
    <3> QED BY <1>3, <3>2 DEF TimesOf, OneIf
  <2>2. CASE ~(x + 1 < l)
    <3>1. x + 1 = l
      BY <1>2, <2>2
    <3>2. d + 1 = l * (e + 1) /\ e + 1 \in Nat
      <4>1. l * (e + 1) = l * e + l
        OBVIOUS
      <4>2. PICK y \in Nat : y = l * e
        OBVIOUS
      <4> QED BY <1>1, <1>2, <3>1, <4>1, <4>2
    <3>3. b[0] = 0 /\ b[l] = n
      BY DEF InTurn
    <3>4. TimesOf(l, b, d + 1, i) = e + 1
      <4>1. PICK j \in Nat \ {0}, c \in Nat : j = i /\ c = e + 1
        BY <3>2
      <4>2. TimesOf(l, b, l * c, j) = c
        BY <3>3, TimesWhole
      <4> QED BY <3>2, <4>1, <4>2
    <3>5. i <= v
      BY <1>3, <3>1, <3>3
    <3> QED BY <3>4, <3>5 DEF OneIf
  <2> QED BY <2>1, <2>2
<1>8. OneIf(i <= v) = OneIf(i <= u) + OneIf(u < i /\ i <= v)
  <2>1. i \in Nat
    OBVIOUS
  <2>2. CASE i <= u
    BY <1>3, <2>1, <2>2 DEF OneIf
  <2>3. CASE ~(i <= u)
    BY <1>3, <2>1, <2>3 DEF OneIf
  <2> QED BY <2>2, <2>3
<1>9. OneIf(i <= u) \in Nat /\ OneIf(u < i /\ i <= v) \in Nat
  BY DEF OneIf
<1>10. OneIf(i \in Range(p[x + 1])) = OneIf(u < i /\ i <= v)
  BY <1>5 DEF OneIf
<1>11. e + (OneIf(i <= u) + OneIf(u < i /\ i <= v)) = (e + OneIf(i <= u)) + OneIf(u < i /\ i <= v)
  BY <1>9
<1> QED BY <1>1, <1>6, <1>7, <1>8, <1>9, <1>10, <1>11

(* The mini-batches of an update, epoch by epoch *)
LEMMA WorksTurn ==
  ASSUME NEW n \in Nat \ {0}, NEW l \in Nat \ {0}, NEW mb \in Seq(Seq(1 .. n)), mb = MiniBatches(n), Len(mb) = l,
         NEW name \in Updates, NEW w, w = Work(name, n)
  PROVE  Len(w) = l * Epochs /\ \A d \in Nat : d < l * Epochs => w[d + 1] = mb[Rest(d, l) + 1]
<1>1. PICK k \in Nat \ {0} : k = Epochs
  BY StepAssumption
<1>2. PICK U : U = Seq(1 .. n)
  OBVIOUS
<1>3. PICK parts \in [1 .. k -> Seq(U)] : parts = EpochsOf(n) /\ \A i \in 1 .. k : parts[i] = mb
  <2>1. PICK parts : parts = EpochsOf(n)
    OBVIOUS
  <2>2. parts = [i \in 1 .. k |-> mb]
    BY <1>1, <2>1 DEF EpochsOf
  <2> QED BY <1>2, <2>1, <2>2
<1>4. w = Concat(parts)
  BY <1>3 DEF Work, EpochsOf
<1>5. Laid(Concat(parts), parts, k, l)
  <2>1. \A i \in 1 .. k : Len(parts[i]) = l
    BY <1>3
  <2>2. l \in Nat
    OBVIOUS
  <2> QED BY <2>1, <2>2, ConcatEqual
<1>6. Len(w) = k * l /\ \A m \in 0 .. k - 1 : \A i \in 1 .. l : w[BlockPlace(m, l, i)] = parts[m + 1][i]
  BY <1>4, <1>5 DEF Laid
<1>7. k * l = l * k
  OBVIOUS
<1>8. ASSUME NEW d \in Nat, d < l * k PROVE w[d + 1] = mb[Rest(d, l) + 1]
  <2>1. PICK e \in Nat, x \in 0 .. l - 1 : e = Quot(d, l) /\ x = Rest(d, l) /\ d = l * e + x
    <3>1. Quot(d, l) \in Nat /\ Rest(d, l) \in 0 .. l - 1 /\ d = l * Quot(d, l) + Rest(d, l)
      BY Division
    <3> QED BY <3>1
  <2>2. e \in 0 .. k - 1 /\ e + 1 \in 1 .. k
    <3>1. e < k
      BY <1>8, <2>1, SmallerQuotient
    <3> QED BY <3>1
  <2>3. x + 1 \in 1 .. l
    OBVIOUS
  <2>4. BlockPlace(e, l, x + 1) = d + 1
    <3>1. PICK y \in Nat : y = l * e /\ e * l = y
      OBVIOUS
    <3>2. y + (x + 1) = (y + x) + 1
      OBVIOUS
    <3> QED BY <2>1, <3>1, <3>2 DEF BlockPlace
  <2>5. w[d + 1] = parts[e + 1][x + 1]
    <3>1. PICK i \in 1 .. l : i = x + 1
      BY <2>3
    <3>2. \A m \in 0 .. k - 1 : \A h \in 1 .. l : w[BlockPlace(m, l, h)] = parts[m + 1][h]
      BY <1>6
    <3>3. \A h \in 1 .. l : w[BlockPlace(e, l, h)] = parts[e + 1][h]
      <4>1. e \in 0 .. k - 1
        BY <2>2
      <4> QED BY <3>2, <4>1, Zenon
    <3>4. w[BlockPlace(e, l, i)] = parts[e + 1][i]
      BY <3>1, <3>3, Zenon
    <3> QED BY <2>4, <3>1, <3>4, Zenon
  <2> QED BY <1>3, <2>1, <2>2, <2>5
<1> QED BY <1>1, <1>6, <1>7, <1>8

----------------------------------------------------------------------------
(* The micro-batches of a mini-batch *)

OnceEach(hd) == \A i, j \in DOMAIN hd : hd[i] = hd[j] => i = j

(* Every row of the mini-batch is in one micro-batch. *)
IsCover(p, hd) ==
  /\ \A i, j \in 1 .. Len(p) : i # j => Range(p[i]) \cap Range(p[j]) = {}
  /\ RowsIn(p, Len(p)) = Range(hd)

LEMMA StretchOnce ==
  ASSUME NEW n \in Nat, NEW x \in Nat, NEW y \in Nat, NEW q, IsStretch(q, n, x, y)
  PROVE  OnceEach(q)
<1>1. q \in Seq(1 .. n) /\ Len(q) = y - x /\ \A i \in 1 .. y - x : q[i] = x + i
  BY DEF IsStretch
<1>2. DOMAIN q = 1 .. y - x
  BY <1>1
<1>3. ASSUME NEW i \in 1 .. y - x, NEW j \in 1 .. y - x, q[i] = q[j] PROVE i = j
  <2>1. x + i = x + j
    BY <1>1, <1>3
  <2> QED BY <2>1
<1> QED BY <1>2, <1>3 DEF OnceEach

(* The ends of parts that follow each other *)
LEMMA EndsRise ==
  ASSUME NEW s, NEW k \in Nat, NEW b, NEW p, Consecutive(s, k, b, p), NEW i \in 0 .. k, NEW j \in 0 .. k, i <= j
  PROVE  b[i] <= b[j]
<1> DEFINE Bad == {x \in 0 .. k : i <= x /\ ~(b[i] <= b[x])}
<1>0. (\A x \in 0 .. k : b[x] \in Nat) /\ \A x \in 1 .. k : b[x - 1] <= b[x]
  BY DEF Consecutive
<1>1. Bad = {}
  <2>1. SUFFICES ASSUME Bad # {} PROVE FALSE
    OBVIOUS
  <2>2. PICK x \in Bad : \A y \in Bad : x <= y
    <3>1. Bad \subseteq Nat
      OBVIOUS
    <3> HIDE DEF Bad
    <3> QED BY <2>1, <3>1, LeastNatural
  <2>3. x \in 0 .. k /\ i <= x /\ ~(b[i] <= b[x])
    BY <2>2
  <2>4. x # i
    <3>1. b[i] \in Nat
      BY <1>0
    <3> QED BY <2>3, <3>1
  <2>5. PICK y \in 0 .. k : y = x - 1 /\ i <= y /\ ~(x <= y) /\ x \in 1 .. k
    BY <2>3, <2>4
  <2>6. b[i] <= b[y]
    <3>1. y \notin Bad
      <4> HIDE DEF Bad
      <4> QED BY <2>2, <2>5
    <3> QED BY <2>5, <3>1
  <2>7. b[y] <= b[x]
    BY <1>0, <2>5
  <2>8. PICK u \in Nat, v \in Nat, w \in Nat : u = b[i] /\ v = b[y] /\ w = b[x]
    BY <1>0, <2>3, <2>5
  <2> QED BY <2>3, <2>6, <2>7, <2>8
<1> QED BY <1>1

LEMMA PiecesCover ==
  ASSUME NEW U, NEW s \in Seq(U), OnceEach(s), NEW k \in Nat \ {0}, NEW b, NEW p \in [1 .. k -> Seq(U)],
         Consecutive(s, k, b, p), b[0] = 0, b[k] = Len(s)
  PROVE  IsCover(p, s)
<1>1. Len(p) = k
  OBVIOUS
<1>2. PICK l \in Nat : l = Len(s) /\ DOMAIN s = 1 .. l
  OBVIOUS
<1>3. ASSUME NEW i \in 1 .. k, NEW x, x \in Range(p[i])
      PROVE  \E a \in 1 .. l : b[i - 1] < a /\ a <= b[i] /\ s[a] = x
  <2>1. i - 1 \in 0 .. k /\ i \in 0 .. k
    OBVIOUS
  <2>2. PICK u \in Nat, v \in Nat : u = b[i - 1] /\ v = b[i] /\ u <= v /\ v <= l /\ p[i] = SubSeq(s, u + 1, v)
    <3>1. b[i - 1] \in Nat /\ b[i] \in Nat /\ b[i] <= l /\ b[i - 1] <= b[i] /\ p[i] = SubSeq(s, b[i - 1] + 1, b[i])
      BY <1>2, <2>1 DEF Consecutive
    <3> QED BY <3>1
  <2>3. PICK q : q = p[i]
    OBVIOUS
  <2>4. q \in Seq(U) /\ Len(q) = v - u /\ \A j \in 1 .. v - u : q[j] = s[u + j]
    <3>1. u <= v /\ v <= Len(s) /\ q = SubSeq(s, u + 1, v)
      BY <1>2, <2>2, <2>3
    <3> QED BY <3>1, SectionNamed, SMTT(30)
  <2>5. PICK j \in 1 .. v - u : q[j] = x
    <3>1. DOMAIN q = 1 .. v - u
      BY <2>4
    <3> QED BY <1>3, <2>3, <3>1, RangeIs
  <2>6. PICK a \in 1 .. l : a = u + j
    <3>1. u <= v /\ v <= l
      BY <2>2
    <3>2. u + j \in 1 .. l
      BY <3>1
    <3> QED BY <3>2
  <2>7. u < a /\ a <= v
    <3>1. u <= v
      BY <2>2
    <3> QED BY <2>6, <3>1
  <2> QED BY <2>2, <2>4, <2>5, <2>6, <2>7
<1>4. ASSUME NEW i \in 1 .. k, NEW j \in 1 .. k, i < j, NEW x, x \in Range(p[i]), x \in Range(p[j]) PROVE FALSE
  <2>1. PICK a \in 1 .. l : a <= b[i] /\ s[a] = x
    BY <1>3, <1>4
  <2>2. PICK c \in 1 .. l : b[j - 1] < c /\ s[c] = x
    BY <1>3, <1>4
  <2>3. a = c
    BY <1>2, <2>1, <2>2 DEF OnceEach
  <2>4. i \in 0 .. k /\ j - 1 \in 0 .. k /\ i <= j - 1
    BY <1>4
  <2>5. b[i] <= b[j - 1]
    BY <2>4, EndsRise
  <2>6. PICK u \in Nat, v \in Nat : u = b[i] /\ v = b[j - 1]
    BY <2>4 DEF Consecutive
  <2> QED BY <2>1, <2>2, <2>3, <2>5, <2>6
<1>5. ASSUME NEW i \in 1 .. k, NEW j \in 1 .. k, i # j PROVE Range(p[i]) \cap Range(p[j]) = {}
  <2>1. i < j \/ j < i
    BY <1>5
  <2> QED BY <1>4, <2>1
<1>6. Concat(p) = s
  <2>1. Concat(p) = SubSeq(s, b[0] + 1, b[k])
    <3>1. Consecutive(s, k, b, p) /\ k \in Nat \ {0} /\ p \in [1 .. k -> Seq(U)] /\ s \in Seq(U)
      OBVIOUS
    <3> QED BY ONLY <3>1, CutAndPut
  <2>2. SubSeq(s, 0 + 1, Len(s)) = s
    BY WholeSection
  <2> QED BY <2>1, <2>2
<1>7. RowsIn(p, k) = Range(s)
  <2>1. \A x : x \in Range(s) <=> \E i \in 1 .. k : x \in Range(p[i])
    BY <1>6, ElementsTogether
  <2> QED BY <2>1 DEF RowsIn
<1> QED BY <1>1, <1>5, <1>7 DEF IsCover

(* So it is with the parts the differencing finds. *)
LEMMA RearrangedCover ==
  ASSUME NEW U, NEW s \in Seq(U), OnceEach(s), NEW l \in Nat, l = Len(s), NEW k \in Nat, NEW lens, NEW g,
         NEW parts, UnequalParts(lens, l, k, g, parts), NEW p, p = Rearranged(s, parts)
  PROVE  Len(p) = k /\ IsCover(p, s) /\ \A j \in 1 .. k : p[j] \in Seq(U)
<1>1. parts \in [1 .. k -> Seq(1 .. l)] /\ Apart(parts, k) /\ \A x \in 1 .. l : x \in RowsIn(parts, k)
  BY DEF UnequalParts
<1>2. p = [j \in 1 .. k |-> [i \in DOMAIN parts[j] |-> s[parts[j][i]]]]
  BY <1>1 DEF Rearranged
<1>3. Len(p) = k
  <2>1. p \in Seq({[i \in DOMAIN parts[j] |-> s[parts[j][i]]] : j \in 1 .. k})
    BY <1>2
  <2> QED BY <1>2, <2>1
<1>4. DOMAIN s = 1 .. l
  OBVIOUS
<1>5. ASSUME NEW j \in 1 .. k
      PROVE  /\ \A i \in DOMAIN parts[j] : parts[j][i] \in 1 .. l
             /\ \A x : x \in Range(p[j]) <=> \E i \in DOMAIN parts[j] : s[parts[j][i]] = x
  <2>1. parts[j] \in Seq(1 .. l)
    BY <1>1
  <2>2. \A i \in DOMAIN parts[j] : parts[j][i] \in 1 .. l
    BY <2>1, MembersOf
  <2>3. PICK q : q = p[j]
    OBVIOUS
  <2>4. q = [i \in DOMAIN parts[j] |-> s[parts[j][i]]]
    BY <1>2, <2>3
  <2>5. ASSUME NEW x PROVE x \in Range(q) <=> \E i \in DOMAIN parts[j] : s[parts[j][i]] = x
    <3>1. x \in Range(q) <=> \E i \in DOMAIN q : q[i] = x
      BY RangeIs
    <3>2. DOMAIN q = DOMAIN parts[j] /\ \A i \in DOMAIN parts[j] : q[i] = s[parts[j][i]]
      BY <2>4
    <3> QED BY <3>1, <3>2
  <2> QED BY <2>2, <2>3, <2>5
<1>6. ASSUME NEW i \in 1 .. k, NEW j \in 1 .. k, i # j PROVE Range(p[i]) \cap Range(p[j]) = {}
  <2>1. SUFFICES ASSUME NEW x, x \in Range(p[i]), x \in Range(p[j]) PROVE FALSE
    OBVIOUS
  <2>2. PICK a \in DOMAIN parts[i] : parts[i][a] \in 1 .. l /\ s[parts[i][a]] = x
    BY <1>5, <2>1
  <2>3. PICK c \in DOMAIN parts[j] : parts[j][c] \in 1 .. l /\ s[parts[j][c]] = x
    BY <1>5, <2>1
  <2>4. parts[i][a] = parts[j][c]
    BY <1>4, <2>2, <2>3 DEF OnceEach
  <2> QED BY <1>1, <1>6, <2>2, <2>3, <2>4 DEF Apart
<1>7. ASSUME NEW x PROVE x \in RowsIn(p, k) <=> x \in Range(s)
  <2>1. ASSUME x \in RowsIn(p, k) PROVE x \in Range(s)
    <3>1. PICK j \in 1 .. k : x \in Range(p[j])
      BY <2>1 DEF RowsIn
    <3>2. PICK i \in DOMAIN parts[j] : parts[j][i] \in 1 .. l /\ s[parts[j][i]] = x
      BY <1>5, <3>1
    <3> QED BY <1>4, <3>2, RangeIs
  <2>2. ASSUME x \in Range(s) PROVE x \in RowsIn(p, k)
    <3>1. PICK y \in 1 .. l : s[y] = x
      BY <1>4, <2>2, RangeIs
    <3>2. PICK j \in 1 .. k : y \in Range(parts[j])
      BY <1>1 DEF RowsIn
    <3>3. PICK i \in DOMAIN parts[j] : parts[j][i] = y
      BY <3>2, RangeIs
    <3>4. x \in Range(p[j])
      BY <1>5, <3>1, <3>3
    <3> QED BY <3>4 DEF RowsIn
  <2> QED BY <2>1, <2>2
<1>8. ASSUME NEW j \in 1 .. k PROVE p[j] \in Seq(U)
  <2>1. PICK a \in Seq(1 .. l) : a = parts[j]
    BY <1>1
  <2>2. p[j] = [i \in DOMAIN a |-> s[a[i]]]
    BY <1>2, <2>1
  <2>3. \A i \in DOMAIN a : s[a[i]] \in U
    BY <1>4, <1>5, <2>1
  <2>4. PICK m \in Nat : DOMAIN a = 1 .. m
    OBVIOUS
  <2> QED BY <2>2, <2>3, <2>4
<1> QED BY <1>3, <1>6, <1>7, <1>8 DEF IsCover

(* Micro-batches of a size are all of that size where it divides the rows. *)
LEMMA SplitEven ==
  ASSUME NEW U, NEW s \in Seq(U), NEW z \in Nat \ {0}, Rest(Len(s), z) = 0, NEW j \in 1 .. Up(Len(s), z)
  PROVE  Len(SplitBy(s, z)[j]) = z
<1>1. PICK l \in Nat, q \in Nat : l = Len(s) /\ l = z * q
  <2>1. PICK l \in Nat : l = Len(s)
    OBVIOUS
  <2> QED BY <2>1, DividedWhole
<1>2. PICK c \in Nat : c = Up(l, z) /\ l <= z * c /\ z * c < l + z
  BY Ceiling
<1>3. c = q
  <2>1. ~(c < q)
    <3>1. SUFFICES ASSUME c < q PROVE FALSE
      OBVIOUS
    <3>2. z * c + z <= z * q
      BY <3>1, Ordered
    <3>3. PICK x \in Nat : x = z * c
      OBVIOUS
    <3> QED BY <1>1, <1>2, <3>2, <3>3
  <2>2. ~(q < c)
    <3>1. SUFFICES ASSUME q < c PROVE FALSE
      OBVIOUS
    <3>2. z * q + z <= z * c
      BY <3>1, Ordered
    <3>3. PICK x \in Nat : x = z * c
      OBVIOUS
    <3> QED BY <1>1, <1>2, <3>2, <3>3
  <2> QED BY <2>1, <2>2
<1>4. Pieces(U, s, z, SplitBy(s, z))
  BY SplitPieces
<1>5. PICK b : b = Ends(l, z)
  OBVIOUS
<1>6. b = [i \in 0 .. c |-> Cut0(l, z, i)]
  BY <1>2, <1>5 DEF Ends
<1>7. j \in 1 .. c /\ j \in 0 .. c /\ j - 1 \in 0 .. c
  BY <1>1, <1>2
<1>8. PICK x \in Nat : x = (j - 1) * z /\ j * z = x + z /\ x + z <= l
  <2>1. z * j <= z * c
    BY <1>7, NotLess
  <2>2. z * j = j * z /\ j * z = (j - 1) * z + z /\ (j - 1) * z \in Nat
    BY <1>7
  <2> QED BY <1>1, <1>3, <2>1, <2>2
<1>9. b[j - 1] = x /\ b[j] = x + z
  <2>1. Cut0(l, z, j) = x + z
    BY <1>8 DEF Cut0
  <2>2. Cut0(l, z, j - 1) = x
    <3>1. x <= l
      BY <1>8
    <3> QED BY <1>8, <3>1 DEF Cut0
  <2> QED BY <1>6, <1>7, <2>1, <2>2
<1>10. PICK q1 : q1 = SplitBy(s, z)[j]
  OBVIOUS
<1>11. q1 = SubSeq(s, x + 1, x + z)
  <2>1. Consecutive(s, c, b, SplitBy(s, z))
    BY <1>1, <1>2, <1>4, <1>5 DEF Pieces
  <2>2. SplitBy(s, z)[j] = SubSeq(s, b[j - 1] + 1, b[j])
    BY <1>7, <2>1 DEF Consecutive
  <2> QED BY <1>9, <1>10, <2>2
<1>12. Len(q1) = (x + z) - x
  <2>1. PICK y \in Nat : y = x + z /\ x <= y /\ y <= Len(s)
    BY <1>1, <1>8
  <2>2. Len(q1) = y - x
    BY <1>11, <2>1, SectionNamed
  <2> QED BY <2>1, <2>2
<1> QED BY <1>10, <1>12

----------------------------------------------------------------------------
(* The sizes in an update of the actor *)

(* Where the mini-batches of n rows end *)
MiniEnds(n) == IF conf.multi_modal THEN BoundsOf(n, n \div MiniSize) ELSE Ends(n, MiniSize)

LEMMA MiniTurn ==
  ASSUME IsConf(conf), NEW n \in Nat \ {0}, CanMiniBatch(n)
  PROVE  \E l \in Nat \ {0} : Len(MiniBatches(n)) = l /\ InTurn(n, MiniBatches(n), l, MiniEnds(n))
<1>1. PICK size \in Nat \ {0} : size = MiniSize
  BY MiniSizeType DEF CanMiniBatch
<1>2. CASE conf.multi_modal
  <2>1. PICK k \in Nat : k = Quot(n, size)
    BY Division
  <2>2. k \in Nat \ {0} /\ Rest(n, k) = 0 /\ n \in Nat /\ k = n \div MiniSize
    BY <1>1, <1>2, <2>1 DEF CanMiniBatch, EvenChunk, Quot, Rest
  <2>3. InTurn(n, Chunk(Places(n), k), k, BoundsOf(n, k)) /\ Len(Chunk(Places(n), k)) = k
    BY <2>2, ChunkTurns
  <2> QED BY <1>2, <2>2, <2>3 DEF MiniBatches, MiniEnds
<1>3. CASE ~conf.multi_modal
  <2>1. PICK k \in Nat \ {0} : k = Up(n, size)
    BY Ceiling
  <2>2. InTurn(n, SplitBy(Places(n), size), k, Ends(n, size)) /\ Len(SplitBy(Places(n), size)) = k
    <3>1. n \in Nat
      OBVIOUS
    <3> QED BY <2>1, <3>1, SplitTurns
  <2> QED BY <1>1, <1>3, <2>2 DEF MiniBatches, MiniEnds
<1> QED BY <1>2, <1>3

(* The rows of a mini-batch of multi-modal rows *)
MiniRows(n) == ChunkSize(n, n \div MiniSize)

(* The rows of a micro-batch that is not dynamic *)
MicroRows(n) == IF conf.multi_modal THEN ChunkSize(MiniRows(n), MiniRows(n) \div MicroSize) ELSE MicroSize

LEMMA MiniLengths ==
  ASSUME IsConf(conf), NEW n \in Nat \ {0}, CanMiniBatch(n), NEW l \in Nat, l = Len(MiniBatches(n)), NEW j \in 1 .. l
  PROVE  /\ conf.multi_modal => Len(MiniBatches(n)[j]) = MiniRows(n)
         /\ ~conf.multi_modal => \A z \in Nat \ {0} :
              Rest(n, z) = 0 /\ Rest(MiniSize, z) = 0 => Rest(Len(MiniBatches(n)[j]), z) = 0
<1>1. PICK size \in Nat \ {0} : size = MiniSize
  BY MiniSizeType DEF CanMiniBatch
<1>2. CASE conf.multi_modal
  <2>1. PICK k \in Nat : k = Quot(n, size)
    BY Division
  <2>2. k \in Nat \ {0} /\ Rest(n, k) = 0 /\ n \in Nat /\ k = n \div MiniSize
    BY <1>1, <1>2, <2>1 DEF CanMiniBatch, EvenChunk, Quot, Rest
  <2>3. PICK s \in Seq(1 .. n) : s = Places(n) /\ Len(s) = n
    BY <2>2, PlacesType
  <2>4. \A i \in 1 .. k : Len(Chunk(s, k)[i]) = ChunkSize(n, k)
    <3>1. Rest(Len(s), k) = 0
      BY <2>2, <2>3
    <3>2. \A i \in 1 .. k : Len(Chunk(s, k)[i]) = ChunkSize(Len(s), k)
      BY <2>2, <3>1, EvenPieces
    <3> QED BY <2>3, <3>2
  <2>5. MiniBatches(n) = Chunk(s, k)
    BY <1>2, <2>2, <2>3 DEF MiniBatches
  <2>6. l = k
    BY <2>2, <2>3, <2>5, ChunkTurns
  <2> QED BY <1>2, <2>2, <2>4, <2>5, <2>6 DEF MiniRows
<1>3. CASE ~conf.multi_modal
  <2>0. n \in Nat
    OBVIOUS
  <2>1. PICK k, b : k \in Nat /\ k = Up(n, size) /\ b = Ends(n, size)
    BY <2>0, Ceiling
  <2>2. PICK p : p = MiniBatches(n) /\ p = SplitBy(Places(n), size)
    BY <1>1, <1>3 DEF MiniBatches
  <2>3. InTurn(n, p, k, b) /\ l = k
    BY <2>0, <2>1, <2>2, SplitTurns
  <2>4. SUFFICES ASSUME NEW z \in Nat \ {0}, Rest(n, z) = 0, Rest(size, z) = 0 PROVE Rest(Len(p[j]), z) = 0
    BY <1>1, <1>3, <2>2
  <2>5. ASSUME NEW i \in 0 .. k PROVE Rest(b[i], z) = 0
    <3>1. b[i] = Cut0(n, size, i)
      BY <2>1 DEF Ends
    <3>2. PICK x \in Nat : size = z * x
      BY <2>4, DividedWhole
    <3>3. PICK y \in Nat : y = x * i
      BY <2>1
    <3>4. i * size = z * y /\ i * size \in Nat
      <4>1. i \in Nat
        BY <2>1
      <4>2. i * (z * x) = z * (x * i) /\ z * (x * i) \in Nat
        BY <4>1
      <4> QED BY <3>2, <3>3, <4>2
    <3>5. Rest(i * size, z) = 0
      BY <3>4, IsQuotient
    <3> QED BY <2>4, <3>1, <3>5 DEF Cut0
  <2>6. PICK i \in Nat : i = j - 1 /\ i + 1 = j /\ i \in 0 .. k /\ i < k /\ i + 1 \in 0 .. k
    BY <2>3
  <2>7. PICK u : u = b[i]
    OBVIOUS
  <2>8. PICK v : v = b[i + 1]
    OBVIOUS
  <2>9. u \in Nat /\ v \in Nat /\ u <= v /\ v <= n /\ p[i + 1] = SubSeq(Places(n), u + 1, v)
    <3>1. b[i] \in 0 .. n /\ b[i + 1] \in 0 .. n /\ b[i] <= b[i + 1] /\ p[i + 1] = SubSeq(Places(n), b[i] + 1, b[i + 1])
      BY <2>0, <2>3, <2>6, EndsOf
    <3>2. b[i] \in Nat /\ b[i + 1] \in Nat /\ b[i + 1] <= n
      BY <3>1
    <3> QED BY <2>7, <2>8, <3>1, <3>2
  <2>10. Rest(v - u, z) = 0
    <3>1. Rest(u, z) = 0 /\ Rest(v, z) = 0
      BY <2>5, <2>6, <2>7, <2>8
    <3> QED BY <2>9, <3>1, DifferenceDivides
  <2>11. PICK q : q = p[j]
    OBVIOUS
  <2>12. IsStretch(q, n, u, v)
    <3>1. q = SubSeq(Places(n), u + 1, v)
      BY <2>6, <2>9, <2>11
    <3>2. u \in Nat /\ v \in Nat /\ u <= v /\ v <= n
      BY <2>9
    <3> QED BY <2>0, <3>1, <3>2, PlacesSection
  <2>13. Len(q) = v - u
    BY <2>12 DEF IsStretch
  <2> QED BY <2>10, <2>11, <2>13
<1> QED BY <1>2, <1>3

ActorUpdate == phase = "calling" /\ Calls[call] = "update_actor" /\ conf.backend = "fsdp"

LEMMA ActorSizes ==
  ASSUME IsConf(conf), Startable(conf), PerGpuKnown(conf), conf.backend = "fsdp", Calls[call] = "update_actor"
  PROVE  /\ MiniSize \in Nat \ {0}
         /\ ~conf.dynamic => /\ MicroSize = conf.micro.update_actor /\ MicroSize \in Nat \ {0}
                             /\ Rest(MiniSize, MicroSize) = 0
<1>1. MiniSize \in Nat
  BY MiniSizeType
<1>2. FsdpStarts(conf) /\ Valid(conf)
  BY DEF Startable
<1>3. MiniSize > 0
  BY <1>2 DEF FsdpStarts, MiniSize
<1>4. ASSUME ~conf.dynamic
      PROVE  /\ MicroSize = conf.micro.update_actor /\ MicroSize \in Nat \ {0}
             /\ Rest(MiniSize, MicroSize) = 0
  <2>1. conf.given = "per_gpu"
    <3>1. OneForm(conf)
      BY <1>2, <1>4 DEF Valid
    <3>2. conf.given = "per_gpu" \/ conf.given = "total"
      BY <3>1 DEF OneForm
    <3>3. "total" \notin {"per_gpu", "both"}
      OBVIOUS
    <3> QED BY <3>2, <3>3 DEF PerGpuKnown
  <2>2. MicroSize = conf.micro["update_actor"]
    <3>1. "per_gpu" \notin {"total", "both"}
      OBVIOUS
    <3> QED BY <2>1, <3>1 DEF MicroSize, MicroBatchSize
  <2>3. conf.micro.update_actor \in Nat \ {0}
    BY ConfNumbers
  <2>4. Divides(conf, "update_actor")
    BY <1>2 DEF FsdpStarts
  <2>5. MiniBatchSize(conf) % MicroBatchSize(conf, "update_actor") = 0
    BY <2>1, <2>4 DEF Divides
  <2> QED BY <2>2, <2>3, <2>5 DEF MicroSize, MiniSize, Rest
<1> QED BY <1>1, <1>3, <1>4

(* What a row weighs each time it is run, where the loss is a mean over rows *)
RowWeight(n) ==
  IF conf.dynamic THEN Unit ELSE ((Unit * MiniSize) \div (MiniSize \div MicroSize)) \div MicroRows(n)

RowMean == conf.loss_agg_mode \in RowMeans

(* A micro-batch of a fixed size has the share of as many rows. *)
LEMMA FixedShare ==
  ASSUME IsConf(conf), Startable(conf), PerGpuKnown(conf), conf.backend = "fsdp", Calls[call] = "update_actor", ~conf.dynamic
  PROVE  (Unit * MiniSize) \div (MiniSize \div MicroSize) = Unit * MicroSize
<1>1. PICK u \in Nat \ {0} : u = Unit
  BY StepAssumption
<1>2. PICK size \in Nat \ {0}, z \in Nat \ {0} : size = MiniSize /\ z = MicroSize /\ Rest(size, z) = 0
  BY ActorSizes
<1>3. PICK q \in Nat : q = Quot(size, z) /\ size = z * q
  BY <1>2, DividedWhole
<1>4. q \in Nat \ {0}
  <2>1. z * 0 = 0
    OBVIOUS
  <2> QED BY <1>2, <1>3, <2>1
<1>5. PICK a \in Nat, w \in Nat : a = u * size /\ w = u * z /\ a = q * w
  <2>1. u * (z * q) = q * (u * z) /\ u * z \in Nat /\ u * (z * q) \in Nat
    OBVIOUS
  <2> QED BY <1>3, <2>1
<1>6. Quot(a, q) = w
  BY <1>4, <1>5, IsQuotient
<1>7. q = MiniSize \div MicroSize
  BY <1>2, <1>3 DEF Quot
<1>8. Quot(a, q) = (Unit * MiniSize) \div (MiniSize \div MicroSize)
  BY <1>1, <1>2, <1>5, <1>7 DEF Quot
<1> QED BY <1>1, <1>2, <1>5, <1>6, <1>8

LEMMA MicroRowsType ==
  ASSUME IsConf(conf), Startable(conf), PerGpuKnown(conf), conf.backend = "fsdp", Calls[call] = "update_actor",
         NEW n \in Nat \ {0}, CanMiniBatch(n), ~conf.dynamic
  PROVE  MicroRows(n) \in Nat \ {0}
<1>1. PICK size \in Nat \ {0}, z \in Nat \ {0} : size = MiniSize /\ z = MicroSize /\ Rest(size, z) = 0
  BY ActorSizes
<1>2. CASE ~conf.multi_modal
  BY <1>1, <1>2 DEF MicroRows
<1>3. CASE conf.multi_modal
  <2>1. PICK k \in Nat \ {0} : k = Quot(n, size) /\ Rest(n, k) = 0 /\ k = n \div MiniSize
    <3>1. PICK k \in Nat : k = Quot(n, size)
      BY Division
    <3> QED BY <1>1, <1>3, <3>1 DEF CanMiniBatch, EvenChunk, Quot, Rest
  <2>2. PICK m \in Nat : m = ChunkSize(n, k) /\ n = k * m
    <3>1. n \in Nat
      OBVIOUS
    <3>2. ChunkSize(n, k) \in Nat
      BY <3>1, RoundedUp
    <3> QED BY <2>1, <3>1, <3>2, WholeChunks
  <2>3. size <= m
    <3>1. SUFFICES ASSUME m < size PROVE FALSE
      BY <1>1, <2>2
    <3>2. k * m + k <= k * size
      BY <3>1, Ordered
    <3>3. n = size * k + Rest(n, size) /\ Rest(n, size) \in 0 .. size - 1
      <4>1. n \in Nat
        OBVIOUS
      <4> QED BY <2>1, <4>1, Division
    <3>4. PICK x \in Nat : x = k * size /\ x = size * k
      OBVIOUS
    <3>5. x <= n
      BY <3>3, <3>4
    <3> QED BY <2>2, <3>2, <3>4, <3>5
  <2>4. z <= size
    <3>0. Rest(size, z) = 0 /\ size \in Nat
      BY <1>1
    <3>1. PICK q \in Nat : size = z * q
      <4>1. Quot(size, z) \in Nat /\ size = z * Quot(size, z)
        BY <3>0, DividedWhole
      <4> QED BY <4>1
    <3>2. q # 0
      <4>1. z * 0 = 0
        OBVIOUS
      <4> QED BY <3>1, <4>1
    <3>3. z * 1 <= z * q
      BY <3>2, NotLess
    <3> QED BY <3>1, <3>3
  <2>5. PICK c \in Nat \ {0} : c = Quot(m, z)
    <3>1. Quot(m, z) \in Nat /\ Rest(m, z) \in 0 .. z - 1 /\ m = z * Quot(m, z) + Rest(m, z)
      BY Division
    <3>2. Quot(m, z) # 0
      <4>1. SUFFICES ASSUME Quot(m, z) = 0 PROVE FALSE
        OBVIOUS
      <4>2. m < z
        <5>1. z * 0 = 0
          OBVIOUS
        <5> QED BY <3>1, <4>1, <5>1
      <4> QED BY <2>3, <2>4, <4>2
    <3> QED BY <3>1, <3>2
  <2>6. PICK y \in Nat : y = ChunkSize(m, c) /\ m <= c * y
    BY RoundedUp
  <2>7. y # 0
    <3>1. c * 0 = 0
      OBVIOUS
    <3>2. m > 0
      BY <2>3
    <3> QED BY <2>6, <3>1, <3>2
  <2>8. MicroRows(n) = y
    BY <1>1, <1>3, <2>1, <2>2, <2>5, <2>6 DEF MicroRows, MiniRows, Quot
  <2> QED BY <2>7, <2>8
<1> QED BY <1>2, <1>3

LEMMA RowWeightType ==
  ASSUME IsConf(conf), Startable(conf), PerGpuKnown(conf), conf.backend = "fsdp", Calls[call] = "update_actor",
         NEW n \in Nat \ {0}, CanMiniBatch(n)
  PROVE  RowWeight(n) \in Nat /\ (~conf.multi_modal => RowWeight(n) = Unit)
<1>1. PICK u \in Nat \ {0} : u = Unit
  BY StepAssumption
<1>2. CASE conf.dynamic
  BY <1>1, <1>2 DEF RowWeight
<1>3. CASE ~conf.dynamic
  <2>1. PICK z \in Nat \ {0} : z = MicroSize
    BY <1>3, ActorSizes
  <2>2. PICK y \in Nat \ {0} : y = MicroRows(n)
    BY <1>3, MicroRowsType
  <2>3. PICK a \in Nat : a = u * z
    OBVIOUS
  <2>4. RowWeight(n) = Quot(a, y)
    <3>1. (Unit * MiniSize) \div (MiniSize \div MicroSize) = a
      BY <1>1, <1>3, <2>1, <2>3, FixedShare
    <3> QED BY <1>3, <2>2, <3>1 DEF RowWeight, Quot
  <2>5. Quot(a, y) \in Nat
    BY Division
  <2>6. ASSUME ~conf.multi_modal PROVE Quot(a, y) = u
    <3>1. y = z
      BY <2>1, <2>2, <2>6 DEF MicroRows
    <3>2. a = y * u /\ u \in Nat
      BY <2>3, <3>1
    <3> QED BY <3>2, IsQuotient
  <2> QED BY <1>1, <2>4, <2>5, <2>6
<1> QED BY <1>2, <1>3

----------------------------------------------------------------------------
(* The invariant *)

(* How often a row has been run once d mini-batches are done *)
Times(n, d, i) == TimesOf(Len(MiniBatches(n)), MiniEnds(n), d, i)

(* Micro-batches that have every row of the mini-batch once *)
IsPlan(n, p, hd) ==
  /\ IsCover(p, hd) /\ \A j \in 1 .. Len(p) : p[j] \in Seq(1 .. n)
  /\ ~conf.dynamic => \A j \in 1 .. Len(p) : Len(p[j]) = MicroRows(n)

(* The weights of a rank's rows, as the stage it is at says. *)
WeightAt(n, sg, d, hd, pl, rn, t) ==
  /\ sg = "called" => \A i \in 1 .. n : t[i] = 0
  /\ sg \in {"next", "asking", "returned"} /\ RowMean => \A i \in 1 .. n : t[i] = Times(n, d, i) * RowWeight(n)
  /\ sg = "running" => IsPlan(n, pl, hd)
  /\ sg = "running" /\ RowMean =>
       \A i \in 1 .. n : t[i] = (Times(n, d, i) + OneIf(i \in RowsIn(pl, rn))) * RowWeight(n)

WeighedAt(r) ==
  WeightAt(Len(held[0]), stage[r], Done(Course, todo[r]), Head(todo[r]), plan[r], ran[r], trained[r])

RowsDivide ==
  phase \notin {"collected", "failed"} => Rest(Len(batch), WorldSize * conf.micro.update_actor) = 0

HeldDivide == ActorUpdate => Rest(Len(held[0]), conf.micro.update_actor) = 0

WeightsRight == ActorUpdate => \A r \in Rank : WeighedAt(r)

Weighed == RowsDivide /\ HeldDivide /\ WeightsRight /\ RowsWeighAlike

LEMMA AtActor ==
  ASSUME Running, ActorUpdate
  PROVE  /\ phase = "calling" /\ call \in 1 .. 5 /\ Calls[call] = "update_actor" /\ Calls[call] \in Updates
         /\ conf.backend = "fsdp" /\ IsConf(conf) /\ Startable(conf) /\ PerGpuKnown(conf)
         /\ Shapes /\ HeldAlike /\ Len(held[0]) \in Nat \ {0} /\ \A r \in Rank : AtRank(r)
<1>1. phase = "calling" /\ Calls[call] = "update_actor" /\ conf.backend = "fsdp"
  BY DEF ActorUpdate
<1>2. /\ Shapes /\ IsConf(conf) /\ call \in 1 .. 5 /\ HeldAlike /\ PerGpuKnown(conf) /\ Startable(conf)
      /\ \A r \in Rank : AtRank(r)
  BY <1>1, AtCall
<1>3. Len(held[0]) \in Nat \ {0}
  <2>1. held[0] \in Seq(Rows) /\ Len(held[0]) > 0
    BY <1>2, SomeRank DEF HeldAlike
  <2> QED BY <2>1
<1>4. "update_actor" \in Updates
  BY DEF Updates
<1> QED BY <1>1, <1>2, <1>3, <1>4

(* A rank that has begun can cut its rows into mini-batches; all of them, as *)
(* often as there are epochs, are what it has to do.                         *)
LEMMA AtWork ==
  ASSUME Running, ActorUpdate, NEW r \in Rank, stage[r] # "called"
  PROVE  /\ CanMiniBatch(Len(held[0])) /\ IsCourse(Course) /\ TodoIs(Course, todo[r])
         /\ Course.works = Work(Calls[call], Len(held[0]))
<1>1. /\ IsConf(conf) /\ call \in 1 .. 5 /\ HeldAlike /\ Calls[call] \in Updates
      /\ RankIs(Course, r, stage[r], todo[r], plan[r], ran[r], log[r])
  BY AtActor DEF AtRank
<1>2. Course.can /\ TodoIs(Course, todo[r])
  BY <1>1 DEF RankIs
<1>3. CanMiniBatch(Len(held[0]))
  BY <1>1, <1>2 DEF Course
<1>4. IsCourse(Course)
  BY <1>1, <1>2, CourseIs
<1>5. Course.works = Work(Calls[call], Len(held[0]))
  BY DEF Course, Works
<1> QED BY <1>2, <1>3, <1>4, <1>5

(* The mini-batches of n rows *)
IsEpoch(n, l, mb, b) ==
  /\ n = Len(held[0]) /\ mb = MiniBatches(n) /\ Len(mb) = l /\ b = MiniEnds(n) /\ InTurn(n, mb, l, b)
  /\ mb \in Seq(Seq(1 .. n)) /\ b[0] = 0

LEMMA EpochIs ==
  ASSUME Running, ActorUpdate, CanMiniBatch(Len(held[0]))
  PROVE  \E n \in Nat \ {0} : \E l \in Nat \ {0} : \E mb, b : IsEpoch(n, l, mb, b)
<1>1. PICK n \in Nat \ {0} : n = Len(held[0])
  BY AtActor
<1>2. IsConf(conf) /\ CanMiniBatch(n)
  BY <1>1, AtActor
<1>3. PICK mb : mb = MiniBatches(n)
  OBVIOUS
<1>4. PICK b : b = MiniEnds(n)
  OBVIOUS
<1>5. PICK l \in Nat \ {0} : Len(mb) = l /\ InTurn(n, mb, l, b)
  BY <1>2, <1>3, <1>4, MiniTurn
<1>6. mb \in Seq(Seq(1 .. n))
  BY <1>2, <1>3, MiniBatchesType DEF IsWork
<1>7. b[0] = 0
  BY <1>5 DEF InTurn
<1>8. IsEpoch(n, l, mb, b)
  BY <1>1, <1>3, <1>4, <1>5, <1>6, <1>7 DEF IsEpoch
<1> QED BY <1>8

LEMMA TimesType ==
  ASSUME NEW n \in Nat \ {0}, NEW l \in Nat \ {0}, NEW mb, NEW b, IsEpoch(n, l, mb, b), NEW d \in Nat, NEW i \in 1 .. n
  PROVE  /\ Times(n, d, i) \in Nat /\ Times(n, 0, i) = 0
         /\ Times(n, d + 1, i) = Times(n, d, i) + OneIf(i \in Range(mb[Rest(d, l) + 1]))
<1>0. n \in Nat /\ i \in Nat \ {0} /\ InTurn(n, mb, l, b) /\ b[0] = 0
  BY DEF IsEpoch
<1>1. \A e : Times(n, e, i) = TimesOf(l, b, e, i)
  BY DEF Times, IsEpoch
<1>2. TimesOf(l, b, d, i) \in Nat /\ TimesOf(l, b, d + 1, i) = TimesOf(l, b, d, i) + OneIf(i \in Range(mb[Rest(d, l) + 1]))
  BY <1>0, TimesNext
<1>3. TimesOf(l, b, 0, i) = 0
  BY <1>0, TimesNone
<1> QED BY <1>1, <1>2, <1>3

(* The mini-batch a rank is at *)
IsTurn(r, n, l, mb, d, p) ==
  /\ d = Done(Course, todo[r]) /\ p = Head(todo[r]) /\ p = mb[Rest(d, l) + 1] /\ p \in Seq(1 .. n) /\ Len(p) > 0
  /\ OnceEach(p) /\ Rest(d, l) + 1 \in 1 .. l

LEMMA TurnIs ==
  ASSUME Running, ActorUpdate, NEW r \in Rank, stage[r] # "called", todo[r] # << >>,
         NEW n \in Nat \ {0}, NEW l \in Nat \ {0}, NEW mb, NEW b, IsEpoch(n, l, mb, b)
  PROVE  \E d \in Nat : \E p : IsTurn(r, n, l, mb, d, p)
<1>1. /\ IsCourse(Course) /\ TodoIs(Course, todo[r]) /\ Course.works = Work(Calls[call], n) /\ CanMiniBatch(n)
  BY AtWork DEF IsEpoch
<1>2. PICK w : w = Work(Calls[call], n)
  OBVIOUS
<1>3. PICK d : d = Done(Course, todo[r])
  OBVIOUS
<1>4. d \in 0 .. Len(w) - 1 /\ Head(todo[r]) = w[d + 1]
  BY <1>1, <1>2, <1>3, DoneType
<1>5. Len(w) = l * Epochs /\ \A e \in Nat : e < l * Epochs => w[e + 1] = mb[Rest(e, l) + 1]
  <2>1. mb \in Seq(Seq(1 .. n)) /\ mb = MiniBatches(n) /\ Len(mb) = l
    BY DEF IsEpoch
  <2>2. Calls[call] \in Updates
    BY AtActor
  <2> QED BY <1>2, <2>1, <2>2, WorksTurn
<1>6. d \in Nat /\ d < l * Epochs
  <2>1. PICK k \in Nat : k = l * Epochs
    BY StepAssumption
  <2> QED BY <1>4, <1>5, <2>1
<1>7. PICK x \in 0 .. l - 1 : x = Rest(d, l)
  <2>1. Rest(d, l) \in 0 .. l - 1
    BY <1>6, Division
  <2> QED BY <2>1
<1>8. x + 1 \in 1 .. l /\ x \in 0 .. l /\ x < l
  OBVIOUS
<1>9. PICK p : p = Head(todo[r])
  OBVIOUS
<1>10. p = mb[x + 1]
  BY <1>4, <1>5, <1>6, <1>7, <1>9
<1>11. p \in Seq(1 .. n) /\ p # << >>
  <2>1. AtRank(r) /\ phase = "calling"
    BY AtActor
  <2>2. IsWork(w, n)
    <3>1. IsConf(conf)
      BY AtActor
    <3> QED BY <1>1, <1>2, <3>1, WorkType
  <2>3. d + 1 \in 1 .. Len(w)
    <3>1. Len(w) \in Nat
      BY <2>2 DEF IsWork
    <3> QED BY <1>4, <3>1
  <2> QED BY <1>4, <1>9, <2>2, <2>3 DEF IsWork
<1>12. Len(p) > 0
  <2>1. Len(p) \in Nat /\ Len(p) # 0
    BY <1>11
  <2> QED BY <2>1
<1>13. OnceEach(p)
  <2>1. n \in Nat /\ l \in Nat /\ InTurn(n, mb, l, b)
    BY DEF IsEpoch
  <2>2. PICK u : u = b[x]
    OBVIOUS
  <2>3. PICK v : v = b[x + 1]
    OBVIOUS
  <2>4. u \in Nat /\ v \in Nat /\ u <= v /\ v <= n /\ p = SubSeq(Places(n), u + 1, v)
    <3>1. b[x] \in 0 .. n /\ b[x + 1] \in 0 .. n /\ b[x] <= b[x + 1] /\ mb[x + 1] = SubSeq(Places(n), b[x] + 1, b[x + 1])
      BY <1>8, <2>1, EndsOf
    <3> QED BY <1>10, <2>2, <2>3, <3>1
  <2>5. IsStretch(p, n, u, v)
    BY <2>1, <2>4, PlacesSection
  <2> QED BY <2>1, <2>4, <2>5, StretchOnce
<1>14. IsTurn(r, n, l, mb, d, p)
  BY <1>3, <1>7, <1>8, <1>9, <1>10, <1>11, <1>12, <1>13 DEF IsTurn
<1> QED BY <1>6, <1>14

----------------------------------------------------------------------------
(* The ranks' steps *)

WeighedNext(r) ==
  WeightAt(Len(held[0]), stage'[r], Done(Course, todo'[r]), Head(todo'[r]), plan'[r], ran'[r], trained'[r])

KeepsOthers(r) ==
  /\ UNCHANGED <<conf, phase, batch, call, held>>
  /\ \A q \in Rank : q # r => /\ stage'[q] = stage[q] /\ todo'[q] = todo[q] /\ plan'[q] = plan[q] /\ ran'[q] = ran[q]
                              /\ trained'[q] = trained[q]

LEMMA SizesStay ==
  ASSUME conf' = conf, call' = call, held' = held
  PROVE  /\ \A n, d, i : Times(n, d, i)' = Times(n, d, i)
         /\ \A n : RowWeight(n)' = RowWeight(n) /\ MicroRows(n)' = MicroRows(n)
         /\ RowMean' <=> RowMean
         /\ \A td : Done(Course, td)' = Done(Course, td)
<1>1. MiniSize' = MiniSize /\ MicroSize' = MicroSize
  BY DEF MiniSize, MicroSize, Calls
<1>2. \A n : MiniEnds(n)' = MiniEnds(n) /\ MiniBatches(n)' = MiniBatches(n)
  BY <1>1 DEF MiniEnds, MiniBatches
<1>3. \A n : MiniRows(n)' = MiniRows(n)
  BY <1>1 DEF MiniRows
<1>4. \A n : MicroRows(n)' = MicroRows(n)
  BY <1>1, <1>3 DEF MicroRows
<1>5. \A n : RowWeight(n)' = RowWeight(n)
  BY <1>1, <1>4 DEF RowWeight
<1>6. Course' = Course
  BY CourseStays
<1> QED BY <1>2, <1>4, <1>5, <1>6 DEF Times, Done, RowMean

LEMMA WeightsStay ==
  ASSUME conf' = conf, call' = call, held' = held, NEW r \in Rank, WeighedNext(r)
  PROVE  WeighedAt(r)'
<1>1. /\ \A n, d, i : Times(n, d, i)' = Times(n, d, i)
      /\ \A n : RowWeight(n)' = RowWeight(n) /\ MicroRows(n)' = MicroRows(n)
      /\ RowMean' <=> RowMean
  BY SizesStay
<1>2. Course' = Course
  BY CourseStays
<1>3. WeightAt(Len(held'[0]), stage'[r], Done(Course', todo'[r]), Head(todo'[r]), plan'[r], ran'[r], trained'[r])
  BY <1>2 DEF WeighedNext
<1> QED BY <1>1, <1>3 DEF WeighedAt, WeightAt, IsPlan

LEMMA WeightsKept ==
  ASSUME Weighed, ActorUpdate, NEW r \in Rank, KeepsOthers(r), WeighedNext(r)
  PROVE  Weighed'
<1>1. conf' = conf /\ phase' = phase /\ batch' = batch /\ call' = call /\ held' = held
  BY DEF KeepsOthers
<1>2. ASSUME NEW q \in Rank PROVE WeighedNext(q)
  <2>1. CASE q = r
    BY <2>1
  <2>2. CASE q # r
    <3>1. stage'[q] = stage[q] /\ todo'[q] = todo[q] /\ plan'[q] = plan[q] /\ ran'[q] = ran[q] /\ trained'[q] = trained[q]
      BY <2>2 DEF KeepsOthers
    <3>2. WeighedAt(q)
      BY DEF Weighed, WeightsRight
    <3> QED BY <3>1, <3>2 DEF WeighedNext, WeighedAt
  <2> QED BY <2>1, <2>2
<1>3. ASSUME NEW q \in Rank PROVE WeighedAt(q)'
  BY <1>1, <1>2, WeightsStay
<1>4. WeightsRight'
  BY <1>3 DEF WeightsRight
<1>5. HeldDivide'
  BY <1>1 DEF Weighed, HeldDivide, ActorUpdate, Calls
<1>6. RowsDivide'
  BY <1>1 DEF Weighed, RowsDivide
<1>7. RowsWeighAlike'
  <2>1. phase' # "done"
    BY <1>1 DEF ActorUpdate
  <2> QED BY <2>1 DEF RowsWeighAlike
<1> QED BY <1>4, <1>5, <1>6, <1>7 DEF Weighed

LEMMA BeginWeights ==
  ASSUME Running, Weighed, ActorUpdate, NEW r \in Rank, Begin(r), ~Raise(r)
  PROVE  Weighed'
<1>1. stage[r] = "called"
  BY DEF Begin
<1>2. Shapes /\ HeldAlike /\ IsConf(conf) /\ Startable(conf) /\ PerGpuKnown(conf) /\ conf.backend = "fsdp"
      /\ Calls[call] = "update_actor" /\ Calls[call] \in Updates
  BY AtActor
<1>3. /\ CanMiniBatch(Len(held[r])) /\ todo' = [todo EXCEPT ![r] = Work(Calls[call], Len(held[r]))]
      /\ stage' = [stage EXCEPT ![r] = "next"]
      /\ UNCHANGED <<conf, phase, batch, call, held, plan, ran, trained>>
  BY <1>2 DEF Begin, driver
<1>4. CanMiniBatch(Len(held[0])) /\ Len(held[r]) = Len(held[0])
  BY <1>2, <1>3 DEF HeldAlike
<1>5. PICK n \in Nat \ {0}, l \in Nat \ {0} : \E mb, b : IsEpoch(n, l, mb, b)
  BY <1>4, EpochIs
<1>6. PICK mb, b : IsEpoch(n, l, mb, b)
  BY <1>5
<1>7. n = Len(held[0])
  BY <1>6 DEF IsEpoch
<1>8. PICK w : w = Work(Calls[call], n)
  OBVIOUS
<1>9. Course.works = w
  BY <1>7, <1>8 DEF Course, Works
<1>10. Done(Course, w) = 0
  <2>1. IsWork(w, n)
    BY <1>2, <1>4, <1>7, <1>8, WorkType
  <2>2. Len(w) \in Nat
    BY <2>1 DEF IsWork
  <2> QED BY <1>9, <2>2 DEF Done
<1>11. stage'[r] = "next" /\ todo'[r] = w /\ trained'[r] = trained[r]
  BY <1>2, <1>3, <1>4, <1>7, <1>8 DEF Shapes
<1>12. ASSUME RowMean, NEW i \in 1 .. n PROVE trained[r][i] = Times(n, 0, i) * RowWeight(n)
  <2>1. trained[r][i] = 0
    BY <1>1, <1>7 DEF Weighed, WeightsRight, WeighedAt, WeightAt
  <2>2. Times(n, 0, i) = 0
    <3>1. 0 \in Nat
      OBVIOUS
    <3> QED BY <1>6, <3>1, TimesType
  <2>3. RowWeight(n) \in Nat
    BY <1>2, <1>4, <1>7, RowWeightType
  <2>4. 0 * RowWeight(n) = 0
    BY <2>3
  <2> QED BY <2>1, <2>2, <2>4
<1>13. WeighedNext(r)
  BY <1>7, <1>10, <1>11, <1>12 DEF WeighedNext, WeightAt
<1>14. KeepsOthers(r)
  BY <1>2, <1>3 DEF KeepsOthers, Shapes
<1> QED BY <1>13, <1>14, WeightsKept

LEMMA AskWeights ==
  ASSUME Running, Weighed, ActorUpdate, NEW r \in Rank, Ask(r)
  PROVE  Weighed'
<1>1. stage[r] = "next"
  BY DEF Ask
<1>2. Shapes
  BY AtActor
<1>3. stage' = [stage EXCEPT ![r] = "asking"] /\ UNCHANGED <<conf, phase, batch, call, held, todo, plan, ran, trained>>
  BY DEF Ask, driver
<1>4. stage'[r] = "asking" /\ todo'[r] = todo[r] /\ trained'[r] = trained[r]
  BY <1>2, <1>3 DEF Shapes
<1>5. WeighedNext(r)
  BY <1>1, <1>4 DEF Weighed, WeightsRight, WeighedAt, WeighedNext, WeightAt
<1>6. KeepsOthers(r)
  BY <1>2, <1>3 DEF KeepsOthers, Shapes
<1> QED BY <1>5, <1>6, WeightsKept

LEMMA FinishWeights ==
  ASSUME Running, Weighed, ActorUpdate, NEW r \in Rank, Finish(r), ~Raise(r)
  PROVE  Weighed'
<1>1. stage[r] = "next"
  BY DEF Finish
<1>2. Shapes
  BY AtActor
<1>3. stage' = [stage EXCEPT ![r] = "returned"] /\ UNCHANGED <<conf, phase, batch, call, held, todo, plan, ran, trained>>
  BY DEF Finish, driver
<1>4. stage'[r] = "returned" /\ todo'[r] = todo[r] /\ trained'[r] = trained[r]
  BY <1>2, <1>3 DEF Shapes
<1>5. WeighedNext(r)
  BY <1>1, <1>4 DEF Weighed, WeightsRight, WeighedAt, WeighedNext, WeightAt
<1>6. KeepsOthers(r)
  BY <1>2, <1>3 DEF KeepsOthers, Shapes
<1> QED BY <1>5, <1>6, WeightsKept

(* New micro-batches, none of which has been run *)
LEMMA PlanWeights ==
  ASSUME Running, Weighed, ActorUpdate, NEW r \in Rank, stage[r] \in {"next", "asking"}, CanMiniBatch(Len(held[0])),
         KeepsOthers(r), stage'[r] = "running", todo'[r] = todo[r], ran'[r] = 0, trained'[r] = trained[r],
         IsPlan(Len(held[0]), plan'[r], Head(todo[r])), TodoIs(Course, todo[r]), IsCourse(Course)
  PROVE  Weighed'
<1>1. PICK n \in Nat \ {0}, l \in Nat \ {0} : \E mb, b : IsEpoch(n, l, mb, b)
  BY EpochIs
<1>2. PICK mb, b : IsEpoch(n, l, mb, b)
  BY <1>1
<1>3. n = Len(held[0])
  BY <1>2 DEF IsEpoch
<1>4. PICK d \in Nat : d = Done(Course, todo[r])
  <2>1. Done(Course, todo[r]) \in 0 .. Len(Course.works) /\ Len(Course.works) \in Nat
    BY DoneType, WorksLen
  <2> QED BY <2>1
<1>5. \A i : OneIf(i \in RowsIn(plan'[r], 0)) = 0
  <2>1. 1 .. 0 = {}
    OBVIOUS
  <2>2. \A i : i \notin RowsIn(plan'[r], 0)
    BY <2>1 DEF RowsIn
  <2> QED BY <2>2 DEF OneIf
<1>6. ASSUME RowMean, NEW i \in 1 .. n
      PROVE  trained[r][i] = (Times(n, d, i) + OneIf(i \in RowsIn(plan'[r], 0))) * RowWeight(n)
  <2>1. trained[r][i] = Times(n, d, i) * RowWeight(n)
    BY <1>3, <1>6, <1>4 DEF Weighed, WeightsRight, WeighedAt, WeightAt
  <2>2. Times(n, d, i) + 0 = Times(n, d, i)
    <3>1. Times(n, d, i) \in Nat
      BY <1>2, TimesType
    <3> QED BY <3>1
  <2> QED BY <1>5, <2>1, <2>2
<1>7. WeighedNext(r)
  BY <1>3, <1>4, <1>6 DEF WeighedNext, WeightAt
<1> QED BY <1>7, WeightsKept

LEMMA RearrangeWeights ==
  ASSUME Running, Weighed, ActorUpdate, NEW r \in Rank, Rearrange(r), ~Raise(r)
  PROVE  Weighed'
<1>1. phase = "calling" /\ stage[r] = "asking" /\ Synced(r) /\ stage[r] # "called"
  BY DEF Rearrange
<1>2. /\ Shapes /\ IsConf(conf) /\ call \in 1 .. 5 /\ HeldAlike /\ \A q \in Rank : AtRank(q)
  BY AtActor
<1>3. todo[r] # << >>
  BY <1>1, <1>2 DEF AtRank, RankIs
<1>4. CanMiniBatch(Len(held[0])) /\ TodoIs(Course, todo[r]) /\ IsCourse(Course)
  BY <1>1, AtWork
<1>5. PICK n \in Nat \ {0}, l \in Nat \ {0} : \E mb, b : IsEpoch(n, l, mb, b)
  BY <1>4, EpochIs
<1>6. PICK mb, b : IsEpoch(n, l, mb, b)
  BY <1>5
<1>7. n = Len(held[0])
  BY <1>6 DEF IsEpoch
<1>8. PICK d, p : d \in Nat /\ IsTurn(r, n, l, mb, d, p)
  BY <1>1, <1>3, <1>6, TurnIs
<1>9. p \in Seq(1 .. n) /\ p = Head(todo[r]) /\ p # << >> /\ OnceEach(p) /\ n \in Nat
  <2>1. Len(<< >>) = 0
    OBVIOUS
  <2> QED BY <1>8, <2>1 DEF IsTurn
<1>10. PICK k \in Nat \ {0} : k = Settled(r) /\ Dynamic
  <2>1. Settled(r) = Needs(p) /\ Dynamic
    BY <1>1, <1>9, SettledIs
  <2>2. Needs(p) \in Nat \ {0}
    BY <1>2, <1>7, <1>9, NeedsType
  <2> QED BY <2>1, <2>2
<1>11. PICK lens : lens = TokensAt(r, p)
  OBVIOUS
<1>12. PICK parts : parts = get_seqlen_balanced_partitions(lens, k, FALSE)
  OBVIOUS
<1>13. /\ CanPartition(lens, k, FALSE)
       /\ plan' = [plan EXCEPT ![r] = Rearranged(p, parts)]
       /\ stage' = [stage EXCEPT ![r] = "running"]
       /\ ran' = [ran EXCEPT ![r] = 0]
       /\ UNCHANGED <<conf, phase, batch, call, held, todo, trained>>
  BY <1>9, <1>10, <1>11, <1>12 DEF Rearrange, driver
<1>14. UnequalParts(lens, Len(p), k, ResponseLength, parts)
  <2>1. /\ CanPartition(lens, k, FALSE) <=> k <= Len(p)
        /\ k <= Len(p) => UnequalParts(lens, Len(p), k, ResponseLength, parts)
    BY <1>2, <1>7, <1>9, <1>11, <1>12, Parted
  <2> QED BY <1>13, <2>1
<1>15. /\ IsCover(Rearranged(p, parts), p) /\ Len(Rearranged(p, parts)) = k
       /\ \A j \in 1 .. k : Rearranged(p, parts)[j] \in Seq(1 .. n)
  <2>1. PICK U : U = 1 .. n
    OBVIOUS
  <2>2. p \in Seq(U) /\ Len(p) \in Nat /\ k \in Nat
    BY <1>9, <2>1
  <2> QED BY <1>9, <1>14, <2>1, <2>2, RearrangedCover
<1>16. IsPlan(n, Rearranged(p, parts), p)
  BY <1>10, <1>15 DEF IsPlan, Dynamic
<1>17. /\ stage'[r] = "running" /\ plan'[r] = Rearranged(p, parts) /\ ran'[r] = 0 /\ todo'[r] = todo[r]
       /\ trained'[r] = trained[r]
  BY <1>2, <1>13 DEF Shapes
<1>18. KeepsOthers(r)
  BY <1>2, <1>13 DEF KeepsOthers, Shapes
<1>19. IsPlan(Len(held[0]), plan'[r], Head(todo[r]))
  BY <1>7, <1>9, <1>16, <1>17
<1>20. stage[r] \in {"next", "asking"}
  BY <1>1
<1> QED BY <1>4, <1>17, <1>18, <1>19, <1>20, PlanWeights

LEMMA CutWeights ==
  ASSUME Running, Weighed, ActorUpdate, NEW r \in Rank, Cut(r), ~Raise(r)
  PROVE  Weighed'
<1>1. stage[r] = "next" /\ stage[r] # "called" /\ todo[r] # << >> /\ stage[r] \in {"next", "asking"}
      /\ (conf.multi_modal \/ ~conf.dynamic)
  BY DEF Cut
<1>2. /\ Shapes /\ IsConf(conf) /\ call \in 1 .. 5 /\ HeldAlike /\ Startable(conf) /\ PerGpuKnown(conf)
      /\ conf.backend = "fsdp" /\ Calls[call] = "update_actor"
  BY AtActor
<1>4. CanMiniBatch(Len(held[0])) /\ TodoIs(Course, todo[r]) /\ IsCourse(Course)
  BY <1>1, AtWork
<1>5. PICK n \in Nat \ {0}, l \in Nat \ {0} : \E mb, b : IsEpoch(n, l, mb, b)
  BY <1>4, EpochIs
<1>6. PICK mb, b : IsEpoch(n, l, mb, b)
  BY <1>5
<1>7. n = Len(held[0]) /\ mb = MiniBatches(n) /\ l = Len(MiniBatches(n))
  BY <1>6 DEF IsEpoch
<1>8. PICK d, p : d \in Nat /\ IsTurn(r, n, l, mb, d, p)
  BY <1>1, <1>6, TurnIs
<1>9. PICK U : U = 1 .. n
  OBVIOUS
<1>10. p \in Seq(U) /\ p = Head(todo[r]) /\ OnceEach(p)
  BY <1>8, <1>9 DEF IsTurn
<1>11. PICK c \in Nat \ {0} : c = Len(p)
  <2>1. Len(p) \in Nat /\ Len(p) > 0
    BY <1>8, <1>10 DEF IsTurn
  <2>2. Len(p) \in Nat \ {0}
    BY <2>1
  <2> QED BY <2>2
<1>12. PICK j \in 1 .. l : p = MiniBatches(n)[j]
  BY <1>7, <1>8 DEF IsTurn
<1>13. PICK z \in Nat : z = MicroSize
  BY <1>2, MicroSizeType
<1>14. PICK np : np = IF conf.multi_modal THEN Chunk(p, c \div z) ELSE SplitBy(p, z)
  OBVIOUS
<1>15. /\ z > 0 /\ (conf.multi_modal => EvenChunk(c, c \div z))
       /\ plan' = [plan EXCEPT ![r] = np]
       /\ stage' = [stage EXCEPT ![r] = "running"]
       /\ ran' = [ran EXCEPT ![r] = 0]
       /\ UNCHANGED <<conf, phase, batch, call, held, todo, trained>>
  BY <1>10, <1>11, <1>13, <1>14 DEF Cut, driver
<1>16. z \in Nat \ {0} /\ c \in Nat
  BY <1>15
<1>17. CanMiniBatch(n)
  BY <1>4, <1>7
<1>18. ASSUME conf.multi_modal PROVE IsPlan(n, np, p)
  <2>1. PICK k \in Nat : k = Quot(c, z)
    <3>1. Quot(c, z) \in Nat
      BY <1>16, Division
    <3> QED BY <3>1
  <2>2. k = c \div z
    BY <2>1 DEF Quot
  <2>3. k \in Nat \ {0} /\ Rest(c, k) = 0
    BY <1>15, <1>18, <2>2 DEF EvenChunk, Rest
  <2>4. np = Chunk(p, k)
    BY <1>14, <1>18, <2>2
  <2>5. /\ np \in [1 .. k -> Seq(U)] /\ Consecutive(p, k, BoundsOf(c, k), np) /\ BoundsOf(c, k)[0] = 0 /\ BoundsOf(c, k)[k] = c
        /\ \A i \in 1 .. k : Len(np[i]) = ChunkSize(c, k)
    <3>1. Rest(Len(p), k) = 0
      BY <1>11, <2>3
    <3>2. /\ Chunk(p, k) \in [1 .. k -> Seq(U)] /\ \A i \in 1 .. k : Len(Chunk(p, k)[i]) = ChunkSize(Len(p), k)
          /\ Consecutive(p, k, BoundsOf(Len(p), k), Chunk(p, k))
          /\ BoundsOf(Len(p), k)[0] = 0 /\ BoundsOf(Len(p), k)[k] = Len(p)
      BY <1>10, <2>3, <3>1, EvenPieces
    <3> QED BY <1>11, <2>4, <3>2
  <2>6. PICK ends : ends = BoundsOf(c, k)
    OBVIOUS
  <2>7. IsCover(np, p)
    <3>1. Consecutive(p, k, ends, np) /\ ends[0] = 0 /\ ends[k] = Len(p) /\ np \in [1 .. k -> Seq(U)]
      BY <1>11, <2>5, <2>6
    <3> QED BY <1>10, <2>3, <3>1, PiecesCover
  <2>8. c = MiniRows(n)
    <3>1. Len(MiniBatches(n)[j]) = MiniRows(n)
      <4>1. l \in Nat
        OBVIOUS
      <4> QED BY <1>2, <1>7, <1>17, <1>18, <4>1, MiniLengths
    <3> QED BY <1>11, <1>12, <3>1
  <2>9. ChunkSize(c, k) = MicroRows(n)
    BY <1>13, <1>18, <2>2, <2>8 DEF MicroRows
  <2>10. Len(np) = k
    BY <2>5
  <2> QED BY <1>9, <2>5, <2>7, <2>9, <2>10 DEF IsPlan

<1>19. ASSUME ~conf.multi_modal PROVE IsPlan(n, np, p)
  <2>1. np = SplitBy(p, z) /\ ~conf.dynamic
    BY <1>1, <1>14, <1>19
  <2>2. PICK k \in Nat \ {0} : k = Up(c, z)
    BY <1>16, Ceiling
  <2>3. PICK ends : ends = Ends(c, z)
    OBVIOUS
  <2>4. np \in [1 .. k -> Seq(U)] /\ Consecutive(p, k, ends, np) /\ ends[0] = 0 /\ ends[k] = Len(p)
    <3>1. Pieces(U, p, z, SplitBy(p, z))
      BY <1>10, <1>16, SplitPieces
    <3> QED BY <1>11, <2>1, <2>2, <2>3, <3>1 DEF Pieces
  <2>5. IsCover(np, p)
    BY <1>10, <2>4, PiecesCover
  <2>6. Rest(c, z) = 0
    <3>1. z = conf.micro.update_actor /\ Rest(MiniSize, z) = 0
      BY <1>2, <1>13, <2>1, ActorSizes
    <3>2. Rest(n, z) = 0
      BY <1>7, <3>1 DEF Weighed, HeldDivide
    <3>3. Rest(Len(MiniBatches(n)[j]), z) = 0
      <4>1. l \in Nat
        OBVIOUS
      <4>2. \A y \in Nat \ {0} : Rest(n, y) = 0 /\ Rest(MiniSize, y) = 0 => Rest(Len(MiniBatches(n)[j]), y) = 0
        BY <1>2, <1>7, <1>17, <1>19, <4>1, MiniLengths
      <4> QED BY <1>16, <3>1, <3>2, <4>2
    <3> QED BY <1>11, <1>12, <3>3
  <2>7. ASSUME NEW i \in 1 .. k PROVE Len(np[i]) = z
    <3>1. Rest(Len(p), z) = 0 /\ i \in 1 .. Up(Len(p), z)
      BY <1>11, <2>2, <2>6
    <3> QED BY <1>10, <1>16, <2>1, <3>1, SplitEven
  <2>8. MicroRows(n) = z
    BY <1>13, <1>19 DEF MicroRows
  <2>9. Len(np) = k
    BY <2>4
  <2> QED BY <1>9, <2>4, <2>5, <2>7, <2>8, <2>9 DEF IsPlan
<1>20. IsPlan(n, np, p)
  BY <1>18, <1>19
<1>21. /\ stage'[r] = "running" /\ plan'[r] = np /\ ran'[r] = 0 /\ todo'[r] = todo[r] /\ trained'[r] = trained[r]
  BY <1>2, <1>15 DEF Shapes
<1>22. KeepsOthers(r)
  BY <1>2, <1>15 DEF KeepsOthers, Shapes
<1>23. IsPlan(Len(held[0]), plan'[r], Head(todo[r]))
  BY <1>7, <1>10, <1>20, <1>21
<1> QED BY <1>1, <1>4, <1>21, <1>22, <1>23, PlanWeights

(* A micro-batch of text rows has the share of its rows. *)
LEMMA PartShare ==
  ASSUME Running, ActorUpdate, ~conf.multi_modal, NEW n, NEW p, NEW hd, IsPlan(n, p, hd), NEW j \in 1 .. Len(p)
  PROVE  FsdpWeight(p[j]) = Unit * Len(p[j])
<1>1. /\ IsConf(conf) /\ Startable(conf) /\ PerGpuKnown(conf) /\ conf.backend = "fsdp" /\ Calls[call] = "update_actor"
  BY AtActor
<1>2. CASE conf.dynamic
  BY <1>2 DEF FsdpWeight
<1>3. CASE ~conf.dynamic
  <2>1. Len(p[j]) = MicroSize
    BY <1>3 DEF IsPlan, MicroRows
  <2>2. (Unit * MiniSize) \div (MiniSize \div MicroSize) = Unit * MicroSize
    BY <1>1, <1>3, FixedShare
  <2> QED BY <1>3, <2>1, <2>2 DEF FsdpWeight
<1> QED BY <1>2, <1>3

(* Where the loss is a mean over rows, every row of a micro-batch has the    *)
(* same weight.                                                              *)
LEMMA WeightIs ==
  ASSUME Running, ActorUpdate, RowMean, NEW r \in Rank, NEW n, NEW p, NEW hd, IsPlan(n, p, hd), NEW j \in 1 .. Len(p),
         NEW i, i \in Range(p[j])
  PROVE  Weight(r, p[j], i) = RowWeight(n)
<1>1. conf.backend = "fsdp"
  BY DEF ActorUpdate
<1>2. Weight(r, p[j], i) = FsdpWeight(p[j]) \div Len(p[j])
  <2>1. conf.loss_agg_mode # "token-mean" /\ conf.loss_agg_mode \in RowMeans
    BY DEF RowMean, RowMeans
  <2> QED BY <1>1, <2>1 DEF Weight, agg_loss
<1>3. CASE conf.dynamic
  <2>1. PICK a \in Seq(1 .. n) : a = p[j]
    BY DEF IsPlan
  <2>2. PICK c \in Nat \ {0} : c = Len(a)
    <3>1. PICK x \in DOMAIN a : a[x] = i
      BY <2>1, RangeIs
    <3> QED BY <3>1
  <2>3. PICK u \in Nat : u = Unit
    BY StepAssumption
  <2>4. PICK v \in Nat : v = u * c /\ v = c * u
    OBVIOUS
  <2>5. Quot(v, c) = u
    BY <2>4, IsQuotient
  <2>6. FsdpWeight(p[j]) = v
    BY <1>3, <2>1, <2>2, <2>3, <2>4 DEF FsdpWeight
  <2>7. Weight(r, p[j], i) = Quot(v, c)
    BY <1>2, <2>1, <2>2, <2>6 DEF Quot
  <2> QED BY <1>3, <2>3, <2>5, <2>7 DEF RowWeight
<1>4. CASE ~conf.dynamic
  <2>1. Len(p[j]) = MicroRows(n)
    BY <1>4 DEF IsPlan
  <2> QED BY <1>2, <1>4, <2>1 DEF FsdpWeight, RowWeight
<1> QED BY <1>3, <1>4

(* A micro-batch adds its rows, which no earlier one had. *)
LEMMA OneMorePart ==
  ASSUME NEW p, NEW hd, IsCover(p, hd), NEW k \in Nat, k = Len(p), NEW m \in Nat, m < k, NEW i
  PROVE  OneIf(i \in RowsIn(p, m + 1)) = OneIf(i \in RowsIn(p, m)) + OneIf(i \in Range(p[m + 1]))
<1>1. i \in RowsIn(p, m + 1) <=> i \in RowsIn(p, m) \/ i \in Range(p[m + 1])
  <2>1. \A j : j \in 1 .. m + 1 <=> j \in 1 .. m \/ j = m + 1
    OBVIOUS
  <2> QED BY <2>1 DEF RowsIn
<1>2. ~(i \in RowsIn(p, m) /\ i \in Range(p[m + 1]))
  <2>1. SUFFICES ASSUME i \in RowsIn(p, m), i \in Range(p[m + 1]) PROVE FALSE
    OBVIOUS
  <2>2. PICK j \in 1 .. m : i \in Range(p[j])
    BY <2>1 DEF RowsIn
  <2>3. PICK x : x = m + 1 /\ x \in 1 .. k /\ j \in 1 .. k /\ j # x
    OBVIOUS
  <2>4. Range(p[j]) \cap Range(p[x]) = {}
    BY <2>3 DEF IsCover
  <2> QED BY <2>1, <2>2, <2>3, <2>4
<1>3. CASE i \in RowsIn(p, m)
  BY <1>1, <1>2, <1>3 DEF OneIf
<1>4. CASE i \notin RowsIn(p, m)
  BY <1>1, <1>4 DEF OneIf
<1> QED BY <1>3, <1>4

LEMMA ForwardWeights ==
  ASSUME Running, Weighed, ActorUpdate, NEW r \in Rank, Forward(r)
  PROVE  Weighed'
<1>0. AccumulationKnown
  <2>1. "update_actor" # "update_critic"
    OBVIOUS
  <2> QED BY <2>1 DEF ActorUpdate, AccumulationKnown
<1>1. stage[r] = "running" /\ stage[r] # "called" /\ ran[r] < Len(plan[r])
  BY DEF Forward
<1>2. /\ Shapes /\ HeldAlike /\ IsConf(conf) /\ Startable(conf) /\ PerGpuKnown(conf) /\ conf.backend = "fsdp"
      /\ Calls[call] = "update_actor" /\ Calls[call] \in Updates
  BY AtActor
<1>3. CanMiniBatch(Len(held[0])) /\ TodoIs(Course, todo[r]) /\ IsCourse(Course)
  BY <1>1, AtWork
<1>4. PICK n \in Nat \ {0}, l \in Nat \ {0} : \E mb, b : IsEpoch(n, l, mb, b)
  BY <1>3, EpochIs
<1>5. PICK mb, b : IsEpoch(n, l, mb, b)
  BY <1>4
<1>6. n = Len(held[0])
  BY <1>5 DEF IsEpoch
<1>7. PICK d \in Nat : d = Done(Course, todo[r])
  <2>1. Done(Course, todo[r]) \in 0 .. Len(Course.works) /\ Len(Course.works) \in Nat
    BY <1>3, DoneType, WorksLen
  <2> QED BY <2>1
<1>8. PICK m \in Nat, k \in Nat : m = ran[r] /\ k = Len(plan[r]) /\ m < k
  <2>1. ran[r] \in 0 .. Len(plan[r])
    BY <1>2 DEF Shapes
  <2> QED BY <1>1, <2>1
<1>9. PICK p : p = plan[r]
  OBVIOUS
<1>10. PICK part : part = p[m + 1]
  OBVIOUS
<1>11. /\ trained' = [trained EXCEPT ![r] =
                        [i \in DOMAIN @ |-> @[i] + IF i \in {part[x] : x \in DOMAIN part} THEN Weight(r, part, i) ELSE 0]]
       /\ ran' = [ran EXCEPT ![r] = @ + 1]
       /\ UNCHANGED <<conf, phase, batch, call, held, stage, todo, plan>>
  BY <1>0, <1>2, <1>8, <1>9, <1>10 DEF Forward, driver
<1>12. /\ IsPlan(n, p, Head(todo[r]))
       /\ RowMean => \A i \in 1 .. n : trained[r][i] = (Times(n, d, i) + OneIf(i \in RowsIn(p, m))) * RowWeight(n)
  BY <1>1, <1>6, <1>7, <1>8, <1>9 DEF Weighed, WeightsRight, WeighedAt, WeightAt
<1>13. PICK w \in Nat : w = RowWeight(n)
  BY <1>2, <1>3, <1>6, RowWeightType
<1>14. ASSUME RowMean, NEW i, i \in Range(part) PROVE Weight(r, part, i) = w
  <2>1. m + 1 \in 1 .. Len(p)
    BY <1>8, <1>9
  <2>2. PICK j \in 1 .. Len(p) : j = m + 1
    BY <2>1
  <2>3. i \in Range(p[j]) /\ part = p[j]
    BY <1>10, <1>14, <2>2
  <2>4. IsPlan(n, p, Head(todo[r])) /\ RowMean
    BY <1>12, <1>14
  <2>5. Weight(r, p[j], i) = RowWeight(n)
    BY <2>3, <2>4, WeightIs
  <2> QED BY <1>13, <2>3, <2>5
<1>15. DOMAIN trained[r] = 1 .. n
  <2>1. DOMAIN trained[r] = DOMAIN held[r] /\ held[r] \in Seq(Rows) /\ Len(held[r]) = n
    BY <1>2, <1>6 DEF Shapes, HeldAlike
  <2> QED BY <2>1
<1>16. \A i : i \in {part[x] : x \in DOMAIN part} <=> i \in Range(part)
  BY RangeIs
<1>17. ASSUME RowMean, NEW i \in 1 .. n
       PROVE  trained'[r][i] = (Times(n, d, i) + OneIf(i \in RowsIn(p, m + 1))) * w
  <2>1. PICK t \in Nat : t = Times(n, d, i)
    BY <1>5, TimesType
  <2>2. PICK u \in Nat : u = OneIf(i \in RowsIn(p, m))
    BY DEF OneIf
  <2>3. PICK v \in Nat : v = OneIf(i \in Range(part))
    BY DEF OneIf
  <2>4. OneIf(i \in RowsIn(p, m + 1)) = u + v
    <3>1. IsCover(p, Head(todo[r])) /\ k = Len(p)
      BY <1>8, <1>9, <1>12 DEF IsPlan
    <3> QED BY <1>8, <1>10, <2>2, <2>3, <3>1, OneMorePart
  <2>5. trained[r][i] = (t + u) * w
    BY <1>12, <1>13, <1>17, <2>1, <2>2
  <2>6. trained'[r][i] = trained[r][i] + IF i \in Range(part) THEN w ELSE 0
    <3>1. i \in Range(part) => Weight(r, part, i) = w
      BY <1>14, <1>17
    <3>2. trained'[r][i] = trained[r][i] + IF i \in {part[x] : x \in DOMAIN part} THEN Weight(r, part, i) ELSE 0
      BY <1>2, <1>11, <1>15 DEF Shapes
    <3> QED BY <1>16, <3>1, <3>2
  <2>7. (IF i \in Range(part) THEN w ELSE 0) = v * w
    <3>1. CASE i \in Range(part)
      <4>1. v = 1 /\ 1 * w = w
        BY <2>3, <3>1 DEF OneIf
      <4> QED BY <3>1, <4>1
    <3>2. CASE i \notin Range(part)
      <4>1. v = 0 /\ 0 * w = 0
        BY <2>3, <3>2 DEF OneIf
      <4> QED BY <3>2, <4>1
    <3> QED BY <3>1, <3>2
  <2>8. (t + u) * w + v * w = (t + (u + v)) * w
    OBVIOUS
  <2> QED BY <2>1, <2>4, <2>5, <2>6, <2>7, <2>8
<1>18. stage'[r] = "running" /\ todo'[r] = todo[r] /\ plan'[r] = p /\ ran'[r] = m + 1
  BY <1>1, <1>2, <1>8, <1>9, <1>11 DEF Shapes
<1>19. WeighedNext(r)
  BY <1>6, <1>7, <1>12, <1>13, <1>17, <1>18 DEF WeighedNext, WeightAt
<1>20. KeepsOthers(r)
  BY <1>2, <1>11 DEF KeepsOthers, Shapes
<1> QED BY <1>19, <1>20, WeightsKept

LEMMA StepWeights ==
  ASSUME Running, Weighed, ActorUpdate, NEW r \in Rank, Step(r)
  PROVE  Weighed'
<1>1. stage[r] = "running" /\ stage[r] # "called" /\ ran[r] = Len(plan[r])
  BY DEF Step
<1>2. /\ Shapes /\ HeldAlike /\ AtRank(r)
  BY AtActor
<1>3. CanMiniBatch(Len(held[0])) /\ TodoIs(Course, todo[r]) /\ IsCourse(Course)
  BY <1>1, AtWork
<1>4. todo[r] # << >>
  BY <1>1, <1>2 DEF AtRank, RankIs
<1>5. PICK n \in Nat \ {0}, l \in Nat \ {0} : \E mb, b : IsEpoch(n, l, mb, b)
  BY <1>3, EpochIs
<1>6. PICK mb, b : IsEpoch(n, l, mb, b)
  BY <1>5
<1>7. n = Len(held[0])
  BY <1>6 DEF IsEpoch
<1>8. PICK d, hd : d \in Nat /\ IsTurn(r, n, l, mb, d, hd)
  BY <1>1, <1>4, <1>6, TurnIs
<1>9. d = Done(Course, todo[r]) /\ hd = Head(todo[r]) /\ hd = mb[Rest(d, l) + 1]
  BY <1>8 DEF IsTurn
<1>10. Done(Course, Tail(todo[r])) = d + 1
  BY <1>3, <1>4, <1>9, TailIs
<1>11. todo' = [todo EXCEPT ![r] = Tail(@)] /\ stage' = [stage EXCEPT ![r] = "next"]
       /\ UNCHANGED <<conf, phase, batch, call, held, plan, ran, trained>>
  BY DEF Step, driver
<1>12. stage'[r] = "next" /\ todo'[r] = Tail(todo[r]) /\ trained'[r] = trained[r]
  BY <1>2, <1>11 DEF Shapes
<1>13. /\ IsPlan(n, plan[r], hd)
       /\ RowMean => \A i \in 1 .. n : trained[r][i] = (Times(n, d, i) + OneIf(i \in RowsIn(plan[r], Len(plan[r])))) * RowWeight(n)
  BY <1>1, <1>7, <1>9 DEF Weighed, WeightsRight, WeighedAt, WeightAt
<1>14. RowsIn(plan[r], Len(plan[r])) = Range(hd)
  BY <1>13 DEF IsPlan, IsCover
<1>15. ASSUME RowMean, NEW i \in 1 .. n PROVE trained[r][i] = Times(n, d + 1, i) * RowWeight(n)
  <2>1. Times(n, d + 1, i) = Times(n, d, i) + OneIf(i \in Range(hd))
    BY <1>6, <1>8, <1>9, TimesType
  <2> QED BY <1>13, <1>14, <1>15, <2>1
<1>16. WeighedNext(r)
  BY <1>7, <1>10, <1>12, <1>15 DEF WeighedNext, WeightAt
<1>17. KeepsOthers(r)
  BY <1>2, <1>11 DEF KeepsOthers, Shapes
<1> QED BY <1>16, <1>17, WeightsKept

----------------------------------------------------------------------------
(* The driver's steps *)

LEMMA SameLen ==
  ASSUME NEW b \in Seq(Rows), NEW f, DOMAIN f = DOMAIN b, f = [i \in DOMAIN f |-> f[i]]
  PROVE  Len(f) = Len(b)
<1>1. PICK n \in Nat : n = Len(b) /\ DOMAIN b = 1 .. n
  OBVIOUS
<1>2. f \in Seq({f[i] : i \in 1 .. n})
  BY <1>1
<1> QED BY <1>1, <1>2

LEMMA BalancedLen ==
  ASSUME Running, BalanceBatch
  PROVE  Len(batch') = Len(batch)
<1>1. PICK b \in Seq(Rows) : b = batch
  BY DEF Running, DriverAt
<1>2. batch' = batch \/ \E parts : batch' = Balanced(batch, parts)
  BY DEF BalanceBatch
<1>3. ASSUME NEW parts, batch' = Balanced(batch, parts) PROVE Len(batch') = Len(batch)
  <2>1. PICK idx : batch' = [i \in DOMAIN b |-> b[idx[i]]]
    BY <1>1, <1>3 DEF Balanced
  <2>2. DOMAIN batch' = DOMAIN b
    BY <2>1
  <2>3. batch' = [i \in DOMAIN batch' |-> batch'[i]]
    BY <2>1
  <2> QED BY <1>1, <2>2, <2>3, SameLen
<1> QED BY <1>2, <1>3

LEMMA AdvisedLen ==
  ASSUME Running, ComputeAdvantage, CanEstimate
  PROVE  Len(batch') = Len(batch)
<1>1. PICK b \in Seq(Rows), n \in Nat : b = batch /\ n = Len(b) /\ DOMAIN b = 1 .. n
  BY DEF Running, DriverAt
<1>2. PICK pick \in IF UseCritic(conf) /\ conf.pf_ppo THEN compute_pf_ppo_reweight_data(batch) ELSE {Places(Len(batch))} :
        batch' = Drawn(batch, pick)
  BY DEF ComputeAdvantage
<1>3. DOMAIN pick = 1 .. n
  <2>1. Places(Len(batch)) \in [1 .. n -> 1 .. n]
    BY <1>1 DEF Places
  <2>2. compute_pf_ppo_reweight_data(batch) = [1 .. n -> 1 .. n]
    BY <1>1 DEF compute_pf_ppo_reweight_data
  <2>3. pick \in [1 .. n -> 1 .. n]
    BY <1>2, <2>1, <2>2
  <2> QED BY <2>3
<1>4. batch' = [i \in 1 .. n |-> b[pick[i]]]
  BY <1>1, <1>2, <1>3 DEF Drawn
<1>5. DOMAIN batch' = DOMAIN b /\ batch' = [i \in DOMAIN batch' |-> batch'[i]]
  BY <1>1, <1>4
<1> QED BY <1>1, <1>5, SameLen

(* Outside a call and before the end, only the number of rows matters. *)
LEMMA DriverWeighs ==
  ASSUME phase' \notin {"calling", "done"}, RowsDivide'
  PROVE  Weighed'
BY DEF Weighed, HeldDivide, WeightsRight, RowsWeighAlike, ActorUpdate

LEMMA AdjustWeights ==
  ASSUME Running, AdjustBatch
  PROVE  Weighed'
<1>1. phase' \in {"adjusted", "failed"} /\ conf' = conf
  BY DEF AdjustBatch
<1>2. CASE PerGpuKnown(conf)
  <2>1. PICK b \in Seq(Rows), n \in Nat : b = batch /\ n = Len(b) /\ IsConf(conf) /\ DOMAIN b = 1 .. n
    BY DEF Running, DriverAt
  <2>2. PICK d \in Nat \ {0} : d = SizeDivisor(conf) /\ Rest(d, WorldSize * conf.micro.update_actor) = 0
    BY <2>1, SizeDivisorType
  <2>3. PICK p \in Nat : p = PadSize(n, d) /\ Rest(n + p, d) = 0
    <3>1. PadSize(n, d) \in 0 .. d - 1 /\ Rest(n + PadSize(n, d), d) = 0
      BY PadSizeRange
    <3> QED BY <3>1
  <2>4. PICK copies \in [1 .. p -> 1 .. n] : batch' = b \o [i \in DOMAIN copies |-> b[copies[i]]]
    BY <1>2, <2>1, <2>2, <2>3 DEF AdjustBatch
  <2>5. PICK more : more = [i \in 1 .. p |-> b[copies[i]]]
    OBVIOUS
  <2>6. batch' = b \o more
    BY <2>4, <2>5
  <2>7. more \in Seq(Rows) /\ Len(more) = p
    <3>1. \A i \in 1 .. p : b[copies[i]] \in Rows
      BY <2>1
    <3>2. more \in [1 .. p -> Rows]
      BY <2>5, <3>1
    <3> QED BY <3>2
  <2>8. Len(batch') = n + p
    <3>1. Len(b \o more) = Len(b) + Len(more)
      BY <2>7, Joined
    <3> QED BY <2>1, <2>6, <2>7, <3>1
  <2>9. PICK e \in Nat \ {0} : e = WorldSize * conf.micro.update_actor
    <3>1. PICK w \in Nat \ {0}, z \in Nat \ {0} : w = WorldSize /\ z = conf.micro.update_actor
      BY <2>1, ConfNumbers, StepAssumption
    <3>2. w * z \in Nat \ {0}
      OBVIOUS
    <3> QED BY <3>1, <3>2
  <2>10. Rest(n + p, e) = 0
    <3>1. n + p \in Nat
      OBVIOUS
    <3> QED BY <2>2, <2>3, <2>9, <3>1, DividesOn
  <2>11. RowsDivide'
    BY <1>1, <2>8, <2>9, <2>10 DEF RowsDivide
  <2> QED BY <1>1, <2>11, DriverWeighs
<1>3. CASE ~PerGpuKnown(conf)
  <2>1. phase' = "failed"
    BY <1>3 DEF AdjustBatch
  <2> QED BY <2>1, DriverWeighs DEF RowsDivide
<1> QED BY <1>2, <1>3

LEMMA BalanceWeights ==
  ASSUME Running, Weighed, BalanceBatch
  PROVE  Weighed'
<1>1. phase = "adjusted" /\ phase' \in {"ready", "failed"} /\ conf' = conf
  BY DEF BalanceBatch
<1>2. RowsDivide'
  BY <1>1, BalancedLen DEF Weighed, RowsDivide
<1> QED BY <1>1, <1>2, DriverWeighs

LEMMA AdvantageWeights ==
  ASSUME Running, Weighed, ComputeAdvantage
  PROVE  Weighed'
<1>1. phase = "ready" /\ phase' \in {"advised", "failed"} /\ conf' = conf /\ (~CanEstimate => phase' = "failed")
  BY DEF ComputeAdvantage
<1>2. RowsDivide'
  <2>1. CASE CanEstimate
    BY <1>1, <2>1, AdvisedLen DEF Weighed, RowsDivide
  <2>2. CASE ~CanEstimate
    BY <1>1, <2>2 DEF RowsDivide
  <2> QED BY <2>1, <2>2
<1> QED BY <1>1, <1>2, DriverWeighs

LEMMA CallWeights ==
  ASSUME Running, Weighed, Call
  PROVE  Weighed'
<1>1. /\ phase \in {"ready", "advised"} /\ phase' = "calling" /\ held' = [r \in Rank |-> RowsOf(r)]
      /\ stage' = [r \in Rank |-> "called"] /\ conf' = conf /\ batch' = batch
      /\ trained' = [r \in Rank |-> [i \in 1 .. Len(held'[r]) |-> 0]]
  BY DEF Call
<1>2. RowsDivide'
  BY <1>1 DEF Weighed, RowsDivide
<1>3. RowsWeighAlike'
  BY <1>1 DEF RowsWeighAlike
<1>4. Running' /\ HeldAlike'
  <2>1. Running'
    BY RunningCalls
  <2>2. call' > 0
    BY <1>1, <2>1 DEF Running, DriverAt
  <2> QED BY <2>1, <2>2 DEF Running, RanksAt
<1>5. WeightsRight'
  <2>1. ASSUME NEW r \in Rank PROVE WeighedAt(r)'
    <3>1. stage'[r] = "called" /\ trained'[r] = [i \in 1 .. Len(held'[r]) |-> 0]
      BY <1>1
    <3>2. Len(held'[r]) = Len(held'[0])
      BY <1>4 DEF HeldAlike
    <3> QED BY <3>1, <3>2 DEF WeighedAt, WeightAt
  <2> QED BY <2>1 DEF WeightsRight
<1>6. HeldDivide'
  <2>1. IsConf(conf) /\ DriverAt /\ phase \notin {"collected", "failed"}
    BY <1>1 DEF Running, DriverAt
  <2>2. PICK w \in Nat \ {0}, z \in Nat \ {0}, s \in Nat \ {0} : w = WorldSize /\ z = conf.micro.update_actor /\ s = conf.sp
    BY <2>1, ConfNumbers, StepAssumption
  <2>3. PICK b \in Seq(Rows), n \in Nat : b = batch /\ n = Len(b)
    BY <2>1 DEF DriverAt
  <2>4. PICK e \in Nat \ {0} : e = w * z
    <3>1. w * z \in Nat \ {0}
      OBVIOUS
    <3> QED BY <3>1
  <2>5. PICK q \in Nat : n = e * q
    <3>1. Rest(n, e) = 0
      BY <1>1, <2>2, <2>3, <2>4 DEF Weighed, RowsDivide
    <3>2. Quot(n, e) \in Nat /\ n = e * Quot(n, e)
      BY <3>1, DividedWhole
    <3> QED BY <3>2
  <2>6. PICK m \in Nat : m = z * q /\ n = w * m
    <3>1. (w * z) * q = w * (z * q) /\ z * q \in Nat
      OBVIOUS
    <3> QED BY <2>4, <2>5, <3>1
  <2>7. Len(RowsOf(0)) = s * m
    <3>1. Len(b) = WorldSize * m /\ 0 \in Rank
      BY <2>2, <2>3, <2>6, SomeRank
    <3>2. Len(RowsOf(0)) = conf.sp * m
      BY <2>1, <2>3, <3>1, RowsOfRank
    <3> QED BY <2>2, <3>2
  <2>8. PICK x \in Nat : x = s * q /\ s * m = z * x
    <3>1. s * (z * q) = z * (s * q) /\ s * q \in Nat
      OBVIOUS
    <3> QED BY <2>6, <3>1
  <2>9. Rest(s * m, z) = 0
    <3>1. s * m \in Nat
      OBVIOUS
    <3> QED BY <2>8, <3>1, IsQuotient
  <2>10. Len(held'[0]) = s * m
    BY <1>1, <2>7, SomeRank
  <2> QED BY <1>1, <2>2, <2>9, <2>10 DEF HeldDivide
<1> QED BY <1>2, <1>3, <1>5, <1>6 DEF Weighed

(* Once all have returned, every row has been run once per epoch. *)
LEMMA ReturnedWeights ==
  ASSUME Running, Weighed, ActorUpdate, RowMean, Return, NEW r \in Rank
  PROVE  /\ DOMAIN trained[r] = 1 .. Len(held[0])
         /\ \A i \in 1 .. Len(held[0]) : trained[r][i] = Epochs * RowWeight(Len(held[0]))
         /\ ~conf.multi_modal => RowWeight(Len(held[0])) = Unit
<1>1. stage[r] = "returned" /\ stage[r] # "called"
  BY DEF Return
<1>2. /\ Shapes /\ HeldAlike /\ IsConf(conf) /\ Startable(conf) /\ PerGpuKnown(conf) /\ conf.backend = "fsdp"
      /\ Calls[call] = "update_actor" /\ Calls[call] \in Updates /\ AtRank(r)
  BY AtActor
<1>3. CanMiniBatch(Len(held[0])) /\ TodoIs(Course, todo[r]) /\ IsCourse(Course) /\ Course.works = Work(Calls[call], Len(held[0]))
  BY <1>1, AtWork
<1>4. PICK n \in Nat \ {0}, l \in Nat \ {0} : \E mb, b : IsEpoch(n, l, mb, b)
  BY <1>3, EpochIs
<1>5. PICK mb, b : IsEpoch(n, l, mb, b)
  BY <1>4
<1>6. n = Len(held[0]) /\ mb = MiniBatches(n) /\ Len(mb) = l /\ mb \in Seq(Seq(1 .. n)) /\ b = MiniEnds(n) /\ b[0] = 0
  BY <1>5 DEF IsEpoch
<1>7. PICK e \in Nat : e = Epochs
  BY StepAssumption
<1>8. Done(Course, todo[r]) = l * e
  <2>1. todo[r] = << >>
    BY <1>1, <1>2 DEF AtRank, RankIs
  <2>2. Done(Course, todo[r]) = Len(Course.works)
    BY <1>3, <2>1, DoneType
  <2>3. PICK w : w = Work(Calls[call], n)
    OBVIOUS
  <2>4. Len(w) = l * Epochs
    BY <1>2, <1>6, <2>3, WorksTurn
  <2> QED BY <1>3, <1>6, <1>7, <2>2, <2>3, <2>4
<1>9. ASSUME NEW i \in 1 .. n PROVE trained[r][i] = e * RowWeight(n)
  <2>1. trained[r][i] = Times(n, l * e, i) * RowWeight(n)
    BY <1>1, <1>6, <1>8 DEF Weighed, WeightsRight, WeighedAt, WeightAt
  <2>2. TimesOf(l, b, l * e, i) = e
    <3>1. i \in Nat \ {0}
      OBVIOUS
    <3> QED BY <1>6, <3>1, TimesWhole
  <2>3. Times(n, l * e, i) = e
    BY <1>6, <2>2 DEF Times
  <2> QED BY <2>1, <2>3
<1>10. DOMAIN trained[r] = 1 .. n
  <2>1. DOMAIN trained[r] = DOMAIN held[r] /\ held[r] \in Seq(Rows) /\ Len(held[r]) = n
    BY <1>2, <1>6 DEF Shapes, HeldAlike
  <2> QED BY <2>1
<1>11. ~conf.multi_modal => RowWeight(n) = Unit
  BY <1>2, <1>3, <1>6, RowWeightType
<1> QED BY <1>6, <1>7, <1>9, <1>10, <1>11

LEMMA ReturnWeights ==
  ASSUME Running, Weighed, Return
  PROVE  Weighed'
<1>1. /\ phase = "calling" /\ phase' \in {"done", "advised", "ready"} /\ conf' = conf /\ batch' = batch /\ trained' = trained
      /\ (phase' = "done" => Calls[call] = "update_actor")
  BY DEF Return, ranks
<1>2. RowsDivide'
  BY <1>1 DEF Weighed, RowsDivide
<1>3. RowsWeighAlike'
  <2>1. SUFFICES ASSUME phase' = "done", conf.backend = "fsdp", conf.loss_agg_mode \in RowMeans
                 PROVE  /\ \A q, r \in Rank : \A i \in DOMAIN trained[q], j \in DOMAIN trained[r] : trained[q][i] = trained[r][j]
                        /\ ~conf.multi_modal => \A r \in Rank : \A i \in DOMAIN trained[r] : trained[r][i] = Epochs * Unit
    BY <1>1 DEF RowsWeighAlike
  <2>2. ActorUpdate /\ RowMean
    BY <1>1, <2>1 DEF ActorUpdate, RowMean
  <2>3. PICK w : w = RowWeight(Len(held[0]))
    OBVIOUS
  <2>4. \A r \in Rank : \A i \in DOMAIN trained[r] : trained[r][i] = Epochs * w /\ (~conf.multi_modal => w = Unit)
    BY <2>2, <2>3, ReturnedWeights
  <2> QED BY <2>4
<1>4. HeldDivide' /\ WeightsRight'
  BY <1>1 DEF HeldDivide, WeightsRight, ActorUpdate
<1> QED BY <1>2, <1>3, <1>4 DEF Weighed

LEMMA StutterWeights ==
  ASSUME Weighed, UNCHANGED vars
  PROVE  Weighed'
<1>1. /\ conf' = conf /\ phase' = phase /\ batch' = batch /\ call' = call /\ held' = held
      /\ stage' = stage /\ todo' = todo /\ plan' = plan /\ ran' = ran /\ trained' = trained
  BY DEF vars, driver, ranks
<1>2. ASSUME NEW r \in Rank, WeighedAt(r) PROVE WeighedAt(r)'
  <2>1. WeighedNext(r)
    BY <1>1, <1>2 DEF WeighedNext, WeighedAt
  <2> QED BY <1>1, <2>1, WeightsStay
<1>3. ActorUpdate' <=> ActorUpdate
  BY <1>1 DEF ActorUpdate, Calls
<1>4. WeightsRight'
  BY <1>2, <1>3 DEF Weighed, WeightsRight
<1>5. HeldDivide' /\ RowsDivide'
  BY <1>1, <1>3 DEF Weighed, HeldDivide, RowsDivide
<1>6. RowsWeighAlike'
  BY <1>1 DEF Weighed, RowsWeighAlike
<1> QED BY <1>4, <1>5, <1>6 DEF Weighed

LEMMA RankWeights ==
  ASSUME Running, Weighed, NEW r \in Rank, RankStep(r)
  PROVE  Weighed'
<1>1. phase = "calling"
  BY DEF RankStep, Begin, Ask, Rearrange, Cut, Forward, Step, Finish
<1>2. CASE Raise(r)
  <2>1. phase' = "failed"
    BY <1>2 DEF Raise
  <2> QED BY <2>1, DriverWeighs DEF RowsDivide
<1>3. CASE ~Raise(r) /\ ActorUpdate
  BY <1>3, BeginWeights, AskWeights, RearrangeWeights, CutWeights, ForwardWeights, StepWeights, FinishWeights DEF RankStep
<1>4. CASE ~Raise(r) /\ ~ActorUpdate
  <2>1. UNCHANGED driver
    BY <1>4 DEF RankStep, Begin, Ask, Rearrange, Cut, Forward, Step, Finish
  <2>2. conf' = conf /\ phase' = phase /\ batch' = batch /\ call' = call
    BY <2>1 DEF driver
  <2>3. ~ActorUpdate' /\ phase' # "done"
    BY <1>1, <1>4, <2>2 DEF ActorUpdate, Calls
  <2>4. RowsDivide'
    BY <2>2 DEF Weighed, RowsDivide
  <2> QED BY <2>3, <2>4 DEF Weighed, HeldDivide, WeightsRight, RowsWeighAlike
<1> QED BY <1>2, <1>3, <1>4

LEMMA WeighedSteps ==
  ASSUME Running, Weighed, [Next]_vars
  PROVE  Weighed'
<1>1. ASSUME NEW r \in Rank, RankStep(r) PROVE Weighed'
  BY <1>1, RankWeights
<1>2. CASE UNCHANGED vars
  BY <1>2, StutterWeights
<1>3. CASE Over
  <2>1. UNCHANGED vars
    BY <1>3 DEF Over
  <2> QED BY <2>1, StutterWeights
<1>4. CASE DriverStep
  BY <1>4, AdjustWeights, BalanceWeights, CallWeights, ReturnWeights, AdvantageWeights DEF DriverStep
<1> QED BY <1>1, <1>2, <1>3, <1>4 DEF Next

LEMMA StartsWeighed ==
  ASSUME Init
  PROVE  Weighed
<1>1. phase = "collected"
  BY DEF Init
<1> QED BY <1>1 DEF Weighed, RowsDivide, HeldDivide, WeightsRight, RowsWeighAlike, ActorUpdate

LEMMA WeightsInStep == Spec => [](Running /\ Weighed)
<1>1. Init => Running /\ Weighed
  BY StartsRunning, StartsWeighed
<1>2. Running /\ Weighed /\ [Next]_vars => Running' /\ Weighed'
  BY RunningInductive, WeighedSteps
<1> QED BY <1>1, <1>2, PTL DEF Spec

(* In an update of the actor by FSDP workers whose loss is a mean over rows  *)
(* every row has the same weight, whichever rank has it, however             *)
(* mini-batches and micro-batches are cut and however many rows there are:   *)
(* over the step, a text row weighs its share of a full mini-batch once per  *)
(* epoch.                                                                    *)
THEOREM StepWeighs == Spec => []RowsWeighAlike
<1>1. Running /\ Weighed => RowsWeighAlike
  BY DEF Weighed
<1> QED BY <1>1, WeightsInStep, PTL

(* However the loss of its tokens is made, the mean over tokens included,    *)
(* every micro-batch of text rows in an update of the actor by FSDP workers  *)
(* has the share of its rows of a full mini-batch: sizes that are divided by *)
(* the number of micro-batches are so only because every micro-batch is      *)
(* full, whatever number of rows the rollout collected.                      *)
THEOREM StepShares == Spec => []MicroBatchesWeigh
<1>1. Running /\ Weighed => MicroBatchesWeigh
  <2>1. SUFFICES ASSUME Running, Weighed, ActorUpdate, ~conf.multi_modal, NEW r \in Rank, stage[r] = "running",
                        NEW k \in 1 .. Len(plan[r])
                 PROVE  FsdpWeight(plan[r][k]) = Unit * Len(plan[r][k])
    BY DEF MicroBatchesWeigh, ActorUpdate
  <2>2. IsPlan(Len(held[0]), plan[r], Head(todo[r]))
    BY <2>1 DEF Weighed, WeightsRight, WeighedAt, WeightAt
  <2> QED BY <2>1, <2>2, PartShare
<1> QED BY <1>1, WeightsInStep, PTL
=============================================================================
