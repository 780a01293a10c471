----------------------- MODULE SeqlenBalancing_proofs -----------------------
(***************************************************************************)
(* What the differencing of SeqlenBalancing finds, for every list of       *)
(* lengths and every number of parts: every row in one part, no part       *)
(* empty, parts of one length where that is asked for, and how far their   *)
(* tokens differ.  The folds of the community modules are shown to be sums *)
(* first; sorting is choosing the row that k - 1 others come before.       *)
(***************************************************************************)
EXTENDS SeqlenBalancing, Dispatch, FiniteSetTheorems, WellFoundedInduction, TLAPS

----------------------------------------------------------------------------
(* Lemmas on numbers *)

(* A set of numbers that is not empty has a least one: a fact about all     *)
(* numbers is shown by taking the least for which it fails.                 *)
LEMMA LeastNatural ==
  ASSUME NEW T, T \subseteq Nat, T # {}
  PROVE  \E x \in T : \A y \in T : x <= y
<1> DEFINE Less == OpToRel(<, Nat)
<1>1. PICK x \in T : \A y \in T : ~(<<y, x>> \in Less)
  <2>1. IsWellFoundedOn(Less, Nat)
    BY NatLessThanWellFounded DEF Less
  <2> QED BY <2>1, WFMin
<1>2. \A y \in T : ~(y < x)
  BY <1>1 DEF OpToRel
<1> QED BY <1>2

(* Quotient and remainder, as names that facts can be instantiated with. *)
Quot(a, d) == a \div d
Rest(a, d) == a % d
IsDivision(a, d, q, r) == q \in Nat /\ r \in 0 .. d - 1 /\ a = d * q + r

(* A number has one quotient and one remainder. *)
LEMMA Division ==
  ASSUME NEW a \in Nat, NEW d \in Nat \ {0}
  PROVE  Quot(a, d) \in Nat /\ Rest(a, d) \in 0 .. d - 1 /\ a = d * Quot(a, d) + Rest(a, d)
<1>1. a % d = a - d * (a \div d)
  OBVIOUS
<1>2. (a \div d) \in Nat /\ a % d \in 0 .. d - 1
  OBVIOUS
<1>3. PICK q \in Nat, r \in 0 .. d - 1 : q = a \div d /\ r = a % d
  BY <1>2
<1>4. r = a - d * q
  BY <1>1, <1>3
<1>5. PICK x \in Nat : x = d * q
  BY <1>3
<1>6. a = d * q + r
  BY <1>4, <1>5
<1>7. q = Quot(a, d) /\ r = Rest(a, d)
  BY <1>3 DEF Quot, Rest
<1> QED BY <1>6, <1>7

(* The multiples of a number are at least it apart. *)
LEMMA Ordered ==
  ASSUME NEW d \in Nat \ {0}, NEW p \in Int, NEW q \in Int, p < q
  PROVE  d * p + d <= d * q
<1>1. d * (q - p - 1) >= 0
  OBVIOUS
<1>2. d * (q - p - 1) = d * q - d * p - d
  OBVIOUS
<1> QED BY <1>1, <1>2

(* The quotient and the remainder are the only such numbers. *)
LEMMA Quotient ==
  ASSUME NEW d \in Nat \ {0}, NEW q, NEW r, NEW a, IsDivision(a, d, q, r)
  PROVE  Quot(a, d) = q /\ Rest(a, d) = r
<1>0. q \in Nat /\ r \in 0 .. d - 1 /\ a = d * q + r
  BY DEF IsDivision
<1>1. a \in Nat
  BY <1>0
<1>2. PICK k \in Nat, m \in 0 .. d - 1 : k = Quot(a, d) /\ m = Rest(a, d) /\ a = d * k + m
  BY <1>1, Division
<1>3. k = q
  <2>1. ~(k < q)
    <3>1. SUFFICES ASSUME k < q PROVE FALSE
      OBVIOUS
    <3>2. d * k + d <= d * q
      BY <1>0, <3>1, Ordered
    <3>3. PICK x \in Int, y \in Int : x = d * k /\ y = d * q
      BY <1>0, <1>2
    <3> QED BY <1>0, <1>1, <1>2, <3>2, <3>3
  <2>2. ~(q < k)
    <3>1. SUFFICES ASSUME q < k PROVE FALSE
      OBVIOUS
    <3>2. d * q + d <= d * k
      BY <1>0, <3>1, Ordered
    <3>3. PICK x \in Int, y \in Int : x = d * k /\ y = d * q
      BY <1>0, <1>2
    <3> QED BY <1>0, <1>1, <1>2, <3>2, <3>3
  <2> QED BY <1>0, <2>1, <2>2
<1>4. m = r
  <2>1. PICK x \in Int : x = d * q
    BY <1>0
  <2>2. a = x + m
    BY <1>2, <1>3, <2>1
  <2>3. a = x + r
    BY <1>0, <2>1
  <2> QED BY <1>0, <2>2, <2>3
<1> QED BY <1>2, <1>3, <1>4

(* Division by a product, one factor after the other. *)

(* What a section of a sequence is. *)
LEMMA Section ==
  ASSUME NEW U, NEW s \in Seq(U), NEW x \in Nat, NEW y \in Nat, x <= y, y <= Len(s)
  PROVE  /\ SubSeq(s, x + 1, y) \in Seq(U) /\ Len(SubSeq(s, x + 1, y)) = y - x
         /\ \A i \in 1 .. y - x : SubSeq(s, x + 1, y)[i] = s[x + i]
OBVIOUS

(* What two sequences are together. *)
LEMMA Joined ==
  ASSUME NEW U, NEW s \in Seq(U), NEW t \in Seq(U)
  PROVE  /\ s \o t \in Seq(U) /\ Len(s \o t) = Len(s) + Len(t)
         /\ \A i \in 1 .. Len(s) : (s \o t)[i] = s[i]
         /\ \A i \in Len(s) + 1 .. Len(s) + Len(t) : (s \o t)[i] = t[i - Len(s)]
OBVIOUS

(* Sequences with the same elements are the same. *)
LEMMA SameSequence ==
  ASSUME NEW U, NEW s \in Seq(U), NEW t \in Seq(U), Len(s) = Len(t),
         \A i \in 1 .. Len(s) : s[i] = t[i]
  PROVE  s = t
OBVIOUS

(* A section with a name. *)
LEMMA SectionNamed ==
  ASSUME NEW U, NEW s \in Seq(U), NEW x \in Nat, NEW y \in Nat, x <= y, y <= Len(s),
         NEW u, u = SubSeq(s, x + 1, y)
  PROVE  u \in Seq(U) /\ Len(u) = y - x /\ \A i \in 1 .. y - x : u[i] = s[x + i]
<1>1. /\ SubSeq(s, x + 1, y) \in Seq(U) /\ Len(SubSeq(s, x + 1, y)) = y - x
      /\ \A i \in 1 .. y - x : SubSeq(s, x + 1, y)[i] = s[x + i]
  BY Section
<1> QED BY <1>1, ZenonT(30)

(* Two sections that follow each other are one section. *)
LEMMA SectionsJoined ==
  ASSUME NEW U, NEW s \in Seq(U), NEW x \in Nat, NEW y \in Nat, NEW z \in Nat, x <= y, y <= z, z <= Len(s)
  PROVE  SubSeq(s, x + 1, y) \o SubSeq(s, y + 1, z) = SubSeq(s, x + 1, z)
<1>1. PICK u, v, w, t : u = SubSeq(s, x + 1, y) /\ v = SubSeq(s, y + 1, z) /\ w = SubSeq(s, x + 1, z) /\ t = u \o v
  OBVIOUS
<1>2. u \in Seq(U) /\ Len(u) = y - x /\ \A i \in 1 .. y - x : u[i] = s[x + i]
  <2>1. u = SubSeq(s, x + 1, y) /\ y <= Len(s)
    BY <1>1
  <2> QED BY <2>1, SectionNamed
<1>3. v \in Seq(U) /\ Len(v) = z - y /\ \A i \in 1 .. z - y : v[i] = s[y + i]
  BY <1>1, SectionNamed
<1>4. w \in Seq(U) /\ Len(w) = z - x /\ \A i \in 1 .. z - x : w[i] = s[x + i]
  <2>1. x <= z
    OBVIOUS
  <2> QED BY <1>1, <2>1, SectionNamed, SMTT(30)
<1>5. /\ t \in Seq(U) /\ Len(t) = Len(u) + Len(v)
      /\ \A i \in 1 .. Len(u) : t[i] = u[i]
      /\ \A i \in Len(u) + 1 .. Len(u) + Len(v) : t[i] = v[i - Len(u)]
  <2>1. /\ u \o v \in Seq(U) /\ Len(u \o v) = Len(u) + Len(v)
        /\ \A i \in 1 .. Len(u) : (u \o v)[i] = u[i]
        /\ \A i \in Len(u) + 1 .. Len(u) + Len(v) : (u \o v)[i] = v[i - Len(u)]
    BY <1>2, <1>3, Joined
  <2> QED BY <1>1, <2>1
<1>6. Len(t) = z - x
  BY <1>2, <1>3, <1>5
<1>7. ASSUME NEW i \in 1 .. z - x PROVE t[i] = w[i]
  <2>1. CASE i <= y - x
    BY <2>1, <1>2, <1>4, <1>5
  <2>2. CASE i > y - x
    <3>1. i \in Len(u) + 1 .. Len(u) + Len(v) /\ i - Len(u) \in 1 .. z - y /\ y + (i - Len(u)) = x + i
      BY <2>2, <1>2, <1>3, SMTT(30)
    <3>2. t[i] = v[i - Len(u)]
      BY <3>1, <1>5
    <3>3. v[i - Len(u)] = s[y + (i - Len(u))]
      BY <3>1, <1>3
    <3> QED BY <3>1, <3>2, <3>3, <1>4
  <2> QED BY <2>1, <2>2
<1>8. t = w
  BY <1>4, <1>5, <1>6, <1>7, SameSequence
<1> QED BY <1>1, <1>8

(* A section of a section is one of the sequence. *)
LEMMA SectionOfSection ==
  ASSUME NEW U, NEW s \in Seq(U), NEW x \in Nat, NEW y \in Nat, x <= y, y <= Len(s),
         NEW p \in Nat, NEW q \in Nat, p <= q, q <= y - x
  PROVE  SubSeq(SubSeq(s, x + 1, y), p + 1, q) = SubSeq(s, (x + p) + 1, x + q)
<1>1. PICK u, v, w : u = SubSeq(s, x + 1, y) /\ v = SubSeq(u, p + 1, q) /\ w = SubSeq(s, (x + p) + 1, x + q)
  OBVIOUS
<1>2. u \in Seq(U) /\ Len(u) = y - x /\ \A i \in 1 .. y - x : u[i] = s[x + i]
  BY <1>1, SectionNamed
<1>3. v \in Seq(U) /\ Len(v) = q - p /\ \A i \in 1 .. q - p : v[i] = u[p + i]
  <2>1. p <= q /\ q <= Len(u) /\ u \in Seq(U)
    BY <1>2
  <2> QED BY <1>1, <2>1, SectionNamed
<1>4. w \in Seq(U) /\ Len(w) = q - p /\ \A i \in 1 .. q - p : w[i] = s[(x + p) + i]
  <2>1. PICK j \in Nat, k \in Nat : j = x + p /\ k = x + q /\ j <= k /\ k <= Len(s) /\ k - j = q - p
    OBVIOUS
  <2>2. w \in Seq(U) /\ Len(w) = k - j /\ \A i \in 1 .. k - j : w[i] = s[j + i]
    BY <1>1, <2>1, SectionNamed
  <2> QED BY <2>1, <2>2
<1>5. ASSUME NEW i \in 1 .. q - p PROVE v[i] = w[i]
  <2>1. p + i \in 1 .. y - x /\ x + (p + i) = (x + p) + i
    OBVIOUS
  <2>2. v[i] = u[p + i]
    BY <1>3
  <2>3. u[p + i] = s[x + (p + i)]
    BY <2>1, <1>2
  <2> QED BY <2>1, <2>2, <2>3, <1>4
<1>6. v = w
  BY <1>3, <1>4, <1>5, SameSequence
<1> QED BY <1>1, <1>6

(* f[i] is what the first i parts are together. *)
Together(f, n, parts) == f[1] = parts[1] /\ \A i \in 2 .. n : f[i] = f[i - 1] \o parts[i]

(* Putting parts together takes one after the other. *)
LEMMA ConcatByStep ==
  ASSUME NEW U, NEW n \in Nat \ {0}, NEW parts \in [1 .. n -> Seq(U)]
  PROVE  \E f \in [1 .. n -> Seq(U)] : Together(f, n, parts) /\ Concat(parts) = f[n]
<1> DEFINE Good(f, m) == f = [i \in 1 .. m |-> IF i = 1 THEN parts[i] ELSE f[i - 1] \o parts[i]]
           Bad == {m \in Nat : ~ \E f : Good(f, m)}
<1>1. Bad = {}
  <2>1. SUFFICES ASSUME Bad # {} PROVE FALSE
    OBVIOUS
  <2>2. PICK m \in Bad : \A k \in Bad : m <= k
    <3>1. Bad \subseteq Nat
      OBVIOUS
    <3> HIDE DEF Bad
    <3> QED BY <2>1, <3>1, LeastNatural
  <2>3. m # 0
    <3>1. Good([i \in 1 .. 0 |-> parts[i]], 0)
      OBVIOUS
    <3> HIDE DEF Good
    <3> QED BY <3>1
  <2>4. m \in Nat /\ m - 1 \in Nat /\ m - 1 \notin Bad
    <3>1. m \in Nat
      BY <2>2
    <3>2. m - 1 \in Nat
      BY <2>3, <3>1
    <3>3. m - 1 \notin Bad
      <4> HIDE DEF Bad
      <4> QED BY <2>2, <3>1
    <3> HIDE DEF Bad
    <3> QED BY <3>1, <3>2, <3>3
  <2>5. PICK f : Good(f, m - 1)
    BY <2>4
  <2>6. Good([i \in 1 .. m |-> IF i = 1 THEN parts[i] ELSE f[i - 1] \o parts[i]], m)
    <3> DEFINE g == [i \in 1 .. m |-> IF i = 1 THEN parts[i] ELSE f[i - 1] \o parts[i]]
    <3>1. \A i \in 1 .. m : i # 1 => i - 1 \in 1 .. m - 1 /\ i - 1 \in 1 .. m
      BY <2>4
    <3>2. \A i \in 1 .. m - 1 : f[i] = IF i = 1 THEN parts[i] ELSE f[i - 1] \o parts[i]
      BY <2>5
    <3>3. \A i \in 1 .. m - 1 : g[i] = f[i]
      <4>1. \A i \in 1 .. m - 1 : i \in 1 .. m
        BY <2>4
      <4> QED BY <3>2, <4>1
    <3>4. \A i \in 1 .. m : i # 1 => g[i - 1] = f[i - 1]
      BY <3>1, <3>3
    <3> QED BY <3>4
  <2> HIDE DEF Good
  <2> QED BY <2>2, <2>6
<1>2. \E f : Good(f, n)
  BY <1>1
<1>3. Len(parts) = n /\ n # 0
  OBVIOUS
<1>4. Concat(parts) = (CHOOSE f : Good(f, n))[n]
  BY <1>3 DEF Concat, FlattenSeq
<1>5. PICK f : Good(f, n) /\ Concat(parts) = f[n]
  <2> HIDE DEF Good
  <2> QED BY <1>2, <1>4
<1>6. f[1] = parts[1] /\ \A i \in 2 .. n : f[i] = f[i - 1] \o parts[i]
  <2>1. \A i \in 1 .. n : f[i] = IF i = 1 THEN parts[i] ELSE f[i - 1] \o parts[i]
    BY <1>5
  <2>2. 1 \in 1 .. n /\ \A i \in 2 .. n : i \in 1 .. n /\ i # 1
    OBVIOUS
  <2>3. f[1] = parts[1]
    BY <2>1, <2>2
  <2>4. ASSUME NEW i \in 2 .. n PROVE f[i] = f[i - 1] \o parts[i]
    BY <2>1, <2>2
  <2> QED BY <2>3, <2>4
<1>7. \A i \in 1 .. n : f[i] \in Seq(U)
  <2> DEFINE Wrong == {i \in 1 .. n : f[i] \notin Seq(U)}
  <2>1. SUFFICES ASSUME Wrong # {} PROVE FALSE
    OBVIOUS
  <2>2. PICK i \in Wrong : \A k \in Wrong : i <= k
    <3>1. Wrong \subseteq Nat
      OBVIOUS
    <3> HIDE DEF Wrong
    <3> QED BY <2>1, <3>1, LeastNatural
  <2>3. i \in 1 .. n /\ i # 1
    BY <1>6, <2>2
  <2>4. i - 1 \in 1 .. n /\ i - 1 \notin Wrong
    <3>1. ~(i <= i - 1)
      BY <2>3
    <3> HIDE DEF Wrong
    <3> QED BY <2>2, <2>3, <3>1
  <2>5. f[i - 1] \in Seq(U) /\ parts[i] \in Seq(U)
    BY <2>3, <2>4
  <2>6. f[i - 1] \o parts[i] \in Seq(U)
    BY <2>5, Joined
  <2>7. i \in 2 .. n
    BY <2>3
  <2>8. f[i] = f[i - 1] \o parts[i]
    BY <1>6, <2>7
  <2> QED BY <2>2, <2>6, <2>8
<1>8. f \in [1 .. n -> Seq(U)]
  BY <1>5, <1>7
<1>9. Together(f, n, parts)
  BY <1>6 DEF Together
<1> QED BY <1>5, <1>8, <1>9

(* The parts follow each other in the sequence, the i-th up to b[i]. *)
Consecutive(s, n, b, parts) ==
  /\ \A i \in 0 .. n : b[i] \in Nat /\ b[0] <= b[i] /\ b[i] <= Len(s)
  /\ \A i \in 1 .. n : b[i - 1] <= b[i] /\ parts[i] = SubSeq(s, b[i - 1] + 1, b[i])

(* Such parts, put together, are a section of the sequence. *)
LEMMA CutAndPut ==
  ASSUME NEW U, NEW s \in Seq(U), NEW n \in Nat \ {0}, NEW b, NEW parts \in [1 .. n -> Seq(U)],
         Consecutive(s, n, b, parts)
  PROVE  Concat(parts) = SubSeq(s, b[0] + 1, b[n])
<1>1. ASSUME NEW i \in 1 .. n
      PROVE  /\ b[i - 1] \in Nat /\ b[0] <= b[i - 1] /\ b[i] \in Nat /\ b[i] <= Len(s) /\ b[i - 1] <= b[i]
             /\ parts[i] = SubSeq(s, b[i - 1] + 1, b[i])
  <2>1. i - 1 \in 0 .. n /\ i \in 0 .. n
    OBVIOUS
  <2> QED BY <2>1 DEF Consecutive
<1>2. PICK x \in Nat : x = b[0]
  <2>1. 0 \in 0 .. n
    OBVIOUS
  <2> QED BY <2>1 DEF Consecutive
<1>3. PICK f \in [1 .. n -> Seq(U)] : Together(f, n, parts) /\ Concat(parts) = f[n]
  BY ConcatByStep
<1> DEFINE Wrong == {i \in 1 .. n : f[i] # SubSeq(s, x + 1, b[i])}
<1>4. SUFFICES ASSUME Wrong # {} PROVE FALSE
  <2>1. n \in 1 .. n
    OBVIOUS
  <2>2. Wrong = {} => f[n] = SubSeq(s, x + 1, b[n])
    BY <2>1
  <2> HIDE DEF Wrong
  <2> QED BY <1>2, <1>3, <2>2
<1>5. PICK i \in Wrong : \A k \in Wrong : i <= k
  <2>1. Wrong \subseteq Nat
    OBVIOUS
  <2> HIDE DEF Wrong
  <2> QED BY <1>4, <2>1, LeastNatural
<1>6. i \in 1 .. n /\ f[i] # SubSeq(s, x + 1, b[i])
  BY <1>5
<1>7. i # 1
  <2>1. SUFFICES ASSUME i = 1 PROVE FALSE
    OBVIOUS
  <2>2. 1 \in 1 .. n /\ 1 - 1 = 0
    OBVIOUS
  <2>3. parts[1] = SubSeq(s, b[0] + 1, b[1])
    BY <1>1, <2>2
  <2> QED BY <1>2, <1>3, <1>6, <2>1, <2>3 DEF Together
<1>8. i - 1 \in 1 .. n /\ f[i - 1] = SubSeq(s, x + 1, b[i - 1])
  <2>1. i - 1 \in 1 .. n /\ ~(i <= i - 1)
    BY <1>6, <1>7
  <2>2. i - 1 \notin Wrong
    <3> HIDE DEF Wrong
    <3> QED BY <1>5, <2>1
  <2> QED BY <2>1, <2>2, SMTT(30)
<1> HIDE DEF Wrong
<1>9. f[i] = SubSeq(s, x + 1, b[i - 1]) \o SubSeq(s, b[i - 1] + 1, b[i])
  <2>1. i \in 2 .. n
    BY <1>6, <1>7
  <2>2. f[i] = f[i - 1] \o parts[i]
    BY <1>3, <2>1 DEF Together
  <2> QED BY <1>1, <1>6, <1>8, <2>2
<1>10. PICK y \in Nat, z \in Nat : y = b[i - 1] /\ z = b[i] /\ x <= y /\ y <= z /\ z <= Len(s)
  BY <1>1, <1>2, <1>6
<1>11. SubSeq(s, x + 1, y) \o SubSeq(s, y + 1, z) = SubSeq(s, x + 1, z)
  <2>1. x <= y /\ y <= z /\ z <= Len(s)
    BY <1>10
  <2> HIDE <1>10
  <2> QED BY <2>1, SectionsJoined, SMTT(30)
<1> QED BY <1>6, <1>9, <1>10, <1>11

(* Division that rounds up. *)
LEMMA RoundedUp ==
  ASSUME NEW n \in Nat, NEW k \in Nat \ {0}
  PROVE  /\ ChunkSize(n, k) \in Nat /\ n <= k * ChunkSize(n, k)
         /\ k * ChunkSize(n, k) < n + k
<1>1. PICK m \in Nat : m = n + k - 1
  OBVIOUS
<1>2. PICK q \in Nat, r \in 0 .. k - 1 : q = Quot(m, k) /\ m = k * q + r
  BY Division, ZenonT(40)
<1>3. ChunkSize(n, k) = q
  BY <1>1, <1>2 DEF ChunkSize, Quot
<1>4. PICK x \in Int : x = k * q
  OBVIOUS
<1>5. n <= x /\ x < n + k
  BY <1>1, <1>2, <1>4
<1> QED BY <1>3, <1>4, <1>5

(* The chunks but the last fit into n rows. *)
Cuts(n, k) == (k - 1) * ChunkSize(n, k) <= n

(* Rows that divide give chunks of one size. *)
LEMMA WholeChunks ==
  ASSUME NEW n \in Nat, NEW k \in Nat \ {0}, Rest(n, k) = 0
  PROVE  n = k * ChunkSize(n, k) /\ Cuts(n, k)
<1>1. PICK q \in Nat : n = k * q
  <2>0. Quot(n, k) \in Nat /\ n = k * Quot(n, k) + Rest(n, k)
    BY Division
  <2>1. PICK q \in Nat : n = k * q + 0
    BY <2>0
  <2>2. PICK x \in Int : x = k * q
    OBVIOUS
  <2> QED BY <2>1, <2>2
<1>2. PICK c \in Nat : c = ChunkSize(n, k) /\ n <= k * c /\ k * c < n + k
  BY RoundedUp
<1>3. c = q
  <2>1. ~(c < q)
    <3>1. SUFFICES ASSUME c < q PROVE FALSE
      OBVIOUS
    <3>2. k * c + k <= k * q
      BY <3>1, Ordered
    <3>3. PICK x \in Nat : x = k * c
      OBVIOUS
    <3> QED BY <1>1, <1>2, <3>2, <3>3
  <2>2. ~(q < c)
    <3>1. SUFFICES ASSUME q < c PROVE FALSE
      OBVIOUS
    <3>2. k * q + k <= k * c
      BY <3>1, Ordered
    <3>3. PICK x \in Nat : x = k * c
      OBVIOUS
    <3> QED BY <1>1, <1>2, <3>2, <3>3
  <2> QED BY <2>1, <2>2
<1>4. (k - 1) * q <= k * q
  OBVIOUS
<1> QED BY <1>1, <1>2, <1>3, <1>4 DEF Cuts

(* Where the i-th of k chunks of n rows ends. *)
Bound(n, k, i) == IF i = k THEN n ELSE i * ChunkSize(n, k)

(* The boundaries increase from 0 to all rows. *)
LEMMA Bounds ==
  ASSUME NEW n \in Nat, NEW k \in Nat \ {0}, Cuts(n, k)
  PROVE  /\ Bound(n, k, 0) = 0 /\ Bound(n, k, k) = n
         /\ \A i \in 0 .. k : Bound(n, k, i) \in Nat /\ Bound(n, k, i) <= n
         /\ \A i \in 1 .. k : Bound(n, k, i - 1) <= Bound(n, k, i) /\ Bound(n, k, i - 1) = (i - 1) * ChunkSize(n, k)
<1>1. PICK c \in Nat : c = ChunkSize(n, k) /\ (k - 1) * c <= n
  BY RoundedUp DEF Cuts
<1>2. ASSUME NEW i \in 0 .. k - 1 PROVE i * c \in Nat /\ i * c <= n
  <2>1. i * c \in Nat
    OBVIOUS
  <2>2. (k - 1 - i) * c \in Nat
    <3>1. k - 1 - i \in Nat
      OBVIOUS
    <3> QED BY <3>1
  <2>3. (k - 1) * c = (k - 1 - i) * c + i * c
    OBVIOUS
  <2>4. PICK x \in Nat, y \in Nat, z \in Int : x = i * c /\ y = (k - 1 - i) * c /\ z = (k - 1) * c
    BY <2>1, <2>2
  <2> QED BY <1>1, <2>3, <2>4
<1>3. ASSUME NEW i \in 0 .. k PROVE Bound(n, k, i) \in Nat /\ Bound(n, k, i) <= n
  <2>1. CASE i = k
    BY <2>1 DEF Bound
  <2>2. CASE i # k
    <3>1. i \in 0 .. k - 1
      BY <2>2
    <3> QED BY <1>1, <1>2, <2>2, <3>1 DEF Bound
  <2> QED BY <2>1, <2>2
<1>4. ASSUME NEW i \in 1 .. k
      PROVE  Bound(n, k, i - 1) <= Bound(n, k, i) /\ Bound(n, k, i - 1) = (i - 1) * ChunkSize(n, k)
  <2>1. i - 1 \in 0 .. k - 1 /\ i - 1 # k
    OBVIOUS
  <2>2. Bound(n, k, i - 1) = (i - 1) * c
    BY <1>1, <2>1 DEF Bound
  <2>3. CASE i = k
    BY <1>1, <1>2, <2>1, <2>2, <2>3 DEF Bound
  <2>4. CASE i # k
    <3>1. Bound(n, k, i) = i * c
      BY <1>1, <2>4 DEF Bound
    <3>2. i * c = (i - 1) * c + c
      OBVIOUS
    <3>3. PICK x \in Int : x = (i - 1) * c
      OBVIOUS
    <3> QED BY <1>1, <2>2, <3>1, <3>2, <3>3
  <2> QED BY <1>1, <2>2, <2>3, <2>4
<1>5. Bound(n, k, 0) = 0 /\ Bound(n, k, k) = n
  <2>1. 0 # k /\ 0 * c = 0
    OBVIOUS
  <2> QED BY <1>1, <2>1 DEF Bound
<1> QED BY <1>3, <1>4, <1>5

(* The boundaries as a function. *)
BoundsOf(n, k) == [i \in 0 .. k |-> Bound(n, k, i)]

(* The chunks of a sequence follow each other and are all of it. *)
LEMMA ChunkCut ==
  ASSUME NEW U, NEW s \in Seq(U), NEW k \in Nat \ {0}, Cuts(Len(s), k)
  PROVE  /\ Chunk(s, k) \in [1 .. k -> Seq(U)]
         /\ Consecutive(s, k, BoundsOf(Len(s), k), Chunk(s, k))
         /\ BoundsOf(Len(s), k)[0] = 0 /\ BoundsOf(Len(s), k)[k] = Len(s)
         /\ \A i \in 1 .. k : Chunk(s, k)[i] = SubSeq(s, Bound(Len(s), k, i - 1) + 1, Bound(Len(s), k, i))
<1>1. PICK n \in Nat : n = Len(s)
  OBVIOUS
<1>2. /\ Bound(n, k, 0) = 0 /\ Bound(n, k, k) = n
      /\ \A i \in 0 .. k : Bound(n, k, i) \in Nat /\ Bound(n, k, i) <= n
      /\ \A i \in 1 .. k : Bound(n, k, i - 1) <= Bound(n, k, i) /\ Bound(n, k, i - 1) = (i - 1) * ChunkSize(n, k)
  BY <1>1, Bounds
<1>3. PICK b : b = BoundsOf(n, k)
  OBVIOUS
<1>4. \A i \in 0 .. k : b[i] = Bound(n, k, i)
  BY <1>3 DEF BoundsOf
<1>5. 0 \in 0 .. k /\ k \in 0 .. k /\ \A i \in 1 .. k : i \in 0 .. k /\ i - 1 \in 0 .. k
  OBVIOUS
<1>6. ASSUME NEW i \in 1 .. k
      PROVE  Chunk(s, k)[i] = SubSeq(s, Bound(n, k, i - 1) + 1, Bound(n, k, i))
  <2>1. Chunk(s, k)[i] = SubSeq(s, (i - 1) * ChunkSize(n, k) + 1, IF i = k THEN n ELSE i * ChunkSize(n, k))
    BY <1>1 DEF Chunk
  <2>2. Bound(n, k, i) = IF i = k THEN n ELSE i * ChunkSize(n, k)
    BY DEF Bound
  <2> QED BY <1>2, <2>1, <2>2
<1>7. ASSUME NEW i \in 1 .. k PROVE Chunk(s, k)[i] \in Seq(U)
  <2>1. PICK x \in Nat, y \in Nat : x = Bound(n, k, i - 1) /\ y = Bound(n, k, i) /\ x <= y /\ y <= n
    BY <1>2, <1>5
  <2>2. SubSeq(s, x + 1, y) \in Seq(U)
    BY <1>1, <2>1, Section
  <2> QED BY <1>6, <2>1, <2>2
<1>8. Chunk(s, k) = [i \in 1 .. k |-> Chunk(s, k)[i]]
  BY DEF Chunk
<1>9. Chunk(s, k) \in [1 .. k -> Seq(U)]
  BY <1>7, <1>8
<1>10. Consecutive(s, k, b, Chunk(s, k))
  <2>1. ASSUME NEW i \in 0 .. k PROVE b[i] \in Nat /\ b[0] <= b[i] /\ b[i] <= Len(s)
    <3>1. b[i] \in Nat /\ b[i] <= n /\ b[0] = 0
      BY <1>2, <1>4, <1>5
    <3> QED BY <1>1, <3>1
  <2>2. ASSUME NEW i \in 1 .. k
        PROVE  b[i - 1] <= b[i] /\ Chunk(s, k)[i] = SubSeq(s, b[i - 1] + 1, b[i])
    <3>1. b[i - 1] = Bound(n, k, i - 1) /\ b[i] = Bound(n, k, i)
      BY <1>4, <1>5
    <3> QED BY <1>2, <1>6, <3>1
  <2> QED BY <2>1, <2>2 DEF Consecutive
<1>11. b[0] = 0 /\ b[k] = n
  BY <1>2, <1>4, <1>5
<1> QED BY <1>1, <1>3, <1>6, <1>9, <1>10, <1>11

----------------------------------------------------------------------------
(* A number with a smaller quotient is below the multiple. *)
LEMMA Below ==
  ASSUME NEW d \in Nat \ {0}, NEW q \in Nat, NEW m \in Nat, q < m, NEW r \in 0 .. d - 1
  PROVE  d * q + r \in Nat /\ d * q + r < d * m
<1>1. d * q + d <= d * m
  BY Ordered
<1>2. PICK x \in Nat, y \in Nat : x = d * q /\ y = d * m
  OBVIOUS
<1> QED BY <1>1, <1>2

(* Of numbers below a product the quotient is below the other factor. *)
LEMMA SmallerQuotient ==
  ASSUME NEW a \in Nat, NEW d \in Nat \ {0}, NEW m \in Nat, a < d * m
  PROVE  Quot(a, d) < m
<1>1. PICK q \in Nat, r \in 0 .. d - 1 : q = Quot(a, d) /\ a = d * q + r
  BY Division, ZenonT(40)
<1>2. ~(m <= q)
  <2>1. SUFFICES ASSUME m <= q PROVE FALSE
    OBVIOUS
  <2>2. d * m <= d * q
    <3>1. CASE m = q
      BY <3>1
    <3>2. CASE m < q
      <4>1. d * m + d <= d * q
        BY <3>2, Ordered
      <4>2. PICK x \in Nat, y \in Nat : x = d * m /\ y = d * q
        OBVIOUS
      <4> QED BY <4>1, <4>2
    <3> QED BY <2>1, <3>1, <3>2
  <2>3. PICK x \in Nat, y \in Nat : x = d * m /\ y = d * q
    OBVIOUS
  <2> QED BY <1>1, <2>2, <2>3
<1> QED BY <1>1, <1>2
(* Multiples keep the order. *)
LEMMA NotLess ==
  ASSUME NEW d \in Nat, NEW p \in Int, NEW q \in Int, p <= q
  PROVE  d * p <= d * q
<1>1. d * (q - p) >= 0
  OBVIOUS
<1>2. d * (q - p) = d * q - d * p
  OBVIOUS
<1> QED BY <1>1, <1>2

(* Padding is less than the divisor and makes the rows divisible. *)
LEMMA PadSizeRange ==
  ASSUME NEW n \in Nat, NEW d \in Nat \ {0}
  PROVE  PadSize(n, d) \in 0 .. d - 1 /\ Rest(n + PadSize(n, d), d) = 0
<1>1. Quot(n, d) \in Nat /\ Rest(n, d) \in 0 .. d - 1 /\ n = d * Quot(n, d) + Rest(n, d)
  BY Division
<1>2. PICK q \in Nat, r \in 0 .. d - 1 : r = Rest(n, d) /\ n = d * q + r
  BY <1>1
<1>3. PadSize(n, d) = IF r = 0 THEN 0 ELSE d - r
  BY <1>2 DEF PadSize, Rest
<1>4. PICK m : m = PadSize(n, d)
  OBVIOUS
<1>5. m \in 0 .. d - 1
  BY <1>3, <1>4
<1>6. PICK k \in Nat : n + m = d * k + 0
  <2>1. CASE r = 0
    BY <1>2, <1>3, <1>4, <2>1
  <2>2. CASE r # 0
    <3>1. n + m = d * q + d
      <4>1. m = d - r
        BY <1>3, <1>4, <2>2
      <4>2. PICK x \in Nat : x = d * q
        OBVIOUS
      <4>3. n = x + r
        BY <1>2, <4>2
      <4>4. n + m = x + d
        <5>1. r \in Int /\ d \in Int
          BY <1>2
        <5> HIDE <1>2
        <5> QED BY <4>1, <4>3, <5>1
      <4> QED BY <4>2, <4>4
    <3>2. d * q + d = d * (q + 1) + 0 /\ q + 1 \in Nat
      OBVIOUS
    <3>3. n + m = d * (q + 1) + 0
      BY <3>1, <3>2
    <3> HIDE <1>2
    <3> QED BY <3>2, <3>3
  <2> QED BY <2>1, <2>2
<1>7. IsDivision(n + m, d, k, 0)
  <2>1. 0 \in 0 .. d - 1
    OBVIOUS
  <2> QED BY <1>6, <2>1 DEF IsDivision
<1>8. Rest(n + m, d) = 0
  BY <1>7, Quotient
<1> QED BY <1>4, <1>5, <1>8

(* All of a sequence as a section. *)
LEMMA WholeSection ==
  ASSUME NEW U, NEW s \in Seq(U)
  PROVE  SubSeq(s, 1, Len(s)) = s
<1>0. PICK n \in Nat : n = Len(s) /\ 0 <= n
  OBVIOUS
<1>1. PICK u : u = SubSeq(s, 0 + 1, n)
  OBVIOUS
<1>2. u \in Seq(U) /\ Len(u) = n - 0 /\ \A i \in 1 .. n - 0 : u[i] = s[0 + i]
  BY <1>0, <1>1, SectionNamed
<1>3. u = s
  BY <1>0, <1>1, <1>2, SameSequence
<1> QED BY <1>0, <1>1, <1>3

(* Parts put together have the elements of all. *)
LEMMA ElementsTogether ==
  ASSUME NEW U, NEW w \in Nat \ {0}, NEW parts \in [1 .. w -> Seq(U)], NEW x
  PROVE  x \in Range(Concat(parts)) <=> \E i \in 1 .. w : x \in Range(parts[i])
<1>1. PICK f \in [1 .. w -> Seq(U)] : Together(f, w, parts) /\ Concat(parts) = f[w]
  BY ConcatByStep
<1> DEFINE Has(i) == x \in Range(f[i])
           Some(i) == \E j \in 1 .. i : x \in Range(parts[j])
           Bad == {i \in Nat : i \in 1 .. w /\ ~(Has(i) <=> Some(i))}
<1>2. ASSUME NEW s \in Seq(U), NEW t \in Seq(U) PROVE Range(s \o t) = Range(s) \cup Range(t)
  <2>1. /\ s \o t \in Seq(U) /\ Len(s \o t) = Len(s) + Len(t)
        /\ \A i \in 1 .. Len(s) : (s \o t)[i] = s[i]
        /\ \A i \in Len(s) + 1 .. Len(s) + Len(t) : (s \o t)[i] = t[i - Len(s)]
    BY Joined
  <2>0. Len(s) \in Nat /\ Len(t) \in Nat
    OBVIOUS
  <2>2. PICK v, m, n : v = s \o t /\ m = Len(s) /\ n = Len(t) /\ m \in Nat /\ n \in Nat
    BY <2>0
  <2>3. DOMAIN s = 1 .. m /\ DOMAIN t = 1 .. n /\ DOMAIN v = 1 .. m + n
    BY <2>1, <2>2
  <2>4. (\A i \in 1 .. m : v[i] = s[i]) /\ \A i \in m + 1 .. m + n : v[i] = t[i - m]
    BY <2>1, <2>2
  <2>5. ASSUME NEW y \in Range(v) PROVE y \in Range(s) \cup Range(t)
    <3>1. PICK i \in 1 .. m + n : y = v[i]
      BY <2>3 DEF Range
    <3>2. CASE i <= m
      <4>1. i \in 1 .. m
        BY <2>2, <3>2
      <4> QED BY <2>3, <2>4, <3>1, <4>1 DEF Range
    <3>3. CASE ~(i <= m)
      <4>1. i \in m + 1 .. m + n /\ i - m \in 1 .. n
        BY <2>2, <3>3
      <4> QED BY <2>3, <2>4, <3>1, <4>1 DEF Range
    <3> QED BY <3>2, <3>3
  <2>6. ASSUME NEW y \in Range(s) PROVE y \in Range(v)
    <3>1. PICK i \in 1 .. m : y = s[i]
      BY <2>3, <2>6 DEF Range
    <3>2. i \in 1 .. m + n
      BY <2>2
    <3> QED BY <2>3, <2>4, <3>1, <3>2 DEF Range
  <2>7. ASSUME NEW y \in Range(t) PROVE y \in Range(v)
    <3>1. PICK i \in 1 .. n : y = t[i]
      BY <2>3, <2>7 DEF Range
    <3>0. PICK k : k = i + m
      OBVIOUS
    <3>2. k \in m + 1 .. m + n /\ k - m = i
      <4>1. i \in Nat /\ 1 <= i /\ i <= n /\ m \in Nat /\ n \in Nat
        BY <2>2, <3>1
      <4>2. i + m \in m + 1 .. m + n /\ i + m - m = i
        BY <4>1
      <4> QED BY <3>0, <4>1, <4>2
    <3>3. k \in 1 .. m + n
      BY <2>2, <3>2
    <3> QED BY <2>3, <2>4, <3>1, <3>2, <3>3 DEF Range
  <2> QED BY <2>2, <2>5, <2>6, <2>7
<1>3. Bad = {}
  <2>1. SUFFICES ASSUME Bad # {} PROVE FALSE
    OBVIOUS
  <2>2. PICK i \in Bad : \A j \in Bad : i <= j
    BY <2>1, LeastNatural
  <2>3. i \in 1 .. w /\ ~(Has(i) <=> Some(i))
    OBVIOUS
  <2>4. CASE i = 1
    <3>1. f[i] = parts[i] /\ 1 .. i = {i}
      BY <1>1, <2>4 DEF Together
    <3> QED BY <2>3, <3>1
  <2>5. CASE i # 1
    <3>1. PICK j \in 1 .. w : j = i - 1 /\ j \in Nat /\ j < i
      BY <2>3, <2>5
    <3>2. j \notin Bad
      <4>1. ~(i <= j) /\ i \in Nat
        BY <2>3, <3>1
      <4> HIDE DEF Bad
      <4> QED BY <2>2, <4>1
    <3>3. Has(j) <=> Some(j)
      BY <3>1, <3>2
    <3>4. f[i] = f[j] \o parts[i]
      <4>1. i \in 2 .. w
        BY <2>3, <2>5
      <4>2. f[i] = f[i - 1] \o parts[i]
        BY <1>1, <4>1 DEF Together
      <4> QED BY <3>1, <4>2
    <3>5. Range(f[i]) = Range(f[j]) \cup Range(parts[i])
      <4>1. f[j] \in Seq(U) /\ parts[i] \in Seq(U)
        BY <1>1, <2>3, <3>1
      <4>2. PICK a \in Seq(U), b \in Seq(U) : a = f[j] /\ b = parts[i]
        BY <4>1
      <4>3. Range(a \o b) = Range(a) \cup Range(b)
        BY <1>2, <4>2
      <4> QED BY <3>4, <4>2, <4>3
    <3>6. 1 .. i = (1 .. j) \cup {i}
      <4>1. i = j + 1
        BY <2>3, <3>1
      <4>2. 1 .. j + 1 = (1 .. j) \cup {j + 1}
        BY <3>1, SMTT(30)
      <4> QED BY <4>1, <4>2
    <3>7. Some(i) <=> Some(j) \/ x \in Range(parts[i])
      BY <3>6
    <3> QED BY <2>3, <3>3, <3>5, <3>7
  <2> QED BY <2>4, <2>5
<1>4. w \in Nat /\ w \in 1 .. w
  OBVIOUS
<1>5. Has(w) <=> Some(w)
  BY <1>3, <1>4
<1> QED BY <1>1, <1>5


----------------------------------------------------------------------------
(* Lemmas on sums *)

(* F sums g up. *)
SumsUp(F, g) == F \in [Nat -> Int] /\ F[0] = 0 /\ \A i \in Nat : F[i + 1] = F[i] + g[i + 1]

(* The sum of the first n. *)
Total(g, n) == (CHOOSE F : SumsUp(F, g))[n]

(* F sums the first m of g up. *)
SumsUpTo(F, g, m) == F \in [0 .. m -> Int] /\ F[0] = 0 /\ \A i \in 0 .. m : i < m => F[i + 1] = F[i] + g[i + 1]

(* Sums can be continued. *)
LEMMA SumsGoOn ==
  ASSUME NEW g \in [Nat -> Int], NEW m \in Nat, NEW F, SumsUpTo(F, g, m)
  PROVE  \E G : SumsUpTo(G, g, m + 1)
<1> DEFINE G == [i \in 0 .. m + 1 |-> IF i = m + 1 THEN F[m] + g[m + 1] ELSE F[i]]
<1>1. F \in [0 .. m -> Int] /\ F[0] = 0 /\ \A i \in 0 .. m : i < m => F[i + 1] = F[i] + g[i + 1]
  BY DEF SumsUpTo
<1>2. m \in 0 .. m /\ F[m] \in Int /\ g[m + 1] \in Int
  BY <1>1
<1>3. \A i \in 0 .. m : i \in 0 .. m + 1 /\ i # m + 1 /\ G[i] = F[i]
  OBVIOUS
<1>4. m + 1 \in 0 .. m + 1 /\ G[m + 1] = F[m] + g[m + 1]
  OBVIOUS
<1>5. G \in [0 .. m + 1 -> Int]
  <2>1. \A i \in 0 .. m + 1 : i = m + 1 \/ i \in 0 .. m
    OBVIOUS
  <2>2. \A i \in 0 .. m + 1 : (IF i = m + 1 THEN F[m] + g[m + 1] ELSE F[i]) \in Int
    BY <1>1, <1>2, <2>1
  <2> QED BY <2>2
<1>6. G[0] = 0
  <2>1. 0 \in 0 .. m
    OBVIOUS
  <2> QED BY <1>1, <1>3, <2>1
<1>7. ASSUME NEW i \in 0 .. m + 1, i < m + 1 PROVE G[i + 1] = G[i] + g[i + 1]
  <2>1. i \in 0 .. m /\ G[i] = F[i]
    <3>1. i \in 0 .. m
      BY <1>7
    <3> QED BY <1>3, <3>1
  <2>2. CASE i = m
    BY <1>4, <2>1, <2>2
  <2>3. CASE i # m
    <3>1. i < m /\ i + 1 \in 0 .. m
      BY <2>1, <2>3
    <3>2. G[i + 1] = F[i + 1]
      BY <1>3, <3>1
    <3> QED BY <1>1, <2>1, <3>1, <3>2
  <2> QED BY <2>2, <2>3
<1> HIDE DEF G
<1>8. SumsUpTo(G, g, m + 1)
  BY <1>5, <1>6, <1>7 DEF SumsUpTo
<1> QED BY <1>8

LEMMA SumsExist ==
  ASSUME NEW g \in [Nat -> Int], NEW n \in Nat
  PROVE  \E F : SumsUpTo(F, g, n)
<1> DEFINE Bad == {m \in Nat : ~ \E F : SumsUpTo(F, g, m)}
<1>1. SUFFICES ASSUME Bad # {} PROVE FALSE
  OBVIOUS
<1>2. PICK m \in Bad : \A k \in Bad : m <= k
  <2>1. Bad \subseteq Nat
    OBVIOUS
  <2> HIDE DEF Bad
  <2> QED BY <1>1, <2>1, LeastNatural
<1>3. m \in Nat
  BY <1>2
<1>4. m # 0
  <2>1. SumsUpTo([i \in 0 .. 0 |-> 0], g, 0)
    BY DEF SumsUpTo
  <2> QED BY <1>2, <2>1
<1>5. m - 1 \in Nat /\ m - 1 \notin Bad
  <2>1. m - 1 \in Nat /\ ~(m <= m - 1)
    BY <1>3, <1>4
  <2> HIDE DEF Bad
  <2> QED BY <1>2, <2>1
<1>6. \E F : SumsUpTo(F, g, m - 1)
  BY <1>5
<1>7. \E F : SumsUpTo(F, g, (m - 1) + 1)
  BY <1>5, <1>6, SumsGoOn
<1>8. (m - 1) + 1 = m
  BY <1>3
<1> QED BY <1>2, <1>7, <1>8

(* Two such sums agree. *)
LEMMA SumsAgree ==
  ASSUME NEW g \in [Nat -> Int], NEW m \in Nat, NEW k \in Nat, NEW F, NEW G,
         SumsUpTo(F, g, m), SumsUpTo(G, g, k), NEW j \in Nat, j <= m, j <= k
  PROVE  F[j] = G[j]
<1> DEFINE Bad == {i \in 0 .. j : F[i] # G[i]}
<1>1. SUFFICES ASSUME Bad # {} PROVE FALSE
  <2>1. j \in 0 .. j
    OBVIOUS
  <2> QED BY <2>1
<1>2. PICK i \in Bad : \A x \in Bad : i <= x
  <2>1. Bad \subseteq Nat
    OBVIOUS
  <2> HIDE DEF Bad
  <2> QED BY <1>1, <2>1, LeastNatural
<1>3. i \in 0 .. j /\ F[i] # G[i]
  BY <1>2
<1>4. F[0] = 0 /\ G[0] = 0 /\ (\A x \in 0 .. m : x < m => F[x + 1] = F[x] + g[x + 1])
      /\ \A x \in 0 .. k : x < k => G[x + 1] = G[x] + g[x + 1]
  BY DEF SumsUpTo
<1>5. i # 0
  BY <1>3, <1>4
<1>6. i - 1 \in 0 .. j /\ ~(i <= i - 1)
  BY <1>3, <1>5
<1>7. F[i - 1] = G[i - 1]
  <2>1. i - 1 \notin Bad
    <3> HIDE DEF Bad
    <3> QED BY <1>2, <1>6
  <2> QED BY <1>6, <2>1
<1>8. i - 1 \in 0 .. m /\ i - 1 < m /\ i - 1 \in 0 .. k /\ i - 1 < k /\ (i - 1) + 1 = i
  BY <1>3, <1>5
<1>9. F[(i - 1) + 1] = F[i - 1] + g[(i - 1) + 1] /\ G[(i - 1) + 1] = G[i - 1] + g[(i - 1) + 1]
  BY <1>4, <1>8
<1> QED BY <1>3, <1>7, <1>8, <1>9

(* A total grows by one number at a time. *)
LEMMA TotalStep ==
  ASSUME NEW g \in [Nat -> Int]
  PROVE  /\ \A n \in Nat : Total(g, n) \in Int
         /\ Total(g, 0) = 0
         /\ \A n \in Nat : Total(g, n + 1) = Total(g, n) + g[n + 1]
<1> DEFINE S(m) == CHOOSE F : SumsUpTo(F, g, m)
           F == [m \in Nat |-> S(m)[m]]
<1>1. \A m \in Nat : SumsUpTo(S(m), g, m)
  BY SumsExist
<1>2. \A m \in Nat : F[m] = S(m)[m]
  OBVIOUS
<1> HIDE DEF S, F
<1>3. \A m \in Nat : F[m] \in Int
  <2> TAKE m \in Nat
  <2>1. S(m) \in [0 .. m -> Int]
    BY <1>1 DEF SumsUpTo
  <2> QED BY <1>2, <2>1
<1>4. F[0] = 0
  BY <1>1, <1>2 DEF SumsUpTo
<1>5. ASSUME NEW m \in Nat PROVE F[m + 1] = F[m] + g[m + 1]
  <2>1. SumsUpTo(S(m), g, m) /\ SumsUpTo(S(m + 1), g, m + 1) /\ m + 1 \in Nat
    BY <1>1
  <2>2. S(m)[m] = S(m + 1)[m]
    BY <2>1, SumsAgree
  <2>3. S(m + 1)[m + 1] = S(m + 1)[m] + g[m + 1]
    <3>1. m \in 0 .. m + 1 /\ m < m + 1
      OBVIOUS
    <3> QED BY <2>1, <3>1 DEF SumsUpTo
  <2> QED BY <1>2, <2>1, <2>2, <2>3
<1>6. SumsUp([m \in Nat |-> F[m]], g)
  <2>1. [m \in Nat |-> F[m]] \in [Nat -> Int]
    BY <1>3
  <2> QED BY <1>4, <1>5, <2>1 DEF SumsUp
<1>7. PICK G : G = (CHOOSE H : SumsUp(H, g))
  OBVIOUS
<1>8. SumsUp(G, g)
  BY <1>6, <1>7
<1>9. \A n : Total(g, n) = G[n]
  BY <1>7 DEF Total
<1> QED BY <1>8, <1>9 DEF SumsUp

(* Totals of numbers that add up add up. *)
LEMMA TotalAdd ==
  ASSUME NEW f \in [Nat -> Int], NEW g \in [Nat -> Int], NEW h \in [Nat -> Int], NEW n \in Nat,
         \A i \in 1 .. n : h[i] = f[i] + g[i]
  PROVE  Total(h, n) = Total(f, n) + Total(g, n)
<1> DEFINE Bad == {i \in 0 .. n : Total(h, i) # Total(f, i) + Total(g, i)}
<1>1. SUFFICES ASSUME Bad # {} PROVE FALSE
  <2>1. n \in 0 .. n
    OBVIOUS
  <2> QED BY <2>1
<1>2. PICK i \in Bad : \A x \in Bad : i <= x
  <2>1. Bad \subseteq Nat
    OBVIOUS
  <2> HIDE DEF Bad
  <2> QED BY <1>1, <2>1, LeastNatural
<1>3. i \in 0 .. n /\ Total(h, i) # Total(f, i) + Total(g, i)
  BY <1>2
<1>4. i # 0
  BY <1>3, TotalStep
<1>5. i - 1 \in 0 .. n /\ i - 1 \in Nat /\ (i - 1) + 1 = i /\ i \in 1 .. n /\ ~(i <= i - 1)
  BY <1>3, <1>4
<1>6. Total(h, i - 1) = Total(f, i - 1) + Total(g, i - 1)
  <2>1. i - 1 \notin Bad
    <3> HIDE DEF Bad
    <3> QED BY <1>2, <1>5
  <2> QED BY <1>5, <2>1
<1>7. /\ Total(h, (i - 1) + 1) = Total(h, i - 1) + h[(i - 1) + 1]
      /\ Total(f, (i - 1) + 1) = Total(f, i - 1) + f[(i - 1) + 1]
      /\ Total(g, (i - 1) + 1) = Total(g, i - 1) + g[(i - 1) + 1]
  BY <1>5, TotalStep
<1>8. /\ Total(h, i) = Total(h, i - 1) + h[i] /\ Total(f, i) = Total(f, i - 1) + f[i]
      /\ Total(g, i) = Total(g, i - 1) + g[i]
  BY <1>5, <1>7
<1>9. Total(f, i - 1) \in Int /\ Total(g, i - 1) \in Int /\ f[i] \in Int /\ g[i] \in Int
  BY <1>5, TotalStep
<1>10. h[i] = f[i] + g[i]
  BY <1>5
<1> QED BY <1>3, <1>6, <1>8, <1>9, <1>10

(* No total is above that of greater numbers. *)
LEMMA TotalMost ==
  ASSUME NEW f \in [Nat -> Int], NEW g \in [Nat -> Int], NEW n \in Nat, \A i \in 1 .. n : f[i] <= g[i]
  PROVE  Total(f, n) <= Total(g, n)
<1> DEFINE Bad == {i \in 0 .. n : ~(Total(f, i) <= Total(g, i))}
<1>1. SUFFICES ASSUME Bad # {} PROVE FALSE
  <2>1. n \in 0 .. n
    OBVIOUS
  <2> QED BY <2>1
<1>2. PICK i \in Bad : \A x \in Bad : i <= x
  <2>1. Bad \subseteq Nat
    OBVIOUS
  <2> HIDE DEF Bad
  <2> QED BY <1>1, <2>1, LeastNatural
<1>3. i \in 0 .. n /\ ~(Total(f, i) <= Total(g, i))
  BY <1>2
<1>4. i # 0
  BY <1>3, TotalStep
<1>5. i - 1 \in 0 .. n /\ i - 1 \in Nat /\ (i - 1) + 1 = i /\ i \in 1 .. n /\ ~(i <= i - 1)
  BY <1>3, <1>4
<1>6. Total(f, i - 1) <= Total(g, i - 1)
  <2>1. i - 1 \notin Bad
    <3> HIDE DEF Bad
    <3> QED BY <1>2, <1>5
  <2> QED BY <1>5, <2>1
<1>7. /\ Total(f, (i - 1) + 1) = Total(f, i - 1) + f[(i - 1) + 1]
      /\ Total(g, (i - 1) + 1) = Total(g, i - 1) + g[(i - 1) + 1]
  BY <1>5, TotalStep
<1>8. Total(f, i) = Total(f, i - 1) + f[i] /\ Total(g, i) = Total(g, i - 1) + g[i]
  BY <1>5, <1>7
<1>9. Total(f, i - 1) \in Int /\ Total(g, i - 1) \in Int /\ f[i] \in Int /\ g[i] \in Int
  BY <1>5, TotalStep
<1>10. f[i] <= g[i]
  BY <1>5
<1> QED BY <1>3, <1>6, <1>8, <1>9, <1>10

(* The total of equal numbers. *)
LEMMA TotalEqual ==
  ASSUME NEW g \in [Nat -> Int], NEW c \in Int, NEW n \in Nat, \A i \in 1 .. n : g[i] = c
  PROVE  Total(g, n) = n * c
<1> DEFINE Bad == {i \in 0 .. n : Total(g, i) # i * c}
<1>1. SUFFICES ASSUME Bad # {} PROVE FALSE
  <2>1. n \in 0 .. n
    OBVIOUS
  <2> QED BY <2>1
<1>2. PICK i \in Bad : \A x \in Bad : i <= x
  <2>1. Bad \subseteq Nat
    OBVIOUS
  <2> HIDE DEF Bad
  <2> QED BY <1>1, <2>1, LeastNatural
<1>3. i \in 0 .. n /\ Total(g, i) # i * c
  BY <1>2
<1>4. i # 0
  <2>1. 0 * c = 0 /\ Total(g, 0) = 0
    BY TotalStep
  <2> QED BY <1>3, <2>1
<1>5. i - 1 \in 0 .. n /\ i - 1 \in Nat /\ (i - 1) + 1 = i /\ i \in 1 .. n /\ ~(i <= i - 1)
  BY <1>3, <1>4
<1>6. Total(g, i - 1) = (i - 1) * c
  <2>1. i - 1 \notin Bad
    <3> HIDE DEF Bad
    <3> QED BY <1>2, <1>5
  <2> QED BY <1>5, <2>1
<1>7. Total(g, (i - 1) + 1) = Total(g, i - 1) + g[(i - 1) + 1]
  BY <1>5, TotalStep
<1>8. Total(g, i) = (i - 1) * c + c
  BY <1>5, <1>6, <1>7
<1>9. (i - 1) * c + c = i * c
  BY <1>5
<1> QED BY <1>3, <1>8, <1>9

(* A multiple of a total. *)
LEMMA TotalTimes ==
  ASSUME NEW f \in [Nat -> Int], NEW g \in [Nat -> Int], NEW c \in Int, NEW n \in Nat,
         \A i \in 1 .. n : g[i] = c * f[i]
  PROVE  Total(g, n) = c * Total(f, n)
<1> DEFINE Bad == {i \in 0 .. n : Total(g, i) # c * Total(f, i)}
<1>1. SUFFICES ASSUME Bad # {} PROVE FALSE
  <2>1. n \in 0 .. n
    OBVIOUS
  <2> QED BY <2>1
<1>2. PICK i \in Bad : \A x \in Bad : i <= x
  <2>1. Bad \subseteq Nat
    OBVIOUS
  <2> HIDE DEF Bad
  <2> QED BY <1>1, <2>1, LeastNatural
<1>3. i \in 0 .. n /\ Total(g, i) # c * Total(f, i)
  BY <1>2
<1>4. i # 0
  <2>1. c * 0 = 0 /\ Total(g, 0) = 0 /\ Total(f, 0) = 0
    BY TotalStep
  <2> QED BY <1>3, <2>1
<1>5. i - 1 \in 0 .. n /\ i - 1 \in Nat /\ (i - 1) + 1 = i /\ i \in 1 .. n /\ ~(i <= i - 1)
  BY <1>3, <1>4
<1>6. Total(g, i - 1) = c * Total(f, i - 1)
  <2>1. i - 1 \notin Bad
    <3> HIDE DEF Bad
    <3> QED BY <1>2, <1>5
  <2> QED BY <1>5, <2>1
<1>7. /\ Total(f, (i - 1) + 1) = Total(f, i - 1) + f[(i - 1) + 1]
      /\ Total(g, (i - 1) + 1) = Total(g, i - 1) + g[(i - 1) + 1]
  BY <1>5, TotalStep
<1>8. Total(f, i - 1) \in Int /\ f[i] \in Int /\ g[i] = c * f[i]
  BY <1>5, TotalStep
<1>9. PICK a \in Int, b \in Int : a = Total(f, i - 1) /\ b = f[i]
  BY <1>8
<1>10. Total(f, i) = a + b /\ Total(g, i) = c * a + c * b
  BY <1>5, <1>6, <1>7, <1>8, <1>9
<1>11. c * (a + b) = c * a + c * b
  OBVIOUS
<1> QED BY <1>3, <1>10, <1>11

(* What the i-th of n numbers counts for in the sum over a set. *)
Share(f, s, n) == [i \in Nat |-> IF i \in s /\ i \in 1 .. n THEN f[i] ELSE 0]

(* The sum of the numbers at the places of a set. *)
SumOf(f, s, n) == Total(Share(f, s, n), n)

LEMMA ShareType ==
  ASSUME NEW n \in Nat, NEW f \in [1 .. n -> Int], NEW s
  PROVE  Share(f, s, n) \in [Nat -> Int]
<1>1. \A i \in Nat : (IF i \in s /\ i \in 1 .. n THEN f[i] ELSE 0) \in Int
  OBVIOUS
<1> QED BY <1>1 DEF Share

LEMMA ShareAt ==
  ASSUME NEW n \in Nat, NEW f, NEW s, NEW i \in 1 .. n
  PROVE  Share(f, s, n)[i] = IF i \in s THEN f[i] ELSE 0
<1>1. i \in Nat
  OBVIOUS
<1> QED BY <1>1 DEF Share

LEMMA SumType ==
  ASSUME NEW n \in Nat, NEW f \in [1 .. n -> Int], NEW s
  PROVE  SumOf(f, s, n) \in Int
BY ShareType, TotalStep DEF SumOf

(* Only the numbers at the places count. *)
LEMMA SumSame ==
  ASSUME NEW n \in Nat, NEW f \in [1 .. n -> Int], NEW g \in [1 .. n -> Int], NEW s, NEW t,
         \A i \in 1 .. n : i \in s <=> i \in t, \A i \in 1 .. n : i \in s => f[i] = g[i]
  PROVE  SumOf(f, s, n) = SumOf(g, t, n)
<1>1. \A i \in Nat : (IF i \in s /\ i \in 1 .. n THEN f[i] ELSE 0) = IF i \in t /\ i \in 1 .. n THEN g[i] ELSE 0
  OBVIOUS
<1>2. Share(f, s, n) = Share(g, t, n)
  BY <1>1 DEF Share
<1> QED BY <1>2 DEF SumOf

LEMMA SumEmpty ==
  ASSUME NEW n \in Nat, NEW f \in [1 .. n -> Int]
  PROVE  SumOf(f, {}, n) = 0
<1>1. PICK g \in [Nat -> Int] : g = Share(f, {}, n)
  BY ShareType
<1>2. \A i \in 1 .. n : g[i] = 0
  <2> TAKE i \in 1 .. n
  <2>1. g[i] = IF i \in {} THEN f[i] ELSE 0
    BY <1>1, ShareAt
  <2> QED BY <2>1
<1>3. Total(g, n) = n * 0
  BY <1>2, TotalEqual
<1> QED BY <1>1, <1>3 DEF SumOf

(* Sums over sets that share no place add up. *)
LEMMA SumApart ==
  ASSUME NEW n \in Nat, NEW f \in [1 .. n -> Int], NEW s, NEW t, \A i \in 1 .. n : ~(i \in s /\ i \in t)
  PROVE  SumOf(f, s \cup t, n) = SumOf(f, s, n) + SumOf(f, t, n)
<1>1. PICK g \in [Nat -> Int], h \in [Nat -> Int], k \in [Nat -> Int] :
        g = Share(f, s, n) /\ h = Share(f, t, n) /\ k = Share(f, s \cup t, n)
  BY ShareType
<1>2. ASSUME NEW i \in 1 .. n PROVE k[i] = g[i] + h[i]
  <2>1. /\ g[i] = (IF i \in s THEN f[i] ELSE 0)
        /\ h[i] = (IF i \in t THEN f[i] ELSE 0)
        /\ k[i] = (IF i \in s \cup t THEN f[i] ELSE 0)
        /\ f[i] \in Int
    <3>1. g[i] = (IF i \in s THEN f[i] ELSE 0)
      <4>1. Share(f, s, n)[i] = (IF i \in s THEN f[i] ELSE 0)
        BY ShareAt
      <4>2. g = Share(f, s, n)
        BY <1>1
      <4> QED BY <4>1, <4>2
    <3>2. h[i] = (IF i \in t THEN f[i] ELSE 0)
      <4>1. Share(f, t, n)[i] = (IF i \in t THEN f[i] ELSE 0)
        BY ShareAt
      <4>2. h = Share(f, t, n)
        BY <1>1
      <4> QED BY <4>1, <4>2
    <3>3. k[i] = (IF i \in s \cup t THEN f[i] ELSE 0)
      <4>1. Share(f, s \cup t, n)[i] = (IF i \in s \cup t THEN f[i] ELSE 0)
        BY ShareAt
      <4>2. k = Share(f, s \cup t, n)
        BY <1>1
      <4> QED BY <4>1, <4>2
    <3>4. f[i] \in Int
      OBVIOUS
    <3> QED BY <3>1, <3>2, <3>3, <3>4
  <2>2. CASE i \in s
    <3>1. i \notin t
      BY <2>2
    <3>2. g[i] = f[i] /\ h[i] = 0 /\ k[i] = f[i]
      BY <2>1, <2>2, <3>1
    <3> QED BY <2>1, <3>2
  <2>3. CASE i \notin s /\ i \in t
    <3>2. g[i] = 0 /\ h[i] = f[i] /\ k[i] = f[i]
      BY <2>1, <2>3
    <3> QED BY <2>1, <3>2
  <2>4. CASE i \notin s /\ i \notin t
    <3>2. g[i] = 0 /\ h[i] = 0 /\ k[i] = 0
      BY <2>1, <2>4
    <3>3. 0 = 0 + 0
      OBVIOUS
    <3> QED BY <3>2, <3>3
  <2> QED BY <2>2, <2>3, <2>4
<1>3. Total(k, n) = Total(g, n) + Total(h, n)
  <2>1. \A i \in 1 .. n : k[i] = g[i] + h[i]
    BY <1>2
  <2>2. g \in [Nat -> Int] /\ h \in [Nat -> Int] /\ k \in [Nat -> Int]
    OBVIOUS
  <2> QED BY <2>1, <2>2, TotalAdd, ZenonT(30)
<1> QED BY <1>1, <1>3 DEF SumOf

(* The sum over one place. *)
LEMMA SumOne ==
  ASSUME NEW n \in Nat, NEW f \in [1 .. n -> Int], NEW x \in 1 .. n
  PROVE  SumOf(f, {x}, n) = f[x]
<1>1. PICK g \in [Nat -> Int] : g = Share(f, {x}, n)
  BY ShareType
<1>2. \A i \in 1 .. n : g[i] = IF i = x THEN f[x] ELSE 0
  <2> TAKE i \in 1 .. n
  <2>1. g[i] = IF i \in {x} THEN f[i] ELSE 0
    <3>1. g[i] = IF i \in {x} THEN f[i] ELSE 0
      <4>1. Share(f, {x}, n)[i] = IF i \in {x} THEN f[i] ELSE 0
        BY ShareAt
      <4>2. g = Share(f, {x}, n)
        BY <1>1
      <4> QED BY <4>1, <4>2
    <3> QED BY <3>1
  <2> QED BY <2>1
<1> DEFINE Bad == {i \in 0 .. n : Total(g, i) # IF i < x THEN 0 ELSE f[x]}
<1>3. Bad = {}
  <2>1. SUFFICES ASSUME Bad # {} PROVE FALSE
    OBVIOUS
  <2>2. PICK i \in Bad : \A y \in Bad : i <= y
    <3>1. Bad \subseteq Nat
      OBVIOUS
    <3> HIDE DEF Bad
    <3> QED BY <2>1, <3>1, LeastNatural
  <2>3. i \in 0 .. n /\ Total(g, i) # IF i < x THEN 0 ELSE f[x]
    BY <2>2
  <2>4. i # 0
    BY <2>3, TotalStep
  <2>5. i - 1 \in 0 .. n /\ i - 1 \in Nat /\ (i - 1) + 1 = i /\ i \in 1 .. n /\ ~(i <= i - 1)
    BY <2>3, <2>4
  <2>6. Total(g, i - 1) = IF i - 1 < x THEN 0 ELSE f[x]
    <3>1. i - 1 \notin Bad
      <4> HIDE DEF Bad
      <4> QED BY <2>2, <2>5
    <3> QED BY <2>5, <3>1
  <2>7. Total(g, (i - 1) + 1) = Total(g, i - 1) + g[(i - 1) + 1]
    BY <2>5, TotalStep
  <2>8. Total(g, i) = Total(g, i - 1) + g[i] /\ g[i] = (IF i = x THEN f[x] ELSE 0) /\ f[x] \in Int
    BY <1>2, <2>5, <2>7
  <2>9. i < x => i - 1 < x /\ i # x
    BY <2>5
  <2>10. i = x => i - 1 < x /\ ~(i < x)
    BY <2>5
  <2>11. ~(i < x) /\ i # x => ~(i - 1 < x)
    BY <2>5
  <2>12. Total(g, i) = IF i < x THEN 0 ELSE f[x]
    <3>1. CASE i < x
      BY <2>6, <2>8, <2>9, <3>1
    <3>2. CASE i = x
      BY <2>6, <2>8, <2>10, <3>2
    <3>3. CASE ~(i < x) /\ i # x
      BY <2>6, <2>8, <2>11, <3>3
    <3> QED BY <3>1, <3>2, <3>3
  <2> QED BY <2>3, <2>12
<1>4. n \in 0 .. n /\ ~(n < x)
  OBVIOUS
<1>5. Total(g, n) = f[x]
  BY <1>3, <1>4
<1> QED BY <1>1, <1>5 DEF SumOf

(* One place more. *)
LEMMA SumMore ==
  ASSUME NEW n \in Nat, NEW f \in [1 .. n -> Int], NEW s, NEW x \in 1 .. n, x \in s
  PROVE  SumOf(f, s, n) = f[x] + SumOf(f, s \ {x}, n)
<1>1. SumOf(f, {x} \cup (s \ {x}), n) = SumOf(f, {x}, n) + SumOf(f, s \ {x}, n)
  BY SumApart
<1>2. {x} \cup (s \ {x}) = s
  OBVIOUS
<1> QED BY <1>1, <1>2, SumOne

(* Greater numbers have a greater sum. *)
LEMMA SumMost ==
  ASSUME NEW n \in Nat, NEW f \in [1 .. n -> Int], NEW g \in [1 .. n -> Int], NEW s, NEW t,
         \A i \in 1 .. n : i \in s /\ i \in t => f[i] <= g[i],
         \A i \in 1 .. n : i \in s /\ i \notin t => f[i] <= 0,
         \A i \in 1 .. n : i \notin s /\ i \in t => 0 <= g[i]
  PROVE  SumOf(f, s, n) <= SumOf(g, t, n)
<1>1. PICK a \in [Nat -> Int], b \in [Nat -> Int] : a = Share(f, s, n) /\ b = Share(g, t, n)
  BY ShareType
<1>2. ASSUME NEW i \in 1 .. n PROVE a[i] <= b[i]
  <2>1. /\ a[i] = (IF i \in s THEN f[i] ELSE 0)
        /\ b[i] = (IF i \in t THEN g[i] ELSE 0)
    <3>1. a[i] = (IF i \in s THEN f[i] ELSE 0)
      <4>1. Share(f, s, n)[i] = (IF i \in s THEN f[i] ELSE 0)
        BY ShareAt
      <4>2. a = Share(f, s, n)
        BY <1>1
      <4> QED BY <4>1, <4>2
    <3>2. b[i] = (IF i \in t THEN g[i] ELSE 0)
      <4>1. Share(g, t, n)[i] = (IF i \in t THEN g[i] ELSE 0)
        BY ShareAt
      <4>2. b = Share(g, t, n)
        BY <1>1
      <4> QED BY <4>1, <4>2
    <3> QED BY <3>1, <3>2
  <2>2. CASE i \in s /\ i \in t
    BY <2>1, <2>2
  <2>3. CASE i \in s /\ i \notin t
    BY <2>1, <2>3
  <2>4. CASE i \notin s /\ i \in t
    BY <2>1, <2>4
  <2>5. CASE i \notin s /\ i \notin t
    BY <2>1, <2>5
  <2> QED BY <2>2, <2>3, <2>4, <2>5
<1>3. Total(a, n) <= Total(b, n)
  BY <1>2, TotalMost
<1> QED BY <1>1, <1>3 DEF SumOf

(* Sums of numbers that add up. *)
LEMMA SumAdd ==
  ASSUME NEW n \in Nat, NEW f \in [1 .. n -> Int], NEW g \in [1 .. n -> Int], NEW h \in [1 .. n -> Int], NEW s,
         \A i \in 1 .. n : i \in s => h[i] = f[i] + g[i]
  PROVE  SumOf(h, s, n) = SumOf(f, s, n) + SumOf(g, s, n)
<1>1. PICK a \in [Nat -> Int], b \in [Nat -> Int], c \in [Nat -> Int] :
        a = Share(f, s, n) /\ b = Share(g, s, n) /\ c = Share(h, s, n)
  BY ShareType
<1>2. ASSUME NEW i \in 1 .. n PROVE c[i] = a[i] + b[i]
  <2>1. /\ a[i] = (IF i \in s THEN f[i] ELSE 0)
        /\ b[i] = (IF i \in s THEN g[i] ELSE 0)
        /\ c[i] = (IF i \in s THEN h[i] ELSE 0)
    <3>1. a[i] = (IF i \in s THEN f[i] ELSE 0)
      <4>1. Share(f, s, n)[i] = (IF i \in s THEN f[i] ELSE 0)
        BY ShareAt, SMTT(30)
      <4>2. a = Share(f, s, n)
        BY <1>1
      <4> QED BY <4>1, <4>2
    <3>2. b[i] = (IF i \in s THEN g[i] ELSE 0)
      <4>1. Share(g, s, n)[i] = (IF i \in s THEN g[i] ELSE 0)
        BY ShareAt, SMTT(30)
      <4>2. b = Share(g, s, n)
        BY <1>1
      <4> QED BY <4>1, <4>2
    <3>3. c[i] = (IF i \in s THEN h[i] ELSE 0)
      <4>1. Share(h, s, n)[i] = (IF i \in s THEN h[i] ELSE 0)
        BY ShareAt, SMTT(30)
      <4>2. c = Share(h, s, n)
        BY <1>1
      <4> QED BY <4>1, <4>2
    <3> QED BY <3>1, <3>2, <3>3
  <2>2. CASE i \in s
    BY <2>1, <2>2
  <2>3. CASE i \notin s
    BY <2>1, <2>3
  <2> QED BY <2>2, <2>3
<1>3. Total(c, n) = Total(a, n) + Total(b, n)
  BY <1>2, TotalAdd
<1> QED BY <1>1, <1>3 DEF SumOf

LEMMA SumTimes ==
  ASSUME NEW n \in Nat, NEW f \in [1 .. n -> Int], NEW g \in [1 .. n -> Int], NEW c \in Int, NEW s,
         \A i \in 1 .. n : i \in s => g[i] = c * f[i]
  PROVE  SumOf(g, s, n) = c * SumOf(f, s, n)
<1>1. PICK a \in [Nat -> Int], b \in [Nat -> Int] : a = Share(f, s, n) /\ b = Share(g, s, n)
  BY ShareType
<1>2. ASSUME NEW i \in 1 .. n PROVE b[i] = c * a[i]
  <2>1. /\ a[i] = (IF i \in s THEN f[i] ELSE 0)
        /\ b[i] = (IF i \in s THEN g[i] ELSE 0)
    <3>1. a[i] = (IF i \in s THEN f[i] ELSE 0)
      <4>1. Share(f, s, n)[i] = (IF i \in s THEN f[i] ELSE 0)
        BY ShareAt
      <4>2. a = Share(f, s, n)
        BY <1>1
      <4> QED BY <4>1, <4>2
    <3>2. b[i] = (IF i \in s THEN g[i] ELSE 0)
      <4>1. Share(g, s, n)[i] = (IF i \in s THEN g[i] ELSE 0)
        BY ShareAt
      <4>2. b = Share(g, s, n)
        BY <1>1
      <4> QED BY <4>1, <4>2
    <3> QED BY <3>1, <3>2
  <2>2. CASE i \in s
    BY <2>1, <2>2
  <2>3. CASE i \notin s
    <3>1. c * 0 = 0
      OBVIOUS
    <3> QED BY <2>1, <2>3, <3>1
  <2> QED BY <2>2, <2>3
<1>3. Total(b, n) = c * Total(a, n)
  BY <1>2, TotalTimes
<1> QED BY <1>1, <1>3 DEF SumOf

(* Equal numbers, as many as the set has places. *)
LEMMA SumEqual ==
  ASSUME NEW n \in Nat, NEW f \in [1 .. n -> Int], NEW c \in Int, NEW s \in SUBSET (1 .. n),
         \A i \in s : f[i] = c
  PROVE  IsFiniteSet(s) /\ Cardinality(s) \in Nat /\ SumOf(f, s, n) = Cardinality(s) * c
<1>1. ASSUME NEW t \in SUBSET (1 .. n) PROVE IsFiniteSet(t) /\ Cardinality(t) \in Nat
  <2>1. IsFiniteSet(1 .. n)
    BY FS_Interval
  <2>2. IsFiniteSet(t)
    BY <2>1, FS_Subset
  <2> QED BY <2>2, FS_CardinalityType
<1> DEFINE Bad == {k \in Nat : \E t \in SUBSET s : Cardinality(t) = k /\ SumOf(f, t, n) # k * c}
<1>2. Bad = {}
  <2>1. SUFFICES ASSUME Bad # {} PROVE FALSE
    OBVIOUS
  <2>2. PICK k \in Bad : \A y \in Bad : k <= y
    <3>1. Bad \subseteq Nat
      OBVIOUS
    <3> HIDE DEF Bad
    <3> QED BY <2>1, <3>1, LeastNatural
  <2>3. PICK t \in SUBSET s : Cardinality(t) = k /\ SumOf(f, t, n) # k * c
    BY <2>2
  <2>4. k \in Nat /\ t \in SUBSET (1 .. n) /\ IsFiniteSet(t)
    BY <1>1, <2>2
  <2>5. t # {}
    <3>1. SUFFICES ASSUME t = {} PROVE FALSE
      OBVIOUS
    <3>2. k = 0 /\ 0 * c = 0
      BY <2>3, <3>1, FS_EmptySet
    <3> QED BY <2>3, <3>1, <3>2, SumEmpty
  <2>6. PICK x \in t : TRUE
    BY <2>5
  <2>7. Cardinality(t \ {x}) = k - 1 /\ Cardinality(t \ {x}) \in Nat
    <3>1. Cardinality(t \ {x}) = Cardinality(t) - 1
      <4>1. IsFiniteSet(t) /\ x \in t
        BY <2>4, <2>6
      <4> QED BY <4>1, FS_RemoveElement
    <3>2. t \ {x} \in SUBSET (1 .. n)
      BY <2>4
    <3> QED BY <1>1, <2>3, <3>1, <3>2
  <2>8. SumOf(f, t \ {x}, n) = (k - 1) * c
    <3>1. k - 1 \in Nat /\ ~(k <= k - 1)
      BY <2>4, <2>7
    <3>2. k - 1 \notin Bad
      <4> HIDE DEF Bad
      <4> QED BY <2>2, <3>1
    <3>3. t \ {x} \in SUBSET s
      OBVIOUS
    <3> QED BY <2>7, <3>1, <3>2, <3>3
  <2>9. SumOf(f, t, n) = f[x] + SumOf(f, t \ {x}, n)
    BY <2>4, <2>6, SumMore
  <2>10. f[x] = c
    BY <2>6
  <2>11. c + (k - 1) * c = k * c
    BY <2>4
  <2> QED BY <2>3, <2>8, <2>9, <2>10, <2>11
<1>3. s \in SUBSET s /\ Cardinality(s) \in Nat
  BY <1>1
<1> QED BY <1>1, <1>2, <1>3

----------------------------------------------------------------------------
(* The folds of the community modules sum up *)

Chosen(s) == CHOOSE x \in s : TRUE

(* it folds the numbers of f over the sets of places. *)
Folds(it, f, S) == it = [s \in SUBSET S |-> IF s = {} THEN 0 ELSE f[Chosen(s)] + it[s \ {Chosen(s)}]]

LEMMA FoldSums ==
  ASSUME NEW n \in Nat, NEW f \in [1 .. n -> Int], NEW S \in SUBSET (1 .. n)
  PROVE  (CHOOSE it : Folds(it, f, S))[S] = SumOf(f, S, n)
<1>1. \E it : Folds(it, f, S)
  <2> DEFINE g == [s \in SUBSET S |-> SumOf(f, s, n)]
  <2>1. ASSUME NEW s \in SUBSET S PROVE g[s] = IF s = {} THEN 0 ELSE f[Chosen(s)] + g[s \ {Chosen(s)}]
    <3>1. CASE s = {}
      BY <3>1, SumEmpty
    <3>2. CASE s # {}
      <4>1. Chosen(s) \in s /\ Chosen(s) \in 1 .. n /\ s \ {Chosen(s)} \in SUBSET S
        BY <3>2 DEF Chosen
      <4>2. SumOf(f, s, n) = f[Chosen(s)] + SumOf(f, s \ {Chosen(s)}, n)
        BY <4>1, SumMore
      <4> QED BY <3>2, <4>1, <4>2
    <3> QED BY <3>1, <3>2
  <2>2. g = [s \in SUBSET S |-> IF s = {} THEN 0 ELSE f[Chosen(s)] + g[s \ {Chosen(s)}]]
    <3>1. g = [s \in SUBSET S |-> g[s]]
      OBVIOUS
    <3> HIDE DEF g
    <3>2. [s \in SUBSET S |-> g[s]] = [s \in SUBSET S |-> IF s = {} THEN 0 ELSE f[Chosen(s)] + g[s \ {Chosen(s)}]]
      BY <2>1
    <3> QED BY <3>1, <3>2
  <2> HIDE DEF g
  <2> QED BY <2>2 DEF Folds
<1>2. PICK it : it = (CHOOSE h : Folds(h, f, S)) /\ Folds(it, f, S)
  BY <1>1
<1>3. \A s \in SUBSET S : it[s] = IF s = {} THEN 0 ELSE f[Chosen(s)] + it[s \ {Chosen(s)}]
  <2>1. it = [s \in SUBSET S |-> IF s = {} THEN 0 ELSE f[Chosen(s)] + it[s \ {Chosen(s)}]]
    BY <1>2 DEF Folds
  <2> QED BY <2>1
<1>4. ASSUME NEW t \in SUBSET S PROVE IsFiniteSet(t) /\ Cardinality(t) \in Nat
  <2>1. IsFiniteSet(1 .. n) /\ t \in SUBSET (1 .. n)
    BY FS_Interval
  <2>2. IsFiniteSet(t)
    BY <2>1, FS_Subset
  <2> QED BY <2>2, FS_CardinalityType
<1> DEFINE Bad == {k \in Nat : \E t \in SUBSET S : Cardinality(t) = k /\ it[t] # SumOf(f, t, n)}
<1>5. Bad = {}
  <2>1. SUFFICES ASSUME Bad # {} PROVE FALSE
    OBVIOUS
  <2>2. PICK k \in Bad : \A y \in Bad : k <= y
    <3>1. Bad \subseteq Nat
      OBVIOUS
    <3> HIDE DEF Bad
    <3> QED BY <2>1, <3>1, LeastNatural
  <2>3. PICK t \in SUBSET S : Cardinality(t) = k /\ it[t] # SumOf(f, t, n)
    BY <2>2
  <2>4. k \in Nat /\ IsFiniteSet(t)
    BY <1>4, <2>2
  <2>5. t # {}
    BY <1>3, <2>3, SumEmpty
  <2>6. Chosen(t) \in t /\ Chosen(t) \in 1 .. n /\ t \ {Chosen(t)} \in SUBSET S
    BY <2>5 DEF Chosen
  <2>7. Cardinality(t \ {Chosen(t)}) = k - 1 /\ k - 1 \in Nat
    <3>1. Cardinality(t \ {Chosen(t)}) = Cardinality(t) - 1
      <4>1. PICK x \in t : x = Chosen(t)
        BY <2>6
      <4>2. IsFiniteSet(t)
        BY <2>4
      <4>3. Cardinality(t \ {x}) = Cardinality(t) - 1
        BY <4>2, FS_RemoveElement
      <4> QED BY <4>1, <4>3
    <3> QED BY <1>4, <2>3, <2>6, <3>1
  <2>8. it[t \ {Chosen(t)}] = SumOf(f, t \ {Chosen(t)}, n)
    <3>1. ~(k <= k - 1)
      BY <2>4
    <3>2. k - 1 \notin Bad
      <4> HIDE DEF Bad
      <4> QED BY <2>2, <2>7, <3>1
    <3> QED BY <2>6, <2>7, <3>2
  <2>9. it[t] = f[Chosen(t)] + it[t \ {Chosen(t)}]
    BY <1>3, <2>5
  <2>10. SumOf(f, t, n) = f[Chosen(t)] + SumOf(f, t \ {Chosen(t)}, n)
    BY <2>6, SumMore
  <2> QED BY <2>3, <2>8, <2>9, <2>10
<1>6. S \in SUBSET S /\ Cardinality(S) \in Nat
  BY <1>4
<1>7. it[S] = SumOf(f, S, n)
  BY <1>5, <1>6
<1> QED BY <1>2, <1>7

LEMMA FunctionSum ==
  ASSUME NEW n \in Nat, NEW f \in [1 .. n -> Int], NEW S \in SUBSET (1 .. n)
  PROVE  SumFunctionOnSet(f, S) = SumOf(f, S, n)
<1>1. SumFunctionOnSet(f, S) = (CHOOSE it : Folds(it, f, S))[S]
  BY DEF SumFunctionOnSet, FoldFunctionOnSet, MapThenFoldSet, Folds, Chosen
<1> QED BY <1>1, FoldSums

(* The tokens of a set of rows *)
LEMMA TokensSum ==
  ASSUME NEW n \in Nat, NEW lens \in [1 .. n -> Int], NEW set \in Seq(1 .. n)
  PROVE  Tokens(lens, set) = SumOf(lens, Range(set), n)
<1>1. Range(set) \in SUBSET (1 .. n)
  BY DEF Range
<1> QED BY <1>1, FunctionSum DEF Tokens

----------------------------------------------------------------------------
(* Lemmas on orders *)

(* R orders the members of S. *)
Orders(R, S) ==
  /\ \A x \in S : <<x, x>> \notin R
  /\ \A x, y, z \in S : <<x, y>> \in R /\ <<y, z>> \in R => <<x, z>> \in R
  /\ \A x, y \in S : x # y => <<x, y>> \in R \/ <<y, x>> \in R

Before(S, R, x) == {y \in S : <<y, x>> \in R}

(* ord has at k a member of S that k - 1 members come before, if there is one. *)
Ranks(ord, S, R) ==
  \A k \in 1 .. Cardinality(S) :
    (\E x \in S : Cardinality(Before(S, R, x)) = k - 1) => ord[k] \in S /\ Cardinality(Before(S, R, ord[k])) = k - 1

(* ord lists the n members of S, each once, as R orders them. *)
Lists(ord, n, S, R) ==
  /\ ord \in [1 .. n -> S]
  /\ \A x \in S : \E i \in 1 .. n : ord[i] = x
  /\ \A i, j \in 1 .. n : i < j => <<ord[i], ord[j]>> \in R
  /\ \A i, j \in 1 .. n : ord[i] = ord[j] => i = j

LEMMA RankedLists ==
  ASSUME NEW S, NEW R, NEW ord, IsFiniteSet(S), Orders(R, S),
         ord = [k \in 1 .. Cardinality(S) |-> ord[k]], Ranks(ord, S, R)
  PROVE  Cardinality(S) \in Nat /\ Lists(ord, Cardinality(S), S, R)
<1> DEFINE rank == [x \in S |-> Cardinality(Before(S, R, x))]
           n == Cardinality(S)
<1>1. n \in Nat
  BY FS_CardinalityType
<1>2. ASSUME NEW x \in S PROVE IsFiniteSet(Before(S, R, x)) /\ rank[x] \in 0 .. n - 1
  <2>1. Before(S, R, x) \in SUBSET S /\ x \notin Before(S, R, x)
    BY DEF Before, Orders
  <2>2. IsFiniteSet(Before(S, R, x)) /\ Cardinality(Before(S, R, x)) <= n
        /\ (Cardinality(S) = Cardinality(Before(S, R, x)) => S = Before(S, R, x))
    BY <2>1, FS_Subset
  <2>3. Cardinality(Before(S, R, x)) \in Nat
    BY <2>2, FS_CardinalityType
  <2>4. Cardinality(Before(S, R, x)) # n
    BY <2>1, <2>2
  <2> QED BY <1>1, <2>2, <2>3, <2>4
<1>3. ASSUME NEW x \in S, NEW y \in S, <<x, y>> \in R PROVE rank[x] < rank[y]
  <2>1. Before(S, R, x) \in SUBSET Before(S, R, y)
    BY <1>3 DEF Before, Orders
  <2>2. x \in Before(S, R, y) /\ x \notin Before(S, R, x)
    BY <1>3 DEF Before, Orders
  <2>3. IsFiniteSet(Before(S, R, y))
    BY <1>2
  <2>4. /\ Cardinality(Before(S, R, x)) <= Cardinality(Before(S, R, y))
        /\ Cardinality(Before(S, R, y)) = Cardinality(Before(S, R, x)) => Before(S, R, y) = Before(S, R, x)
    BY <2>1, <2>3, FS_Subset
  <2>5. Cardinality(Before(S, R, x)) # Cardinality(Before(S, R, y))
    BY <2>2, <2>4
  <2>6. rank[x] = Cardinality(Before(S, R, x)) /\ rank[y] = Cardinality(Before(S, R, y))
    OBVIOUS
  <2>7. rank[x] \in 0 .. n - 1 /\ rank[y] \in 0 .. n - 1
    BY <1>2
  <2> QED BY <1>1, <2>4, <2>5, <2>6, <2>7
<1>4. rank \in [S -> 0 .. n - 1]
  BY <1>2
<1>5. \A x \in S : rank[x] = Cardinality(Before(S, R, x))
  OBVIOUS
<1> HIDE DEF rank
<1>6. ASSUME NEW x \in S, NEW y \in S, rank[x] = rank[y] PROVE x = y
  <2>1. rank[x] \in Int /\ ~(rank[x] < rank[y]) /\ ~(rank[y] < rank[x])
    BY <1>1, <1>4, <1>6
  <2> QED BY <1>3, <2>1 DEF Orders
<1>7. rank \in Injection(S, 0 .. n - 1)
  BY <1>4, <1>6 DEF Injection, IsInjective
<1>8. IsFiniteSet(0 .. n - 1) /\ Cardinality(0 .. n - 1) = n
  <2>1. 0 \in Int /\ n - 1 \in Int
    BY <1>1
  <2>2. IsFiniteSet(0 .. n - 1) /\ Cardinality(0 .. n - 1) = IF 0 > n - 1 THEN 0 ELSE n - 1 - 0 + 1
    BY <2>1, FS_Interval
  <2> QED BY <1>1, <2>2
<1>9. rank \in Surjection(S, 0 .. n - 1)
  BY <1>7, <1>8, FS_Injection
<1>10. \A i \in 1 .. n : \E x \in S : rank[x] = i - 1
  <2>1. \A i \in 1 .. n : i - 1 \in 0 .. n - 1
    BY <1>1
  <2> QED BY <1>9, <2>1 DEF Surjection
<1>13. ASSUME NEW i \in 1 .. n PROVE ord[i] \in S /\ rank[ord[i]] = i - 1
  <2>1. \E x \in S : Cardinality(Before(S, R, x)) = i - 1
    BY <1>5, <1>10
  <2>2. ord[i] \in S /\ Cardinality(Before(S, R, ord[i])) = i - 1
    BY <2>1 DEF Ranks
  <2> QED BY <1>5, <2>2
<1>14. ord \in [1 .. n -> S]
  BY <1>13
<1>15. ASSUME NEW i \in 1 .. n, NEW j \in 1 .. n, i < j PROVE <<ord[i], ord[j]>> \in R
  <2>1. rank[ord[i]] = i - 1 /\ rank[ord[j]] = j - 1 /\ ord[i] \in S /\ ord[j] \in S
    BY <1>13
  <2>2. ord[i] # ord[j] /\ ~(rank[ord[j]] < rank[ord[i]])
    BY <1>1, <1>15, <2>1
  <2> QED BY <1>3, <2>1, <2>2 DEF Orders
<1>16. ASSUME NEW x \in S PROVE \E i \in 1 .. n : ord[i] = x
  <2>1. rank[x] \in 0 .. n - 1
    BY <1>4
  <2>2. PICK i \in 1 .. n : i = rank[x] + 1
    BY <1>1, <2>1
  <2>3. rank[ord[i]] = rank[x] /\ ord[i] \in S
    BY <1>1, <1>13, <2>1, <2>2
  <2> QED BY <1>6, <2>3
<1>17. ASSUME NEW i \in 1 .. n, NEW j \in 1 .. n, ord[i] = ord[j] PROVE i = j
  <2>1. i - 1 = j - 1
    BY <1>13, <1>17
  <2> QED BY <1>1, <2>1
<1> QED BY <1>1, <1>14, <1>15, <1>16, <1>17 DEF Lists

----------------------------------------------------------------------------
(* The order of sets of rows *)

(* a is before b in the order of the numbers in it. *)
Lex(a, b) == \E m \in DOMAIN a : a[m] < b[m] /\ \A j \in 1 .. m - 1 : a[j] = b[j]

LEMMA LexOrders ==
  ASSUME NEW a \in Seq(Nat), NEW b \in Seq(Nat), NEW c \in Seq(Nat), Len(a) = Len(b), Len(b) = Len(c)
  PROVE  /\ ~Lex(a, a)
         /\ Lex(a, b) /\ Lex(b, c) => Lex(a, c)
         /\ a # b => Lex(a, b) \/ Lex(b, a)
<1>0. DOMAIN a = 1 .. Len(a) /\ DOMAIN b = 1 .. Len(a) /\ DOMAIN c = 1 .. Len(a) /\ Len(a) \in Nat
  OBVIOUS
<1>1. \A i \in 1 .. Len(a) : a[i] \in Nat /\ b[i] \in Nat /\ c[i] \in Nat
  BY <1>0
<1>2. ~Lex(a, a)
  BY <1>0, <1>1 DEF Lex
<1>3. ASSUME Lex(a, b), Lex(b, c) PROVE Lex(a, c)
  <2>1. PICK i \in 1 .. Len(a) : a[i] < b[i] /\ \A j \in 1 .. i - 1 : a[j] = b[j]
    BY <1>0, <1>3 DEF Lex
  <2>2. PICK m \in 1 .. Len(a) : b[m] < c[m] /\ \A j \in 1 .. m - 1 : b[j] = c[j]
    BY <1>0, <1>3 DEF Lex
  <2>3. CASE i < m
    <3>1. i \in 1 .. m - 1 /\ \A j \in 1 .. i - 1 : j \in 1 .. m - 1
      BY <1>0, <2>3
    <3>2. a[i] < c[i] /\ \A j \in 1 .. i - 1 : a[j] = c[j]
      BY <2>1, <2>2, <3>1
    <3> QED BY <1>0, <3>2 DEF Lex
  <2>4. CASE i = m
    <3>1. a[i] < c[i] /\ \A j \in 1 .. i - 1 : a[j] = c[j]
      BY <1>1, <2>1, <2>2, <2>4
    <3> QED BY <1>0, <3>1 DEF Lex
  <2>5. CASE m < i
    <3>1. m \in 1 .. i - 1 /\ \A j \in 1 .. m - 1 : j \in 1 .. i - 1
      BY <1>0, <2>5
    <3>2. a[m] < c[m] /\ \A j \in 1 .. m - 1 : a[j] = c[j]
      BY <2>1, <2>2, <3>1
    <3> QED BY <1>0, <3>2 DEF Lex
  <2> QED BY <1>0, <2>3, <2>4, <2>5
<1>4. ASSUME a # b PROVE Lex(a, b) \/ Lex(b, a)
  <2> DEFINE Bad == {i \in 1 .. Len(a) : a[i] # b[i]}
  <2>1. Bad # {}
    BY <1>0, <1>4, SameSequence
  <2>2. PICK i \in Bad : \A j \in Bad : i <= j
    <3>1. Bad \subseteq Nat
      BY <1>0
    <3> HIDE DEF Bad
    <3> QED BY <2>1, <3>1, LeastNatural
  <2>3. i \in 1 .. Len(a) /\ a[i] # b[i]
    BY <2>2
  <2>4. \A j \in 1 .. i - 1 : a[j] = b[j]
    <3> TAKE j \in 1 .. i - 1
    <3>1. j \in 1 .. Len(a) /\ ~(i <= j)
      BY <1>0, <2>3
    <3>2. j \notin Bad
      <4> HIDE DEF Bad
      <4> QED BY <2>2, <3>1
    <3> QED BY <3>1, <3>2
  <2>5. a[i] < b[i] \/ b[i] < a[i]
    BY <1>1, <2>3
  <2>6. \A j \in 1 .. i - 1 : b[j] = a[j]
    BY <2>4
  <2> QED BY <1>0, <2>3, <2>4, <2>5, <2>6 DEF Lex
<1> QED BY <1>2, <1>3, <1>4

LEMMA TokensType ==
  ASSUME NEW n \in Nat, NEW lens \in [1 .. n -> Int], NEW a \in Seq(1 .. n)
  PROVE  Tokens(lens, a) \in Int
<1>1. Tokens(lens, a) = SumOf(lens, Range(a), n)
  BY TokensSum
<1>2. SumOf(lens, Range(a), n) \in Int
  BY SumType
<1> QED BY <1>1, <1>2

LEMMA SetLessOrders ==
  ASSUME NEW n \in Nat, NEW lens \in [1 .. n -> Int],
         NEW a \in Seq(1 .. n), NEW b \in Seq(1 .. n), NEW c \in Seq(1 .. n)
  PROVE  /\ ~SetLess(lens, a, a)
         /\ SetLess(lens, a, b) /\ SetLess(lens, b, c) => SetLess(lens, a, c)
         /\ a # b => SetLess(lens, a, b) \/ SetLess(lens, b, a)
         /\ SetLess(lens, a, b) => Tokens(lens, a) <= Tokens(lens, b)
<1>1. PICK t \in Int, u \in Int, v \in Int : t = Tokens(lens, a) /\ u = Tokens(lens, b) /\ v = Tokens(lens, c)
  <2>1. Tokens(lens, a) \in Int
    BY TokensType
  <2>2. Tokens(lens, b) \in Int
    BY TokensType
  <2>3. Tokens(lens, c) \in Int
    BY TokensType
  <2> QED BY <2>1, <2>2, <2>3
<1>2. a \in Seq(Nat) /\ b \in Seq(Nat) /\ c \in Seq(Nat)
  <2>1. 1 .. n \subseteq Nat
    OBVIOUS
  <2> QED BY <2>1
<1>3. PICK l \in Int, m \in Int, o \in Int : l = Len(a) /\ m = Len(b) /\ o = Len(c)
  OBVIOUS
<1>4. /\ SetLess(lens, a, b) <=> t < u \/ (t = u /\ l < m) \/ (t = u /\ l = m /\ Lex(a, b))
      /\ SetLess(lens, b, a) <=> u < t \/ (u = t /\ m < l) \/ (u = t /\ m = l /\ Lex(b, a))
      /\ SetLess(lens, b, c) <=> u < v \/ (u = v /\ m < o) \/ (u = v /\ m = o /\ Lex(b, c))
      /\ SetLess(lens, a, c) <=> t < v \/ (t = v /\ l < o) \/ (t = v /\ l = o /\ Lex(a, c))
  BY <1>1, <1>3 DEF SetLess, Lex
<1>5. ~SetLess(lens, a, a)
  <2>1. SetLess(lens, a, a) <=> t < t \/ (t = t /\ l < l) \/ (t = t /\ l = l /\ Lex(a, a))
    BY <1>1, <1>3 DEF SetLess, Lex
  <2>2. ~Lex(a, a)
    BY <1>2, LexOrders
  <2> QED BY <2>1, <2>2
<1>6. SetLess(lens, a, b) /\ SetLess(lens, b, c) => SetLess(lens, a, c)
  <2>1. l = m /\ m = o => (Lex(a, b) /\ Lex(b, c) => Lex(a, c))
    BY <1>2, <1>3, LexOrders
  <2> QED BY <1>4, <2>1
<1>7. a # b => SetLess(lens, a, b) \/ SetLess(lens, b, a)
  <2>1. l = m /\ a # b => Lex(a, b) \/ Lex(b, a)
    <3>1. SUFFICES ASSUME l = m, a # b PROVE Lex(a, b) \/ Lex(b, a)
      OBVIOUS
    <3>2. Len(a) = Len(b) /\ Len(b) = Len(b)
      BY <1>3, <3>1
    <3> QED BY <1>2, <3>1, <3>2, LexOrders
  <2> QED BY <1>4, <2>1
<1>8. SetLess(lens, a, b) => Tokens(lens, a) <= Tokens(lens, b)
  BY <1>1, <1>4
<1> QED BY <1>5, <1>6, <1>7, <1>8

(* The order of the places of sets, the heaviest first. *)
PlacesOrder(lens, sets, k) ==
  {p \in (1 .. k) \X (1 .. k) : SetLess(lens, sets[p[2]], sets[p[1]]) \/ (sets[p[1]] = sets[p[2]] /\ p[1] < p[2])}

LEMMA PlacesInOrder ==
  ASSUME NEW n \in Nat, NEW lens \in [1 .. n -> Int], NEW k \in Nat, NEW sets \in [1 .. k -> Seq(1 .. n)]
  PROVE  Orders(PlacesOrder(lens, sets, k), 1 .. k)
<1>1. PICK R : R = PlacesOrder(lens, sets, k)
  OBVIOUS
<1>2. \A i, j \in 1 .. k : <<i, j>> \in R <=> SetLess(lens, sets[j], sets[i]) \/ (sets[i] = sets[j] /\ i < j)
  BY <1>1 DEF PlacesOrder
<1>3. ASSUME NEW x \in 1 .. k PROVE <<x, x>> \notin R
  <2>1. sets[x] \in Seq(1 .. n) /\ ~(x < x)
    OBVIOUS
  <2>2. ~SetLess(lens, sets[x], sets[x])
    BY <2>1, SetLessOrders
  <2> QED BY <1>2, <2>1, <2>2
<1>4. ASSUME NEW x \in 1 .. k, NEW y \in 1 .. k, NEW z \in 1 .. k, <<x, y>> \in R, <<y, z>> \in R
      PROVE  <<x, z>> \in R
  <2>1. /\ SetLess(lens, sets[y], sets[x]) \/ (sets[x] = sets[y] /\ x < y)
        /\ SetLess(lens, sets[z], sets[y]) \/ (sets[y] = sets[z] /\ y < z)
    BY <1>2, <1>4
  <2>0. sets[x] \in Seq(1 .. n) /\ sets[y] \in Seq(1 .. n) /\ sets[z] \in Seq(1 .. n)
    OBVIOUS
  <2>2. SetLess(lens, sets[z], sets[y]) /\ SetLess(lens, sets[y], sets[x]) => SetLess(lens, sets[z], sets[x])
    BY <2>0, SetLessOrders
  <2>3. x < y /\ y < z => x < z
    OBVIOUS
  <2>4. SetLess(lens, sets[z], sets[x]) \/ (sets[x] = sets[z] /\ x < z)
    BY <2>1, <2>2, <2>3
  <2> QED BY <1>2, <2>4
<1>5. ASSUME NEW x \in 1 .. k, NEW y \in 1 .. k, x # y PROVE <<x, y>> \in R \/ <<y, x>> \in R
  <2>0. sets[x] \in Seq(1 .. n) /\ sets[y] \in Seq(1 .. n)
    OBVIOUS
  <2>1. sets[x] # sets[y] => SetLess(lens, sets[x], sets[y]) \/ SetLess(lens, sets[y], sets[x])
    BY <2>0, SetLessOrders
  <2>2. x < y \/ y < x
    BY <1>5
  <2> QED BY <1>2, <2>1, <2>2
<1>6. Orders(R, 1 .. k)
  BY <1>3, <1>4, <1>5 DEF Orders
<1> QED BY <1>1, <1>6

(* The sets in another order *)
Rearrangement(ord, k) ==
  /\ ord \in [1 .. k -> 1 .. k]
  /\ \A x \in 1 .. k : \E i \in 1 .. k : ord[i] = x
  /\ \A i, j \in 1 .. k : ord[i] = ord[j] => i = j

(* Sorting puts the sets into another order, in which their tokens fall. *)
LEMMA Heaviest ==
  ASSUME NEW n \in Nat, NEW lens \in [1 .. n -> Int], NEW k \in Nat, NEW sets \in [1 .. k -> Seq(1 .. n)]
  PROVE  \E ord : /\ Rearrangement(ord, k)
                  /\ HeaviestFirst(lens, sets) = [i \in 1 .. k |-> sets[ord[i]]]
                  /\ \A i, j \in 1 .. k : i <= j => Tokens(lens, sets[ord[j]]) <= Tokens(lens, sets[ord[i]])
<1>1. PICK R : R = PlacesOrder(lens, sets, k) /\ Orders(R, 1 .. k)
  BY PlacesInOrder
<1>2. DOMAIN sets = 1 .. k /\ Len(sets) = k /\ sets \in Seq(Seq(1 .. n))
  OBVIOUS
<1>3. IsFiniteSet(1 .. k) /\ Cardinality(1 .. k) = k
  BY FS_Interval
<1>4. PICK ord : ord = InOrder(1 .. k, LAMBDA i, j : SetLess(lens, sets[j], sets[i]) \/ (sets[i] = sets[j] /\ i < j))
  OBVIOUS
<1>5. ord = [m \in 1 .. k |-> CHOOSE x \in 1 .. k :
               Cardinality({y \in 1 .. k : SetLess(lens, sets[x], sets[y]) \/ (sets[y] = sets[x] /\ y < x)}) = m - 1]
  BY <1>3, <1>4 DEF InOrder
<1>6. \A x \in 1 .. k : {y \in 1 .. k : SetLess(lens, sets[x], sets[y]) \/ (sets[y] = sets[x] /\ y < x)} = Before(1 .. k, R, x)
  BY <1>1 DEF Before, PlacesOrder
<1>7. ASSUME NEW m \in 1 .. k, NEW x \in 1 .. k, Cardinality(Before(1 .. k, R, x)) = m - 1
      PROVE  ord[m] \in 1 .. k /\ Cardinality(Before(1 .. k, R, ord[m])) = m - 1
  <2>1. \E v \in 1 .. k : Cardinality({y \in 1 .. k : SetLess(lens, sets[v], sets[y]) \/ (sets[y] = sets[v] /\ y < v)}) = m - 1
    BY <1>6, <1>7
  <2>2. ord[m] = CHOOSE v \in 1 .. k :
               Cardinality({y \in 1 .. k : SetLess(lens, sets[v], sets[y]) \/ (sets[y] = sets[v] /\ y < v)}) = m - 1
    BY <1>5
  <2>3. /\ ord[m] \in 1 .. k
        /\ Cardinality({y \in 1 .. k : SetLess(lens, sets[ord[m]], sets[y]) \/ (sets[y] = sets[ord[m]] /\ y < ord[m])}) = m - 1
    BY <2>1, <2>2
  <2> QED BY <1>6, <2>3
<1>8. Ranks(ord, 1 .. k, R)
  BY <1>3, <1>7 DEF Ranks
<1>9. ord = [m \in 1 .. Cardinality(1 .. k) |-> ord[m]]
  <2> DEFINE At(m) == CHOOSE x \in 1 .. k :
               Cardinality({y \in 1 .. k : SetLess(lens, sets[x], sets[y]) \/ (sets[y] = sets[x] /\ y < x)}) = m - 1
  <2>0. ord = [m \in 1 .. k |-> At(m)]
    BY <1>5
  <2> HIDE DEF At
  <2>1. ord = [m \in 1 .. k |-> ord[m]]
    BY <2>0
  <2> QED BY <1>3, <2>1
<1>10. Lists(ord, k, 1 .. k, R)
  <2>1. Lists(ord, Cardinality(1 .. k), 1 .. k, R)
    BY <1>1, <1>3, <1>8, <1>9, RankedLists
  <2> QED BY <1>3, <2>1
<1>11. Rearrangement(ord, k)
  BY <1>10 DEF Lists, Rearrangement
<1>12. HeaviestFirst(lens, sets) = [i \in 1 .. k |-> sets[ord[i]]]
  <2>1. HeaviestFirst(lens, sets) = SubSeq([i \in 1 .. k |-> sets[ord[i]]], 1, k)
    BY <1>2, <1>4 DEF HeaviestFirst
  <2>2. [i \in 1 .. k |-> sets[ord[i]]] \in Seq(Seq(1 .. n)) /\ Len([i \in 1 .. k |-> sets[ord[i]]]) = k
    BY <1>11 DEF Rearrangement
  <2> QED BY <2>1, <2>2, WholeSection
<1>13. ASSUME NEW i \in 1 .. k, NEW j \in 1 .. k, i <= j
       PROVE  Tokens(lens, sets[ord[j]]) <= Tokens(lens, sets[ord[i]])
  <2>1. sets[ord[i]] \in Seq(1 .. n) /\ sets[ord[j]] \in Seq(1 .. n)
    BY <1>11 DEF Rearrangement
  <2>2. Tokens(lens, sets[ord[i]]) \in Int /\ Tokens(lens, sets[ord[j]]) \in Int
    BY <2>1, TokensType
  <2>3. CASE i = j
    BY <2>2, <2>3
  <2>4. CASE i < j
    <3>1. <<ord[i], ord[j]>> \in R
      BY <1>10, <2>4 DEF Lists
    <3>2. SetLess(lens, sets[ord[j]], sets[ord[i]]) \/ sets[ord[i]] = sets[ord[j]]
      BY <1>1, <3>1 DEF PlacesOrder
    <3>3. SetLess(lens, sets[ord[j]], sets[ord[i]]) => Tokens(lens, sets[ord[j]]) <= Tokens(lens, sets[ord[i]])
      BY <2>1, SetLessOrders
    <3>4. sets[ord[i]] = sets[ord[j]] => Tokens(lens, sets[ord[j]]) <= Tokens(lens, sets[ord[i]])
      BY <2>2
    <3> QED BY <3>2, <3>3, <3>4
  <2> QED BY <1>13, <2>3, <2>4
<1> QED BY <1>11, <1>12, <1>13

----------------------------------------------------------------------------
(* Sets of rows that share none *)

(* Two places with the same row are the same. *)
Apart(s, k) ==
  \A i, j \in 1 .. k : \A a \in DOMAIN s[i], b \in DOMAIN s[j] : s[i][a] = s[j][b] => i = j /\ a = b

RowsIn(s, k) == UNION {Range(s[i]) : i \in 1 .. k}

(* As many rows as there are sets are enough to have one in each. *)
Wide(s, k) == (\A i \in 1 .. k : s[i] # << >>) \/ \A i \in 1 .. k : Len(s[i]) <= 1

(* No two sets are further apart than b. *)
Within(lens, k, b, s) == \A i, j \in 1 .. k : Tokens(lens, s[i]) - Tokens(lens, s[j]) <= b

SameLength(s, k) == \E c \in Nat : \A i \in 1 .. k : Len(s[i]) = c

IsSets(lens, n, k, equal, b, s) ==
  /\ s \in [1 .. k -> Seq(1 .. n)]
  /\ Apart(s, k) /\ Wide(s, k) /\ Within(lens, k, b, s)
  /\ equal => SameLength(s, k)
  /\ \E i \in 1 .. k : s[i] # << >>

IsState(lens, n, k, equal, b, s) ==
  /\ IsSets(lens, n, k, equal, b, s)
  /\ s[1] # << >>
  /\ \A i, j \in 1 .. k : i <= j => Tokens(lens, s[j]) <= Tokens(lens, s[i])

LEMMA TokensPositive ==
  ASSUME NEW n \in Nat, NEW lens \in [1 .. n -> Nat \ {0}], NEW a \in Seq(1 .. n)
  PROVE  /\ Tokens(lens, a) \in Nat
         /\ a = << >> => Tokens(lens, a) = 0
         /\ a # << >> => Tokens(lens, a) > 0
<1>0. lens \in [1 .. n -> Int]
  OBVIOUS
<1>1. Tokens(lens, a) = SumOf(lens, Range(a), n)
  BY <1>0, TokensSum
<1>2. ASSUME NEW S PROVE SumOf(lens, S, n) \in Int /\ 0 <= SumOf(lens, S, n)
  <2>1. SumOf(lens, S, n) \in Int
    BY <1>0, SumType
  <2>2. SumOf(lens, {}, n) <= SumOf(lens, S, n)
    <3>1. \A i \in 1 .. n : i \in {} /\ i \in S => lens[i] <= lens[i]
      OBVIOUS
    <3>2. \A i \in 1 .. n : i \in {} /\ i \notin S => lens[i] <= 0
      OBVIOUS
    <3>3. \A i \in 1 .. n : i \notin {} /\ i \in S => 0 <= lens[i]
      BY <1>0
    <3> QED BY <1>0, <3>1, <3>2, <3>3, SumMost
  <2>3. SumOf(lens, {}, n) = 0
    BY <1>0, SumEmpty
  <2> QED BY <2>1, <2>2, <2>3
<1>3. Tokens(lens, a) \in Nat
  BY <1>1, <1>2
<1>4. ASSUME a = << >> PROVE Tokens(lens, a) = 0
  <2>1. Range(a) = {}
    BY <1>4 DEF Range
  <2>2. SumOf(lens, {}, n) = 0
    BY <1>0, SumEmpty
  <2> QED BY <1>1, <2>1, <2>2
<1>5. ASSUME a # << >> PROVE Tokens(lens, a) > 0
  <2>1. 1 \in DOMAIN a
    BY <1>5
  <2>2. PICK x \in 1 .. n : x \in Range(a)
    BY <2>1 DEF Range
  <2>3. SumOf(lens, Range(a), n) = lens[x] + SumOf(lens, Range(a) \ {x}, n)
    BY <1>0, <2>2, SumMore
  <2>4. lens[x] \in Nat \ {0}
    OBVIOUS
  <2>5. SumOf(lens, Range(a) \ {x}, n) \in Int /\ 0 <= SumOf(lens, Range(a) \ {x}, n)
    BY <1>2
  <2> QED BY <1>1, <2>3, <2>4, <2>5
<1> QED BY <1>3, <1>4, <1>5

(* What holds of sets holds of them in another order. *)
LEMMA Reordered ==
  ASSUME NEW n \in Nat, NEW lens, NEW k \in Nat, NEW equal, NEW b, NEW s, IsSets(lens, n, k, equal, b, s),
         NEW ord, Rearrangement(ord, k), NEW h, h = [i \in 1 .. k |-> s[ord[i]]]
  PROVE  IsSets(lens, n, k, equal, b, h) /\ RowsIn(h, k) = RowsIn(s, k)
<1>1. /\ s \in [1 .. k -> Seq(1 .. n)]
      /\ Apart(s, k) /\ Wide(s, k) /\ Within(lens, k, b, s)
      /\ equal => SameLength(s, k)
      /\ \E i \in 1 .. k : s[i] # << >>
  BY DEF IsSets
<1>2. \A i \in 1 .. k : ord[i] \in 1 .. k /\ h[i] = s[ord[i]]
  BY DEF Rearrangement
<1>3. h \in [1 .. k -> Seq(1 .. n)]
  BY <1>1, <1>2
<1>4. Apart(h, k)
  <2>1. SUFFICES ASSUME NEW i \in 1 .. k, NEW j \in 1 .. k, NEW x \in DOMAIN h[i], NEW y \in DOMAIN h[j], h[i][x] = h[j][y]
                 PROVE  i = j /\ x = y
    BY DEF Apart
  <2>2. PICK p \in 1 .. k, q \in 1 .. k : p = ord[i] /\ q = ord[j] /\ h[i] = s[p] /\ h[j] = s[q]
    BY <1>2
  <2>3. p = q /\ x = y
    <3>1. x \in DOMAIN s[p] /\ y \in DOMAIN s[q] /\ s[p][x] = s[q][y]
      BY <2>1, <2>2
    <3>2. \A v, w \in 1 .. k : \A c \in DOMAIN s[v], d \in DOMAIN s[w] : s[v][c] = s[w][d] => v = w /\ c = d
      BY <1>1 DEF Apart
    <3> QED BY <3>1, <3>2
  <2> QED BY <2>2, <2>3 DEF Rearrangement
<1>5. Wide(h, k)
  BY <1>1, <1>2 DEF Wide
<1>6. Within(lens, k, b, h)
  BY <1>1, <1>2 DEF Within
<1>7. equal => SameLength(h, k)
  BY <1>1, <1>2 DEF SameLength
<1>8. \E i \in 1 .. k : h[i] # << >>
  BY <1>1, <1>2 DEF Rearrangement
<1>9. RowsIn(h, k) = RowsIn(s, k)
  <2>1. \A x : x \in RowsIn(h, k) => x \in RowsIn(s, k)
    BY <1>2 DEF RowsIn
  <2>2. ASSUME NEW x, x \in RowsIn(s, k) PROVE x \in RowsIn(h, k)
    <3>1. PICK i \in 1 .. k : x \in Range(s[i])
      BY <2>2 DEF RowsIn
    <3>2. PICK j \in 1 .. k : ord[j] = i
      BY DEF Rearrangement
    <3>3. x \in Range(h[j])
      BY <1>2, <3>1, <3>2
    <3> QED BY <3>3 DEF RowsIn
  <2> QED BY <2>1, <2>2
<1> QED BY <1>3, <1>4, <1>5, <1>6, <1>7, <1>8, <1>9 DEF IsSets

LEMMA SortedState ==
  ASSUME NEW n \in Nat, NEW lens \in [1 .. n -> Nat \ {0}], NEW k \in Nat \ {0}, NEW equal, NEW b, NEW s,
         IsSets(lens, n, k, equal, b, s)
  PROVE  IsState(lens, n, k, equal, b, HeaviestFirst(lens, s)) /\ RowsIn(HeaviestFirst(lens, s), k) = RowsIn(s, k)
<1>0. lens \in [1 .. n -> Int] /\ s \in [1 .. k -> Seq(1 .. n)] /\ k \in Nat
  BY SMTT(30) DEF IsSets
<1>1. PICK ord : /\ Rearrangement(ord, k)
                 /\ HeaviestFirst(lens, s) = [i \in 1 .. k |-> s[ord[i]]]
                 /\ \A i, j \in 1 .. k : i <= j => Tokens(lens, s[ord[j]]) <= Tokens(lens, s[ord[i]])
  BY <1>0, Heaviest, ZenonT(40)
<1>2. PICK h : h = [i \in 1 .. k |-> s[ord[i]]]
  OBVIOUS
<1>3. IsSets(lens, n, k, equal, b, h) /\ RowsIn(h, k) = RowsIn(s, k)
  <2>1. Rearrangement(ord, k)
    BY <1>1
  <2>2. k \in Nat /\ IsSets(lens, n, k, equal, b, s)
    BY <1>0
  <2> HIDE <1>1
  <2> QED BY <1>2, <2>1, <2>2, Reordered
<1>4. \A i, j \in 1 .. k : i <= j => Tokens(lens, h[j]) <= Tokens(lens, h[i])
  BY <1>1, <1>2
<1>5. h[1] # << >>
  <2>1. PICK i \in 1 .. k : h[i] # << >>
    BY <1>3 DEF IsSets
  <2>2. h[i] \in Seq(1 .. n) /\ h[1] \in Seq(1 .. n) /\ 1 \in 1 .. k /\ 1 <= i
    BY <1>0, <1>3 DEF IsSets
  <2>3. Tokens(lens, h[i]) > 0 /\ Tokens(lens, h[i]) \in Nat
    BY <2>1, <2>2, TokensPositive
  <2>4. Tokens(lens, h[1]) \in Nat /\ (h[1] = << >> => Tokens(lens, h[1]) = 0)
    BY <2>2, TokensPositive
  <2>5. Tokens(lens, h[i]) <= Tokens(lens, h[1])
    BY <1>4, <2>2
  <2> QED BY <2>3, <2>4, <2>5
<1>6. IsState(lens, n, k, equal, b, h)
  BY <1>3, <1>4, <1>5 DEF IsState
<1> QED BY <1>1, <1>2, <1>3, <1>6

LEMMA RangeJoined ==
  ASSUME NEW U, NEW s \in Seq(U), NEW t \in Seq(U)
  PROVE  Range(s \o t) = Range(s) \cup Range(t)
<1>1. /\ s \o t \in Seq(U) /\ Len(s \o t) = Len(s) + Len(t)
      /\ \A i \in 1 .. Len(s) : (s \o t)[i] = s[i]
      /\ \A i \in Len(s) + 1 .. Len(s) + Len(t) : (s \o t)[i] = t[i - Len(s)]
  BY Joined
<1>2. DOMAIN s = 1 .. Len(s) /\ DOMAIN t = 1 .. Len(t) /\ DOMAIN (s \o t) = 1 .. Len(s) + Len(t) /\ Len(s) \in Nat /\ Len(t) \in Nat
  BY <1>1
<1>3. ASSUME NEW x \in Range(s \o t) PROVE x \in Range(s) \cup Range(t)
  <2>1. PICK i \in 1 .. Len(s) + Len(t) : x = (s \o t)[i]
    BY <1>2 DEF Range
  <2>2. CASE i \in 1 .. Len(s)
    BY <1>1, <1>2, <2>1, <2>2 DEF Range
  <2>3. CASE i \notin 1 .. Len(s)
    <3>1. i \in Len(s) + 1 .. Len(s) + Len(t) /\ i - Len(s) \in 1 .. Len(t)
      BY <1>2, <2>3
    <3> QED BY <1>1, <1>2, <2>1, <3>1 DEF Range
  <2> QED BY <2>2, <2>3
<1>4. ASSUME NEW x \in Range(s) PROVE x \in Range(s \o t)
  <2>1. PICK i \in 1 .. Len(s) : x = s[i]
    BY <1>2 DEF Range
  <2>2. i \in 1 .. Len(s) + Len(t)
    BY <1>2
  <2> QED BY <1>1, <1>2, <2>1, <2>2 DEF Range
<1>5. ASSUME NEW x \in Range(t) PROVE x \in Range(s \o t)
  <2>1. PICK i \in 1 .. Len(t) : x = t[i]
    BY <1>2 DEF Range
  <2>2. i + Len(s) \in 1 .. Len(s) + Len(t) /\ i + Len(s) \in Len(s) + 1 .. Len(s) + Len(t) /\ (i + Len(s)) - Len(s) = i
    BY <1>2
  <2>3. (s \o t)[i + Len(s)] = x
    BY <1>1, <2>1, <2>2
  <2> QED BY <1>2, <2>2, <2>3 DEF Range
<1> QED BY <1>3, <1>4, <1>5

(* Sets put together have the tokens of both. *)
LEMMA TokensJoined ==
  ASSUME NEW n \in Nat, NEW lens \in [1 .. n -> Int], NEW s \in Seq(1 .. n), NEW t \in Seq(1 .. n),
         Range(s) \cap Range(t) = {}
  PROVE  Tokens(lens, s \o t) = Tokens(lens, s) + Tokens(lens, t)
<1>1. s \o t \in Seq(1 .. n)
  OBVIOUS
<1>2. Tokens(lens, s \o t) = SumOf(lens, Range(s) \cup Range(t), n)
  <2>1. Tokens(lens, s \o t) = SumOf(lens, Range(s \o t), n)
    BY <1>1, TokensSum
  <2>2. Range(s \o t) = Range(s) \cup Range(t)
    BY RangeJoined
  <2> QED BY <2>1, <2>2
<1>3. SumOf(lens, Range(s) \cup Range(t), n) = SumOf(lens, Range(s), n) + SumOf(lens, Range(t), n)
  <2>1. \A i \in 1 .. n : ~(i \in Range(s) /\ i \in Range(t))
    OBVIOUS
  <2> QED BY <2>1, SumApart
<1>4. Tokens(lens, s) = SumOf(lens, Range(s), n)
  BY TokensSum
<1>5. Tokens(lens, t) = SumOf(lens, Range(t), n)
  BY TokensSum
<1> QED BY <1>2, <1>3, <1>4, <1>5

(* The rows of a sequence, joined with another's that shares none, are all different if those of each are. *)
LEMMA ApartJoined ==
  ASSUME NEW U, NEW s \in Seq(U), NEW t \in Seq(U), NEW x \in DOMAIN (s \o t)
  PROVE  \/ x \in DOMAIN s /\ (s \o t)[x] = s[x]
         \/ x - Len(s) \in DOMAIN t /\ (s \o t)[x] = t[x - Len(s)]
<1>1. /\ s \o t \in Seq(U) /\ Len(s \o t) = Len(s) + Len(t)
      /\ \A i \in 1 .. Len(s) : (s \o t)[i] = s[i]
      /\ \A i \in Len(s) + 1 .. Len(s) + Len(t) : (s \o t)[i] = t[i - Len(s)]
  BY Joined
<1>2. DOMAIN s = 1 .. Len(s) /\ DOMAIN t = 1 .. Len(t) /\ DOMAIN (s \o t) = 1 .. Len(s) + Len(t) /\ Len(s) \in Nat /\ Len(t) \in Nat
  BY <1>1
<1>3. x \in 1 .. Len(s) + Len(t)
  BY <1>2
<1>4. CASE x \in 1 .. Len(s)
  BY <1>1, <1>2, <1>4
<1>5. CASE x \notin 1 .. Len(s)
  <2>1. x \in Len(s) + 1 .. Len(s) + Len(t) /\ x - Len(s) \in 1 .. Len(t)
    BY <1>2, <1>3, <1>5
  <2> QED BY <1>1, <1>2, <2>1
<1> QED BY <1>4, <1>5

LEMMA RowOfSet ==
  ASSUME NEW k, NEW s, NEW i \in 1 .. k, NEW x \in DOMAIN s[i]
  PROVE  s[i][x] \in RowsIn(s, k) /\ s[i][x] \in Range(s[i])
BY DEF RowsIn, Range

(* Two states have no row in common. *)
Separate(s, t, k) == RowsIn(s, k) \cap RowsIn(t, k) = {}

LEMMA BothCount ==
  ASSUME NEW u \in Nat, NEW v \in Nat
  PROVE  (u <= 1 /\ v <= 1 /\ ~(u + v <= 1) => u # 0 /\ v # 0) /\ (u # 0 \/ v # 0 => u + v # 0)
OBVIOUS

(* The sets of two states crosswise together *)
Crosswise(s, t, k) == [i \in 1 .. k |-> s[i] \o t[k + 1 - i]]

(* The sets of two states, put together crosswise, are no further apart *)
(* than those of either.                                                *)
LEMMA MergedSets ==
  ASSUME NEW n \in Nat, NEW lens \in [1 .. n -> Nat \ {0}], NEW k \in Nat \ {0}, NEW equal, NEW b \in Int,
         NEW s, NEW t, IsState(lens, n, k, equal, b, s), IsState(lens, n, k, equal, b, t),
         Separate(s, t, k), NEW m, m = Crosswise(s, t, k)
  PROVE  IsSets(lens, n, k, equal, b, m) /\ RowsIn(m, k) = RowsIn(s, k) \cup RowsIn(t, k)
<1>0. lens \in [1 .. n -> Int]
  OBVIOUS
<1>1. /\ s \in [1 .. k -> Seq(1 .. n)]
      /\ Apart(s, k) /\ Wide(s, k) /\ Within(lens, k, b, s)
      /\ equal => SameLength(s, k)
      /\ s[1] # << >>
      /\ \A i, j \in 1 .. k : i <= j => Tokens(lens, s[j]) <= Tokens(lens, s[i])
  BY DEF IsState, IsSets
<1>2. /\ t \in [1 .. k -> Seq(1 .. n)]
      /\ Apart(t, k) /\ Wide(t, k) /\ Within(lens, k, b, t)
      /\ equal => SameLength(t, k)
      /\ t[1] # << >>
      /\ \A i, j \in 1 .. k : i <= j => Tokens(lens, t[j]) <= Tokens(lens, t[i])
  BY DEF IsState, IsSets
<1>3. \A i \in 1 .. k : k + 1 - i \in 1 .. k
  OBVIOUS
<1>4. m = [i \in 1 .. k |-> m[i]] /\ \A i \in 1 .. k : m[i] = s[i] \o t[k + 1 - i]
  BY DEF Crosswise
<1>5. ASSUME NEW i \in 1 .. k, NEW j \in 1 .. k PROVE Range(s[i]) \cap Range(t[j]) = {}
  BY DEF RowsIn, Separate
<1>6. ASSUME NEW i \in 1 .. k
      PROVE  /\ m[i] \in Seq(1 .. n) /\ Range(m[i]) = Range(s[i]) \cup Range(t[k + 1 - i])
             /\ Tokens(lens, m[i]) = Tokens(lens, s[i]) + Tokens(lens, t[k + 1 - i])
             /\ Len(m[i]) = Len(s[i]) + Len(t[k + 1 - i])
  <2>1. PICK u \in Seq(1 .. n), v \in Seq(1 .. n) : u = s[i] /\ v = t[k + 1 - i]
    BY <1>1, <1>2, <1>3
  <2>2. Range(u) \cap Range(v) = {}
    BY <1>3, <1>5, <2>1
  <2>3. u \o v \in Seq(1 .. n) /\ Len(u \o v) = Len(u) + Len(v)
    OBVIOUS
  <2>4. Range(u \o v) = Range(u) \cup Range(v)
    BY RangeJoined
  <2>5. Tokens(lens, u \o v) = Tokens(lens, u) + Tokens(lens, v)
    BY <1>0, <2>2, TokensJoined, ZenonT(40)
  <2> QED BY <1>4, <2>1, <2>3, <2>4, <2>5
<1>7. m \in [1 .. k -> Seq(1 .. n)]
  BY <1>4, <1>6
<1>8. Apart(m, k)
  <2>1. SUFFICES ASSUME NEW i \in 1 .. k, NEW j \in 1 .. k, NEW x \in DOMAIN m[i], NEW y \in DOMAIN m[j], m[i][x] = m[j][y]
                 PROVE  i = j /\ x = y
    BY DEF Apart
  <2>2. PICK p \in 1 .. k, q \in 1 .. k : p = k + 1 - i /\ q = k + 1 - j
    BY <1>3
  <2>3. /\ s[i] \in Seq(1 .. n) /\ s[j] \in Seq(1 .. n) /\ t[p] \in Seq(1 .. n) /\ t[q] \in Seq(1 .. n)
        /\ m[i] = s[i] \o t[p] /\ m[j] = s[j] \o t[q]
        /\ Len(s[i]) \in Nat /\ Len(s[j]) \in Nat
    <3>1. s[i] \in Seq(1 .. n) /\ s[j] \in Seq(1 .. n)
      BY <1>1
    <3>2. t[p] \in Seq(1 .. n) /\ t[q] \in Seq(1 .. n)
      BY <1>2
    <3>3. m[i] = s[i] \o t[p] /\ m[j] = s[j] \o t[q]
      BY <1>4, <2>2
    <3>4. Len(s[i]) \in Nat /\ Len(s[j]) \in Nat
      BY <3>1
    <3> QED BY <3>1, <3>2, <3>3, <3>4
  <2>4. \/ x \in DOMAIN s[i] /\ m[i][x] = s[i][x]
        \/ x - Len(s[i]) \in DOMAIN t[p] /\ m[i][x] = t[p][x - Len(s[i])]
    <3>1. PICK u \in Seq(1 .. n), v \in Seq(1 .. n) : u = s[i] /\ v = t[p]
      BY <2>3
    <3>2. x \in DOMAIN (u \o v)
      BY <2>3, <3>1
    <3>3. \/ x \in DOMAIN u /\ (u \o v)[x] = u[x]
          \/ x - Len(u) \in DOMAIN v /\ (u \o v)[x] = v[x - Len(u)]
      BY <3>2, ApartJoined, ZenonT(40)
    <3> QED BY <2>3, <3>1, <3>3
  <2>5. \/ y \in DOMAIN s[j] /\ m[j][y] = s[j][y]
        \/ y - Len(s[j]) \in DOMAIN t[q] /\ m[j][y] = t[q][y - Len(s[j])]
    <3>1. PICK u \in Seq(1 .. n), v \in Seq(1 .. n) : u = s[j] /\ v = t[q]
      BY <2>3
    <3>2. y \in DOMAIN (u \o v)
      BY <2>3, <3>1
    <3>3. \/ y \in DOMAIN u /\ (u \o v)[y] = u[y]
          \/ y - Len(u) \in DOMAIN v /\ (u \o v)[y] = v[y - Len(u)]
      BY <3>2, ApartJoined
    <3> QED BY <2>3, <3>1, <3>3
  <2>6. CASE x \in DOMAIN s[i] /\ m[i][x] = s[i][x] /\ y \in DOMAIN s[j] /\ m[j][y] = s[j][y]
    <3>1. s[i][x] = s[j][y]
      BY <2>1, <2>6
    <3> QED BY <1>1, <2>6, <3>1 DEF Apart
  <2>7. CASE /\ x - Len(s[i]) \in DOMAIN t[p] /\ m[i][x] = t[p][x - Len(s[i])]
             /\ y - Len(s[j]) \in DOMAIN t[q] /\ m[j][y] = t[q][y - Len(s[j])]
    <3>1. t[p][x - Len(s[i])] = t[q][y - Len(s[j])]
      BY <2>1, <2>7
    <3>2. PICK c, d : c = x - Len(s[i]) /\ d = y - Len(s[j])
      OBVIOUS
    <3>3. c \in DOMAIN t[p] /\ d \in DOMAIN t[q] /\ t[p][c] = t[q][d]
      BY <2>7, <3>1, <3>2
    <3>4. p = q /\ c = d
      BY <1>2, <3>3 DEF Apart
    <3>5. i = j
      BY <2>2, <3>4
    <3>6. x \in Int /\ y \in Int
      <4>1. m[i] \in Seq(1 .. n) /\ m[j] \in Seq(1 .. n)
        BY <1>6
      <4>2. PICK u \in Seq(1 .. n), v \in Seq(1 .. n) : u = m[i] /\ v = m[j]
        BY <4>1
      <4>3. x \in 1 .. Len(u) /\ y \in 1 .. Len(v)
        <5>1. DOMAIN u = 1 .. Len(u) /\ DOMAIN v = 1 .. Len(v)
          OBVIOUS
        <5>2. x \in DOMAIN u /\ y \in DOMAIN v
          BY <4>2
        <5> QED BY <5>1, <5>2
      <4> QED BY <4>3
    <3> QED BY <2>3, <3>2, <3>4, <3>5, <3>6
  <2>8. ASSUME NEW c \in DOMAIN s[i], NEW d \in DOMAIN t[q], s[i][c] = t[q][d] PROVE FALSE
    <3>1. s[i][c] \in Range(s[i]) /\ t[q][d] \in Range(t[q])
      BY DEF Range
    <3> QED BY <1>5, <2>8, <3>1
  <2>9. ASSUME NEW c \in DOMAIN s[j], NEW d \in DOMAIN t[p], s[j][c] = t[p][d] PROVE FALSE
    <3>1. s[j][c] \in Range(s[j]) /\ t[p][d] \in Range(t[p])
      BY DEF Range
    <3> QED BY <1>5, <2>9, <3>1
  <2>10. ~(/\ x \in DOMAIN s[i] /\ m[i][x] = s[i][x]
           /\ y - Len(s[j]) \in DOMAIN t[q] /\ m[j][y] = t[q][y - Len(s[j])])
    BY <2>1, <2>8
  <2>11. ~(/\ y \in DOMAIN s[j] /\ m[j][y] = s[j][y]
           /\ x - Len(s[i]) \in DOMAIN t[p] /\ m[i][x] = t[p][x - Len(s[i])])
    BY <2>1, <2>9
  <2> QED BY <2>4, <2>5, <2>6, <2>7, <2>10, <2>11
<1>9. Wide(m, k)
  <2>1. \A i \in 1 .. k : /\ Len(s[i]) \in Nat /\ (s[i] = << >> <=> Len(s[i]) = 0)
                          /\ Len(t[i]) \in Nat /\ (t[i] = << >> <=> Len(t[i]) = 0)
    <3> TAKE i \in 1 .. k
    <3>1. s[i] \in Seq(1 .. n)
      BY <1>1
    <3>2. t[i] \in Seq(1 .. n)
      BY <1>2
    <3>3. Len(s[i]) \in Nat /\ (s[i] = << >> <=> Len(s[i]) = 0)
      BY <3>1
    <3>4. Len(t[i]) \in Nat /\ (t[i] = << >> <=> Len(t[i]) = 0)
      BY <3>2
    <3> QED BY <3>3, <3>4
  <2>2. \A i \in 1 .. k : m[i] = << >> <=> Len(s[i]) + Len(t[k + 1 - i]) = 0
    <3> TAKE i \in 1 .. k
    <3>1. m[i] \in Seq(1 .. n) /\ Len(m[i]) = Len(s[i]) + Len(t[k + 1 - i])
      BY <1>6
    <3>2. PICK u \in Seq(1 .. n) : u = m[i]
      BY <3>1
    <3>3. u = << >> <=> Len(u) = 0
      OBVIOUS
    <3> QED BY <3>1, <3>2, <3>3
  <2>12. ASSUME NEW i \in 1 .. k, s[i] # << >> \/ t[k + 1 - i] # << >> PROVE m[i] # << >>
    <3>1. Len(s[i]) \in Nat /\ (s[i] = << >> <=> Len(s[i]) = 0)
      BY <2>1
    <3>2. Len(t[k + 1 - i]) \in Nat /\ (t[k + 1 - i] = << >> <=> Len(t[k + 1 - i]) = 0)
      BY <1>3, <2>1
    <3>3. Len(s[i]) + Len(t[k + 1 - i]) # 0
      BY <2>12, <3>1, <3>2, BothCount
    <3> QED BY <2>2, <3>3
  <2>3. CASE \A i \in 1 .. k : s[i] # << >>
    <3>1. \A i \in 1 .. k : m[i] # << >>
      BY <2>3, <2>12
    <3> QED BY <3>1 DEF Wide
  <2>4. CASE \A i \in 1 .. k : t[i] # << >>
    <3>1. \A i \in 1 .. k : m[i] # << >>
      BY <1>3, <2>4, <2>12
    <3> QED BY <3>1 DEF Wide
  <2>5. CASE (\A i \in 1 .. k : Len(s[i]) <= 1) /\ \A i \in 1 .. k : Len(t[i]) <= 1
    <3>1. CASE \A i \in 1 .. k : Len(m[i]) <= 1
      BY <3>1 DEF Wide
    <3>2. CASE ~ \A i \in 1 .. k : Len(m[i]) <= 1
      <4>1. PICK i \in 1 .. k : ~(Len(m[i]) <= 1)
        BY <3>2
      <4>2. PICK p \in 1 .. k : p = k + 1 - i
        BY <1>3
      <4>3. s[i] # << >> /\ t[p] # << >>
        <5>1. Len(m[i]) = Len(s[i]) + Len(t[p])
          BY <1>6, <4>2
        <5>2. Len(s[i]) <= 1 /\ Len(t[p]) <= 1 /\ Len(s[i]) \in Nat /\ Len(t[p]) \in Nat
          BY <2>1, <2>5
        <5>3. ~(Len(s[i]) + Len(t[p]) <= 1)
          BY <4>1, <5>1
        <5>4. Len(s[i]) # 0 /\ Len(t[p]) # 0
          BY <5>2, <5>3, BothCount
        <5> QED BY <2>1, <5>4
      <4>4. ASSUME NEW j \in 1 .. k PROVE m[j] # << >>
        <5>1. CASE j <= i
          <6>1. s[i] \in Seq(1 .. n) /\ s[j] \in Seq(1 .. n)
            BY <1>1
          <6>2. Tokens(lens, s[i]) \in Nat /\ Tokens(lens, s[i]) > 0
            BY <4>3, <6>1, TokensPositive
          <6>3. Tokens(lens, s[j]) \in Nat /\ (s[j] = << >> => Tokens(lens, s[j]) = 0)
            BY <6>1, TokensPositive
          <6>4. Tokens(lens, s[i]) <= Tokens(lens, s[j])
            BY <1>1, <5>1
          <6>5. s[j] # << >>
            BY <6>2, <6>3, <6>4
          <6> QED BY <2>12, <6>5
        <5>2. CASE i < j
          <6>0. PICK q \in 1 .. k : q = k + 1 - j /\ q <= p
            BY <1>3, <4>2, <5>2
          <6>1. t[p] \in Seq(1 .. n) /\ t[q] \in Seq(1 .. n)
            BY <1>2
          <6>2. Tokens(lens, t[p]) \in Nat /\ Tokens(lens, t[p]) > 0
            BY <4>3, <6>1, TokensPositive
          <6>3. Tokens(lens, t[q]) \in Nat /\ (t[q] = << >> => Tokens(lens, t[q]) = 0)
            BY <6>1, TokensPositive
          <6>4. Tokens(lens, t[p]) <= Tokens(lens, t[q])
            BY <1>2, <6>0
          <6>5. t[q] # << >>
            BY <6>2, <6>3, <6>4
          <6> QED BY <2>12, <6>0, <6>5
        <5> QED BY <5>1, <5>2
      <4> QED BY <4>4 DEF Wide
    <3> QED BY <3>1, <3>2
  <2> QED BY <1>1, <1>2, <2>3, <2>4, <2>5 DEF Wide
<1>10. Within(lens, k, b, m)
  <2>1. SUFFICES ASSUME NEW i \in 1 .. k, NEW j \in 1 .. k
                 PROVE  Tokens(lens, m[i]) - Tokens(lens, m[j]) <= b
    BY DEF Within
  <2>2. PICK p \in 1 .. k, q \in 1 .. k : p = k + 1 - i /\ q = k + 1 - j
    BY <1>3
  <2>3. /\ Tokens(lens, m[i]) = Tokens(lens, s[i]) + Tokens(lens, t[p])
        /\ Tokens(lens, m[j]) = Tokens(lens, s[j]) + Tokens(lens, t[q])
    BY <1>6, <2>2
  <2>4. \A h \in 1 .. k : Tokens(lens, s[h]) \in Nat /\ Tokens(lens, t[h]) \in Nat
    BY <1>1, <1>2, TokensPositive
  <2>5. /\ Tokens(lens, s[i]) - Tokens(lens, s[j]) <= b /\ Tokens(lens, t[p]) - Tokens(lens, t[q]) <= b
        /\ i <= j => Tokens(lens, s[j]) <= Tokens(lens, s[i])
        /\ j <= i => Tokens(lens, s[i]) <= Tokens(lens, s[j])
        /\ p <= q => Tokens(lens, t[q]) <= Tokens(lens, t[p])
        /\ q <= p => Tokens(lens, t[p]) <= Tokens(lens, t[q])
    BY <1>1, <1>2 DEF Within
  <2>6. (i <= j /\ q <= p) \/ (j <= i /\ p <= q)
    <3>1. i \in Int /\ j \in Int
      OBVIOUS
    <3> QED BY <2>2, <3>1
  <2>7. PICK si \in Int, sj \in Int, tp \in Int, tq \in Int :
          si = Tokens(lens, s[i]) /\ sj = Tokens(lens, s[j]) /\ tp = Tokens(lens, t[p]) /\ tq = Tokens(lens, t[q])
    <3>1. Tokens(lens, s[i]) \in Int /\ Tokens(lens, s[j]) \in Int
      BY <2>4
    <3>2. Tokens(lens, t[p]) \in Int /\ Tokens(lens, t[q]) \in Int
      BY <2>4
    <3> HIDE <2>4
    <3> QED BY <3>1, <3>2
  <2>8. /\ si - sj <= b /\ tp - tq <= b
        /\ i <= j => sj <= si
        /\ j <= i => si <= sj
        /\ p <= q => tq <= tp
        /\ q <= p => tp <= tq
    BY <2>5, <2>7
  <2>9. (si + tp) - (sj + tq) <= b
    <3>1. CASE i <= j /\ q <= p
      BY <2>8, <3>1
    <3>2. CASE j <= i /\ p <= q
      BY <2>8, <3>2
    <3> QED BY <2>6, <3>1, <3>2
  <2> QED BY <2>3, <2>7, <2>9
<1>11. equal => SameLength(m, k)
  <2>1. SUFFICES ASSUME equal PROVE SameLength(m, k)
    OBVIOUS
  <2>2. PICK c \in Nat : \A i \in 1 .. k : Len(s[i]) = c
    BY <1>1, <2>1 DEF SameLength
  <2>3. PICK d \in Nat : \A i \in 1 .. k : Len(t[i]) = d
    BY <1>2, <2>1 DEF SameLength
  <2>4. \A i \in 1 .. k : Len(m[i]) = c + d
    BY <1>3, <1>6, <2>2, <2>3
  <2>5. c + d \in Nat
    OBVIOUS
  <2> QED BY <2>4, <2>5 DEF SameLength
<1>12. \E i \in 1 .. k : m[i] # << >>
  <2>1. 1 \in 1 .. k
    OBVIOUS
  <2>2. m[1] \in Seq(1 .. n) /\ Len(m[1]) = Len(s[1]) + Len(t[k + 1 - 1])
    BY <1>6, <2>1
  <2>3. s[1] \in Seq(1 .. n) /\ t[k + 1 - 1] \in Seq(1 .. n) /\ s[1] # << >>
    <3>1. k + 1 - 1 \in 1 .. k
      BY <1>3, <2>1
    <3>2. t[k + 1 - 1] \in Seq(1 .. n)
      BY <1>2, <3>1
    <3> QED BY <1>1, <2>1, <3>2
  <2>4. Len(s[1]) \in Nat /\ Len(t[k + 1 - 1]) \in Nat /\ Len(s[1]) # 0
    BY <2>3
  <2>5. Len(m[1]) # 0
    BY <2>2, <2>4, BothCount
  <2>6. m[1] # << >>
    BY <2>5
  <2> QED BY <2>1, <2>6
<1>13. RowsIn(m, k) = RowsIn(s, k) \cup RowsIn(t, k)
  <2>1. ASSUME NEW x \in RowsIn(m, k) PROVE x \in RowsIn(s, k) \cup RowsIn(t, k)
    <3>1. PICK i \in 1 .. k : x \in Range(m[i])
      BY DEF RowsIn
    <3>2. x \in Range(s[i]) \/ x \in Range(t[k + 1 - i])
      BY <1>6, <3>1
    <3> QED BY <1>3, <3>2 DEF RowsIn
  <2>2. ASSUME NEW x \in RowsIn(s, k) PROVE x \in RowsIn(m, k)
    <3>1. PICK i \in 1 .. k : x \in Range(s[i])
      BY DEF RowsIn
    <3> QED BY <1>6, <3>1 DEF RowsIn
  <2>3. ASSUME NEW x \in RowsIn(t, k) PROVE x \in RowsIn(m, k)
    <3>1. PICK i \in 1 .. k : x \in Range(t[i])
      BY DEF RowsIn
    <3>2. PICK j \in 1 .. k : j = k + 1 - i /\ k + 1 - j = i
      BY <1>3
    <3>3. x \in Range(m[j])
      BY <1>6, <3>1, <3>2
    <3> QED BY <3>3 DEF RowsIn
  <2> QED BY <2>1, <2>2, <2>3
<1> QED BY <1>7, <1>8, <1>9, <1>10, <1>11, <1>12, <1>13 DEF IsSets

LEMMA MergeState ==
  ASSUME NEW n \in Nat, NEW lens \in [1 .. n -> Nat \ {0}], NEW k \in Nat \ {0}, NEW equal, NEW b \in Int,
         NEW s, NEW t, IsState(lens, n, k, equal, b, s), IsState(lens, n, k, equal, b, t),
         Separate(s, t, k)
  PROVE  /\ IsState(lens, n, k, equal, b, Merge(lens, s, t))
         /\ RowsIn(Merge(lens, s, t), k) = RowsIn(s, k) \cup RowsIn(t, k)
<1>1. PICK m : m = Crosswise(s, t, k)
  OBVIOUS
<1>2. IsSets(lens, n, k, equal, b, m) /\ RowsIn(m, k) = RowsIn(s, k) \cup RowsIn(t, k)
  BY <1>1, MergedSets, SMTT(30)
<1>3. DOMAIN s = 1 .. k /\ Len(s) = k
  BY DEF IsState, IsSets
<1>4. Merge(lens, s, t) = HeaviestFirst(lens, m)
  BY <1>1, <1>3 DEF Merge, Crosswise
<1>5. IsState(lens, n, k, equal, b, HeaviestFirst(lens, m)) /\ RowsIn(HeaviestFirst(lens, m), k) = RowsIn(m, k)
  BY <1>2, SortedState
<1> QED BY <1>2, <1>4, <1>5

----------------------------------------------------------------------------
(* The heap of states *)

LEMMA OrderedList ==
  ASSUME NEW S, NEW R, IsFiniteSet(S), Orders(R, S)
  PROVE  \E ord : Lists(ord, Cardinality(S), S, R)
<1> DEFINE At(m) == CHOOSE x \in S : Cardinality(Before(S, R, x)) = m - 1
<1>1. PICK ord : ord = [m \in 1 .. Cardinality(S) |-> At(m)]
  OBVIOUS
<1>2. ASSUME NEW m \in 1 .. Cardinality(S), \E x \in S : Cardinality(Before(S, R, x)) = m - 1
      PROVE  At(m) \in S /\ Cardinality(Before(S, R, At(m))) = m - 1
  BY <1>2
<1> HIDE DEF At
<1>3. ord = [m \in 1 .. Cardinality(S) |-> ord[m]]
  BY <1>1
<1>4. Ranks(ord, S, R)
  BY <1>1, <1>2 DEF Ranks
<1>5. Lists(ord, Cardinality(S), S, R)
  BY <1>3, <1>4, RankedLists
<1> QED BY <1>5

(* A set that is not empty has a first member. *)
LEMMA FirstInOrder ==
  ASSUME NEW S, NEW R, IsFiniteSet(S), Orders(R, S), S # {}
  PROVE  \E s \in S : \A t \in S \ {s} : <<s, t>> \in R
<1>1. PICK ord : Lists(ord, Cardinality(S), S, R)
  BY OrderedList
<1>2. Cardinality(S) \in Nat /\ Cardinality(S) # 0
  BY FS_CardinalityType, FS_EmptySet
<1>3. 1 \in 1 .. Cardinality(S)
  BY <1>2
<1>4. ord[1] \in S
  BY <1>1, <1>3 DEF Lists
<1>5. ASSUME NEW t \in S \ {ord[1]} PROVE <<ord[1], t>> \in R
  <2>1. PICK i \in 1 .. Cardinality(S) : ord[i] = t
    BY <1>1 DEF Lists
  <2>2. 1 < i
    BY <1>2, <2>1
  <2> QED BY <1>1, <1>3, <2>1, <2>2 DEF Lists
<1> QED BY <1>4, <1>5

(* States none of which have a row in common. *)
IsHeap(lens, n, k, equal, b, H) ==
  /\ IsFiniteSet(H)
  /\ \A s \in H : IsState(lens, n, k, equal, b, s)
  /\ \A s, t \in H : s # t => Separate(s, t, k)

Covers(H, n, k) == \A r \in 1 .. n : \E s \in H : r \in RowsIn(s, k)

StatesOrder(lens, H) == {p \in H \X H : StateLess(lens, p[1], p[2])}

LEMMA StatesInOrder ==
  ASSUME NEW n \in Nat, NEW lens \in [1 .. n -> Int], NEW k \in Nat \ {0}, NEW equal, NEW b, NEW H,
         IsHeap(lens, n, k, equal, b, H)
  PROVE  Orders(StatesOrder(lens, H), H)
<1>1. PICK R : R = StatesOrder(lens, H)
  OBVIOUS
<1>2. 1 \in 1 .. k /\ k \in 1 .. k
  OBVIOUS
<1>3. ASSUME NEW s \in H PROVE s[1] \in Seq(1 .. n) /\ s[1] # << >> /\ Spread(lens, s) \in Int
  <2>1. s \in [1 .. k -> Seq(1 .. n)] /\ s[1] # << >>
    BY DEF IsHeap, IsState, IsSets
  <2>2. s[1] \in Seq(1 .. n) /\ s[k] \in Seq(1 .. n) /\ Len(s) = k
    BY <1>2, <2>1
  <2>3. Tokens(lens, s[1]) \in Int
    BY <2>2, TokensType
  <2>4. Tokens(lens, s[k]) \in Int
    BY <2>2, TokensType
  <2>5. Spread(lens, s) = Tokens(lens, s[1]) - Tokens(lens, s[k])
    BY <2>2 DEF Spread
  <2> QED BY <2>1, <2>2, <2>3, <2>4, <2>5
<1>4. ASSUME NEW s \in H, NEW t \in H, s # t PROVE s[1] # t[1]
  <2>1. Separate(s, t, k)
    BY <1>4 DEF IsHeap
  <2>2. 1 \in DOMAIN s[1]
    BY <1>3
  <2>3. s[1][1] \in RowsIn(s, k)
    BY <1>2, <2>2, RowOfSet
  <2>4. SUFFICES ASSUME s[1] = t[1] PROVE FALSE
    OBVIOUS
  <2>5. 1 \in DOMAIN t[1]
    BY <2>2, <2>4
  <2>6. t[1][1] \in RowsIn(t, k)
    BY <1>2, <2>5, RowOfSet
  <2> QED BY <2>1, <2>3, <2>4, <2>6 DEF Separate
<1>5. \A s, t \in H : <<s, t>> \in R <=>
        Spread(lens, s) > Spread(lens, t) \/ (Spread(lens, s) = Spread(lens, t) /\ SetLess(lens, t[1], s[1]))
  BY <1>1 DEF StatesOrder, StateLess
<1>6. ASSUME NEW s \in H PROVE <<s, s>> \notin R
  <2>1. ~SetLess(lens, s[1], s[1])
    BY <1>3, SetLessOrders
  <2>2. ~(Spread(lens, s) > Spread(lens, s))
    BY <1>3
  <2> QED BY <1>5, <2>1, <2>2
<1>7. ASSUME NEW s \in H, NEW t \in H, NEW u \in H, <<s, t>> \in R, <<t, u>> \in R PROVE <<s, u>> \in R
  <2>1. PICK x \in Int, y \in Int, z \in Int : x = Spread(lens, s) /\ y = Spread(lens, t) /\ z = Spread(lens, u)
    BY <1>3
  <2>2. x > y \/ (x = y /\ SetLess(lens, t[1], s[1]))
    BY <1>5, <1>7, <2>1
  <2>3. y > z \/ (y = z /\ SetLess(lens, u[1], t[1]))
    BY <1>5, <1>7, <2>1
  <2>4. SetLess(lens, u[1], t[1]) /\ SetLess(lens, t[1], s[1]) => SetLess(lens, u[1], s[1])
    BY <1>3, SetLessOrders
  <2>5. x > z \/ (x = z /\ SetLess(lens, u[1], s[1]))
    BY <2>2, <2>3, <2>4
  <2> QED BY <1>5, <2>1, <2>5
<1>8. ASSUME NEW s \in H, NEW t \in H, s # t PROVE <<s, t>> \in R \/ <<t, s>> \in R
  <2>1. PICK x \in Int, y \in Int : x = Spread(lens, s) /\ y = Spread(lens, t)
    BY <1>3
  <2>2. SetLess(lens, s[1], t[1]) \/ SetLess(lens, t[1], s[1])
    <3>1. s[1] # t[1] /\ s[1] \in Seq(1 .. n) /\ t[1] \in Seq(1 .. n)
      BY <1>3, <1>4, <1>8
    <3> QED BY <3>1, SetLessOrders
  <2>3. x > y \/ y > x \/ x = y
    OBVIOUS
  <2> QED BY <1>5, <2>1, <2>2, <2>3
<1>9. Orders(R, H)
  BY <1>6, <1>7, <1>8 DEF Orders
<1> QED BY <1>1, <1>9

LEMMA PoppedIsOne ==
  ASSUME NEW n \in Nat, NEW lens \in [1 .. n -> Int], NEW k \in Nat \ {0}, NEW equal, NEW b, NEW H,
         IsHeap(lens, n, k, equal, b, H), H # {}
  PROVE  Popped(lens, H) \in H
<1>1. PICK R : R = StatesOrder(lens, H) /\ Orders(R, H)
  BY StatesInOrder
<1>2. IsFiniteSet(H)
  BY DEF IsHeap
<1>3. PICK s \in H : \A t \in H \ {s} : <<s, t>> \in R
  BY <1>1, <1>2, FirstInOrder, ZenonT(40)
<1>4. \A t \in H \ {s} : StateLess(lens, s, t)
  BY <1>1, <1>3 DEF StatesOrder
<1> QED BY <1>4 DEF Popped

(* Merging two states leaves one state fewer, with the same rows. *)
LEMMA MergeTwoHeap ==
  ASSUME NEW n \in Nat, NEW lens \in [1 .. n -> Nat \ {0}], NEW k \in Nat \ {0}, NEW equal, NEW b \in Int, NEW H,
         IsHeap(lens, n, k, equal, b, H), Covers(H, n, k), Cardinality(H) > 1
  PROVE  /\ IsHeap(lens, n, k, equal, b, MergeTwo(lens, H)) /\ Covers(MergeTwo(lens, H), n, k)
         /\ Cardinality(MergeTwo(lens, H)) = Cardinality(H) - 1
<1>0. lens \in [1 .. n -> Int]
  OBVIOUS
<1>1. IsFiniteSet(H) /\ Cardinality(H) \in Nat
  BY FS_CardinalityType DEF IsHeap
<1>2. H # {}
  BY <1>1, FS_EmptySet
<1>3. PICK s : s = Popped(lens, H)
  OBVIOUS
<1>4. s \in H
  BY <1>0, <1>2, <1>3, PoppedIsOne
<1>5. PICK G : G = H \ {s}
  OBVIOUS
<1>6. IsFiniteSet(G) /\ Cardinality(G) = Cardinality(H) - 1
  BY <1>1, <1>4, <1>5, FS_RemoveElement
<1>7. IsHeap(lens, n, k, equal, b, G)
  BY <1>5, <1>6 DEF IsHeap
<1>8. G # {}
  BY <1>1, <1>6, FS_EmptySet
<1>9. PICK t : t = Popped(lens, G)
  OBVIOUS
<1>10. t \in G
  BY <1>0, <1>7, <1>8, <1>9, PoppedIsOne
<1>11. PICK u : u = Merge(lens, s, t)
  OBVIOUS
<1>12. IsState(lens, n, k, equal, b, s) /\ IsState(lens, n, k, equal, b, t) /\ Separate(s, t, k) /\ t \in H /\ t # s
  BY <1>4, <1>5, <1>10 DEF IsHeap
<1>13. IsState(lens, n, k, equal, b, u) /\ RowsIn(u, k) = RowsIn(s, k) \cup RowsIn(t, k)
  BY <1>11, <1>12, MergeState, SMTT(30)
<1>14. PICK F : F = H \ {s, t}
  OBVIOUS
<1>15. F = G \ {t}
  BY <1>5, <1>14
<1>16. IsFiniteSet(F) /\ Cardinality(F) = Cardinality(G) - 1
  BY <1>6, <1>10, <1>15, FS_RemoveElement
<1>17. ASSUME NEW v \in F PROVE Separate(v, u, k) /\ Separate(u, v, k)
  <2>1. v \in H /\ v # s /\ v # t
    BY <1>14
  <2>2. Separate(v, s, k) /\ Separate(v, t, k)
    BY <1>4, <1>12, <2>1 DEF IsHeap
  <2> QED BY <1>13, <2>2 DEF Separate
<1>18. u \notin F
  <2>1. PICK i \in 1 .. k : u[i] # << >> /\ u[i] \in Seq(1 .. n)
    BY <1>13 DEF IsState, IsSets
  <2>2. 1 \in DOMAIN u[i]
    BY <2>1
  <2>3. u[i][1] \in RowsIn(u, k)
    BY <2>2, RowOfSet
  <2>4. ~Separate(u, u, k)
    BY <2>3 DEF Separate
  <2> QED BY <1>17, <2>4
<1>19. PICK E : E = F \cup {u}
  OBVIOUS
<1>20. IsFiniteSet(E) /\ Cardinality(E) = Cardinality(F) + 1
  BY <1>16, <1>18, <1>19, FS_AddElement
<1>21. MergeTwo(lens, H) = E
  BY <1>3, <1>5, <1>9, <1>11, <1>14, <1>19 DEF MergeTwo
<1>22. IsHeap(lens, n, k, equal, b, E)
  <2>1. \A v \in E : IsState(lens, n, k, equal, b, v)
    BY <1>13, <1>14, <1>19 DEF IsHeap
  <2>2. \A v, w \in E : v # w => Separate(v, w, k)
    BY <1>14, <1>17, <1>19 DEF IsHeap
  <2> QED BY <1>20, <2>1, <2>2 DEF IsHeap
<1>23. Covers(E, n, k)
  <2>1. SUFFICES ASSUME NEW r \in 1 .. n PROVE \E v \in E : r \in RowsIn(v, k)
    BY DEF Covers
  <2>2. PICK v \in H : r \in RowsIn(v, k)
    BY DEF Covers
  <2>3. CASE v \in {s, t}
    BY <1>13, <1>19, <2>2, <2>3
  <2>4. CASE v \notin {s, t}
    BY <1>14, <1>19, <2>2, <2>4
  <2> QED BY <2>3, <2>4
<1>24. Cardinality(E) = Cardinality(H) - 1
  BY <1>1, <1>6, <1>16, <1>20
<1> QED BY <1>21, <1>22, <1>23, <1>24

(* h is the heap after each of the first m merges. *)
Merges(h, lens, first, m) == h = [i \in 0 .. m |-> IF i = 0 THEN first ELSE MergeTwo(lens, h[i - 1])]

LEMMA MergesGoOn ==
  ASSUME NEW lens, NEW first, NEW m \in Nat, NEW h, Merges(h, lens, first, m)
  PROVE  \E g : Merges(g, lens, first, m + 1)
<1> DEFINE g == [i \in 0 .. m + 1 |-> IF i = m + 1 THEN MergeTwo(lens, h[m]) ELSE h[i]]
<1>1. \A i \in 0 .. m : h[i] = IF i = 0 THEN first ELSE MergeTwo(lens, h[i - 1])
  <2>1. h = [i \in 0 .. m |-> IF i = 0 THEN first ELSE MergeTwo(lens, h[i - 1])]
    BY DEF Merges
  <2> QED BY <2>1
<1>2. \A i \in 0 .. m : i \in 0 .. m + 1 /\ i # m + 1 /\ g[i] = h[i]
  OBVIOUS
<1>3. m + 1 \in 0 .. m + 1 /\ g[m + 1] = MergeTwo(lens, h[m]) /\ m \in 0 .. m
  OBVIOUS
<1>4. g = [i \in 0 .. m + 1 |-> g[i]]
  OBVIOUS
<1> HIDE DEF g
<1>5. ASSUME NEW i \in 0 .. m + 1 PROVE g[i] = IF i = 0 THEN first ELSE MergeTwo(lens, g[i - 1])
  <2>1. CASE i = m + 1
    <3>1. i - 1 = m /\ i # 0
      BY <2>1
    <3> QED BY <1>2, <1>3, <2>1, <3>1
  <2>2. CASE i # m + 1
    <3>1. i \in 0 .. m
      BY <2>2
    <3>2. CASE i = 0
      BY <1>1, <1>2, <3>1, <3>2
    <3>3. CASE i # 0
      <4>1. i - 1 \in 0 .. m
        BY <3>1, <3>3
      <4> QED BY <1>1, <1>2, <3>1, <3>3, <4>1
    <3> QED BY <3>2, <3>3
  <2> QED BY <2>1, <2>2
<1>6. Merges(g, lens, first, m + 1)
  <2>1. [i \in 0 .. m + 1 |-> g[i]] = [i \in 0 .. m + 1 |-> IF i = 0 THEN first ELSE MergeTwo(lens, g[i - 1])]
    BY <1>5
  <2> QED BY <1>4, <2>1 DEF Merges
<1> QED BY <1>6

LEMMA MergesExist ==
  ASSUME NEW lens, NEW first, NEW n \in Nat
  PROVE  \E h : Merges(h, lens, first, n)
<1> DEFINE Bad == {m \in Nat : ~ \E h : Merges(h, lens, first, m)}
<1>1. SUFFICES ASSUME Bad # {} PROVE FALSE
  OBVIOUS
<1>2. PICK m \in Bad : \A k \in Bad : m <= k
  <2>1. Bad \subseteq Nat
    OBVIOUS
  <2> HIDE DEF Bad
  <2> QED BY <1>1, <2>1, LeastNatural
<1>3. m \in Nat
  BY <1>2
<1>4. m # 0
  <2>1. PICK h : h = [i \in 0 .. 0 |-> first]
    OBVIOUS
  <2>2. \A i \in 0 .. 0 : i = 0
    OBVIOUS
  <2>3. [i \in 0 .. 0 |-> first] = [i \in 0 .. 0 |-> IF i = 0 THEN first ELSE MergeTwo(lens, h[i - 1])]
    BY <2>2
  <2>4. Merges(h, lens, first, 0)
    BY <2>1, <2>3 DEF Merges
  <2> QED BY <1>2, <2>4
<1>5. m - 1 \in Nat /\ m - 1 \notin Bad
  <2>1. m - 1 \in Nat /\ ~(m <= m - 1)
    BY <1>3, <1>4
  <2> HIDE DEF Bad
  <2> QED BY <1>2, <2>1
<1>6. \E h : Merges(h, lens, first, m - 1)
  BY <1>5
<1>7. \E h : Merges(h, lens, first, (m - 1) + 1)
  BY <1>5, <1>6, MergesGoOn
<1>8. (m - 1) + 1 = m
  BY <1>3
<1> QED BY <1>2, <1>7, <1>8

Heap(lens, first, m) == CHOOSE h : Merges(h, lens, first, m)

(* Merging goes on until one state has all rows. *)
LEMMA Differencing ==
  ASSUME NEW n \in Nat, NEW lens \in [1 .. n -> Nat \ {0}], NEW k \in Nat \ {0}, NEW equal, NEW b \in Int,
         NEW first, first = FirstStates(lens, k, equal),
         IsHeap(lens, n, k, equal, b, first), Covers(first, n, k), first # {}
  PROVE  /\ IsState(lens, n, k, equal, b, karmarkar_karp(lens, k, equal))
         /\ \A r \in 1 .. n : r \in RowsIn(karmarkar_karp(lens, k, equal), k)
<1>1. IsFiniteSet(first) /\ Cardinality(first) \in Nat /\ Cardinality(first) # 0
  <2>1. IsFiniteSet(first)
    BY DEF IsHeap
  <2> QED BY <2>1, FS_CardinalityType, FS_EmptySet
<1>2. PICK merges \in Nat : merges = Cardinality(first) - 1
  BY <1>1
<1>3. PICK h : /\ h = Heap(lens, FirstStates(lens, k, equal), Cardinality(FirstStates(lens, k, equal)) - 1)
               /\ Merges(h, lens, first, merges)
  <2>1. PICK h : h = Heap(lens, FirstStates(lens, k, equal), Cardinality(FirstStates(lens, k, equal)) - 1)
    OBVIOUS
  <2>2. h = Heap(lens, first, merges)
    BY <1>2, <2>1
  <2>3. Merges(Heap(lens, first, merges), lens, first, merges)
    BY MergesExist DEF Heap
  <2> QED BY <2>1, <2>2, <2>3
<1>4. \A i \in 0 .. merges : h[i] = IF i = 0 THEN first ELSE MergeTwo(lens, h[i - 1])
  <2>1. h = [i \in 0 .. merges |-> IF i = 0 THEN first ELSE MergeTwo(lens, h[i - 1])]
    BY <1>3 DEF Merges
  <2> QED BY <2>1
<1> DEFINE Good(i) == IsHeap(lens, n, k, equal, b, h[i]) /\ Covers(h[i], n, k) /\ Cardinality(h[i]) = Cardinality(first) - i
           Bad == {i \in 0 .. merges : ~Good(i)}
<1>5. Bad = {}
  <2>1. SUFFICES ASSUME Bad # {} PROVE FALSE
    OBVIOUS
  <2>2. PICK i \in Bad : \A j \in Bad : i <= j
    <3>1. Bad \subseteq Nat
      OBVIOUS
    <3> HIDE DEF Bad
    <3> QED BY <2>1, <3>1, LeastNatural
  <2>3. i \in 0 .. merges /\ ~Good(i)
    BY <2>2
  <2>4. i # 0
    <3>1. h[0] = first
      BY <1>2, <1>4
    <3>2. Cardinality(first) - 0 = Cardinality(first)
      BY <1>1
    <3>3. Good(0)
      BY <3>1, <3>2
    <3> QED BY <2>3, <3>3
  <2>5. i - 1 \in 0 .. merges /\ ~(i <= i - 1)
    BY <1>2, <2>3, <2>4
  <2>6. Good(i - 1)
    <3>1. i - 1 \notin Bad
      <4> HIDE DEF Bad
      <4> QED BY <2>2, <2>5
    <3> QED BY <2>5, <3>1
  <2>7. PICK H : H = h[i - 1] /\ h[i] = MergeTwo(lens, H)
    BY <1>4, <2>3, <2>4
  <2>8. IsHeap(lens, n, k, equal, b, H) /\ Covers(H, n, k) /\ Cardinality(H) = Cardinality(first) - (i - 1)
    BY <2>6, <2>7
  <2>9. Cardinality(H) > 1 /\ Cardinality(H) - 1 = Cardinality(first) - i
    BY <1>1, <1>2, <2>3, <2>8
  <2>10. /\ IsHeap(lens, n, k, equal, b, MergeTwo(lens, H)) /\ Covers(MergeTwo(lens, H), n, k)
         /\ Cardinality(MergeTwo(lens, H)) = Cardinality(H) - 1
    <3>1. IsHeap(lens, n, k, equal, b, H)
      BY <2>8
    <3>2. Covers(H, n, k)
      BY <2>8
    <3>3. Cardinality(H) > 1
      BY <2>9
    <3>4. n \in Nat /\ k \in Nat \ {0} /\ b \in Int /\ lens \in [1 .. n -> Nat \ {0}]
      OBVIOUS
    <3> QED BY <3>1, <3>2, <3>3, <3>4, MergeTwoHeap, SMTT(30)
  <2>11. Good(i)
    BY <2>7, <2>9, <2>10
  <2> QED BY <2>3, <2>11
<1>6. merges \in 0 .. merges
  BY <1>2
<1>7. Good(merges)
  BY <1>5, <1>6
<1>8. PICK H : H = h[merges]
  OBVIOUS
<1>9. IsHeap(lens, n, k, equal, b, H) /\ Covers(H, n, k) /\ Cardinality(H) = 1
  <2>1. Cardinality(first) - merges = 1
    BY <1>1, <1>2
  <2> QED BY <1>7, <1>8, <2>1
<1>10. PICK s : H = {s}
  <2>1. IsFiniteSet(H)
    BY <1>9 DEF IsHeap
  <2> QED BY <1>9, <2>1, FS_Singleton
<1>11. karmarkar_karp(lens, k, equal) = CHOOSE x \in H : TRUE
  <2>1. karmarkar_karp(lens, k, equal) =
          CHOOSE x \in Heap(lens, FirstStates(lens, k, equal), Cardinality(FirstStates(lens, k, equal)) - 1)
                          [Cardinality(FirstStates(lens, k, equal)) - 1] : TRUE
    BY DEF karmarkar_karp, Heap, Merges
  <2> QED BY <1>2, <1>3, <1>8, <2>1
<1>12. karmarkar_karp(lens, k, equal) = s
  BY <1>10, <1>11
<1>13. IsState(lens, n, k, equal, b, s) /\ \A r \in 1 .. n : r \in RowsIn(s, k)
  BY <1>9, <1>10 DEF IsHeap, Covers
<1> QED BY <1>12, <1>13

----------------------------------------------------------------------------
(* The states at the start *)

LEMMA OneRow ==
  ASSUME NEW n \in Nat, NEW lens \in [1 .. n -> Int], NEW r \in 1 .. n
  PROVE  <<r>> \in Seq(1 .. n) /\ Len(<<r>>) = 1 /\ Range(<<r>>) = {r} /\ Tokens(lens, <<r>>) = lens[r]
<1>1. <<r>> \in Seq(1 .. n) /\ Len(<<r>>) = 1
  OBVIOUS
<1>2. Range(<<r>>) = {r}
  BY DEF Range
<1>3. Tokens(lens, <<r>>) = SumOf(lens, {r}, n)
  BY <1>1, <1>2, TokensSum
<1>4. SumOf(lens, {r}, n) = lens[r]
  BY SumOne
<1> QED BY <1>1, <1>2, <1>3, <1>4

Single(r, k) == [i \in 1 .. k |-> IF i = 1 THEN <<r>> ELSE << >>]

LEMMA SingleState ==
  ASSUME NEW n \in Nat, NEW lens \in [1 .. n -> Nat \ {0}], NEW k \in Nat \ {0}, NEW b \in Int, NEW equal, ~equal,
         NEW r \in 1 .. n, lens[r] <= b
  PROVE  IsState(lens, n, k, equal, b, Single(r, k)) /\ RowsIn(Single(r, k), k) = {r}
<1>0. lens \in [1 .. n -> Int] /\ lens[r] \in Nat \ {0} /\ 1 \in 1 .. k
  OBVIOUS
<1>1. PICK s : s = Single(r, k)
  OBVIOUS
<1>2. /\ <<r>> \in Seq(1 .. n) /\ Len(<<r>>) = 1 /\ Range(<<r>>) = {r} /\ Tokens(lens, <<r>>) = lens[r]
      /\ <<r>> # << >>
  BY <1>0, OneRow
<1>3. << >> \in Seq(1 .. n) /\ Len(<< >>) = 0 /\ Tokens(lens, << >>) = 0
  <2>1. << >> \in Seq(1 .. n) /\ Len(<< >>) = 0
    OBVIOUS
  <2> QED BY <2>1, TokensPositive
<1>4. s[1] = <<r>> /\ \A i \in 1 .. k : i # 1 => s[i] = << >>
  BY <1>0, <1>1 DEF Single
<1>5. s \in [1 .. k -> Seq(1 .. n)]
  <2>1. \A i \in 1 .. k : (IF i = 1 THEN <<r>> ELSE << >>) \in Seq(1 .. n)
    BY <1>2, <1>3
  <2> QED BY <1>1, <2>1 DEF Single
<1>6. \A i \in 1 .. k : \A x \in DOMAIN s[i] : i = 1 /\ x = 1 /\ s[i][x] = r
  <2> TAKE i \in 1 .. k
  <2> TAKE x \in DOMAIN s[i]
  <2>1. CASE i = 1
    <3>1. x \in DOMAIN <<r>>
      BY <1>4, <2>1
    <3>2. x = 1 /\ <<r>>[1] = r
      BY <3>1
    <3> QED BY <1>4, <2>1, <3>2
  <2>2. CASE i # 1
    <3>1. s[i] = << >>
      BY <1>4, <2>2
    <3> QED BY <3>1
  <2> QED BY <2>1, <2>2
<1>7. Apart(s, k)
  BY <1>6 DEF Apart
<1>8. Wide(s, k)
  <2>1. \A i \in 1 .. k : Len(s[i]) <= 1
    <3> TAKE i \in 1 .. k
    <3>1. s[i] = <<r>> \/ s[i] = << >>
      BY <1>4
    <3>2. Len(s[i]) = 1 \/ Len(s[i]) = 0
      BY <1>2, <1>3, <3>1
    <3>3. PICK l \in 0 .. 1 : l = Len(s[i])
      BY <3>2
    <3>4. l <= 1
      OBVIOUS
    <3> QED BY <3>3, <3>4
  <2> QED BY <2>1 DEF Wide
<1>9. \A i \in 1 .. k : Tokens(lens, s[i]) = IF i = 1 THEN lens[r] ELSE 0
  BY <1>2, <1>3, <1>4
<1>10. Within(lens, k, b, s)
  <2>1. SUFFICES ASSUME NEW i \in 1 .. k, NEW j \in 1 .. k PROVE Tokens(lens, s[i]) - Tokens(lens, s[j]) <= b
    BY DEF Within
  <2>2. PICK l \in Nat : l = lens[r] /\ l <= b
    BY <1>0
  <2>3. Tokens(lens, s[i]) \in {l, 0} /\ Tokens(lens, s[j]) \in {l, 0}
    BY <1>9, <2>2
  <2> QED BY <2>2, <2>3
<1>11. \A i, j \in 1 .. k : i <= j => Tokens(lens, s[j]) <= Tokens(lens, s[i])
  BY <1>0, <1>9
<1>12. RowsIn(s, k) = {r}
  <2>1. \A x \in RowsIn(s, k) : x = r
    <3> TAKE x \in RowsIn(s, k)
    <3>1. PICK i \in 1 .. k : x \in Range(s[i])
      BY DEF RowsIn
    <3>2. PICK y \in DOMAIN s[i] : x = s[i][y]
      BY <3>1 DEF Range
    <3> QED BY <1>6, <3>2
  <2>2. r \in RowsIn(s, k)
    BY <1>0, <1>2, <1>4 DEF RowsIn
  <2> QED BY <2>1, <2>2
<1>13. IsSets(lens, n, k, equal, b, s)
  BY <1>0, <1>2, <1>4, <1>5, <1>7, <1>8, <1>10 DEF IsSets
<1>14. IsState(lens, n, k, equal, b, s)
  BY <1>2, <1>4, <1>11, <1>13 DEF IsState
<1> QED BY <1>1, <1>12, <1>14

LEMMA SingleRows ==
  ASSUME NEW n \in Nat \ {0}, NEW lens \in [1 .. n -> Nat \ {0}], NEW k \in Nat \ {0}, NEW b \in Int, NEW equal, ~equal,
         \A r \in 1 .. n : lens[r] <= b, NEW first, first = FirstStates(lens, k, equal)
  PROVE  IsHeap(lens, n, k, equal, b, first) /\ Covers(first, n, k) /\ first # {}
<1>1. first = {Single(r, k) : r \in 1 .. n}
  BY DEF FirstStates, Single
<1>2. PICK f : f = [r \in 1 .. n |-> Single(r, k)]
  OBVIOUS
<1>3. \A r \in 1 .. n : f[r] = Single(r, k)
  BY <1>2
<1>4. f \in [1 .. n -> first]
  BY <1>1, <1>2
<1>5. \A s \in first : \E r \in 1 .. n : f[r] = s
  BY <1>1, <1>3
<1>6. f \in Surjection(1 .. n, first)
  BY <1>4, <1>5 DEF Surjection
<1>7. IsFiniteSet(first)
  <2>1. IsFiniteSet(1 .. n)
    BY FS_Interval
  <2> QED BY <1>6, <2>1, FS_Surjection
<1>8. \A r \in 1 .. n : IsState(lens, n, k, equal, b, Single(r, k)) /\ RowsIn(Single(r, k), k) = {r}
  <2> TAKE r \in 1 .. n
  <2>1. lens[r] <= b
    OBVIOUS
  <2> QED BY <2>1, SingleState
<1>9. \A s \in first : IsState(lens, n, k, equal, b, s)
  BY <1>1, <1>8
<1>10. ASSUME NEW s \in first, NEW t \in first, s # t PROVE Separate(s, t, k)
  <2>1. PICK r \in 1 .. n : s = Single(r, k)
    BY <1>1
  <2>2. PICK q \in 1 .. n : t = Single(q, k)
    BY <1>1
  <2>3. r # q
    BY <1>10, <2>1, <2>2
  <2>4. RowsIn(s, k) = {r} /\ RowsIn(t, k) = {q}
    BY <1>8, <2>1, <2>2
  <2> QED BY <2>3, <2>4 DEF Separate
<1>11. Covers(first, n, k)
  <2>1. SUFFICES ASSUME NEW r \in 1 .. n PROVE \E s \in first : r \in RowsIn(s, k)
    BY DEF Covers
  <2>2. Single(r, k) \in first
    BY <1>1
  <2>3. r \in RowsIn(Single(r, k), k)
    BY <1>8
  <2> QED BY <2>2, <2>3
<1>12. first # {}
  <2>1. 1 \in 1 .. n
    OBVIOUS
  <2> QED BY <1>4, <2>1
<1> QED BY <1>7, <1>9, <1>10, <1>11, <1>12 DEF IsHeap

RowsOrder(lens, n) == {p \in (1 .. n) \X (1 .. n) : lens[p[1]] < lens[p[2]] \/ (lens[p[1]] = lens[p[2]] /\ p[1] < p[2])}

(* The rows, the shortest first. *)
Shortest(lens) == InOrder(DOMAIN lens, LAMBDA i, j : lens[i] < lens[j] \/ (lens[i] = lens[j] /\ i < j))

LEMMA ShortestFirst ==
  ASSUME NEW n \in Nat, NEW lens \in [1 .. n -> Int], NEW ord,
         ord = Shortest(lens)
  PROVE  Rearrangement(ord, n) /\ \A i, j \in 1 .. n : i <= j => lens[ord[i]] <= lens[ord[j]]
<1>1. PICK R : R = RowsOrder(lens, n)
  OBVIOUS
<1>2. \A i, j \in 1 .. n : <<i, j>> \in R <=> lens[i] < lens[j] \/ (lens[i] = lens[j] /\ i < j)
  BY <1>1 DEF RowsOrder
<1>3. \A i \in 1 .. n : lens[i] \in Int
  OBVIOUS
<1>4. Orders(R, 1 .. n)
  <2>1. \A x \in 1 .. n : <<x, x>> \notin R
    BY <1>2, <1>3
  <2>2. ASSUME NEW x \in 1 .. n, NEW y \in 1 .. n, NEW z \in 1 .. n, <<x, y>> \in R, <<y, z>> \in R PROVE <<x, z>> \in R
    <3>1. PICK c \in Int, d \in Int, e \in Int : c = lens[x] /\ d = lens[y] /\ e = lens[z]
      BY <1>3
    <3>2. c < d \/ (c = d /\ x < y)
      BY <1>2, <2>2, <3>1
    <3>3. d < e \/ (d = e /\ y < z)
      BY <1>2, <2>2, <3>1
    <3>4. c < e \/ (c = e /\ x < z)
      BY <3>2, <3>3
    <3> QED BY <1>2, <3>1, <3>4
  <2>3. ASSUME NEW x \in 1 .. n, NEW y \in 1 .. n, x # y PROVE <<x, y>> \in R \/ <<y, x>> \in R
    <3>1. PICK c \in Int, d \in Int : c = lens[x] /\ d = lens[y]
      BY <1>3
    <3>2. (c < d \/ (c = d /\ x < y)) \/ (d < c \/ (d = c /\ y < x))
      BY <2>3
    <3> QED BY <1>2, <3>1, <3>2
  <2> QED BY <2>1, <2>2, <2>3 DEF Orders
<1>5. IsFiniteSet(1 .. n) /\ Cardinality(1 .. n) = n
  BY FS_Interval
<1> DEFINE At(m) == CHOOSE x \in 1 .. n : Cardinality({y \in 1 .. n : lens[y] < lens[x] \/ (lens[y] = lens[x] /\ y < x)}) = m - 1
<1>6. ord = [m \in 1 .. n |-> At(m)]
  <2>1. DOMAIN lens = 1 .. n
    OBVIOUS
  <2> QED BY <1>5, <2>1 DEF Shortest, InOrder
<1>7. \A x \in 1 .. n : {y \in 1 .. n : lens[y] < lens[x] \/ (lens[y] = lens[x] /\ y < x)} = Before(1 .. n, R, x)
  BY <1>1 DEF Before, RowsOrder
<1>8. ASSUME NEW m \in 1 .. n, NEW x \in 1 .. n, Cardinality(Before(1 .. n, R, x)) = m - 1
      PROVE  At(m) \in 1 .. n /\ Cardinality(Before(1 .. n, R, At(m))) = m - 1
  <2>1. \E v \in 1 .. n : Cardinality({y \in 1 .. n : lens[y] < lens[v] \/ (lens[y] = lens[v] /\ y < v)}) = m - 1
    BY <1>7, <1>8
  <2>2. At(m) \in 1 .. n /\ Cardinality({y \in 1 .. n : lens[y] < lens[At(m)] \/ (lens[y] = lens[At(m)] /\ y < At(m))}) = m - 1
    BY <2>1
  <2> HIDE DEF At
  <2> QED BY <1>7, <2>2
<1> HIDE DEF At
<1>9. Ranks(ord, 1 .. n, R)
  BY <1>5, <1>6, <1>8 DEF Ranks
<1>10. ord = [m \in 1 .. Cardinality(1 .. n) |-> ord[m]]
  <2>1. ord = [m \in 1 .. n |-> ord[m]]
    BY <1>6
  <2> QED BY <1>5, <2>1
<1>11. Lists(ord, n, 1 .. n, R)
  <2>1. Lists(ord, Cardinality(1 .. n), 1 .. n, R)
    BY <1>4, <1>5, <1>9, <1>10, RankedLists
  <2> QED BY <1>5, <2>1
<1>12. Rearrangement(ord, n)
  BY <1>11 DEF Lists, Rearrangement
<1>13. ASSUME NEW i \in 1 .. n, NEW j \in 1 .. n, i <= j PROVE lens[ord[i]] <= lens[ord[j]]
  <2>1. ord[i] \in 1 .. n /\ ord[j] \in 1 .. n
    BY <1>12 DEF Rearrangement
  <2>2. lens[ord[i]] \in Int /\ lens[ord[j]] \in Int
    BY <1>3, <2>1
  <2>3. CASE i = j
    BY <2>2, <2>3
  <2>4. CASE i < j
    <3>1. <<ord[i], ord[j]>> \in R
      BY <1>11, <2>4 DEF Lists
    <3>2. PICK x \in 1 .. n, y \in 1 .. n : x = ord[i] /\ y = ord[j]
      BY <2>1
    <3>3. lens[x] < lens[y] \/ (lens[x] = lens[y] /\ x < y)
      BY <1>2, <3>1, <3>2
    <3>4. lens[x] <= lens[y]
      BY <1>3, <3>3
    <3> QED BY <3>2, <3>4
  <2> QED BY <1>13, <2>3, <2>4
<1> QED BY <1>12, <1>13

(* No row has more than g tokens more than the next shorter ones. *)
Gap(lens, n, g) ==
  \A x, y \in 1 .. n :
    lens[x] < lens[y] /\ (\A z \in 1 .. n : ~(lens[x] < lens[z] /\ lens[z] < lens[y])) => lens[y] - lens[x] <= g

LEMMA Climb ==
  ASSUME NEW n \in Nat, NEW lens \in [1 .. n -> Int], NEW ord, Rearrangement(ord, n),
         \A i, j \in 1 .. n : i <= j => lens[ord[i]] <= lens[ord[j]],
         NEW g \in Nat, Gap(lens, n, g), NEW p \in 1 .. n, NEW q \in 1 .. n, p <= q
  PROVE  lens[ord[q]] - lens[ord[p]] <= (q - p) * g
<1>1. \A i \in 1 .. n : ord[i] \in 1 .. n /\ lens[ord[i]] \in Int
  BY DEF Rearrangement
<1>2. ASSUME NEW i \in 1 .. n, i + 1 \in 1 .. n PROVE lens[ord[i + 1]] - lens[ord[i]] <= g
  <2>1. PICK x \in 1 .. n, y \in 1 .. n : x = ord[i] /\ y = ord[i + 1]
    BY <1>1, <1>2
  <2>2. lens[x] <= lens[y] /\ lens[x] \in Int /\ lens[y] \in Int
    BY <1>1, <1>2, <2>1
  <2>3. ASSUME NEW z \in 1 .. n PROVE ~(lens[x] < lens[z] /\ lens[z] < lens[y])
    <3>1. PICK w \in 1 .. n : ord[w] = z
      BY DEF Rearrangement
    <3>2. w <= i \/ i + 1 <= w
      OBVIOUS
    <3>3. lens[z] <= lens[x] \/ lens[y] <= lens[z]
      BY <1>2, <2>1, <3>1, <3>2
    <3>4. lens[z] \in Int
      OBVIOUS
    <3> QED BY <2>2, <3>3, <3>4
  <2>4. CASE lens[x] = lens[y]
    BY <2>1, <2>2, <2>4
  <2>5. CASE lens[x] < lens[y]
    BY <2>1, <2>3, <2>5 DEF Gap
  <2> QED BY <2>2, <2>4, <2>5
<1> DEFINE Bad == {d \in 0 .. n : p + d <= n /\ ~(lens[ord[p + d]] - lens[ord[p]] <= d * g)}
<1>3. Bad = {}
  <2>1. SUFFICES ASSUME Bad # {} PROVE FALSE
    OBVIOUS
  <2>2. PICK d \in Bad : \A e \in Bad : d <= e
    <3>1. Bad \subseteq Nat
      OBVIOUS
    <3> HIDE DEF Bad
    <3> QED BY <2>1, <3>1, LeastNatural
  <2>3. d \in 0 .. n /\ p + d <= n /\ ~(lens[ord[p + d]] - lens[ord[p]] <= d * g)
    BY <2>2
  <2>4. d # 0
    <3>1. 0 * g = 0 /\ p + 0 = p
      OBVIOUS
    <3>2. lens[ord[p]] - lens[ord[p]] <= 0
      BY <1>1
    <3> QED BY <2>3, <3>1, <3>2
  <2>5. d - 1 \in 0 .. n /\ p + (d - 1) <= n /\ ~(d <= d - 1)
    BY <2>3, <2>4
  <2>6. lens[ord[p + (d - 1)]] - lens[ord[p]] <= (d - 1) * g
    <3>1. d - 1 \notin Bad
      <4> HIDE DEF Bad
      <4> QED BY <2>2, <2>5
    <3> QED BY <2>5, <3>1
  <2>7. PICK i \in 1 .. n : i = p + (d - 1) /\ i + 1 = p + d /\ i + 1 \in 1 .. n
    BY <2>3, <2>5
  <2>8. lens[ord[i + 1]] - lens[ord[i]] <= g
    BY <1>2, <2>7
  <2>9. PICK x \in Int, y \in Int, z \in Int : x = lens[ord[p]] /\ y = lens[ord[i]] /\ z = lens[ord[i + 1]]
    BY <1>1, <2>7
  <2>10. (d - 1) * g + g = d * g
    BY <2>3
  <2>11. PICK v \in Int, w \in Int : v = (d - 1) * g /\ w = d * g
    BY <2>3
  <2>12. y - x <= v
    BY <2>6, <2>7, <2>9, <2>11
  <2>13. z - y <= g
    BY <2>8, <2>9
  <2>14. v + g = w
    BY <2>10, <2>11
  <2>15. z - x <= w
    BY <2>12, <2>13, <2>14
  <2> QED BY <2>3, <2>7, <2>9, <2>11, <2>15
<1>4. q - p \in 0 .. n /\ p + (q - p) = q /\ q <= n
  OBVIOUS
<1> QED BY <1>3, <1>4

(* The m-th block of k rows *)
BlockPlace(m, k, i) == (m * k) + i

InBlocks(n, k, q) ==
  /\ \A m \in 0 .. q - 1 : \A i \in 1 .. k : BlockPlace(m, k, i) \in 1 .. n
  /\ \A p \in 1 .. n : \E m \in 0 .. q - 1 : \E i \in 1 .. k : p = BlockPlace(m, k, i)
  /\ \A m, l \in Nat : \A i, j \in 1 .. k : BlockPlace(m, k, i) = BlockPlace(l, k, j) => m = l /\ i = j

LEMMA InBlock ==
  ASSUME NEW n \in Nat, NEW k \in Nat \ {0}, Rest(n, k) = 0
  PROVE  Quot(n, k) \in Nat /\ n = k * Quot(n, k) /\ InBlocks(n, k, Quot(n, k))
<1>1. PICK q \in Nat : q = Quot(n, k) /\ n = k * q
  <2>1. Quot(n, k) \in Nat /\ Rest(n, k) \in 0 .. k - 1 /\ n = k * Quot(n, k) + Rest(n, k)
    BY Division
  <2>2. PICK q \in Nat : q = Quot(n, k)
    BY <2>1
  <2>3. n = k * q + 0
    BY <2>1, <2>2
  <2>4. k * q + 0 = k * q
    OBVIOUS
  <2> QED BY <2>2, <2>3, <2>4
<1>2. ASSUME NEW m \in 0 .. q - 1, NEW i \in 1 .. k PROVE BlockPlace(m, k, i) \in 1 .. n
  <2>1. k * m + k <= k * q
    BY Ordered
  <2>2. PICK x \in Nat : x = k * m /\ x = m * k
    OBVIOUS
  <2>3. x + k <= n
    BY <1>1, <2>1, <2>2
  <2>4. x + i \in 1 .. n
    BY <2>3
  <2> QED BY <2>2, <2>4 DEF BlockPlace
<1>3. ASSUME NEW p \in 1 .. n PROVE \E m \in 0 .. q - 1 : \E i \in 1 .. k : p = BlockPlace(m, k, i)
  <2>1. PICK a \in Nat : a = p - 1
    OBVIOUS
  <2>9. Quot(a, k) \in Nat /\ Rest(a, k) \in 0 .. k - 1 /\ a = k * Quot(a, k) + Rest(a, k)
    BY Division
  <2>2. PICK m \in Nat, e \in 0 .. k - 1 : p - 1 = k * m + e
    BY <2>1, <2>9
  <2>3. PICK x \in Nat : x = k * m /\ x = m * k
    OBVIOUS
  <2>4. m < q
    <3>1. SUFFICES ASSUME q <= m PROVE FALSE
      OBVIOUS
    <3>2. k * q <= k * m
      <4>1. k * (m - q) >= 0 /\ k * (m - q) = k * m - k * q
        BY <3>1
      <4> QED BY <4>1
    <3>3. n <= x
      BY <1>1, <2>3, <3>2
    <3> QED BY <2>2, <2>3, <3>3
  <2>5. m \in 0 .. q - 1 /\ e + 1 \in 1 .. k
    BY <2>4
  <2>6. p = x + (e + 1)
    BY <2>2, <2>3
  <2>7. p = BlockPlace(m, k, e + 1)
    BY <2>3, <2>6 DEF BlockPlace
  <2> QED BY <2>5, <2>7
<1>4. ASSUME NEW m \in Nat, NEW l \in Nat, NEW i \in 1 .. k, NEW j \in 1 .. k, BlockPlace(m, k, i) = BlockPlace(l, k, j)
      PROVE  m = l /\ i = j
  <2>1. PICK x \in Nat, y \in Nat : x = k * m /\ x = m * k /\ y = k * l /\ y = l * k
    OBVIOUS
  <2>2. x + i = y + j
    BY <1>4, <2>1 DEF BlockPlace
  <2>3. PICK a \in Nat, c \in 0 .. k - 1, d \in 0 .. k - 1 : c = i - 1 /\ d = j - 1 /\ a = x + c
    OBVIOUS
  <2>4. a = y + d
    BY <2>2, <2>3
  <2>5. IsDivision(a, k, m, c)
    BY <2>1, <2>3 DEF IsDivision
  <2>6. IsDivision(a, k, l, d)
    BY <2>1, <2>4 DEF IsDivision
  <2>7. Quot(a, k) = m /\ Rest(a, k) = c
    BY <2>5, Quotient
  <2>8. Quot(a, k) = l /\ Rest(a, k) = d
    BY <2>6, Quotient
  <2> QED BY <2>3, <2>7, <2>8
<1>5. InBlocks(n, k, q)
  BY <1>2, <1>3, <1>4 DEF InBlocks
<1> QED BY <1>1, <1>5

Block(ord, m, k) == [i \in 1 .. k |-> <<ord[BlockPlace(m, k, i)]>>]

HasBlock(s, ord, m, k) == \A r : r \in RowsIn(s, k) <=> \E i \in 1 .. k : r = ord[BlockPlace(m, k, i)]

(* A block of rows in their order, one to a set *)
LEMMA BlockSets ==
  ASSUME NEW n \in Nat, NEW lens \in [1 .. n -> Nat \ {0}], NEW k \in Nat \ {0}, Rest(n, k) = 0,
         NEW ord, ord = Shortest(lens), NEW g \in Nat, Gap(lens, n, g), NEW m \in 0 .. Quot(n, k) - 1, NEW equal
  PROVE  /\ IsSets(lens, n, k, equal, (k - 1) * g, Block(ord, m, k))
         /\ HasBlock(Block(ord, m, k), ord, m, k)
<1>0. lens \in [1 .. n -> Int]
  OBVIOUS
<1>1. Rearrangement(ord, n) /\ \A i, j \in 1 .. n : i <= j => lens[ord[i]] <= lens[ord[j]]
  BY <1>0, ShortestFirst
<1>2. PICK at : at = [i \in 1 .. k |-> BlockPlace(m, k, i)]
  OBVIOUS
<1>3. \A i \in 1 .. k : at[i] = BlockPlace(m, k, i) /\ at[i] \in 1 .. n
  <2>1. InBlocks(n, k, Quot(n, k))
    BY InBlock
  <2> QED BY <1>2, <2>1 DEF InBlocks
<1>4. ASSUME NEW i \in 1 .. k, NEW j \in 1 .. k PROVE at[j] - at[i] = j - i
  <2>1. PICK x \in Nat : x = m * k
    BY InBlock
  <2>2. at[i] = x + i /\ at[j] = x + j
    BY <1>3, <2>1 DEF BlockPlace
  <2> QED BY <2>2
<1>5. PICK s : s = Block(ord, m, k)
  OBVIOUS
<1>6. \A i \in 1 .. k : ord[at[i]] \in 1 .. n
  BY <1>1, <1>3 DEF Rearrangement
<1>7. s = [i \in 1 .. k |-> s[i]] /\ \A i \in 1 .. k : s[i] = <<ord[at[i]]>>
  BY <1>3, <1>5 DEF Block
<1>8. ASSUME NEW i \in 1 .. k
      PROVE  s[i] \in Seq(1 .. n) /\ Len(s[i]) = 1 /\ Range(s[i]) = {ord[at[i]]} /\ Tokens(lens, s[i]) = lens[ord[at[i]]]
  <2>1. PICK r \in 1 .. n : r = ord[at[i]]
    BY <1>6
  <2>2. <<r>> \in Seq(1 .. n) /\ Len(<<r>>) = 1 /\ Range(<<r>>) = {r} /\ Tokens(lens, <<r>>) = lens[r]
    BY <1>0, OneRow, SMTT(30)
  <2> QED BY <1>7, <2>1, <2>2
<1>9. s \in [1 .. k -> Seq(1 .. n)]
  BY <1>7, <1>8
<1>10. Apart(s, k)
  <2>1. SUFFICES ASSUME NEW i \in 1 .. k, NEW j \in 1 .. k, NEW x \in DOMAIN s[i], NEW y \in DOMAIN s[j], s[i][x] = s[j][y]
                 PROVE  i = j /\ x = y
    BY DEF Apart
  <2>2. x = 1 /\ y = 1 /\ s[i][1] = ord[at[i]] /\ s[j][1] = ord[at[j]]
    <3>1. s[i] = <<ord[at[i]]>> /\ s[j] = <<ord[at[j]]>>
      BY <1>7
    <3>2. x \in DOMAIN <<ord[at[i]]>> /\ y \in DOMAIN <<ord[at[j]]>>
      BY <3>1
    <3>3. x = 1 /\ y = 1
      BY <3>2
    <3> QED BY <3>1, <3>3
  <2>3. at[i] = at[j]
    <3>1. PICK p \in 1 .. n, q \in 1 .. n : p = at[i] /\ q = at[j]
      BY <1>3
    <3>2. ord[p] = ord[q]
      BY <2>1, <2>2, <3>1
    <3>3. p = q
      BY <1>1, <3>2 DEF Rearrangement
    <3> QED BY <3>1, <3>3
  <2>4. at[i] \in Int /\ at[j] - at[i] = j - i
    <3>1. at[i] \in 1 .. n
      BY <1>3
    <3>2. at[j] - at[i] = j - i
      BY <1>4
    <3> QED BY <3>1, <3>2
  <2>5. j - i = 0
    BY <2>3, <2>4
  <2> QED BY <2>2, <2>5
<1>11. \A i \in 1 .. k : s[i] # << >>
  <2> TAKE i \in 1 .. k
  <2>1. s[i] = <<ord[at[i]]>>
    BY <1>7
  <2> QED BY <2>1
<1>12. Wide(s, k)
  BY <1>11 DEF Wide
<1>13. Within(lens, k, (k - 1) * g, s)
  <2>1. SUFFICES ASSUME NEW i \in 1 .. k, NEW j \in 1 .. k
                 PROVE  Tokens(lens, s[i]) - Tokens(lens, s[j]) <= (k - 1) * g
    BY DEF Within
  <2>2. Tokens(lens, s[i]) = lens[ord[at[i]]] /\ Tokens(lens, s[j]) = lens[ord[at[j]]]
    BY <1>8
  <2>3. PICK p \in 1 .. n, q \in 1 .. n : p = at[i] /\ q = at[j] /\ p - q = i - j
    <3>1. at[i] - at[j] = i - j
      BY <1>4
    <3> QED BY <1>3, <3>1
  <2>4. PICK x \in Int, y \in Int : x = lens[ord[p]] /\ y = lens[ord[q]]
    BY <1>0, <1>6, <2>3
  <2>5. PICK c \in Nat : c = (k - 1) * g
    OBVIOUS
  <2>6. x - y <= c
    <3>1. CASE p <= q
      <4>1. x <= y
        BY <1>1, <2>4, <3>1
      <4> QED BY <4>1
    <3>2. CASE q <= p
      <4>1. lens[ord[p]] - lens[ord[q]] <= (p - q) * g
        BY <1>0, <1>1, <3>2, Climb
      <4>5. x - y <= (p - q) * g
        BY <2>4, <4>1
      <4>2. p - q \in Nat /\ p - q <= k - 1
        <5>1. PICK d \in Int : d = i - j /\ d <= k - 1
          OBVIOUS
        <5>3. p - q = i - j
          BY <2>3
        <5>2. p - q = d /\ p - q >= 0
          BY <3>2, <5>1, <5>3
        <5> QED BY <5>1, <5>2
      <4>3. (p - q) * g <= (k - 1) * g /\ (p - q) * g \in Int
        <5>1. PICK d \in Nat : d = p - q /\ d <= k - 1
          BY <4>2
        <5>2. d * g <= (k - 1) * g /\ d * g \in Int
          <6>1. PICK h \in Nat : h = k - 1 - d
            BY <5>1
          <6>2. k - 1 = d + h
            BY <6>1
          <6>3. (d + h) * g = d * g + h * g /\ d * g \in Nat /\ h * g \in Nat
            OBVIOUS
          <6> QED BY <6>2, <6>3
        <5> QED BY <5>1, <5>2
      <4>4. PICK v \in Int : v = (p - q) * g /\ v <= c
        BY <2>5, <4>3
      <4>6. x - y <= v
        BY <4>4, <4>5
      <4> QED BY <4>4, <4>6
    <3> QED BY <3>1, <3>2
  <2> QED BY <2>2, <2>3, <2>4, <2>5, <2>6
<1>14. SameLength(s, k)
  BY <1>8 DEF SameLength
<1>15. \E i \in 1 .. k : s[i] # << >>
  <2>1. 1 \in 1 .. k
    OBVIOUS
  <2> QED BY <1>11, <2>1
<1>16. IsSets(lens, n, k, equal, (k - 1) * g, s)
  BY <1>9, <1>10, <1>12, <1>13, <1>14, <1>15 DEF IsSets
<1>17. \A r : r \in RowsIn(s, k) <=> \E i \in 1 .. k : r = ord[BlockPlace(m, k, i)]
  <2>1. \A r : r \in RowsIn(s, k) <=> \E i \in 1 .. k : r \in Range(s[i])
    BY DEF RowsIn
  <2>2. \A i \in 1 .. k : Range(s[i]) = {ord[BlockPlace(m, k, i)]}
    <3> TAKE i \in 1 .. k
    <3>1. Range(s[i]) = {ord[at[i]]} /\ at[i] = BlockPlace(m, k, i)
      BY <1>3, <1>8
    <3> QED BY <3>1
  <2>3. \A i \in 1 .. k : \A r : r \in Range(s[i]) <=> r = ord[BlockPlace(m, k, i)]
    BY <2>2
  <2> QED BY <2>1, <2>3, ZenonT(30)
<1>18. HasBlock(s, ord, m, k)
  BY <1>17 DEF HasBlock
<1> QED BY <1>5, <1>16, <1>18

LEMMA BlockState ==
  ASSUME NEW n \in Nat, NEW lens \in [1 .. n -> Nat \ {0}], NEW k \in Nat \ {0}, Rest(n, k) = 0,
         NEW g \in Nat, Gap(lens, n, g), NEW m \in 0 .. Quot(n, k) - 1, NEW equal
  PROVE  /\ IsState(lens, n, k, equal, (k - 1) * g, HeaviestFirst(lens, Block(Shortest(lens), m, k)))
         /\ HasBlock(HeaviestFirst(lens, Block(Shortest(lens), m, k)), Shortest(lens), m, k)
<1>1. PICK ord : ord = Shortest(lens)
  OBVIOUS
<1>2. IsSets(lens, n, k, equal, (k - 1) * g, Block(ord, m, k)) /\ HasBlock(Block(ord, m, k), ord, m, k)
  BY <1>1, BlockSets
<1>3. PICK s : s = Block(ord, m, k)
  OBVIOUS
<1>4. PICK b : b = (k - 1) * g
  OBVIOUS
<1>5. IsSets(lens, n, k, equal, b, s)
  BY <1>2, <1>3, <1>4
<1>6. IsState(lens, n, k, equal, b, HeaviestFirst(lens, s)) /\ RowsIn(HeaviestFirst(lens, s), k) = RowsIn(s, k)
  BY <1>5, SortedState
<1>7. HasBlock(HeaviestFirst(lens, s), ord, m, k)
  BY <1>2, <1>3, <1>6 DEF HasBlock
<1> QED BY <1>1, <1>3, <1>4, <1>6, <1>7

LEMMA Blocks ==
  ASSUME NEW n \in Nat \ {0}, NEW lens \in [1 .. n -> Nat \ {0}], NEW k \in Nat \ {0}, k <= n, Rest(n, k) = 0,
         NEW g \in Nat, Gap(lens, n, g), NEW equal, equal, NEW first, first = FirstStates(lens, k, equal)
  PROVE  IsHeap(lens, n, k, equal, (k - 1) * g, first) /\ Covers(first, n, k) /\ first # {}
<1>0. lens \in [1 .. n -> Int] /\ n \in Nat /\ Len(lens) = n
  OBVIOUS
<1> DEFINE ord == Shortest(lens)
<1>1. ord = Shortest(lens)
  OBVIOUS
<1>2. Rearrangement(ord, n)
  BY <1>0, ShortestFirst
<1>3. PICK q \in Nat : q = Quot(n, k) /\ n = k * q
  BY <1>0, InBlock
<1>4. q # 0
  <2>1. k * 0 = 0
    OBVIOUS
  <2> QED BY <1>3, <2>1
<1> DEFINE H(m) == HeaviestFirst(lens, Block(ord, m, k))
<1>5. first = {H(m) : m \in 0 .. q - 1}
  <2>1. FirstStates(lens, k, equal) =
          IF equal
          THEN {HeaviestFirst(lens, [i \in 1 .. k |-> <<Shortest(lens)[(m * k) + i]>>]) : m \in 0 .. (Len(lens) \div k) - 1}
          ELSE {[i \in 1 .. k |-> IF i = 1 THEN <<r>> ELSE << >>] : r \in DOMAIN lens}
    BY DEF FirstStates, Shortest, InOrder
  <2>5. FirstStates(lens, k, equal) =
          {HeaviestFirst(lens, [i \in 1 .. k |-> <<Shortest(lens)[(m * k) + i]>>]) : m \in 0 .. (Len(lens) \div k) - 1}
    BY <2>1
  <2>2. first = {HeaviestFirst(lens, [i \in 1 .. k |-> <<ord[(m * k) + i]>>]) : m \in 0 .. (Len(lens) \div k) - 1}
    BY <2>5
  <2>3. Len(lens) \div k = q
    BY <1>0, <1>3 DEF Quot
  <2>4. first = {HeaviestFirst(lens, [i \in 1 .. k |-> <<ord[(m * k) + i]>>]) : m \in 0 .. q - 1}
    BY <2>2, <2>3
  <2> QED BY <2>4 DEF Block, BlockPlace
<1>6. ASSUME NEW m \in 0 .. q - 1
      PROVE  /\ IsState(lens, n, k, equal, (k - 1) * g, H(m))
             /\ HasBlock(H(m), ord, m, k)
  <2>3. m \in 0 .. Quot(n, k) - 1
    BY <1>3
  <2> QED BY <1>0, <2>3, BlockState
<1>15. \A m \in 0 .. q - 1 : IsState(lens, n, k, equal, (k - 1) * g, H(m)) /\ HasBlock(H(m), ord, m, k)
  BY <1>6
<1> HIDE DEF H
<1>7. PICK f : f = [m \in 0 .. q - 1 |-> H(m)]
  OBVIOUS
<1>8. f \in Surjection(0 .. q - 1, first)
  <2>1. f \in [0 .. q - 1 -> first]
    BY <1>5, <1>7
  <2>2. \A s \in first : \E m \in 0 .. q - 1 : f[m] = s
    BY <1>5, <1>7
  <2> QED BY <2>1, <2>2 DEF Surjection
<1>9. IsFiniteSet(first)
  <2>1. 0 \in Int /\ q - 1 \in Int
    OBVIOUS
  <2>2. IsFiniteSet(0 .. q - 1)
    BY <2>1, FS_Interval
  <2> QED BY <1>8, <2>2, FS_Surjection
<1>10. \A s \in first : IsState(lens, n, k, equal, (k - 1) * g, s)
  BY <1>5, <1>15
<1>11. /\ \A m \in 0 .. q - 1 : \A i \in 1 .. k : BlockPlace(m, k, i) \in 1 .. n
       /\ \A p \in 1 .. n : \E m \in 0 .. q - 1 : \E i \in 1 .. k : p = BlockPlace(m, k, i)
       /\ \A m, l \in Nat : \A i, j \in 1 .. k : BlockPlace(m, k, i) = BlockPlace(l, k, j) => m = l /\ i = j
  <2>1. InBlocks(n, k, q)
    BY <1>0, <1>3, InBlock
  <2> QED BY <2>1 DEF InBlocks
<1>12. ASSUME NEW s \in first, NEW t \in first, s # t PROVE Separate(s, t, k)
  <2>1. PICK m \in 0 .. q - 1 : s = H(m)
    BY <1>5
  <2>2. PICK l \in 0 .. q - 1 : t = H(l)
    BY <1>5
  <2>3. m # l
    BY <1>12, <2>1, <2>2
  <2>4. ASSUME NEW r \in RowsIn(s, k), r \in RowsIn(t, k) PROVE FALSE
    <3>0. HasBlock(s, ord, m, k) /\ HasBlock(t, ord, l, k)
      <4>1. HasBlock(H(m), ord, m, k) /\ HasBlock(H(l), ord, l, k)
        BY <1>15
      <4> QED BY <2>1, <2>2, <4>1
    <3>1. PICK i \in 1 .. k : r = ord[BlockPlace(m, k, i)]
      BY <3>0 DEF HasBlock
    <3>2. PICK j \in 1 .. k : r = ord[BlockPlace(l, k, j)]
      BY <2>4, <3>0 DEF HasBlock
    <3>3. BlockPlace(m, k, i) = BlockPlace(l, k, j)
      <4>1. PICK p \in 1 .. n, v \in 1 .. n : p = BlockPlace(m, k, i) /\ v = BlockPlace(l, k, j)
        BY <1>11
      <4>2. ord[p] = ord[v]
        BY <3>1, <3>2, <4>1
      <4>3. p = v
        BY <1>2, <4>2 DEF Rearrangement
      <4> QED BY <4>1, <4>3
    <3>5. m = l
      <4>1. \A x, y \in Nat : \A a, z \in 1 .. k : BlockPlace(x, k, a) = BlockPlace(y, k, z) => x = y /\ a = z
        BY <1>11
      <4>2. m \in Nat /\ l \in Nat
        OBVIOUS
      <4> QED BY <3>3, <4>1, <4>2
    <3> QED BY <2>3, <3>5
  <2> QED BY <2>4 DEF Separate
<1>13. Covers(first, n, k)
  <2>1. SUFFICES ASSUME NEW r \in 1 .. n PROVE \E s \in first : r \in RowsIn(s, k)
    BY DEF Covers
  <2>2. PICK p \in 1 .. n : ord[p] = r
    BY <1>2 DEF Rearrangement
  <2>3. PICK m \in 0 .. q - 1, i \in 1 .. k : p = BlockPlace(m, k, i)
    BY <1>11
  <2>4. r \in RowsIn(H(m), k)
    BY <1>15, <2>2, <2>3 DEF HasBlock
  <2>5. H(m) \in first
    BY <1>5
  <2> QED BY <2>4, <2>5
<1>14. first # {}
  <2>1. PICK m \in 0 .. q - 1 : m = 0
    BY <1>4
  <2>2. H(m) \in first
    BY <1>5
  <2> QED BY <2>2
<1> QED BY <1>9, <1>10, <1>12, <1>13, <1>14 DEF IsHeap

----------------------------------------------------------------------------
(* What get_seqlen_balanced_partitions finds *)

Once(s) == \A a, b \in DOMAIN s : s[a] = s[b] => a = b

Sorted(set) == InOrder(Range(set), <)

NumbersOrder(S) == {p \in S \X S : p[1] < p[2]}

(* Sorting the rows of a set keeps them. *)
LEMMA SortedRows ==
  ASSUME NEW n \in Nat, NEW set \in Seq(1 .. n), Once(set)
  PROVE  /\ Sorted(set) \in Seq(1 .. n) /\ Len(Sorted(set)) = Len(set)
         /\ Range(Sorted(set)) = Range(set) /\ Once(Sorted(set))
<1>1. PICK S : S = Range(set)
  OBVIOUS
<1>2. PICK R : R = NumbersOrder(S)
  OBVIOUS
<1>3. PICK l \in Nat : l = Len(set) /\ DOMAIN set = 1 .. l
  OBVIOUS
<1>4. S = {set[i] : i \in 1 .. l} /\ \A i \in 1 .. l : set[i] \in 1 .. n
  BY <1>1, <1>3 DEF Range
<1>5. S \subseteq Nat
  BY <1>4
<1>6. Cardinality(S) = l /\ IsFiniteSet(S)
  <2>1. IsFiniteSet(1 .. l) /\ Cardinality(1 .. l) = l
    BY FS_Interval
  <2>2. PICK f : f = [i \in 1 .. l |-> set[i]]
    OBVIOUS
  <2>3. f \in [1 .. l -> S] /\ (\A s \in S : \E i \in 1 .. l : f[i] = s)
    BY <1>4, <2>2
  <2>4. f \in Surjection(1 .. l, S)
    BY <2>3 DEF Surjection
  <2>5. \A a, b \in 1 .. l : f[a] = f[b] => a = b
    BY <1>3, <2>2 DEF Once
  <2>6. DOMAIN f = 1 .. l
    BY <2>3
  <2>7. f \in Injection(1 .. l, S)
    BY <2>3, <2>5, <2>6 DEF Injection, IsInjective
  <2> QED BY <2>1, <2>4, <2>7, FS_Surjection
<1>7. \A x, y \in S : <<x, y>> \in R <=> x < y
  BY <1>2 DEF NumbersOrder
<1>8. Orders(R, S)
  <2>1. \A x \in S : <<x, x>> \notin R
    BY <1>5, <1>7
  <2>2. \A x, y, z \in S : <<x, y>> \in R /\ <<y, z>> \in R => <<x, z>> \in R
    BY <1>5, <1>7
  <2>3. \A x, y \in S : x # y => <<x, y>> \in R \/ <<y, x>> \in R
    BY <1>5, <1>7
  <2> QED BY <2>1, <2>2, <2>3 DEF Orders
<1>9. PICK h : h = Sorted(set)
  OBVIOUS
<1> DEFINE At(m) == CHOOSE x \in S : Cardinality({y \in S : y < x}) = m - 1
<1>10. h = [m \in 1 .. l |-> At(m)]
  BY <1>1, <1>6, <1>9 DEF Sorted, InOrder
<1>11. \A x \in S : {y \in S : y < x} = Before(S, R, x)
  BY <1>7 DEF Before
<1>12. ASSUME NEW m \in 1 .. l, NEW x \in S, Cardinality(Before(S, R, x)) = m - 1
       PROVE  At(m) \in S /\ Cardinality(Before(S, R, At(m))) = m - 1
  <2>1. \E v \in S : Cardinality({y \in S : y < v}) = m - 1
    BY <1>11, <1>12
  <2>2. At(m) \in S /\ Cardinality({y \in S : y < At(m)}) = m - 1
    BY <2>1
  <2> HIDE DEF At
  <2> QED BY <1>11, <2>2
<1> HIDE DEF At
<1>13. Ranks(h, S, R)
  BY <1>6, <1>10, <1>12 DEF Ranks
<1>14. h = [m \in 1 .. Cardinality(S) |-> h[m]]
  BY <1>6, <1>10
<1>15. Lists(h, l, S, R)
  <2>1. Lists(h, Cardinality(S), S, R)
    BY <1>6, <1>8, <1>13, <1>14, RankedLists
  <2> QED BY <1>6, <2>1
<1>16. h \in [1 .. l -> S] /\ (\A x \in S : \E i \in 1 .. l : h[i] = x) /\ (\A i, j \in 1 .. l : h[i] = h[j] => i = j)
  BY <1>15 DEF Lists
<1>17. h \in [1 .. l -> 1 .. n]
  <2>1. \A i \in 1 .. l : h[i] \in 1 .. n
    <3>1. \A x \in S : x \in 1 .. n
      BY <1>4
    <3> QED BY <1>16, <3>1
  <2> QED BY <1>16, <2>1
<1>18. h \in Seq(1 .. n) /\ Len(h) = l
  BY <1>17
<1>19. Range(h) = S
  BY <1>16 DEF Range
<1>20. Once(h)
  BY <1>16 DEF Once
<1> QED BY <1>1, <1>3, <1>9, <1>18, <1>19, <1>20

SortedSets(s, k) == [i \in 1 .. k |-> Sorted(s[i])]

(* Sorting the rows of every set keeps the sets. *)
LEMMA SortedParts ==
  ASSUME NEW n \in Nat, NEW lens \in [1 .. n -> Int], NEW k \in Nat \ {0}, NEW equal, NEW b, NEW s,
         IsSets(lens, n, k, equal, b, s), NEW h, h = SortedSets(s, k)
  PROVE  IsSets(lens, n, k, equal, b, h) /\ RowsIn(h, k) = RowsIn(s, k)
<1>1. /\ s \in [1 .. k -> Seq(1 .. n)]
      /\ Apart(s, k) /\ Wide(s, k) /\ Within(lens, k, b, s)
      /\ equal => SameLength(s, k)
      /\ \E i \in 1 .. k : s[i] # << >>
  BY DEF IsSets
<1>2. ASSUME NEW i \in 1 .. k
      PROVE  /\ h[i] \in Seq(1 .. n) /\ Len(h[i]) = Len(s[i]) /\ Range(h[i]) = Range(s[i]) /\ Once(h[i])
             /\ Tokens(lens, h[i]) = Tokens(lens, s[i])
  <2>1. PICK u \in Seq(1 .. n) : u = s[i]
    BY <1>1
  <2>2. Once(u)
    BY <1>1, <2>1 DEF Apart, Once
  <2>3. h[i] = Sorted(u)
    BY <2>1 DEF SortedSets
  <2>4. h[i] \in Seq(1 .. n) /\ Len(h[i]) = Len(u) /\ Range(h[i]) = Range(u) /\ Once(h[i])
    BY <2>2, <2>3, SortedRows
  <2>5. Tokens(lens, h[i]) = Tokens(lens, u)
    BY <2>4 DEF Tokens
  <2> QED BY <2>1, <2>4, <2>5
<1>3. h \in [1 .. k -> Seq(1 .. n)]
  BY <1>2 DEF SortedSets
<1>4. Apart(h, k)
  <2>1. SUFFICES ASSUME NEW i \in 1 .. k, NEW j \in 1 .. k, NEW x \in DOMAIN h[i], NEW y \in DOMAIN h[j], h[i][x] = h[j][y]
                 PROVE  i = j /\ x = y
    BY DEF Apart
  <2>2. h[i][x] \in Range(s[i]) /\ h[i][x] \in Range(s[j])
    <3>1. h[i][x] \in Range(h[i]) /\ h[j][y] \in Range(h[j])
      BY DEF Range
    <3> QED BY <1>2, <2>1, <3>1
  <2>3. i = j
    <3>1. PICK p \in DOMAIN s[i] : s[i][p] = h[i][x]
      BY <2>2 DEF Range
    <3>2. PICK q \in DOMAIN s[j] : s[j][q] = h[i][x]
      BY <2>2 DEF Range
    <3>3. s[i][p] = s[j][q]
      BY <3>1, <3>2
    <3>4. Apart(s, k)
      BY <1>1
    <3> QED BY <3>3, <3>4 DEF Apart
  <2> QED BY <1>2, <2>1, <2>3 DEF Once
<1>5. \A i \in 1 .. k : s[i] # << >> <=> h[i] # << >>
  <2> TAKE i \in 1 .. k
  <2>1. PICK u \in Seq(1 .. n), v \in Seq(1 .. n) : u = s[i] /\ v = h[i] /\ Len(u) = Len(v)
    BY <1>1, <1>2
  <2>2. u = << >> <=> Len(u) = 0
    OBVIOUS
  <2>3. v = << >> <=> Len(v) = 0
    OBVIOUS
  <2> QED BY <2>1, <2>2, <2>3
<1>6. Wide(h, k)
  BY <1>1, <1>2, <1>5 DEF Wide
<1>7. Within(lens, k, b, h)
  BY <1>1, <1>2 DEF Within
<1>8. equal => SameLength(h, k)
  BY <1>1, <1>2 DEF SameLength
<1>9. \E i \in 1 .. k : h[i] # << >>
  BY <1>1, <1>5
<1>10. RowsIn(h, k) = RowsIn(s, k)
  BY <1>2 DEF RowsIn
<1> QED BY <1>3, <1>4, <1>6, <1>7, <1>8, <1>9, <1>10 DEF IsSets

(* With no fewer rows than sets every set has one. *)
LEMMA NoneEmpty ==
  ASSUME NEW n \in Nat, NEW lens, NEW k \in Nat \ {0}, k <= n, NEW equal, NEW b, NEW s,
         IsSets(lens, n, k, equal, b, s), \A r \in 1 .. n : r \in RowsIn(s, k)
  PROVE  \A i \in 1 .. k : s[i] # << >>
<1>1. s \in [1 .. k -> Seq(1 .. n)] /\ Apart(s, k) /\ Wide(s, k)
  BY DEF IsSets
<1>2. SUFFICES ASSUME NEW e \in 1 .. k, s[e] = << >> PROVE FALSE
  OBVIOUS
<1>3. \A i \in 1 .. k : Len(s[i]) <= 1
  BY <1>1, <1>2 DEF Wide
<1>4. \A r \in 1 .. n : \E i \in 1 .. k : r \in Range(s[i])
  BY DEF RowsIn
<1>5. PICK f : f = [r \in 1 .. n |-> CHOOSE i \in 1 .. k : r \in Range(s[i])]
  OBVIOUS
<1>6. \A r \in 1 .. n : f[r] \in 1 .. k /\ r \in Range(s[f[r]])
  BY <1>4, <1>5
<1>7. \A r \in 1 .. n : \E a \in DOMAIN s[f[r]] : s[f[r]][a] = r
  BY <1>6 DEF Range
<1>8. f \in [1 .. n -> (1 .. k) \ {e}]
  <2>1. ASSUME NEW r \in 1 .. n PROVE f[r] # e
    <3>1. SUFFICES ASSUME f[r] = e PROVE FALSE
      OBVIOUS
    <3>2. PICK a \in DOMAIN s[f[r]] : s[f[r]][a] = r
      BY <1>7
    <3>3. a \in DOMAIN << >>
      BY <1>2, <3>1
    <3> QED BY <3>3
  <2> QED BY <1>5, <1>6, <2>1
<1>9. IsFiniteSet(1 .. n) /\ Cardinality(1 .. n) = n
  BY FS_Interval
<1>10. IsFiniteSet(1 .. k) /\ Cardinality(1 .. k) = k
  BY FS_Interval
<1>11. IsFiniteSet((1 .. k) \ {e}) /\ Cardinality((1 .. k) \ {e}) = k - 1
  <2>1. IsFiniteSet((1 .. k) \ {e}) /\ Cardinality((1 .. k) \ {e}) = IF e \in 1 .. k THEN Cardinality(1 .. k) - 1 ELSE Cardinality(1 .. k)
    BY <1>10, FS_RemoveElement
  <2> QED BY <1>10, <2>1
<1>12. PICK x \in 1 .. n, y \in 1 .. n : x # y /\ f[x] = f[y]
  <2>1. Cardinality((1 .. k) \ {e}) < Cardinality(1 .. n)
    BY <1>9, <1>11
  <2>2. PICK T, D : T = (1 .. k) \ {e} /\ D = 1 .. n
    OBVIOUS
  <2>3. f \in [D -> T] /\ IsFiniteSet(D) /\ IsFiniteSet(T) /\ Cardinality(T) < Cardinality(D)
    BY <1>8, <1>9, <1>11, <2>1, <2>2
  <2>4. \E x, y \in D : x # y /\ f[x] = f[y]
    BY <2>3, FS_PigeonHole
  <2> QED BY <2>2, <2>4
<1>13. PICK i \in 1 .. k, u \in Seq(1 .. n) : i = f[x] /\ i = f[y] /\ u = s[i] /\ Len(u) <= 1
  <2>1. PICK i \in 1 .. k : i = f[x] /\ i = f[y]
    BY <1>6, <1>12
  <2>2. PICK u \in Seq(1 .. n) : u = s[i]
    BY <1>1
  <2> QED BY <1>3, <2>1, <2>2
<1>14. PICK a \in DOMAIN u : u[a] = x
  BY <1>7, <1>13
<1>15. PICK c \in DOMAIN u : u[c] = y
  BY <1>7, <1>13
<1>16. PICK l \in Nat : l = Len(u) /\ DOMAIN u = 1 .. l /\ l <= 1
  BY <1>13
<1>17. a = c
  BY <1>14, <1>15, <1>16
<1> QED BY <1>12, <1>14, <1>15, <1>17

(* The first j of the parts, of c members each, follow each other. *)
Laid(t, parts, j, c) ==
  Len(t) = j * c /\ \A m \in 0 .. j - 1 : \A i \in 1 .. c : t[BlockPlace(m, c, i)] = parts[m + 1][i]

LEMMA LayOne ==
  ASSUME NEW U, NEW c \in Nat, NEW j \in Nat, NEW parts, NEW t \in Seq(U), NEW p \in Seq(U),
         Laid(t, parts, j, c), p = parts[j + 1], Len(p) = c
  PROVE  Laid(t \o p, parts, j + 1, c)
<1>1. PICK w \in Nat : w = j * c /\ Len(t) = w
  BY DEF Laid
<1>2. (j + 1) * c = w + c
  <2>1. (j + 1) * c = j * c + c
    OBVIOUS
  <2> QED BY <1>1, <2>1
<1>3. PICK u \in Seq(U) : u = t \o p
  BY Joined
<1>7. t \in Seq(U) /\ p \in Seq(U)
  OBVIOUS
<1>4. Len(u) = w + c /\ (\A i \in 1 .. w : u[i] = t[i]) /\ (\A i \in w + 1 .. w + c : u[i] = p[i - w])
  <2>1. /\ Len(t \o p) = Len(t) + Len(p)
        /\ \A i \in 1 .. Len(t) : (t \o p)[i] = t[i]
        /\ \A i \in Len(t) + 1 .. Len(t) + Len(p) : (t \o p)[i] = p[i - Len(t)]
    BY <1>7, Joined, ZenonT(40)
  <2> QED BY <1>1, <1>3, <2>1
<1>5. ASSUME NEW m \in 0 .. j, NEW i \in 1 .. c PROVE u[BlockPlace(m, c, i)] = parts[m + 1][i]
  <2>1. CASE m = j
    <3>1. BlockPlace(m, c, i) = w + i
      BY <1>1, <2>1 DEF BlockPlace
    <3>2. w + i \in w + 1 .. w + c /\ (w + i) - w = i
      OBVIOUS
    <3>3. u[w + i] = p[i]
      BY <1>4, <3>2
    <3> QED BY <2>1, <3>1, <3>3
  <2>2. CASE m # j
    <3>1. m \in 0 .. j - 1 /\ c \in Nat
      BY <2>2
    <3>2. t[BlockPlace(m, c, i)] = parts[m + 1][i]
      BY <3>1 DEF Laid
    <3>3. BlockPlace(m, c, i) \in 1 .. w
      <4>1. PICK d \in Nat : d = c /\ d # 0
        OBVIOUS
      <4>2. d * m + d <= d * j
        BY <3>1, <4>1, Ordered
      <4>3. PICK x \in Nat, y \in Nat : x = d * m /\ x = m * c /\ y = d * j /\ y = w
        BY <1>1, <4>1
      <4>5. x + d <= w
        BY <4>2, <4>3
      <4>6. i <= d /\ 1 <= i /\ i \in Nat
        BY <4>1
      <4>4. x + i \in 1 .. w
        BY <4>5, <4>6
      <4> QED BY <4>3, <4>4 DEF BlockPlace
    <3> QED BY <1>4, <3>2, <3>3
  <2> QED BY <2>1, <2>2
<1>6. (j + 1) - 1 = j
  OBVIOUS
<1> QED BY <1>2, <1>3, <1>4, <1>5, <1>6, ZenonT(40) DEF Laid

(* Parts of one length put together follow each other. *)
LEMMA ConcatEqual ==
  ASSUME NEW U, NEW k \in Nat \ {0}, NEW c \in Nat, NEW parts \in [1 .. k -> Seq(U)],
         \A i \in 1 .. k : Len(parts[i]) = c
  PROVE  Concat(parts) \in Seq(U) /\ Laid(Concat(parts), parts, k, c)
<1>1. PICK f \in [1 .. k -> Seq(U)] : Together(f, k, parts) /\ Concat(parts) = f[k]
  BY ConcatByStep
<1> DEFINE Bad == {j \in 1 .. k : ~Laid(f[j], parts, j, c)}
<1>2. Bad = {}
  <2>1. SUFFICES ASSUME Bad # {} PROVE FALSE
    OBVIOUS
  <2>2. PICK j \in Bad : \A x \in Bad : j <= x
    <3>1. Bad \subseteq Nat
      OBVIOUS
    <3> HIDE DEF Bad
    <3> QED BY <2>1, <3>1, LeastNatural
  <2>3. j \in 1 .. k /\ ~Laid(f[j], parts, j, c)
    BY <2>2
  <2>4. CASE j = 1
    <3>1. f[1] = parts[1] /\ 1 \in 1 .. k
      BY <1>1 DEF Together
    <3>2. Len(f[1]) = c /\ 1 * c = c
      BY <3>1
    <3>3. \A m \in 0 .. 1 - 1 : \A i \in 1 .. c : BlockPlace(m, c, i) = i /\ m + 1 = 1
      BY DEF BlockPlace
    <3>4. \A m \in 0 .. 1 - 1 : \A i \in 1 .. c : f[1][BlockPlace(m, c, i)] = parts[m + 1][i]
      BY <3>1, <3>3
    <3>5. Laid(f[1], parts, 1, c)
      BY <3>2, <3>4 DEF Laid
    <3> QED BY <2>3, <2>4, <3>5
  <2>5. CASE j # 1
    <3>1. PICK q \in 1 .. k : q = j - 1 /\ q \in Nat /\ j \in 2 .. k /\ j = q + 1 /\ ~(j <= q)
      BY <2>3, <2>5
    <3>2. Laid(f[q], parts, q, c)
      <4>1. q \notin Bad
        <5> HIDE DEF Bad
        <5> QED BY <2>2, <3>1
      <4> QED BY <3>1, <4>1
    <3>8. f[q] \in Seq(U) /\ parts[j] \in Seq(U)
      BY <1>1, <2>3, <3>1
    <3>7. PICK t \in Seq(U), p \in Seq(U) : t = f[q] /\ p = parts[j]
      BY <3>8
    <3>9. f[j] = f[j - 1] \o parts[j]
      BY <1>1, <3>1 DEF Together
    <3>3. t = f[q] /\ p = parts[j] /\ f[j] = t \o p
      <4>1. j - 1 = q
        BY <3>1
      <4> QED BY <3>7, <3>9, <4>1
    <3>4. Len(p) = c
      BY <2>3, <3>3
    <3>5. Laid(t, parts, q, c) /\ p = parts[q + 1]
      BY <3>1, <3>2, <3>3
    <3>6. Laid(t \o p, parts, q + 1, c)
      BY <3>1, <3>4, <3>5, LayOne
    <3> QED BY <2>3, <3>1, <3>3, <3>6
  <2> QED BY <2>4, <2>5
<1>3. k \in 1 .. k /\ Laid(f[k], parts, k, c)
  <2>1. k \in 1 .. k
    OBVIOUS
  <2> QED BY <1>2, <2>1
<1> QED BY <1>1, <1>3

(* Parts of one length that have every row once are the rows in another    *)
(* order.                                                                  *)
LEMMA PartsInOrder ==
  ASSUME NEW n \in Nat \ {0}, NEW k \in Nat \ {0}, NEW c \in Nat, NEW parts \in [1 .. k -> Seq(1 .. n)],
         \A i \in 1 .. k : Len(parts[i]) = c, Apart(parts, k), \A r \in 1 .. n : r \in RowsIn(parts, k)
  PROVE  Rearrangement(Concat(parts), n) /\ n = k * c /\ c # 0
<1>1. PICK t \in Seq(1 .. n) : t = Concat(parts) /\ Laid(t, parts, k, c)
  BY ConcatEqual
<1>2. \A m \in 0 .. k - 1 : m + 1 \in 1 .. k /\ DOMAIN parts[m + 1] = 1 .. c
  <2> TAKE m \in 0 .. k - 1
  <2>1. PICK i \in 1 .. k : i = m + 1
    OBVIOUS
  <2>2. PICK p \in Seq(1 .. n) : p = parts[i] /\ Len(p) = c
    OBVIOUS
  <2> QED BY <2>1, <2>2
<1>3. ASSUME NEW r \in 1 .. n PROVE \E m \in 0 .. k - 1 : \E x \in 1 .. c : parts[m + 1][x] = r
  <2>1. PICK i \in 1 .. k : r \in Range(parts[i])
    BY DEF RowsIn
  <2>2. PICK x \in DOMAIN parts[i] : parts[i][x] = r
    BY <2>1 DEF Range
  <2>3. PICK m \in 0 .. k - 1 : i = m + 1
    <3>1. i - 1 \in 0 .. k - 1 /\ i = (i - 1) + 1
      OBVIOUS
    <3> QED BY <3>1
  <2>4. x \in 1 .. c
    BY <1>2, <2>2, <2>3
  <2> QED BY <2>2, <2>3, <2>4
<1>4. c # 0
  <2>1. 1 \in 1 .. n
    OBVIOUS
  <2>2. PICK m \in 0 .. k - 1, x \in 1 .. c : TRUE
    BY <1>3, <2>1
  <2> QED BY <2>2
<1>5. PICK w \in Nat : w = k * c /\ w = c * k
  OBVIOUS
<1>6. Rest(w, c) = 0 /\ Quot(w, c) = k
  <2>1. IsDivision(w, c, k, 0)
    <3>1. k \in Nat /\ 0 \in 0 .. c - 1 /\ w = c * k + 0
      BY <1>4, <1>5
    <3> QED BY <3>1 DEF IsDivision
  <2> QED BY <1>4, <2>1, Quotient
<1>7. InBlocks(w, c, k)
  <2>1. c \in Nat \ {0}
    BY <1>4
  <2>2. InBlocks(w, c, Quot(w, c))
    BY <1>6, <2>1, InBlock
  <2> QED BY <1>6, <2>2
<1>8. DOMAIN t = 1 .. w /\ t \in [1 .. w -> 1 .. n]
  <2>1. Len(t) = w
    BY <1>1, <1>5 DEF Laid
  <2> QED BY <2>1
<1>9. \A m \in 0 .. k - 1 : \A i \in 1 .. c : BlockPlace(m, c, i) \in 1 .. w /\ t[BlockPlace(m, c, i)] = parts[m + 1][i]
  BY <1>1, <1>7 DEF Laid, InBlocks
<1>10. \A r \in 1 .. n : \E p \in 1 .. w : t[p] = r
  <2> TAKE r \in 1 .. n
  <2>1. PICK m \in 0 .. k - 1, i \in 1 .. c : parts[m + 1][i] = r
    BY <1>3
  <2>2. BlockPlace(m, c, i) \in 1 .. w /\ t[BlockPlace(m, c, i)] = r
    BY <1>9, <2>1
  <2> QED BY <2>2
<1>11. ASSUME NEW p \in 1 .. w, NEW q \in 1 .. w, t[p] = t[q] PROVE p = q
  <2>1. PICK m \in 0 .. k - 1, i \in 1 .. c : p = BlockPlace(m, c, i)
    BY <1>7 DEF InBlocks
  <2>2. PICK l \in 0 .. k - 1, j \in 1 .. c : q = BlockPlace(l, c, j)
    BY <1>7 DEF InBlocks
  <2>3. parts[m + 1][i] = parts[l + 1][j]
    BY <1>9, <1>11, <2>1, <2>2
  <2>4. m + 1 = l + 1 /\ i = j
    <3>1. PICK x \in 1 .. k, y \in 1 .. k : x = m + 1 /\ y = l + 1
      OBVIOUS
    <3>4. i \in DOMAIN parts[x] /\ j \in DOMAIN parts[y]
      BY <1>2
    <3>2. parts[x][i] = parts[y][j]
      BY <2>3, <3>1
    <3>3. x = y /\ i = j
      BY <3>4, <3>2 DEF Apart
    <3> QED BY <3>1, <3>3
  <2>5. m = l
    BY <2>4
  <2> QED BY <2>1, <2>2, <2>4, <2>5
<1>12. w = n
  <2>1. IsFiniteSet(1 .. w) /\ Cardinality(1 .. w) = w /\ Cardinality(1 .. n) = n
    BY FS_Interval
  <2>2. t \in Surjection(1 .. w, 1 .. n)
    BY <1>8, <1>10 DEF Surjection
  <2>3. t \in Injection(1 .. w, 1 .. n)
    BY <1>8, <1>11 DEF Injection, IsInjective
  <2> QED BY <2>1, <2>2, <2>3, FS_Surjection
<1>13. Rearrangement(t, n)
  BY <1>8, <1>10, <1>11, <1>12 DEF Rearrangement
<1> QED BY <1>1, <1>4, <1>5, <1>12, <1>13

----------------------------------------------------------------------------
(* The parts have every row once, none is empty, and with `equal` they are *)
(* of one length.                                                          *)
IsFound(lens, n, k, equal, b, parts) ==
  /\ IsSets(lens, n, k, equal, b, parts)
  /\ \A r \in 1 .. n : r \in RowsIn(parts, k)
  /\ \A i \in 1 .. k : parts[i] # << >>

LEMMA Found ==
  ASSUME NEW n \in Nat \ {0}, NEW lens \in [1 .. n -> Nat \ {0}], NEW k \in Nat \ {0}, k <= n, NEW equal, NEW b \in Int,
         NEW first, first = FirstStates(lens, k, equal),
         IsHeap(lens, n, k, equal, b, first), Covers(first, n, k), first # {}
  PROVE  IsFound(lens, n, k, equal, b, get_seqlen_balanced_partitions(lens, k, equal))
<1>0. n \in Nat /\ lens \in [1 .. n -> Int]
  OBVIOUS
<1>1. PICK s : s = karmarkar_karp(lens, k, equal)
  OBVIOUS
<1>2. IsState(lens, n, k, equal, b, s) /\ \A r \in 1 .. n : r \in RowsIn(s, k)
  BY <1>0, <1>1, Differencing
<1>3. IsSets(lens, n, k, equal, b, s) /\ DOMAIN s = 1 .. k
  BY <1>2 DEF IsState, IsSets
<1>4. PICK h : h = SortedSets(s, k)
  OBVIOUS
<1>5. h = get_seqlen_balanced_partitions(lens, k, equal)
  BY <1>1, <1>3, <1>4 DEF get_seqlen_balanced_partitions, Sorted, SortedSets
<1>6. IsSets(lens, n, k, equal, b, h) /\ RowsIn(h, k) = RowsIn(s, k)
  BY <1>0, <1>3, <1>4, SortedParts
<1>7. \A r \in 1 .. n : r \in RowsIn(h, k)
  BY <1>2, <1>6
<1>8. \A i \in 1 .. k : h[i] # << >>
  BY <1>0, <1>6, <1>7, NoneEmpty
<1> QED BY <1>5, <1>6, <1>7, <1>8 DEF IsFound

EqualSizes(n, k, parts) == \E c \in Nat \ {0} : n = k * c /\ \A i \in 1 .. k : Len(parts[i]) = c

LEMMA FoundPartitioned ==
  ASSUME NEW n \in Nat \ {0}, NEW lens \in [1 .. n -> Nat \ {0}], NEW k \in Nat \ {0}, NEW equal, NEW b,
         NEW parts, IsFound(lens, n, k, equal, b, parts)
  PROVE  /\ Partitioned(lens, k, equal, parts)
         /\ equal => Rearrangement(Concat(parts), n) /\ EqualSizes(n, k, parts)
<1>1. /\ parts \in [1 .. k -> Seq(1 .. n)] /\ Apart(parts, k) /\ (equal => SameLength(parts, k))
      /\ \A r \in 1 .. n : r \in RowsIn(parts, k)
      /\ \A i \in 1 .. k : parts[i] # << >>
  BY DEF IsFound, IsSets
<1>2. Len(parts) = k /\ Len(lens) = n /\ DOMAIN lens = 1 .. n
  BY <1>1
<1>3. RowsIn(parts, k) = DOMAIN lens
  <2>1. \A r \in RowsIn(parts, k) : r \in 1 .. n
    <3> TAKE r \in RowsIn(parts, k)
    <3>1. PICK i \in 1 .. k : r \in Range(parts[i])
      BY DEF RowsIn
    <3>2. PICK p \in Seq(1 .. n) : p = parts[i]
      BY <1>1
    <3>3. PICK x \in DOMAIN p : p[x] = r
      BY <3>1, <3>2 DEF Range
    <3> QED BY <3>3
  <2> QED BY <1>1, <1>2, <2>1
<1>4. ASSUME equal
      PROVE  Rearrangement(Concat(parts), n) /\ EqualSizes(n, k, parts)
  <2>1. PICK c \in Nat : \A i \in 1 .. k : Len(parts[i]) = c
    BY <1>1, <1>4 DEF SameLength
  <2>2. Rearrangement(Concat(parts), n) /\ n = k * c /\ c # 0
    BY <1>1, <2>1, PartsInOrder
  <2> QED BY <2>1, <2>2 DEF EqualSizes
<1>5. ASSUME equal PROVE \A i \in 1 .. k : Len(parts[i]) * k = Len(lens)
  <2>1. PICK c \in Nat \ {0} : n = k * c /\ \A i \in 1 .. k : Len(parts[i]) = c
    BY <1>4, <1>5 DEF EqualSizes
  <2>2. c * k = k * c
    OBVIOUS
  <2> QED BY <1>2, <2>1, <2>2
<1>6. Partitioned(lens, k, equal, parts)
  BY <1>1, <1>2, <1>3, <1>5 DEF Partitioned, RowsIn
<1> QED BY <1>4, <1>6

(* The parts of a whole batch: each rank has as many rows, and tokens that  *)
(* differ by no more than a gap for each of the other ranks.                *)
EqualParts(lens, n, k, g, parts) ==
  /\ parts \in [1 .. k -> Seq(1 .. n)]
  /\ Rearrangement(Concat(parts), n)
  /\ EqualSizes(n, k, parts)
  /\ Within(lens, k, (k - 1) * g, parts)

LEMMA BatchPartedWhen ==
  ASSUME NEW n \in Nat \ {0}, NEW lens \in [1 .. n -> Nat \ {0}], NEW k \in Nat \ {0}, k <= n, Rest(n, k) = 0,
         NEW g \in Nat, Gap(lens, n, g), NEW equal, equal
  PROVE  /\ CanPartition(lens, k, equal)
         /\ Partitioned(lens, k, equal, get_seqlen_balanced_partitions(lens, k, equal))
         /\ EqualParts(lens, n, k, g, get_seqlen_balanced_partitions(lens, k, equal))
<1>1. PICK first : first = FirstStates(lens, k, equal)
  OBVIOUS
<1>2. PICK b \in Int : b = (k - 1) * g
  OBVIOUS
<1>3. IsHeap(lens, n, k, equal, b, first) /\ Covers(first, n, k) /\ first # {}
  BY <1>1, <1>2, Blocks
<1>4. PICK parts : parts = get_seqlen_balanced_partitions(lens, k, equal)
  OBVIOUS
<1>5. IsFound(lens, n, k, equal, b, parts)
  BY <1>1, <1>3, <1>4, Found
<1>6. Partitioned(lens, k, equal, parts)
  BY <1>5, FoundPartitioned
<1>7. Rearrangement(Concat(parts), n) /\ EqualSizes(n, k, parts)
  BY <1>5, FoundPartitioned
<1>8. parts \in [1 .. k -> Seq(1 .. n)] /\ Within(lens, k, b, parts)
  BY <1>5 DEF IsFound, IsSets
<1>9. CanPartition(lens, k, equal)
  BY DEF CanPartition, Rest
<1>10. EqualParts(lens, n, k, g, parts)
  BY <1>2, <1>7, <1>8 DEF EqualParts
<1> QED BY <1>4, <1>6, <1>9, <1>10

(* A batch whose rows divide over k ranks passes both assertions of         *)
(* get_seqlen_balanced_partitions; each rank has as many rows as another,   *)
(* every row is with one rank, and the tokens of two ranks differ by no     *)
(* more than k - 1 gaps between a row and the next longer one.              *)
THEOREM BatchParted ==
  ASSUME NEW n \in Nat \ {0}, NEW lens \in [1 .. n -> Nat \ {0}], NEW k \in Nat \ {0}, k <= n, Rest(n, k) = 0,
         NEW g \in Nat, Gap(lens, n, g)
  PROVE  /\ CanPartition(lens, k, TRUE)
         /\ Partitioned(lens, k, TRUE, get_seqlen_balanced_partitions(lens, k, TRUE))
         /\ EqualParts(lens, n, k, g, get_seqlen_balanced_partitions(lens, k, TRUE))
<1>1. PICK equal : equal = TRUE
  OBVIOUS
<1>2. equal
  BY <1>1
<1>3. /\ CanPartition(lens, k, equal)
      /\ Partitioned(lens, k, equal, get_seqlen_balanced_partitions(lens, k, equal))
      /\ EqualParts(lens, n, k, g, get_seqlen_balanced_partitions(lens, k, equal))
  BY <1>2, BatchPartedWhen
<1> QED BY <1>1, <1>3

(* The micro-batches of a mini-batch differ by no more than its longest row. *)
UnequalParts(lens, n, k, b, parts) ==
  /\ parts \in [1 .. k -> Seq(1 .. n)]
  /\ Apart(parts, k) /\ Wide(parts, k) /\ Within(lens, k, b, parts)
  /\ \A r \in 1 .. n : r \in RowsIn(parts, k)
  /\ \A i \in 1 .. k : parts[i] # << >>

LEMMA RowsPartedWhen ==
  ASSUME NEW n \in Nat \ {0}, NEW lens \in [1 .. n -> Nat \ {0}], NEW k \in Nat \ {0}, k <= n,
         NEW b \in Int, \A r \in 1 .. n : lens[r] <= b, NEW equal, ~equal
  PROVE  /\ CanPartition(lens, k, equal)
         /\ Partitioned(lens, k, equal, get_seqlen_balanced_partitions(lens, k, equal))
         /\ UnequalParts(lens, n, k, b, get_seqlen_balanced_partitions(lens, k, equal))
<1>1. PICK first : first = FirstStates(lens, k, equal)
  OBVIOUS
<1>3. IsHeap(lens, n, k, equal, b, first) /\ Covers(first, n, k) /\ first # {}
  BY <1>1, SingleRows
<1>4. PICK parts : parts = get_seqlen_balanced_partitions(lens, k, equal)
  OBVIOUS
<1>5. IsFound(lens, n, k, equal, b, parts)
  BY <1>1, <1>3, <1>4, Found
<1>6. Partitioned(lens, k, equal, parts)
  BY <1>5, FoundPartitioned
<1>7. CanPartition(lens, k, equal)
  BY DEF CanPartition
<1>8. UnequalParts(lens, n, k, b, parts)
  BY <1>5 DEF IsFound, IsSets, UnequalParts
<1> QED BY <1>4, <1>6, <1>7, <1>8

(* Any rows, no fewer than there are micro-batches, are parted without a    *)
(* failing assertion: no micro-batch is empty, every row is in one, and the *)
(* tokens of two differ by no more than the longest row has.                *)
THEOREM RowsParted ==
  ASSUME NEW n \in Nat \ {0}, NEW lens \in [1 .. n -> Nat \ {0}], NEW k \in Nat \ {0}, k <= n,
         NEW b \in Int, \A r \in 1 .. n : lens[r] <= b
  PROVE  /\ CanPartition(lens, k, FALSE)
         /\ Partitioned(lens, k, FALSE, get_seqlen_balanced_partitions(lens, k, FALSE))
         /\ UnequalParts(lens, n, k, b, get_seqlen_balanced_partitions(lens, k, FALSE))
<1>1. PICK equal : equal = FALSE
  OBVIOUS
<1>2. ~equal
  BY <1>1
<1>3. /\ CanPartition(lens, k, equal)
      /\ Partitioned(lens, k, equal, get_seqlen_balanced_partitions(lens, k, equal))
      /\ UnequalParts(lens, n, k, b, get_seqlen_balanced_partitions(lens, k, equal))
  BY <1>2, RowsPartedWhen
<1> QED BY <1>1, <1>3

LEMMA GapExists ==
  ASSUME NEW n \in Nat, NEW g \in Nat, NEW lens \in [1 .. n -> 1 .. g]
  PROVE  Gap(lens, n, g)
<1>1. ASSUME NEW x \in 1 .. n, NEW y \in 1 .. n PROVE lens[y] - lens[x] <= g
  <2>1. PICK u \in 1 .. g, v \in 1 .. g : u = lens[x] /\ v = lens[y]
    OBVIOUS
  <2>2. v - u <= g
    OBVIOUS
  <2> QED BY <2>1, <2>2
<1> QED BY <1>1 DEF Gap
=============================================================================
