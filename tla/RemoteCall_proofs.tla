-------------------------- MODULE RemoteCall_proofs --------------------------
(* What holds of a worker group and of the calls to it for every number of  *)
(* nodes, ranks and rows, every layout and all roles.                       *)
EXTENDS RemoteCall, FiniteSetTheorems, WellFoundedInduction, TLAPS

----------------------------------------------------------------------------
(* Lemmas on numbers *)

(* A set of numbers that is not empty has a least one: a fact about all     *)
(* numbers is shown by taking the least for which it fails.                 *)
LEMMA LeastNatural ==
  ASSUME NEW T, T \subseteq Nat, T # {}
  PROVE  \E x \in T : \A y \in T : x <= y
<1> DEFINE Less == OpToRel(<, Nat)
<1>1. PICK x \in T : \A y \in T : ~(<<y, x>> \in Less)
  <2>1. IsWellFoundedOn(Less, Nat)
    BY NatLessThanWellFounded DEF Less
  <2> QED BY <2>1, WFMin
<1>2. \A y \in T : ~(y < x)
  BY <1>1 DEF OpToRel
<1> QED BY <1>2

(* Quotient and remainder, as names that facts can be instantiated with. *)
Quot(a, d) == a \div d
Rest(a, d) == a % d
IsDivision(a, d, q, r) == q \in Nat /\ r \in 0 .. d - 1 /\ a = d * q + r

(* A number has one quotient and one remainder. *)
LEMMA Division ==
  ASSUME NEW a \in Nat, NEW d \in Nat \ {0}
  PROVE  Quot(a, d) \in Nat /\ Rest(a, d) \in 0 .. d - 1 /\ a = d * Quot(a, d) + Rest(a, d)
<1>1. a % d = a - d * (a \div d)
  OBVIOUS
<1>2. (a \div d) \in Nat /\ a % d \in 0 .. d - 1
  OBVIOUS
<1>3. PICK q \in Nat, r \in 0 .. d - 1 : q = a \div d /\ r = a % d
  BY <1>2
<1>4. r = a - d * q
  BY <1>1, <1>3
<1>5. PICK x \in Nat : x = d * q
  BY <1>3
<1>6. a = d * q + r
  BY <1>4, <1>5
<1>7. q = Quot(a, d) /\ r = Rest(a, d)
  BY <1>3 DEF Quot, Rest
<1> QED BY <1>6, <1>7

(* The multiples of a number are at least it apart. *)
LEMMA Ordered ==
  ASSUME NEW d \in Nat \ {0}, NEW p \in Int, NEW q \in Int, p < q
  PROVE  d * p + d <= d * q
<1>1. d * (q - p - 1) >= 0
  OBVIOUS
<1>2. d * (q - p - 1) = d * q - d * p - d
  OBVIOUS
<1> QED BY <1>1, <1>2

(* The quotient and the remainder are the only such numbers. *)
LEMMA Quotient ==
  ASSUME NEW d \in Nat \ {0}, NEW q, NEW r, NEW a, IsDivision(a, d, q, r)
  PROVE  Quot(a, d) = q /\ Rest(a, d) = r
<1>0. q \in Nat /\ r \in 0 .. d - 1 /\ a = d * q + r
  BY DEF IsDivision
<1>1. a \in Nat
  BY <1>0
<1>2. PICK k \in Nat, m \in 0 .. d - 1 : k = Quot(a, d) /\ m = Rest(a, d) /\ a = d * k + m
  BY <1>1, Division
<1>3. k = q
  <2>1. ~(k < q)
    <3>1. SUFFICES ASSUME k < q PROVE FALSE
      OBVIOUS
    <3>2. d * k + d <= d * q
      BY <1>0, <3>1, Ordered
    <3>3. PICK x \in Int, y \in Int : x = d * k /\ y = d * q
      BY <1>0, <1>2
    <3> QED BY <1>0, <1>1, <1>2, <3>2, <3>3
  <2>2. ~(q < k)
    <3>1. SUFFICES ASSUME q < k PROVE FALSE
      OBVIOUS
    <3>2. d * q + d <= d * k
      BY <1>0, <3>1, Ordered
    <3>3. PICK x \in Int, y \in Int : x = d * k /\ y = d * q
      BY <1>0, <1>2
    <3> QED BY <1>0, <1>1, <1>2, <3>2, <3>3
  <2> QED BY <1>0, <2>1, <2>2
<1>4. m = r
  <2>1. PICK x \in Int : x = d * q
    BY <1>0
  <2>2. a = x + m
    BY <1>2, <1>3, <2>1
  <2>3. a = x + r
    BY <1>0, <2>1
  <2> QED BY <1>0, <2>2, <2>3
<1> QED BY <1>2, <1>3, <1>4

(* Division by a product, one factor after the other. *)
LEMMA TwoDivisions ==
  ASSUME NEW a \in Nat, NEW b \in Nat \ {0}, NEW c \in Nat \ {0}, NEW d, d = b * c
  PROVE  /\ d \in Nat \ {0} /\ Quot(a, d) = Quot(Quot(a, b), c)
         /\ Rest(a, d) = b * Rest(Quot(a, b), c) + Rest(a, b)
<1>1. PICK q \in Nat, r \in 0 .. b - 1 : q = Quot(a, b) /\ r = Rest(a, b) /\ a = b * q + r
  BY Division, ZenonT(40)
<1>2. PICK k \in Nat, m \in 0 .. c - 1 : k = Quot(q, c) /\ m = Rest(q, c) /\ q = c * k + m
  BY Division, ZenonT(40)
<1>3. d \in Nat \ {0}
  <2>1. b * c \in Nat /\ b * c # 0
    OBVIOUS
  <2> QED BY <2>1
<1>4. PICK s \in 0 .. d - 1 : s = b * m + r
  <2>1. b * m + b <= b * c
    BY Ordered
  <2>2. b * m \in Nat
    OBVIOUS
  <2>3. PICK x \in Nat : x = b * m
    BY <2>2
  <2> QED BY <1>3, <2>1, <2>3
<1>5. a = d * k + s
  <2>1. b * (c * k + m) = (b * c) * k + b * m
    OBVIOUS
  <2>2. a = b * (c * k + m) + r
    BY <1>1, <1>2
  <2>3. PICK x \in Nat, y \in Nat : x = d * k /\ y = b * m
    BY <1>3
  <2>4. a = (x + y) + r
    BY <2>1, <2>2, <2>3
  <2> QED BY <1>4, <2>3, <2>4
<1>6. Quot(a, d) = k /\ Rest(a, d) = s
  <2>1. k \in Nat /\ s \in 0 .. d - 1
    BY <1>2, <1>4
  <2>2. IsDivision(a, d, k, s)
    BY <1>5, <2>1 DEF IsDivision
  <2> QED BY <1>3, <2>2, Quotient
<1> QED BY <1>1, <1>2, <1>3, <1>4, <1>6

----------------------------------------------------------------------------
(* Lemmas on sequences cut and put together *)

(* What a section of a sequence is. *)
LEMMA Section ==
  ASSUME NEW U, NEW s \in Seq(U), NEW x \in Nat, NEW y \in Nat, x <= y, y <= Len(s)
  PROVE  /\ SubSeq(s, x + 1, y) \in Seq(U) /\ Len(SubSeq(s, x + 1, y)) = y - x
         /\ \A i \in 1 .. y - x : SubSeq(s, x + 1, y)[i] = s[x + i]
OBVIOUS

(* What two sequences are together. *)
LEMMA Joined ==
  ASSUME NEW U, NEW s \in Seq(U), NEW t \in Seq(U)
  PROVE  /\ s \o t \in Seq(U) /\ Len(s \o t) = Len(s) + Len(t)
         /\ \A i \in 1 .. Len(s) : (s \o t)[i] = s[i]
         /\ \A i \in Len(s) + 1 .. Len(s) + Len(t) : (s \o t)[i] = t[i - Len(s)]
OBVIOUS

(* Sequences with the same elements are the same. *)
LEMMA SameSequence ==
  ASSUME NEW U, NEW s \in Seq(U), NEW t \in Seq(U), Len(s) = Len(t),
         \A i \in 1 .. Len(s) : s[i] = t[i]
  PROVE  s = t
OBVIOUS

(* A section with a name. *)
LEMMA SectionNamed ==
  ASSUME NEW U, NEW s \in Seq(U), NEW x \in Nat, NEW y \in Nat, x <= y, y <= Len(s),
         NEW u, u = SubSeq(s, x + 1, y)
  PROVE  u \in Seq(U) /\ Len(u) = y - x /\ \A i \in 1 .. y - x : u[i] = s[x + i]
<1>1. /\ SubSeq(s, x + 1, y) \in Seq(U) /\ Len(SubSeq(s, x + 1, y)) = y - x
      /\ \A i \in 1 .. y - x : SubSeq(s, x + 1, y)[i] = s[x + i]
  BY Section
<1> QED BY <1>1

(* Two sections that follow each other are one section. *)
LEMMA SectionsJoined ==
  ASSUME NEW U, NEW s \in Seq(U), NEW x \in Nat, NEW y \in Nat, NEW z \in Nat, x <= y, y <= z, z <= Len(s)
  PROVE  SubSeq(s, x + 1, y) \o SubSeq(s, y + 1, z) = SubSeq(s, x + 1, z)
<1>1. PICK u, v, w, t : u = SubSeq(s, x + 1, y) /\ v = SubSeq(s, y + 1, z) /\ w = SubSeq(s, x + 1, z) /\ t = u \o v
  OBVIOUS
<1>2. u \in Seq(U) /\ Len(u) = y - x /\ \A i \in 1 .. y - x : u[i] = s[x + i]
  BY <1>1, SectionNamed, SMTT(30)
<1>3. v \in Seq(U) /\ Len(v) = z - y /\ \A i \in 1 .. z - y : v[i] = s[y + i]
  BY <1>1, SectionNamed
<1>4. w \in Seq(U) /\ Len(w) = z - x /\ \A i \in 1 .. z - x : w[i] = s[x + i]
  <2>1. x <= z
    OBVIOUS
  <2> QED BY <1>1, <2>1, SectionNamed
<1>5. /\ t \in Seq(U) /\ Len(t) = Len(u) + Len(v)
      /\ \A i \in 1 .. Len(u) : t[i] = u[i]
      /\ \A i \in Len(u) + 1 .. Len(u) + Len(v) : t[i] = v[i - Len(u)]
  <2>1. /\ u \o v \in Seq(U) /\ Len(u \o v) = Len(u) + Len(v)
        /\ \A i \in 1 .. Len(u) : (u \o v)[i] = u[i]
        /\ \A i \in Len(u) + 1 .. Len(u) + Len(v) : (u \o v)[i] = v[i - Len(u)]
    BY <1>2, <1>3, Joined
  <2> QED BY <1>1, <2>1
<1>6. Len(t) = z - x
  BY <1>2, <1>3, <1>5
<1>7. ASSUME NEW i \in 1 .. z - x PROVE t[i] = w[i]
  <2>1. CASE i <= y - x
    BY <2>1, <1>2, <1>4, <1>5
  <2>2. CASE i > y - x
    <3>1. i \in Len(u) + 1 .. Len(u) + Len(v) /\ i - Len(u) \in 1 .. z - y /\ y + (i - Len(u)) = x + i
      BY <2>2, <1>2, <1>3
    <3>2. t[i] = v[i - Len(u)]
      BY <3>1, <1>5
    <3>3. v[i - Len(u)] = s[y + (i - Len(u))]
      BY <3>1, <1>3
    <3> QED BY <3>1, <3>2, <3>3, <1>4
  <2> QED BY <2>1, <2>2
<1>8. t = w
  BY <1>4, <1>5, <1>6, <1>7, SameSequence
<1> QED BY <1>1, <1>8

(* A section of a section is one of the sequence. *)
LEMMA SectionOfSection ==
  ASSUME NEW U, NEW s \in Seq(U), NEW x \in Nat, NEW y \in Nat, x <= y, y <= Len(s),
         NEW p \in Nat, NEW q \in Nat, p <= q, q <= y - x
  PROVE  SubSeq(SubSeq(s, x + 1, y), p + 1, q) = SubSeq(s, (x + p) + 1, x + q)
<1>1. PICK u, v, w : u = SubSeq(s, x + 1, y) /\ v = SubSeq(u, p + 1, q) /\ w = SubSeq(s, (x + p) + 1, x + q)
  OBVIOUS
<1>2. u \in Seq(U) /\ Len(u) = y - x /\ \A i \in 1 .. y - x : u[i] = s[x + i]
  BY <1>1, SectionNamed
<1>3. v \in Seq(U) /\ Len(v) = q - p /\ \A i \in 1 .. q - p : v[i] = u[p + i]
  BY <1>1, <1>2, SectionNamed
<1>4. w \in Seq(U) /\ Len(w) = q - p /\ \A i \in 1 .. q - p : w[i] = s[(x + p) + i]
  <2>1. PICK j \in Nat, k \in Nat : j = x + p /\ k = x + q /\ j <= k /\ k <= Len(s) /\ k - j = q - p
    OBVIOUS
  <2>2. w \in Seq(U) /\ Len(w) = k - j /\ \A i \in 1 .. k - j : w[i] = s[j + i]
    BY <1>1, <2>1, SectionNamed
  <2> QED BY <2>1, <2>2
<1>5. ASSUME NEW i \in 1 .. q - p PROVE v[i] = w[i]
  <2>1. p + i \in 1 .. y - x /\ x + (p + i) = (x + p) + i
    OBVIOUS
  <2>2. v[i] = u[p + i]
    BY <1>3
  <2>3. u[p + i] = s[x + (p + i)]
    BY <2>1, <1>2
  <2> QED BY <2>1, <2>2, <2>3, <1>4
<1>6. v = w
  BY <1>3, <1>4, <1>5, SameSequence
<1> QED BY <1>1, <1>6

(* f[i] is what the first i parts are together. *)
Together(f, n, parts) == f[1] = parts[1] /\ \A i \in 2 .. n : f[i] = f[i - 1] \o parts[i]

(* Putting parts together takes one after the other. *)
LEMMA ConcatByStep ==
  ASSUME NEW U, NEW n \in Nat \ {0}, NEW parts \in [1 .. n -> Seq(U)]
  PROVE  \E f \in [1 .. n -> Seq(U)] : Together(f, n, parts) /\ Concat(parts) = f[n]
<1> DEFINE Good(f, m) == f = [i \in 1 .. m |-> IF i = 1 THEN parts[i] ELSE f[i - 1] \o parts[i]]
           Bad == {m \in Nat : ~ \E f : Good(f, m)}
<1>1. Bad = {}
  <2>1. SUFFICES ASSUME Bad # {} PROVE FALSE
    OBVIOUS
  <2>2. PICK m \in Bad : \A k \in Bad : m <= k
    <3>1. Bad \subseteq Nat
      OBVIOUS
    <3> HIDE DEF Bad
    <3> QED BY <2>1, <3>1, LeastNatural
  <2>3. m # 0
    <3>1. Good([i \in 1 .. 0 |-> parts[i]], 0)
      OBVIOUS
    <3> HIDE DEF Good
    <3> QED BY <3>1
  <2>4. m \in Nat /\ m - 1 \in Nat /\ m - 1 \notin Bad
    <3>1. m \in Nat
      BY <2>2
    <3>2. m - 1 \in Nat
      BY <2>3, <3>1
    <3>3. m - 1 \notin Bad
      <4> HIDE DEF Bad
      <4> QED BY <2>2, <3>1
    <3> HIDE DEF Bad
    <3> QED BY <3>1, <3>2, <3>3
  <2>5. PICK f : Good(f, m - 1)
    BY <2>4
  <2>6. Good([i \in 1 .. m |-> IF i = 1 THEN parts[i] ELSE f[i - 1] \o parts[i]], m)
    <3> DEFINE g == [i \in 1 .. m |-> IF i = 1 THEN parts[i] ELSE f[i - 1] \o parts[i]]
    <3>1. \A i \in 1 .. m : i # 1 => i - 1 \in 1 .. m - 1 /\ i - 1 \in 1 .. m
      BY <2>4
    <3>2. \A i \in 1 .. m - 1 : f[i] = IF i = 1 THEN parts[i] ELSE f[i - 1] \o parts[i]
      BY <2>5
    <3>3. \A i \in 1 .. m - 1 : g[i] = f[i]
      <4>1. \A i \in 1 .. m - 1 : i \in 1 .. m
        BY <2>4
      <4> QED BY <3>2, <4>1
    <3>4. \A i \in 1 .. m : i # 1 => g[i - 1] = f[i - 1]
      BY <3>1, <3>3
    <3> QED BY <3>4
  <2> HIDE DEF Good
  <2> QED BY <2>2, <2>6
<1>2. \E f : Good(f, n)
  BY <1>1
<1>3. Len(parts) = n /\ n # 0
  OBVIOUS
<1>4. Concat(parts) = (CHOOSE f : Good(f, n))[n]
  BY <1>3 DEF Concat, FlattenSeq
<1>5. PICK f : Good(f, n) /\ Concat(parts) = f[n]
  <2> HIDE DEF Good
  <2> QED BY <1>2, <1>4
<1>6. f[1] = parts[1] /\ \A i \in 2 .. n : f[i] = f[i - 1] \o parts[i]
  <2>1. \A i \in 1 .. n : f[i] = IF i = 1 THEN parts[i] ELSE f[i - 1] \o parts[i]
    BY <1>5
  <2>2. 1 \in 1 .. n /\ \A i \in 2 .. n : i \in 1 .. n /\ i # 1
    OBVIOUS
  <2>3. f[1] = parts[1]
    BY <2>1, <2>2
  <2>4. ASSUME NEW i \in 2 .. n PROVE f[i] = f[i - 1] \o parts[i]
    BY <2>1, <2>2
  <2> QED BY <2>3, <2>4
<1>7. \A i \in 1 .. n : f[i] \in Seq(U)
  <2> DEFINE Wrong == {i \in 1 .. n : f[i] \notin Seq(U)}
  <2>1. SUFFICES ASSUME Wrong # {} PROVE FALSE
    OBVIOUS
  <2>2. PICK i \in Wrong : \A k \in Wrong : i <= k
    <3>1. Wrong \subseteq Nat
      OBVIOUS
    <3> HIDE DEF Wrong
    <3> QED BY <2>1, <3>1, LeastNatural
  <2>3. i \in 1 .. n /\ i # 1
    BY <1>6, <2>2
  <2>4. i - 1 \in 1 .. n /\ i - 1 \notin Wrong
    <3>1. ~(i <= i - 1)
      BY <2>3
    <3> HIDE DEF Wrong
    <3> QED BY <2>2, <2>3, <3>1
  <2>5. f[i - 1] \in Seq(U) /\ parts[i] \in Seq(U)
    BY <2>3, <2>4
  <2>6. f[i - 1] \o parts[i] \in Seq(U)
    BY <2>5, Joined
  <2>7. i \in 2 .. n
    BY <2>3
  <2>8. f[i] = f[i - 1] \o parts[i]
    BY <1>6, <2>7
  <2> QED BY <2>2, <2>6, <2>8
<1>8. f \in [1 .. n -> Seq(U)]
  BY <1>5, <1>7
<1>9. Together(f, n, parts)
  BY <1>6 DEF Together
<1> QED BY <1>5, <1>8, <1>9

(* The parts follow each other in the sequence, the i-th up to b[i]. *)
Consecutive(s, n, b, parts) ==
  /\ \A i \in 0 .. n : b[i] \in Nat /\ b[0] <= b[i] /\ b[i] <= Len(s)
  /\ \A i \in 1 .. n : b[i - 1] <= b[i] /\ parts[i] = SubSeq(s, b[i - 1] + 1, b[i])

(* Such parts, put together, are a section of the sequence. *)
LEMMA CutAndPut ==
  ASSUME NEW U, NEW s \in Seq(U), NEW n \in Nat \ {0}, NEW b, NEW parts \in [1 .. n -> Seq(U)],
         Consecutive(s, n, b, parts)
  PROVE  Concat(parts) = SubSeq(s, b[0] + 1, b[n])
<1>1. ASSUME NEW i \in 1 .. n
      PROVE  /\ b[i - 1] \in Nat /\ b[0] <= b[i - 1] /\ b[i] \in Nat /\ b[i] <= Len(s) /\ b[i - 1] <= b[i]
             /\ parts[i] = SubSeq(s, b[i - 1] + 1, b[i])
  <2>1. i - 1 \in 0 .. n /\ i \in 0 .. n
    OBVIOUS
  <2> QED BY <2>1 DEF Consecutive
<1>2. PICK x \in Nat : x = b[0]
  <2>1. 0 \in 0 .. n
    OBVIOUS
  <2> QED BY <2>1 DEF Consecutive
<1>3. PICK f \in [1 .. n -> Seq(U)] : Together(f, n, parts) /\ Concat(parts) = f[n]
  BY ConcatByStep
<1> DEFINE Wrong == {i \in 1 .. n : f[i] # SubSeq(s, x + 1, b[i])}
<1>4. SUFFICES ASSUME Wrong # {} PROVE FALSE
  <2>1. n \in 1 .. n
    OBVIOUS
  <2>2. Wrong = {} => f[n] = SubSeq(s, x + 1, b[n])
    BY <2>1
  <2> HIDE DEF Wrong
  <2> QED BY <1>2, <1>3, <2>2
<1>5. PICK i \in Wrong : \A k \in Wrong : i <= k
  <2>1. Wrong \subseteq Nat
    OBVIOUS
  <2> HIDE DEF Wrong
  <2> QED BY <1>4, <2>1, LeastNatural
<1>6. i \in 1 .. n /\ f[i] # SubSeq(s, x + 1, b[i])
  BY <1>5
<1>7. i # 1
  <2>1. SUFFICES ASSUME i = 1 PROVE FALSE
    OBVIOUS
  <2>2. 1 \in 1 .. n /\ 1 - 1 = 0
    OBVIOUS
  <2>3. parts[1] = SubSeq(s, b[0] + 1, b[1])
    BY <1>1, <2>2
  <2> QED BY <1>2, <1>3, <1>6, <2>1, <2>3 DEF Together
<1>8. i - 1 \in 1 .. n /\ f[i - 1] = SubSeq(s, x + 1, b[i - 1])
  <2>1. i - 1 \in 1 .. n /\ ~(i <= i - 1)
    BY <1>6, <1>7
  <2>2. i - 1 \notin Wrong
    <3> HIDE DEF Wrong
    <3> QED BY <1>5, <2>1
  <2> QED BY <2>1, <2>2
<1> HIDE DEF Wrong
<1>9. f[i] = SubSeq(s, x + 1, b[i - 1]) \o SubSeq(s, b[i - 1] + 1, b[i])
  <2>1. i \in 2 .. n
    BY <1>6, <1>7
  <2>2. f[i] = f[i - 1] \o parts[i]
    BY <1>3, <2>1 DEF Together
  <2> QED BY <1>1, <1>6, <1>8, <2>2
<1>10. PICK y \in Nat, z \in Nat : y = b[i - 1] /\ z = b[i] /\ x <= y /\ y <= z /\ z <= Len(s)
  BY <1>1, <1>2, <1>6
<1>11. SubSeq(s, x + 1, y) \o SubSeq(s, y + 1, z) = SubSeq(s, x + 1, z)
  <2>1. x <= y /\ y <= z /\ z <= Len(s)
    BY <1>10
  <2> HIDE <1>10
  <2> QED BY <2>1, SectionsJoined
<1> QED BY <1>6, <1>9, <1>10, <1>11

----------------------------------------------------------------------------
(* Lemmas on chunks *)

(* Division that rounds up. *)
LEMMA RoundedUp ==
  ASSUME NEW n \in Nat, NEW k \in Nat \ {0}
  PROVE  /\ ChunkSize(n, k) \in Nat /\ n <= k * ChunkSize(n, k)
         /\ k * ChunkSize(n, k) < n + k
<1>1. PICK m \in Nat : m = n + k - 1
  OBVIOUS
<1>2. PICK q \in Nat, r \in 0 .. k - 1 : q = Quot(m, k) /\ m = k * q + r
  BY Division
<1>3. ChunkSize(n, k) = q
  BY <1>1, <1>2 DEF ChunkSize, Quot
<1>4. PICK x \in Int : x = k * q
  OBVIOUS
<1>5. n <= x /\ x < n + k
  BY <1>1, <1>2, <1>4
<1> QED BY <1>3, <1>4, <1>5

(* The chunks but the last fit into n rows. *)
Cuts(n, k) == (k - 1) * ChunkSize(n, k) <= n

(* Rows that divide give chunks of one size. *)
LEMMA WholeChunks ==
  ASSUME NEW n \in Nat, NEW k \in Nat \ {0}, Rest(n, k) = 0
  PROVE  n = k * ChunkSize(n, k) /\ Cuts(n, k)
<1>1. PICK q \in Nat : n = k * q
  <2>0. Quot(n, k) \in Nat /\ n = k * Quot(n, k) + Rest(n, k)
    BY Division
  <2>1. PICK q \in Nat : n = k * q + 0
    BY <2>0
  <2>2. PICK x \in Int : x = k * q
    OBVIOUS
  <2> QED BY <2>1, <2>2
<1>2. PICK c \in Nat : c = ChunkSize(n, k) /\ n <= k * c /\ k * c < n + k
  BY RoundedUp
<1>3. c = q
  <2>1. ~(c < q)
    <3>1. SUFFICES ASSUME c < q PROVE FALSE
      OBVIOUS
    <3>2. k * c + k <= k * q
      BY <3>1, Ordered
    <3>3. PICK x \in Nat : x = k * c
      OBVIOUS
    <3> QED BY <1>1, <1>2, <3>2, <3>3
  <2>2. ~(q < c)
    <3>1. SUFFICES ASSUME q < c PROVE FALSE
      OBVIOUS
    <3>2. k * q + k <= k * c
      BY <3>1, Ordered
    <3>3. PICK x \in Nat : x = k * c
      OBVIOUS
    <3> QED BY <1>1, <1>2, <3>2, <3>3
  <2> QED BY <2>1, <2>2
<1>4. (k - 1) * q <= k * q
  OBVIOUS
<1> QED BY <1>1, <1>2, <1>3, <1>4 DEF Cuts

(* Where the i-th of k chunks of n rows ends. *)
Bound(n, k, i) == IF i = k THEN n ELSE i * ChunkSize(n, k)

(* The boundaries increase from 0 to all rows. *)
LEMMA Bounds ==
  ASSUME NEW n \in Nat, NEW k \in Nat \ {0}, Cuts(n, k)
  PROVE  /\ Bound(n, k, 0) = 0 /\ Bound(n, k, k) = n
         /\ \A i \in 0 .. k : Bound(n, k, i) \in Nat /\ Bound(n, k, i) <= n
         /\ \A i \in 1 .. k : Bound(n, k, i - 1) <= Bound(n, k, i) /\ Bound(n, k, i - 1) = (i - 1) * ChunkSize(n, k)
<1>1. PICK c \in Nat : c = ChunkSize(n, k) /\ (k - 1) * c <= n
  BY RoundedUp DEF Cuts
<1>2. ASSUME NEW i \in 0 .. k - 1 PROVE i * c \in Nat /\ i * c <= n
  <2>1. i * c \in Nat
    OBVIOUS
  <2>2. (k - 1 - i) * c \in Nat
    <3>1. k - 1 - i \in Nat
      OBVIOUS
    <3> QED BY <3>1
  <2>3. (k - 1) * c = (k - 1 - i) * c + i * c
    OBVIOUS
  <2>4. PICK x \in Nat, y \in Nat, z \in Int : x = i * c /\ y = (k - 1 - i) * c /\ z = (k - 1) * c
    BY <2>1, <2>2
  <2> QED BY <1>1, <2>3, <2>4
<1>3. ASSUME NEW i \in 0 .. k PROVE Bound(n, k, i) \in Nat /\ Bound(n, k, i) <= n
  <2>1. CASE i = k
    BY <2>1 DEF Bound
  <2>2. CASE i # k
    <3>1. i \in 0 .. k - 1
      BY <2>2
    <3> QED BY <1>1, <1>2, <2>2, <3>1 DEF Bound
  <2> QED BY <2>1, <2>2
<1>4. ASSUME NEW i \in 1 .. k
      PROVE  Bound(n, k, i - 1) <= Bound(n, k, i) /\ Bound(n, k, i - 1) = (i - 1) * ChunkSize(n, k)
  <2>1. i - 1 \in 0 .. k - 1 /\ i - 1 # k
    OBVIOUS
  <2>2. Bound(n, k, i - 1) = (i - 1) * c
    BY <1>1, <2>1 DEF Bound
  <2>3. CASE i = k
    BY <1>1, <1>2, <2>1, <2>2, <2>3 DEF Bound
  <2>4. CASE i # k
    <3>1. Bound(n, k, i) = i * c
      BY <1>1, <2>4 DEF Bound
    <3>2. i * c = (i - 1) * c + c
      OBVIOUS
    <3>3. PICK x \in Int : x = (i - 1) * c
      OBVIOUS
    <3> QED BY <1>1, <2>2, <3>1, <3>2, <3>3
  <2> QED BY <1>1, <2>2, <2>3, <2>4
<1>5. Bound(n, k, 0) = 0 /\ Bound(n, k, k) = n
  <2>1. 0 # k /\ 0 * c = 0
    OBVIOUS
  <2> QED BY <1>1, <2>1 DEF Bound
<1> QED BY <1>3, <1>4, <1>5

(* The boundaries as a function. *)
BoundsOf(n, k) == [i \in 0 .. k |-> Bound(n, k, i)]

(* The chunks of a sequence follow each other and are all of it. *)
LEMMA ChunkCut ==
  ASSUME NEW U, NEW s \in Seq(U), NEW k \in Nat \ {0}, Cuts(Len(s), k)
  PROVE  /\ Chunk(s, k) \in [1 .. k -> Seq(U)]
         /\ Consecutive(s, k, BoundsOf(Len(s), k), Chunk(s, k))
         /\ BoundsOf(Len(s), k)[0] = 0 /\ BoundsOf(Len(s), k)[k] = Len(s)
         /\ \A i \in 1 .. k : Chunk(s, k)[i] = SubSeq(s, Bound(Len(s), k, i - 1) + 1, Bound(Len(s), k, i))
<1>1. PICK n \in Nat : n = Len(s)
  OBVIOUS
<1>2. /\ Bound(n, k, 0) = 0 /\ Bound(n, k, k) = n
      /\ \A i \in 0 .. k : Bound(n, k, i) \in Nat /\ Bound(n, k, i) <= n
      /\ \A i \in 1 .. k : Bound(n, k, i - 1) <= Bound(n, k, i) /\ Bound(n, k, i - 1) = (i - 1) * ChunkSize(n, k)
  BY <1>1, Bounds
<1>3. PICK b : b = BoundsOf(n, k)
  OBVIOUS
<1>4. \A i \in 0 .. k : b[i] = Bound(n, k, i)
  BY <1>3 DEF BoundsOf
<1>5. 0 \in 0 .. k /\ k \in 0 .. k /\ \A i \in 1 .. k : i \in 0 .. k /\ i - 1 \in 0 .. k
  OBVIOUS
<1>6. ASSUME NEW i \in 1 .. k
      PROVE  Chunk(s, k)[i] = SubSeq(s, Bound(n, k, i - 1) + 1, Bound(n, k, i))
  <2>1. Chunk(s, k)[i] = SubSeq(s, (i - 1) * ChunkSize(n, k) + 1, IF i = k THEN n ELSE i * ChunkSize(n, k))
    BY <1>1 DEF Chunk
  <2>2. Bound(n, k, i) = IF i = k THEN n ELSE i * ChunkSize(n, k)
    BY DEF Bound
  <2> QED BY <1>2, <2>1, <2>2
<1>7. ASSUME NEW i \in 1 .. k PROVE Chunk(s, k)[i] \in Seq(U)
  <2>1. PICK x \in Nat, y \in Nat : x = Bound(n, k, i - 1) /\ y = Bound(n, k, i) /\ x <= y /\ y <= n
    BY <1>2, <1>5
  <2>2. SubSeq(s, x + 1, y) \in Seq(U)
    BY <1>1, <2>1, Section
  <2> QED BY <1>6, <2>1, <2>2
<1>8. Chunk(s, k) = [i \in 1 .. k |-> Chunk(s, k)[i]]
  BY DEF Chunk
<1>9. Chunk(s, k) \in [1 .. k -> Seq(U)]
  BY <1>7, <1>8
<1>10. Consecutive(s, k, b, Chunk(s, k))
  <2>1. ASSUME NEW i \in 0 .. k PROVE b[i] \in Nat /\ b[0] <= b[i] /\ b[i] <= Len(s)
    <3>1. b[i] \in Nat /\ b[i] <= n /\ b[0] = 0
      BY <1>2, <1>4, <1>5
    <3> QED BY <1>1, <3>1
  <2>2. ASSUME NEW i \in 1 .. k
        PROVE  b[i - 1] <= b[i] /\ Chunk(s, k)[i] = SubSeq(s, b[i - 1] + 1, b[i])
    <3>1. b[i - 1] = Bound(n, k, i - 1) /\ b[i] = Bound(n, k, i)
      BY <1>4, <1>5
    <3> QED BY <1>2, <1>6, <3>1
  <2> QED BY <2>1, <2>2 DEF Consecutive
<1>11. b[0] = 0 /\ b[k] = n
  BY <1>2, <1>4, <1>5
<1> QED BY <1>1, <1>3, <1>6, <1>9, <1>10, <1>11

----------------------------------------------------------------------------
(* Lemmas on outputs collected from some of the ranks *)

(* A set numbered through from 0 has as many elements as numbers. *)
LEMMA Counted ==
  ASSUME NEW S, NEW n \in Nat, NEW f \in [S -> 0 .. n - 1],
         \A x, y \in S : f[x] = f[y] => x = y, \A k \in 0 .. n - 1 : \E x \in S : f[x] = k
  PROVE  IsFiniteSet(S) /\ Cardinality(S) = n
<1>1. IsFiniteSet(0 .. n - 1) /\ Cardinality(0 .. n - 1) = n
  <2>1. n - 1 \in Int /\ 0 \in Int /\ (IF 0 > n - 1 THEN 0 ELSE n - 1 - 0 + 1) = n
    OBVIOUS
  <2> QED BY <2>1, FS_Interval
<1>2. f \in Injection(S, 0 .. n - 1)
  BY DEF Injection, IsInjective
<1>3. f \in Surjection(S, 0 .. n - 1)
  BY DEF Surjection
<1> QED BY <1>1, <1>2, <1>3, FS_Injection

(* The ranks that give their outputs have the places 0 to n - 1, in their   *)
(* own order.                                                               *)
InPlace(C, w, n, place) ==
  /\ C \subseteq 0 .. w - 1 /\ place \in [C -> 0 .. n - 1]
  /\ \A q, r \in C : q < r => place[q] < place[r]
  /\ \A k \in 0 .. n - 1 : \E r \in C : place[r] = k

Earlier(C, i) == {q \in C : q < i}

(* n of the ranks. *)
SomeRanks(C, w, n) == C \subseteq 0 .. w - 1 /\ IsFiniteSet(C) /\ Cardinality(C) = n

(* One after the other they are counted up to n. *)
CountsUp(C, w, n) ==
  /\ Cardinality(Earlier(C, 0)) = 0 /\ Cardinality(Earlier(C, w)) = n
  /\ \A i \in 0 .. w : Cardinality(Earlier(C, i)) \in 0 .. n
  /\ \A i \in 0 .. w - 1 :
       Cardinality(Earlier(C, i + 1)) = IF i \in C THEN Cardinality(Earlier(C, i)) + 1 ELSE Cardinality(Earlier(C, i))

(* Counting up the ranks, each of the set counts one. *)
LEMMA CountingUp ==
  ASSUME NEW w \in Nat, NEW n \in Nat, NEW C, SomeRanks(C, w, n)
  PROVE  CountsUp(C, w, n)
<1>0. C \subseteq Int /\ C \subseteq 0 .. w - 1
  BY DEF SomeRanks
<1>2. IsFiniteSet(C) /\ Cardinality(C) = n
  BY DEF SomeRanks
<1>4. Cardinality(Earlier(C, 0)) = 0
  <2>0. \A q \in C : ~(q < 0)
    BY <1>0
  <2>1. Earlier(C, 0) = {}
    BY <2>0 DEF Earlier
  <2> QED BY <2>1, FS_EmptySet
<1>5. Cardinality(Earlier(C, w)) = n
  <2>0. \A q \in C : q < w
    BY <1>0
  <2>1. Earlier(C, w) = C
    BY <2>0 DEF Earlier
  <2> QED BY <1>2, <2>1
<1>6. ASSUME NEW i \in 0 .. w PROVE IsFiniteSet(Earlier(C, i)) /\ Cardinality(Earlier(C, i)) \in 0 .. n
  <2>1. Earlier(C, i) \in SUBSET C
    BY DEF Earlier
  <2>2. IsFiniteSet(Earlier(C, i)) /\ Cardinality(Earlier(C, i)) <= n
    BY <1>2, <2>1, FS_Subset
  <2>3. Cardinality(Earlier(C, i)) \in Nat
    BY <2>2, FS_CardinalityType
  <2> QED BY <2>2, <2>3
<1>7. ASSUME NEW i \in 0 .. w - 1
      PROVE  Cardinality(Earlier(C, i + 1)) = IF i \in C THEN Cardinality(Earlier(C, i)) + 1 ELSE Cardinality(Earlier(C, i))
  <2>1. i \in 0 .. w
    OBVIOUS
  <2>2. IsFiniteSet(Earlier(C, i)) /\ i \notin Earlier(C, i)
    BY <1>6, <2>1 DEF Earlier
  <2>3. CASE i \in C
    <3>0. \A q \in C : q < i + 1 <=> q < i \/ q = i
      BY <1>0
    <3>1. Earlier(C, i + 1) = Earlier(C, i) \cup {i}
      BY <2>3, <3>0 DEF Earlier
    <3> QED BY <2>2, <2>3, <3>1, FS_AddElement
  <2>4. CASE i \notin C
    <3>0. \A q \in C : q < i + 1 <=> q < i
      BY <1>0, <2>4
    <3>1. Earlier(C, i + 1) = Earlier(C, i)
      BY <3>0 DEF Earlier
    <3> QED BY <2>4, <3>1
  <2> QED BY <2>3, <2>4
<1> QED BY <1>4, <1>5, <1>6, <1>7 DEF CountsUp

(* In ranks with their places in order, as many come before one as its place. *)
LEMMA PlacesBefore ==
  ASSUME NEW w \in Nat, NEW n \in Nat, NEW C, NEW place, InPlace(C, w, n, place)
  PROVE  /\ IsFiniteSet(C) /\ Cardinality(C) = n
         /\ \A r \in C : Cardinality(Earlier(C, r)) = place[r]
         /\ Cardinality(Earlier(C, 0)) = 0 /\ Cardinality(Earlier(C, w)) = n
         /\ \A i \in 0 .. w : Cardinality(Earlier(C, i)) \in 0 .. n
         /\ \A i \in 0 .. w - 1 :
              Cardinality(Earlier(C, i + 1)) = IF i \in C THEN Cardinality(Earlier(C, i)) + 1 ELSE Cardinality(Earlier(C, i))
<1>0. C \subseteq Int /\ C \subseteq 0 .. w - 1
  BY DEF InPlace
<1>1. \A q, r \in C : place[q] = place[r] => q = r
  <2>1. SUFFICES ASSUME NEW q \in C, NEW r \in C, place[q] = place[r], q # r PROVE FALSE
    OBVIOUS
  <2>2. place[q] \in Int /\ place[r] \in Int
    BY DEF InPlace
  <2>3. q < r \/ r < q
    BY <1>0, <2>1
  <2> QED BY <2>1, <2>2, <2>3 DEF InPlace
<1>2. IsFiniteSet(C) /\ Cardinality(C) = n
  <2>1. place \in [C -> 0 .. n - 1] /\ \A k \in 0 .. n - 1 : \E r \in C : place[r] = k
    BY DEF InPlace
  <2> QED BY <1>1, <2>1, Counted
<1>3. ASSUME NEW r \in C PROVE Cardinality(Earlier(C, r)) = place[r]
  <2>1. PICK k \in 0 .. n - 1 : k = place[r]
    BY DEF InPlace
  <2>2. PICK f : f = [q \in Earlier(C, r) |-> place[q]]
    OBVIOUS
  <2>3. f \in [Earlier(C, r) -> 0 .. k - 1]
    <3>1. ASSUME NEW q \in Earlier(C, r) PROVE place[q] \in 0 .. k - 1
      <4>1. q \in C /\ q < r
        BY DEF Earlier
      <4>2. place[q] \in 0 .. n - 1 /\ place[q] < place[r]
        BY <4>1 DEF InPlace
      <4> QED BY <2>1, <4>2
    <3> QED BY <2>2, <3>1
  <2>4. \A x, y \in Earlier(C, r) : f[x] = f[y] => x = y
    BY <1>1, <2>2 DEF Earlier
  <2>5. ASSUME NEW j \in 0 .. k - 1 PROVE \E x \in Earlier(C, r) : f[x] = j
    <3>1. j \in 0 .. n - 1
      BY <2>1
    <3>2. PICK q \in C : place[q] = j
      BY <3>1 DEF InPlace
    <3>3. q < r
      <4>1. ~(r < q)
        <5>1. SUFFICES ASSUME r < q PROVE FALSE
          OBVIOUS
        <5>2. place[r] < place[q]
          BY <5>1 DEF InPlace
        <5> QED BY <2>1, <3>2, <5>2
      <4>2. q # r
        BY <2>1, <3>2
      <4> QED BY <1>0, <4>1, <4>2
    <3>4. q \in Earlier(C, r)
      BY <3>3 DEF Earlier
    <3> QED BY <2>2, <3>2, <3>4
  <2>6. k \in Nat
    BY <2>1
  <2>7. PICK S : S = Earlier(C, r)
    OBVIOUS
  <2>8. f \in [S -> 0 .. k - 1] /\ (\A x, y \in S : f[x] = f[y] => x = y) /\ \A j \in 0 .. k - 1 : \E x \in S : f[x] = j
    BY <2>3, <2>4, <2>5, <2>7
  <2>9. Cardinality(S) = k
    BY <2>6, <2>8, Counted
  <2> QED BY <2>1, <2>7, <2>9
<1>4. SomeRanks(C, w, n)
  BY <1>0, <1>2 DEF SomeRanks
<1>5. CountsUp(C, w, n)
  BY <1>4, CountingUp
<1> QED BY <1>2, <1>3, <1>5 DEF CountsUp

(* Between equal boundaries there is nothing. *)
LEMMA EmptySection ==
  ASSUME NEW U, NEW s \in Seq(U), NEW x \in Nat, x <= Len(s)
  PROVE  SubSeq(s, x + 1, x) = << >>
<1>1. PICK u : u = SubSeq(s, x + 1, x)
  OBVIOUS
<1>2. u \in Seq(U) /\ Len(u) = x - x
  BY <1>1, SectionNamed
<1> QED BY <1>1, <1>2

(* What the ranks give, the others nothing. *)
Given(C, w, out) == [i \in 1 .. w |-> IF i - 1 \in C THEN out[i - 1] ELSE << >>]

(* Those of C give the part of their place. *)
GivePart(C, place, parts, out) == \A r \in C : out[r] = parts[place[r] + 1]

(* Parts from ranks that have them in their own order give the whole.       *)
LEMMA CollectInOrder ==
  ASSUME NEW U, NEW s \in Seq(U), NEW n \in Nat \ {0}, NEW b, NEW parts \in [1 .. n -> Seq(U)],
         Consecutive(s, n, b, parts),
         NEW w \in Nat \ {0}, NEW C, NEW place, InPlace(C, w, n, place),
         NEW out, GivePart(C, place, parts, out)
  PROVE  Concat(Given(C, w, out)) = SubSeq(s, b[0] + 1, b[n])
<1> DEFINE K(i) == Cardinality(Earlier(C, i))
<1>1. /\ \A r \in C : K(r) = place[r]
      /\ K(0) = 0 /\ K(w) = n
      /\ \A i \in 0 .. w : K(i) \in 0 .. n
      /\ \A i \in 0 .. w - 1 : K(i + 1) = IF i \in C THEN K(i) + 1 ELSE K(i)
  BY PlacesBefore
<1> HIDE DEF K
<1>2. PICK b2 : b2 = [i \in 0 .. w |-> b[K(i)]]
  OBVIOUS
<1>3. \A i \in 0 .. w : b2[i] = b[K(i)]
  BY <1>2
<1>4. PICK p2 : p2 = Given(C, w, out)
  OBVIOUS
<1>5. ASSUME NEW i \in 1 .. w
      PROVE  p2[i] \in Seq(U) /\ b2[i - 1] <= b2[i] /\ p2[i] = SubSeq(s, b2[i - 1] + 1, b2[i])
  <2>1. PICK r \in 0 .. w - 1 : r = i - 1 /\ i = r + 1 /\ r \in 0 .. w /\ i \in 0 .. w
    OBVIOUS
  <2>2. CASE r \in C
    <3>1. PICK k \in 0 .. n : k = K(r)
      BY <1>1, <2>1
    <3>2. K(i) = k + 1 /\ k + 1 \in 0 .. n
      BY <1>1, <2>1, <2>2, <3>1
    <3>3. k + 1 \in 1 .. n /\ (k + 1) - 1 = k
      <4>1. k \in Nat /\ k + 1 <= n
        BY <3>2
      <4> HIDE <3>1
      <4> QED BY <4>1
    <3>4. p2[i] = parts[k + 1]
      BY <1>1, <1>4, <2>1, <2>2, <3>1 DEF Given, GivePart
    <3>5. b2[i - 1] = b[k] /\ b2[i] = b[k + 1]
      BY <1>3, <2>1, <3>1, <3>2
    <3>6. b[k] <= b[k + 1] /\ parts[k + 1] = SubSeq(s, b[k] + 1, b[k + 1])
      BY <3>3 DEF Consecutive
    <3>7. parts[k + 1] \in Seq(U)
      BY <3>3
    <3> QED BY <3>4, <3>5, <3>6, <3>7
  <2>3. CASE r \notin C
    <3>1. PICK k \in 0 .. n : k = K(r) /\ k = K(i)
      BY <1>1, <2>1, <2>3
    <3>2. b2[i - 1] = b[k] /\ b2[i] = b[k]
      BY <1>3, <2>1, <3>1
    <3>3. b[k] \in Nat /\ b[k] <= Len(s)
      BY <3>1 DEF Consecutive
    <3>4. p2[i] = << >>
      BY <1>4, <2>1, <2>3 DEF Given
    <3>5. << >> = SubSeq(s, b[k] + 1, b[k])
      BY <3>3, EmptySection
    <3>6. b[k] <= b[k] /\ << >> \in Seq(U)
      BY <3>3
    <3> QED BY <3>2, <3>4, <3>5, <3>6
  <2> QED BY <2>2, <2>3
<1>6. p2 \in [1 .. w -> Seq(U)]
  <2>1. p2 = [i \in 1 .. w |-> p2[i]]
    BY <1>4 DEF Given
  <2> QED BY <1>5, <2>1
<1>7. b2[0] = b[0] /\ b2[w] = b[n]
  <2>1. 0 \in 0 .. w /\ w \in 0 .. w
    OBVIOUS
  <2> QED BY <1>1, <1>3, <2>1
<1>8. Consecutive(s, w, b2, p2)
  <2>1. ASSUME NEW i \in 0 .. w PROVE b2[i] \in Nat /\ b2[0] <= b2[i] /\ b2[i] <= Len(s)
    <3>1. K(i) \in 0 .. n /\ b2[i] = b[K(i)]
      BY <1>1, <1>3
    <3> QED BY <1>7, <3>1 DEF Consecutive
  <2> QED BY <1>5, <2>1 DEF Consecutive
<1>9. Concat(p2) = SubSeq(s, b2[0] + 1, b2[w])
  BY <1>6, <1>8, CutAndPut
<1> QED BY <1>4, <1>7, <1>9

----------------------------------------------------------------------------
(* Lemmas on places in a layout *)

(* A number with a smaller quotient is below the multiple. *)
LEMMA Below ==
  ASSUME NEW d \in Nat \ {0}, NEW q \in Nat, NEW m \in Nat, q < m, NEW r \in 0 .. d - 1
  PROVE  d * q + r \in Nat /\ d * q + r < d * m
<1>1. d * q + d <= d * m
  BY Ordered
<1>2. PICK x \in Nat, y \in Nat : x = d * q /\ y = d * m
  OBVIOUS
<1> QED BY <1>1, <1>2

(* Of numbers below a product the quotient is below the other factor. *)
LEMMA SmallerQuotient ==
  ASSUME NEW a \in Nat, NEW d \in Nat \ {0}, NEW m \in Nat, a < d * m
  PROVE  Quot(a, d) < m
<1>1. PICK q \in Nat, r \in 0 .. d - 1 : q = Quot(a, d) /\ a = d * q + r
  BY Division
<1>2. ~(m <= q)
  <2>1. SUFFICES ASSUME m <= q PROVE FALSE
    OBVIOUS
  <2>2. d * m <= d * q
    <3>1. CASE m = q
      BY <3>1
    <3>2. CASE m < q
      <4>1. d * m + d <= d * q
        BY <3>2, Ordered
      <4>2. PICK x \in Nat, y \in Nat : x = d * m /\ y = d * q
        OBVIOUS
      <4> QED BY <4>1, <4>2
    <3> QED BY <2>1, <3>1, <3>2
  <2>3. PICK x \in Nat, y \in Nat : x = d * m /\ y = d * q
    OBVIOUS
  <2> QED BY <1>1, <2>2, <2>3
<1> QED BY <1>1, <1>2

Product(a, b, c, d) == a * b * c * d

(* The four coordinates of a rank, the first of them counted first. *)
LEMMA Coordinates ==
  ASSUME NEW a \in Nat \ {0}, NEW b \in Nat \ {0}, NEW c \in Nat \ {0}, NEW d \in Nat \ {0},
         NEW r \in Nat, r < Product(a, b, c, d),
         NEW q, q = Quot(r, a), NEW p, p = Quot(q, b), NEW z, z = Quot(p, c)
  PROVE  /\ Rest(r, a) \in 0 .. a - 1 /\ q \in Nat
         /\ Rest(q, b) \in 0 .. b - 1 /\ p \in Nat
         /\ Rest(p, c) \in 0 .. c - 1 /\ z \in 0 .. d - 1
         /\ q = b * p + Rest(q, b) /\ p = c * z + Rest(p, c)
<1>1. q \in Nat /\ Rest(r, a) \in 0 .. a - 1
  BY Division
<1>2. p \in Nat /\ Rest(q, b) \in 0 .. b - 1 /\ q = b * p + Rest(q, b)
  BY <1>1, Division
<1>3. z \in Nat /\ Rest(p, c) \in 0 .. c - 1 /\ p = c * z + Rest(p, c)
  BY <1>2, Division
<1>4. q < b * c * d
  <2>1. b * c * d \in Nat /\ a * b * c * d = a * (b * c * d)
    OBVIOUS
  <2>2. PICK m \in Nat : m = b * c * d
    BY <2>1
  <2>3. r < a * m
    BY <2>1, <2>2 DEF Product
  <2>4. q < m
    BY <2>3, SmallerQuotient
  <2> QED BY <2>2, <2>4
<1>5. p < c * d
  <2>1. c * d \in Nat /\ b * c * d = b * (c * d)
    OBVIOUS
  <2>2. PICK m \in Nat : m = c * d
    BY <2>1
  <2>3. q < b * m
    BY <2>1, <2>2, <1>4
  <2>4. p < m
    BY <2>3, <1>1, SmallerQuotient
  <2> QED BY <2>2, <2>4
<1>6. z < d
  BY <1>2, <1>5, SmallerQuotient
<1>7. z \in 0 .. d - 1
  BY <1>3, <1>6
<1> QED BY <1>1, <1>2, <1>3, <1>4, <1>5, <1>7

IsAt(r, a, b, c, t, x, y, z) ==
  /\ Rest(r, a) = t /\ Rest(Quot(r, a), b) = x
  /\ Rest(Quot(Quot(r, a), b), c) = y /\ Quot(Quot(Quot(r, a), b), c) = z

(* A rank for every four coordinates. *)
LEMMA RankAt ==
  ASSUME NEW a \in Nat \ {0}, NEW b \in Nat \ {0}, NEW c \in Nat \ {0}, NEW d \in Nat \ {0},
         NEW t \in 0 .. a - 1, NEW x \in 0 .. b - 1, NEW y \in 0 .. c - 1, NEW z \in 0 .. d - 1
  PROVE  \E r \in Nat : r < Product(a, b, c, d) /\ IsAt(r, a, b, c, t, x, y, z)
<1>1. PICK p \in Nat : p = c * z + y /\ p < c * d
  <2>1. z \in Nat /\ d \in Nat /\ z < d
    OBVIOUS
  <2> QED BY <2>1, Below
<1>2. Quot(p, c) = z /\ Rest(p, c) = y
  <2>1. IsDivision(p, c, z, y)
    BY <1>1 DEF IsDivision
  <2> QED BY <2>1, Quotient
<1>3. PICK q \in Nat : q = b * p + x /\ q < b * (c * d)
  <2>1. PICK m \in Nat : m = c * d
    OBVIOUS
  <2>2. b * p + x \in Nat /\ b * p + x < b * m
    BY <1>1, <2>1, Below
  <2> QED BY <2>1, <2>2
<1>4. Quot(q, b) = p /\ Rest(q, b) = x
  <2>1. IsDivision(q, b, p, x)
    BY <1>1, <1>3 DEF IsDivision
  <2> QED BY <2>1, Quotient
<1>5. PICK r \in Nat : r = a * q + t /\ r < a * (b * (c * d))
  <2>1. PICK m \in Nat : m = b * (c * d)
    OBVIOUS
  <2>2. a * q + t \in Nat /\ a * q + t < a * m
    BY <1>3, <2>1, Below
  <2> QED BY <2>1, <2>2
<1>6. Quot(r, a) = q /\ Rest(r, a) = t
  <2>1. IsDivision(r, a, q, t)
    BY <1>3, <1>5 DEF IsDivision
  <2> QED BY <2>1, Quotient
<1>7. Product(a, b, c, d) = a * (b * (c * d))
  BY DEF Product
<1>8. IsAt(r, a, b, c, t, x, y, z)
  BY <1>2, <1>4, <1>6 DEF IsAt
<1> QED BY <1>5, <1>7, <1>8

(* The dimensions of a layout, whose product is the number of ranks. *)
LEMMA LayoutIs ==
  ASSUME NEW w \in Nat \ {0}, NEW lay \in Layouts(w)
  PROVE  /\ lay.tp \in Nat \ {0} /\ lay.cp \in Nat \ {0} /\ lay.dp \in Nat \ {0} /\ lay.pp \in Nat \ {0}
         /\ lay.tp * lay.cp * lay.dp * lay.pp = w /\ Size(lay) = w
BY DEF Layouts, Size

(* The coordinates of a rank, and the rank they give. *)
HasPlace(lay, r, t, x, y, z) ==
  /\ TpRank(lay, r) = t /\ CpRank(lay, r) = x /\ DpRank(lay, r) = y /\ PpRank(lay, r) = z
  /\ r = lay.tp * (lay.cp * (lay.dp * z + y) + x) + t

(* The coordinates of a rank, by dividing one factor after the other. *)
LEMMA Nested ==
  ASSUME NEW w \in Nat \ {0}, NEW lay \in Layouts(w), NEW r \in Nat
  PROVE  /\ TpRank(lay, r) = Rest(r, lay.tp) /\ CpRank(lay, r) = Rest(Quot(r, lay.tp), lay.cp)
         /\ DpRank(lay, r) = Rest(Quot(Quot(r, lay.tp), lay.cp), lay.dp)
         /\ PpRank(lay, r) = Quot(Quot(Quot(r, lay.tp), lay.cp), lay.dp)
<1>1. PICK a \in Nat \ {0}, b \in Nat \ {0}, c \in Nat \ {0} : a = lay.tp /\ b = lay.cp /\ c = lay.dp
  BY LayoutIs
<1>2. PICK m : m = a * b
  OBVIOUS
<1>3. m \in Nat \ {0} /\ Quot(r, m) = Quot(Quot(r, a), b)
  BY <1>2, TwoDivisions
<1>4. PICK k : k = m * c
  OBVIOUS
<1>5. Quot(r, k) = Quot(Quot(r, m), c)
  BY <1>3, <1>4, TwoDivisions
<1>6. TpRank(lay, r) = Rest(r, a)
  BY <1>1 DEF TpRank, Rest
<1>7. CpRank(lay, r) = Rest(Quot(r, a), b)
  BY <1>1 DEF CpRank, Rest, Quot
<1>8. DpRank(lay, r) = Rest(Quot(r, m), c)
  BY <1>1, <1>2 DEF DpRank, Rest, Quot
<1>9. PpRank(lay, r) = Quot(r, k)
  BY <1>1, <1>2, <1>4 DEF PpRank, Quot
<1> QED BY <1>1, <1>3, <1>5, <1>6, <1>7, <1>8, <1>9

(* Every rank has its coordinates. *)
LEMMA PlaceOf ==
  ASSUME NEW w \in Nat \ {0}, NEW lay \in Layouts(w), NEW r \in 0 .. w - 1
  PROVE  \E t \in 0 .. lay.tp - 1, x \in 0 .. lay.cp - 1, y \in 0 .. lay.dp - 1, z \in 0 .. lay.pp - 1 :
           HasPlace(lay, r, t, x, y, z)
<1>1. PICK a \in Nat \ {0}, b \in Nat \ {0}, c \in Nat \ {0}, d \in Nat \ {0} :
        a = lay.tp /\ b = lay.cp /\ c = lay.dp /\ d = lay.pp
  BY LayoutIs
<1>2. Product(a, b, c, d) = w
  BY <1>1, LayoutIs DEF Product
<1>3. r \in Nat /\ r < Product(a, b, c, d)
  BY <1>2
<1>4. PICK q, p, z : q = Quot(r, a) /\ p = Quot(q, b) /\ z = Quot(p, c)
  OBVIOUS
<1>5. /\ Rest(r, a) \in 0 .. a - 1 /\ q \in Nat
      /\ Rest(q, b) \in 0 .. b - 1 /\ p \in Nat
      /\ Rest(p, c) \in 0 .. c - 1 /\ z \in 0 .. d - 1
      /\ q = b * p + Rest(q, b) /\ p = c * z + Rest(p, c)
  <2>1. r \in Nat
    BY <1>3
  <2>2. r < Product(a, b, c, d)
    BY <1>3
  <2>3. q = Quot(r, a)
    BY <1>4
  <2>4. p = Quot(q, b)
    BY <1>4
  <2>5. z = Quot(p, c)
    BY <1>4
  <2> HIDE <1>1, <1>2, <1>3, <1>4
  <2> QED BY <2>1, <2>2, <2>3, <2>4, <2>5, Coordinates
<1>6. r = a * q + Rest(r, a)
  BY <1>3, Division, <1>4
<1>7. PICK t \in 0 .. a - 1, x \in 0 .. b - 1, y \in 0 .. c - 1 :
        t = Rest(r, a) /\ x = Rest(q, b) /\ y = Rest(p, c)
  BY <1>5
<1>8. r = a * (b * (c * z + y) + x) + t
  BY <1>5, <1>6, <1>7
<1>9. TpRank(lay, r) = t /\ CpRank(lay, r) = x /\ DpRank(lay, r) = y /\ PpRank(lay, r) = z
  BY <1>1, <1>3, <1>4, <1>7, Nested
<1>10. HasPlace(lay, r, t, x, y, z)
  BY <1>1, <1>8, <1>9 DEF HasPlace
<1> QED BY <1>1, <1>5, <1>7, <1>10

(* And there is a rank for all coordinates. *)
LEMMA RankWith ==
  ASSUME NEW w \in Nat \ {0}, NEW lay \in Layouts(w),
         NEW t \in 0 .. lay.tp - 1, NEW x \in 0 .. lay.cp - 1, NEW y \in 0 .. lay.dp - 1, NEW z \in 0 .. lay.pp - 1
  PROVE  \E r \in 0 .. w - 1 : HasPlace(lay, r, t, x, y, z)
<1>1. PICK a \in Nat \ {0}, b \in Nat \ {0}, c \in Nat \ {0}, d \in Nat \ {0} :
        a = lay.tp /\ b = lay.cp /\ c = lay.dp /\ d = lay.pp
  BY LayoutIs
<1>2. Product(a, b, c, d) = w
  BY <1>1, LayoutIs DEF Product
<1>3. PICK r \in Nat : r < Product(a, b, c, d) /\ IsAt(r, a, b, c, t, x, y, z)
  <2>1. t \in 0 .. a - 1
    BY <1>1
  <2>2. x \in 0 .. b - 1
    BY <1>1
  <2>3. y \in 0 .. c - 1
    BY <1>1
  <2>4. z \in 0 .. d - 1
    BY <1>1
  <2> HIDE <1>1, <1>2
  <2> QED BY <2>1, <2>2, <2>3, <2>4, RankAt
<1>4. r \in 0 .. w - 1
  BY <1>2, <1>3
<1>5. TpRank(lay, r) = t /\ CpRank(lay, r) = x /\ DpRank(lay, r) = y /\ PpRank(lay, r) = z
  BY <1>1, <1>3, Nested DEF IsAt
<1>6. PICK u \in 0 .. lay.tp - 1, v \in 0 .. lay.cp - 1, k \in 0 .. lay.dp - 1, m \in 0 .. lay.pp - 1 :
        HasPlace(lay, r, u, v, k, m)
  BY <1>4, PlaceOf
<1>7. u = t /\ v = x /\ k = y /\ m = z
  BY <1>5, <1>6 DEF HasPlace
<1> QED BY <1>4, <1>6, <1>7

(* Multiples keep the order. *)
LEMMA NotLess ==
  ASSUME NEW d \in Nat, NEW p \in Int, NEW q \in Int, p <= q
  PROVE  d * p <= d * q
<1>1. d * (q - p) >= 0
  OBVIOUS
<1>2. d * (q - p) = d * q - d * p
  OBVIOUS
<1> QED BY <1>1, <1>2

----------------------------------------------------------------------------
(* Lemmas on the ranks whose outputs are collected *)

CollectedRanks(mode, lay) == {r \in 0 .. Size(lay) - 1 : Collected(mode, lay, r)}

Places(mode, lay) == [r \in CollectedRanks(mode, lay) |-> PartOf(mode, lay, r) - 1]

(* Each collected rank has a part of its own, and every part has a rank. *)
Dealt(C, w, n, place) ==
  /\ C \subseteq 0 .. w - 1 /\ place \in [C -> 0 .. n - 1]
  /\ \A q, r \in C : place[q] = place[r] => q = r
  /\ \A k \in 0 .. n - 1 : \E r \in C : place[r] = k

(* Ranks at equal distances have their places in order. *)
LEMMA AffinePlaces ==
  ASSUME NEW w \in Nat, NEW n \in Nat, NEW C, NEW place, Dealt(C, w, n, place), NEW m \in Nat, NEW e \in Nat,
         \A r \in C : r = m * place[r] + e
  PROVE  InPlace(C, w, n, place)
<1>1. ASSUME NEW q \in C, NEW r \in C, q < r PROVE place[q] < place[r]
  <2>1. PICK j \in Int, k \in Int : j = place[q] /\ k = place[r]
    BY DEF Dealt
  <2>2. SUFFICES ASSUME k <= j PROVE FALSE
    BY <2>1
  <2>3. m * k <= m * j
    BY <2>2, NotLess
  <2>4. q = m * j + e /\ r = m * k + e
    BY <2>1
  <2>5. PICK x \in Int, y \in Int : x = m * j /\ y = m * k
    OBVIOUS
  <2> QED BY <1>1, <2>3, <2>4, <2>5
<1> QED BY <1>1 DEF InPlace, Dealt

(* Each replica has a chunk of its own. *)
LEMMA ReplicasDealt ==
  ASSUME NEW w \in Nat \ {0}, NEW lay \in Layouts(w)
  PROVE  InPlace(CollectedRanks("DP_COMPUTE_PROTO", lay), w, w, Places("DP_COMPUTE_PROTO", lay))
<1>1. PICK C, place : C = CollectedRanks("DP_COMPUTE_PROTO", lay) /\ place = Places("DP_COMPUTE_PROTO", lay)
  OBVIOUS
<1>2. C = 0 .. w - 1
  <2>1. \A r : Collected("DP_COMPUTE_PROTO", lay, r)
    BY DEF Collected
  <2> QED BY <1>1, <2>1, LayoutIs DEF CollectedRanks
<1>3. \A r \in C : place[r] = r
  <2>1. \A r \in C : PartOf("DP_COMPUTE_PROTO", lay, r) = r + 1 /\ r \in Int
    BY <1>2 DEF PartOf
  <2> QED BY <1>1, <2>1 DEF Places
<1>4. place \in [C -> 0 .. w - 1]
  <2>1. place = [r \in C |-> place[r]]
    BY <1>1 DEF Places
  <2> QED BY <1>2, <1>3, <2>1
<1>5. InPlace(C, w, w, place)
  BY <1>2, <1>3, <1>4 DEF InPlace
<1> QED BY <1>1, <1>5

(* Who is collected, and which part it has, by its coordinates. *)
LEMMA CollectedMegatron ==
  ASSUME NEW w \in Nat \ {0}, NEW lay \in Layouts(w), NEW r \in 0 .. w - 1, NEW t, NEW x, NEW y, NEW z,
         HasPlace(lay, r, t, x, y, z)
  PROVE  /\ r \in CollectedRanks("MEGATRON_COMPUTE_PROTO", lay) <=> t = 0 /\ z = lay.pp - 1 /\ x = 0
         /\ r \in CollectedRanks("MEGATRON_PP_AS_DP_PROTO", lay) <=> t = 0
         /\ PartOf("MEGATRON_COMPUTE_PROTO", lay, r) = y + 1
         /\ PartOf("MEGATRON_PP_AS_DP_PROTO", lay, r) = (x * lay.dp + y) * lay.pp + z + 1
<1>1. Size(lay) = w
  BY LayoutIs
<1> QED BY <1>1 DEF HasPlace, CollectedRanks, Collected, PartOf

(* The collected ranks have every shard's chunk once. *)
LEMMA ShardsDealt ==
  ASSUME NEW w \in Nat \ {0}, NEW lay \in Layouts(w)
  PROVE  InPlace(CollectedRanks("MEGATRON_COMPUTE_PROTO", lay), w, lay.dp, Places("MEGATRON_COMPUTE_PROTO", lay))
<1>1. PICK a \in Nat \ {0}, b \in Nat \ {0}, c \in Nat \ {0}, d \in Nat \ {0} :
        a = lay.tp /\ b = lay.cp /\ c = lay.dp /\ d = lay.pp
  BY LayoutIs
<1>2. PICK C, place : C = CollectedRanks("MEGATRON_COMPUTE_PROTO", lay) /\ place = Places("MEGATRON_COMPUTE_PROTO", lay)
  OBVIOUS
<1>3. C \subseteq 0 .. w - 1
  BY <1>2, LayoutIs DEF CollectedRanks
<1>4. PICK m \in Nat, e \in Nat : m = a * b /\ e = a * (b * (c * (d - 1)))
  <2>1. PICK g \in Nat : g = c * (d - 1)
    OBVIOUS
  <2>2. PICK h \in Nat : h = b * g
    OBVIOUS
  <2>3. PICK k \in Nat : k = a * h
    OBVIOUS
  <2> QED BY <2>1, <2>2, <2>3
<1>5. ASSUME NEW r \in C
      PROVE  place[r] \in 0 .. c - 1 /\ r = m * place[r] + e
  <2>1. r \in 0 .. w - 1
    BY <1>3
  <2>2. PICK t \in 0 .. lay.tp - 1, x \in 0 .. lay.cp - 1, y \in 0 .. lay.dp - 1, z \in 0 .. lay.pp - 1 :
          HasPlace(lay, r, t, x, y, z)
    BY <2>1, PlaceOf
  <2>3. t = 0 /\ z = d - 1 /\ x = 0 /\ PartOf("MEGATRON_COMPUTE_PROTO", lay, r) = y + 1
    BY <1>1, <1>2, <2>1, <2>2, CollectedMegatron
  <2>4. place[r] = y
    BY <1>2, <2>2, <2>3 DEF Places
  <2>5. r = a * (b * (c * (d - 1) + y) + 0) + 0
    BY <1>1, <2>2, <2>3 DEF HasPlace
  <2>6. a * (b * (c * (d - 1) + y) + 0) + 0 = (a * b) * y + a * (b * (c * (d - 1)))
    <3>1. y \in Int
      BY <2>2
    <3> HIDE <1>4
    <3> QED BY <3>1
  <2>7. y \in 0 .. c - 1
    BY <1>1, <2>2
  <2> QED BY <1>4, <2>4, <2>5, <2>6, <2>7
<1>6. ASSUME NEW k \in 0 .. c - 1 PROVE \E r \in C : place[r] = k
  <2>1. 0 \in 0 .. lay.tp - 1 /\ 0 \in 0 .. lay.cp - 1 /\ k \in 0 .. lay.dp - 1 /\ d - 1 \in 0 .. lay.pp - 1
    BY <1>1
  <2>2. PICK r \in 0 .. w - 1 : HasPlace(lay, r, 0, 0, k, d - 1)
    BY <2>1, RankWith
  <2>3. r \in C /\ PartOf("MEGATRON_COMPUTE_PROTO", lay, r) = k + 1
    BY <1>1, <1>2, <2>2, CollectedMegatron
  <2>4. place[r] = k
    BY <1>2, <2>3 DEF Places
  <2> QED BY <2>3, <2>4
<1>7. place \in [C -> 0 .. c - 1]
  <2>1. place = [r \in C |-> place[r]]
    BY <1>2 DEF Places
  <2> QED BY <1>5, <2>1
<1>8. Dealt(C, w, c, place)
  <2>1. ASSUME NEW q \in C, NEW r \in C, place[q] = place[r] PROVE q = r
    BY <1>5, <2>1
  <2> QED BY <1>3, <1>6, <1>7, <2>1 DEF Dealt
<1>9. InPlace(C, w, c, place)
  BY <1>5, <1>8, AffinePlaces
<1> QED BY <1>1, <1>2, <1>9

(* The part of context x, data rank y and stage z. *)
StagePart(b, c, d, x, y, z) == d * (c * x + y) + z

(* Every part has exactly one such place. *)
OnePartEach(b, c, d, n) ==
  /\ \A x \in 0 .. b - 1, y \in 0 .. c - 1, z \in 0 .. d - 1 : StagePart(b, c, d, x, y, z) \in 0 .. n - 1
  /\ \A x, u \in 0 .. b - 1, y, v \in 0 .. c - 1, z, k \in 0 .. d - 1 :
       StagePart(b, c, d, x, y, z) = StagePart(b, c, d, u, v, k) => x = u /\ y = v /\ z = k
  /\ \A j \in 0 .. n - 1 :
       \E x \in 0 .. b - 1, y \in 0 .. c - 1, z \in 0 .. d - 1 : StagePart(b, c, d, x, y, z) = j

(* The chunks of the stages are numbered through. *)
LEMMA StageParts ==
  ASSUME NEW b \in Nat \ {0}, NEW c \in Nat \ {0}, NEW d \in Nat \ {0}, NEW n, n = c * d * b
  PROVE  n \in Nat \ {0} /\ OnePartEach(b, c, d, n)
<1>1. PICK m \in Nat \ {0} : m = c * b
  <2>1. c * b \in Nat /\ c * b # 0
    OBVIOUS
  <2> QED BY <2>1
<1>2. n = d * m /\ n \in Nat \ {0}
  <2>1. c * d * b = d * (c * b)
    OBVIOUS
  <2>2. d * m \in Nat /\ d * m # 0
    OBVIOUS
  <2> QED BY <1>1, <2>1, <2>2
<1>3. ASSUME NEW x \in 0 .. b - 1, NEW y \in 0 .. c - 1, NEW z \in 0 .. d - 1
      PROVE  /\ StagePart(b, c, d, x, y, z) \in 0 .. n - 1
             /\ Quot(StagePart(b, c, d, x, y, z), d) = c * x + y /\ Rest(StagePart(b, c, d, x, y, z), d) = z
             /\ Quot(c * x + y, c) = x /\ Rest(c * x + y, c) = y
  <2>1. PICK h \in Nat : h = c * x + y /\ h < m
    <3>1. x \in Nat /\ b \in Nat /\ x < b
      OBVIOUS
    <3>2. c * x + y \in Nat /\ c * x + y < c * b
      BY <3>1, Below
    <3> QED BY <1>1, <3>2
  <2>2. PICK j \in Nat : j = d * h + z /\ j < d * m
    BY <2>1, Below
  <2>3. j \in 0 .. n - 1
    BY <1>2, <2>2
  <2>4. IsDivision(j, d, h, z)
    BY <2>1, <2>2 DEF IsDivision
  <2>5. IsDivision(h, c, x, y)
    BY <2>1 DEF IsDivision
  <2>6. Quot(j, d) = h /\ Rest(j, d) = z /\ Quot(h, c) = x /\ Rest(h, c) = y
    BY <2>4, <2>5, Quotient
  <2>7. j = StagePart(b, c, d, x, y, z)
    BY <2>1, <2>2 DEF StagePart
  <2> QED BY <2>1, <2>3, <2>6, <2>7
<1>4. ASSUME NEW x \in 0 .. b - 1, NEW u \in 0 .. b - 1, NEW y \in 0 .. c - 1, NEW v \in 0 .. c - 1,
             NEW z \in 0 .. d - 1, NEW k \in 0 .. d - 1, StagePart(b, c, d, x, y, z) = StagePart(b, c, d, u, v, k)
      PROVE  x = u /\ y = v /\ z = k
  <2>1. z = k /\ c * x + y = c * u + v
    BY <1>3, <1>4
  <2>2. Quot(c * x + y, c) = x /\ Rest(c * x + y, c) = y
    BY <1>3
  <2>3. Quot(c * u + v, c) = u /\ Rest(c * u + v, c) = v
    BY <1>3
  <2> QED BY <2>1, <2>2, <2>3
<1>5. ASSUME NEW j \in 0 .. n - 1
      PROVE  \E x \in 0 .. b - 1, y \in 0 .. c - 1, z \in 0 .. d - 1 : StagePart(b, c, d, x, y, z) = j
  <2>1. j \in Nat
    OBVIOUS
  <2>0. Quot(j, d) \in Nat /\ Rest(j, d) \in 0 .. d - 1 /\ j = d * Quot(j, d) + Rest(j, d)
    BY <2>1, Division
  <2>2. PICK h \in Nat, z \in 0 .. d - 1 : h = Quot(j, d) /\ j = d * h + z
    BY <2>0
  <2>3. h < m
    <3>1. j < d * m
      BY <1>2
    <3> QED BY <2>1, <2>2, <3>1, SmallerQuotient
  <2>4. PICK x \in Nat, y \in 0 .. c - 1 : x = Quot(h, c) /\ h = c * x + y
    BY Division, ZenonT(40)
  <2>5. x < b
    <3>1. h < c * b
      BY <1>1, <2>3
    <3> QED BY <2>4, <3>1, SmallerQuotient
  <2>6. x \in 0 .. b - 1
    BY <2>5
  <2>7. StagePart(b, c, d, x, y, z) = j
    BY <2>2, <2>4 DEF StagePart
  <2> QED BY <2>6, <2>7
<1> QED BY <1>2, <1>3, <1>4, <1>5 DEF OnePartEach

(* The chunk of a rank by its coordinates. *)
LEMMA PlaceOfStage ==
  ASSUME NEW w \in Nat \ {0}, NEW lay \in Layouts(w), NEW r \in CollectedRanks("MEGATRON_PP_AS_DP_PROTO", lay)
  PROVE  \E x \in 0 .. lay.cp - 1, y \in 0 .. lay.dp - 1, z \in 0 .. lay.pp - 1 :
           /\ HasPlace(lay, r, 0, x, y, z)
           /\ Places("MEGATRON_PP_AS_DP_PROTO", lay)[r] = StagePart(lay.cp, lay.dp, lay.pp, x, y, z)
<1>1. r \in 0 .. w - 1
  BY LayoutIs DEF CollectedRanks
<1>2. PICK t \in 0 .. lay.tp - 1, x \in 0 .. lay.cp - 1, y \in 0 .. lay.dp - 1, z \in 0 .. lay.pp - 1 :
        HasPlace(lay, r, t, x, y, z)
  BY <1>1, PlaceOf
<1>3. t = 0 /\ PartOf("MEGATRON_PP_AS_DP_PROTO", lay, r) = (x * lay.dp + y) * lay.pp + z + 1
  BY <1>1, <1>2, CollectedMegatron
<1>4. PICK b \in Nat \ {0}, c \in Nat \ {0}, d \in Nat \ {0} : b = lay.cp /\ c = lay.dp /\ d = lay.pp
  BY LayoutIs
<1>5. (x * c + y) * d + z + 1 - 1 = d * (c * x + y) + z
  <2>1. x \in Int /\ y \in Int /\ z \in Int
    BY <1>2
  <2> QED BY <2>1
<1>6. Places("MEGATRON_PP_AS_DP_PROTO", lay)[r] = PartOf("MEGATRON_PP_AS_DP_PROTO", lay, r) - 1
  BY DEF Places
<1>7. Places("MEGATRON_PP_AS_DP_PROTO", lay)[r] = StagePart(b, c, d, x, y, z)
  BY <1>3, <1>4, <1>5, <1>6 DEF StagePart
<1> QED BY <1>2, <1>3, <1>4, <1>7

(* The collected ranks have every stage's chunk once. *)
LEMMA StagesDealt ==
  ASSUME NEW w \in Nat \ {0}, NEW lay \in Layouts(w), NEW n, n = lay.dp * lay.pp * lay.cp
  PROVE  /\ n \in Nat \ {0}
         /\ Dealt(CollectedRanks("MEGATRON_PP_AS_DP_PROTO", lay), w, n, Places("MEGATRON_PP_AS_DP_PROTO", lay))
<1>1. PICK b \in Nat \ {0}, c \in Nat \ {0}, d \in Nat \ {0} : b = lay.cp /\ c = lay.dp /\ d = lay.pp
  BY LayoutIs
<1>2. PICK C, place : C = CollectedRanks("MEGATRON_PP_AS_DP_PROTO", lay) /\ place = Places("MEGATRON_PP_AS_DP_PROTO", lay)
  OBVIOUS
<1>3. C \subseteq 0 .. w - 1
  BY <1>2, LayoutIs DEF CollectedRanks
<1>4. n = c * d * b
  BY <1>1
<1>5. n \in Nat \ {0} /\ OnePartEach(b, c, d, n)
  BY <1>4, StageParts
<1>6. ASSUME NEW r \in C
      PROVE  \E x \in 0 .. b - 1, y \in 0 .. c - 1, z \in 0 .. d - 1 :
               HasPlace(lay, r, 0, x, y, z) /\ place[r] = StagePart(b, c, d, x, y, z)
  BY <1>1, <1>2, PlaceOfStage
<1>7. place \in [C -> 0 .. n - 1]
  <2>1. place = [r \in C |-> place[r]]
    BY <1>2 DEF Places
  <2>2. ASSUME NEW r \in C PROVE place[r] \in 0 .. n - 1
    <3>1. PICK x \in 0 .. b - 1, y \in 0 .. c - 1, z \in 0 .. d - 1 : place[r] = StagePart(b, c, d, x, y, z)
      BY <1>6
    <3> QED BY <1>5, <3>1 DEF OnePartEach
  <2> QED BY <2>1, <2>2
<1>8. ASSUME NEW q \in C, NEW r \in C, place[q] = place[r] PROVE q = r
  <2>1. PICK x \in 0 .. b - 1, y \in 0 .. c - 1, z \in 0 .. d - 1 :
          HasPlace(lay, r, 0, x, y, z) /\ place[r] = StagePart(b, c, d, x, y, z)
    BY <1>6
  <2>2. PICK u \in 0 .. b - 1, v \in 0 .. c - 1, k \in 0 .. d - 1 :
          HasPlace(lay, q, 0, u, v, k) /\ place[q] = StagePart(b, c, d, u, v, k)
    BY <1>6
  <2>3. u = x /\ v = y /\ k = z
    <3>1. StagePart(b, c, d, x, y, z) = StagePart(b, c, d, u, v, k)
      BY <1>8, <2>1, <2>2
    <3> QED BY <1>5, <3>1 DEF OnePartEach
  <2> QED BY <2>1, <2>2, <2>3 DEF HasPlace
<1>9. ASSUME NEW k \in 0 .. n - 1 PROVE \E r \in C : place[r] = k
  <2>1. PICK x \in 0 .. b - 1, y \in 0 .. c - 1, z \in 0 .. d - 1 : StagePart(b, c, d, x, y, z) = k
    BY <1>5 DEF OnePartEach
  <2>2. 0 \in 0 .. lay.tp - 1 /\ x \in 0 .. lay.cp - 1 /\ y \in 0 .. lay.dp - 1 /\ z \in 0 .. lay.pp - 1
    BY <1>1, LayoutIs
  <2>3. PICK r \in 0 .. w - 1 : HasPlace(lay, r, 0, x, y, z)
    BY <2>2, RankWith
  <2>4. r \in C
    BY <1>2, <2>3, CollectedMegatron
  <2>5. PICK u \in 0 .. b - 1, v \in 0 .. c - 1, m \in 0 .. d - 1 :
          HasPlace(lay, r, 0, u, v, m) /\ place[r] = StagePart(b, c, d, u, v, m)
    BY <1>6, <2>4
  <2>6. u = x /\ v = y /\ m = z
    BY <2>3, <2>5 DEF HasPlace
  <2> QED BY <2>1, <2>4, <2>5, <2>6
<1>10. Dealt(C, w, n, place)
  BY <1>3, <1>7, <1>8, <1>9 DEF Dealt
<1> QED BY <1>2, <1>5, <1>10

(* A set of at most one element has no two. *)
LEMMA AtMostOne ==
  ASSUME NEW S, IsFiniteSet(S), Cardinality(S) <= 1, NEW x \in S, NEW y \in S
  PROVE  x = y
<1>1. Cardinality(S) \in Nat
  BY FS_CardinalityType
<1>2. Cardinality(S) # 0
  BY FS_EmptySet
<1>3. Cardinality(S) = 1
  BY <1>1, <1>2
<1>4. PICK z : S = {z}
  BY <1>3, FS_Singleton
<1> QED BY <1>4

(* Where only one of the dimensions is above one, the stages have their     *)
(* chunks in order.                                                         *)
LEMMA StagesInOrder ==
  ASSUME NEW w \in Nat \ {0}, NEW lay \in Layouts(w), OneDimension(lay), NEW n, n = lay.dp * lay.pp * lay.cp
  PROVE  /\ n \in Nat \ {0}
         /\ InPlace(CollectedRanks("MEGATRON_PP_AS_DP_PROTO", lay), w, n, Places("MEGATRON_PP_AS_DP_PROTO", lay))
<1>1. PICK a \in Nat \ {0}, b \in Nat \ {0}, c \in Nat \ {0}, d \in Nat \ {0} :
        a = lay.tp /\ b = lay.cp /\ c = lay.dp /\ d = lay.pp
  BY LayoutIs
<1>2. (b = 1 /\ c = 1) \/ (b = 1 /\ d = 1) \/ (c = 1 /\ d = 1)
  <2>1. PICK S : S = {e \in {"cp", "dp", "pp"} : lay[e] > 1}
    OBVIOUS
  <2>2. Cardinality(S) <= 1
    BY <2>1 DEF OneDimension
  <2>3. IsFiniteSet(S)
    <3>1. IsFiniteSet({} \cup {"cp"}) /\ IsFiniteSet(({} \cup {"cp"}) \cup {"dp"})
      BY FS_EmptySet, FS_AddElement
    <3>2. IsFiniteSet((({} \cup {"cp"}) \cup {"dp"}) \cup {"pp"})
      BY <3>1, FS_AddElement
    <3>3. (({} \cup {"cp"}) \cup {"dp"}) \cup {"pp"} = {"cp", "dp", "pp"}
      OBVIOUS
    <3>4. S \in SUBSET {"cp", "dp", "pp"}
      BY <2>1
    <3> QED BY <3>2, <3>3, <3>4, FS_Subset
  <2>4. \A x, y \in S : x = y
    BY <2>2, <2>3, AtMostOne
  <2>5. (b > 1 => "cp" \in S) /\ (c > 1 => "dp" \in S) /\ (d > 1 => "pp" \in S)
    BY <1>1, <2>1
  <2>6. ~(b > 1 /\ c > 1) /\ ~(b > 1 /\ d > 1) /\ ~(c > 1 /\ d > 1)
    BY <2>4, <2>5
  <2> QED BY <2>6
<1>3. PICK C, place : C = CollectedRanks("MEGATRON_PP_AS_DP_PROTO", lay) /\ place = Places("MEGATRON_PP_AS_DP_PROTO", lay)
  OBVIOUS
<1>4. n \in Nat \ {0} /\ Dealt(C, w, n, place)
  BY <1>3, StagesDealt
<1>5. ASSUME NEW r \in C PROVE r = a * place[r] + 0
  <2>1. PICK x \in 0 .. lay.cp - 1, y \in 0 .. lay.dp - 1, z \in 0 .. lay.pp - 1 :
           /\ HasPlace(lay, r, 0, x, y, z) /\ place[r] = StagePart(lay.cp, lay.dp, lay.pp, x, y, z)
    BY <1>3, PlaceOfStage
  <2>2. r = a * (b * (c * z + y) + x) + 0 /\ place[r] = d * (c * x + y) + z
    BY <1>1, <2>1 DEF HasPlace, StagePart
  <2>3. x \in 0 .. b - 1 /\ y \in 0 .. c - 1 /\ z \in 0 .. d - 1
    BY <1>1, <2>1
  <2>4. b * (c * z + y) + x = d * (c * x + y) + z
    <3>1. CASE b = 1 /\ c = 1
      <4>1. x = 0 /\ y = 0 /\ d * (1 * 0 + 0) = 0
        BY <2>3, <3>1
      <4> QED BY <2>3, <3>1, <4>1
    <3>2. CASE b = 1 /\ d = 1
      <4>1. x = 0 /\ z = 0 /\ c * 0 = 0
        BY <2>3, <3>2
      <4> QED BY <2>3, <3>2, <4>1
    <3>3. CASE c = 1 /\ d = 1
      <4>1. y = 0 /\ z = 0 /\ b * (1 * 0 + 0) = 0
        BY <2>3, <3>3
      <4> QED BY <2>3, <3>3, <4>1
    <3> QED BY <1>2, <3>1, <3>2, <3>3
  <2> QED BY <2>2, <2>4
<1>6. InPlace(C, w, n, place)
  <2>1. a \in Nat /\ 0 \in Nat /\ n \in Nat
    BY <1>4
  <2> QED BY <1>4, <1>5, <2>1, AffinePlaces
<1> QED BY <1>3, <1>4, <1>6

----------------------------------------------------------------------------
(* Lemmas on the rows of a call *)

(* Padding is less than the divisor and makes the rows divisible. *)
LEMMA PadSizeRange ==
  ASSUME NEW n \in Nat, NEW d \in Nat \ {0}
  PROVE  PadSize(n, d) \in 0 .. d - 1 /\ Rest(n + PadSize(n, d), d) = 0
<1>1. Quot(n, d) \in Nat /\ Rest(n, d) \in 0 .. d - 1 /\ n = d * Quot(n, d) + Rest(n, d)
  BY Division
<1>2. PICK q \in Nat, r \in 0 .. d - 1 : r = Rest(n, d) /\ n = d * q + r
  BY <1>1
<1>3. PadSize(n, d) = IF r = 0 THEN 0 ELSE d - r
  BY <1>2 DEF PadSize, Rest
<1>4. PICK m : m = PadSize(n, d)
  OBVIOUS
<1>5. m \in 0 .. d - 1
  BY <1>3, <1>4
<1>6. PICK k \in Nat : n + m = d * k + 0
  <2>1. CASE r = 0
    BY <1>2, <1>3, <1>4, <2>1
  <2>2. CASE r # 0
    <3>1. n + m = d * q + d
      <4>1. m = d - r
        BY <1>3, <1>4, <2>2
      <4>2. PICK x \in Nat : x = d * q
        OBVIOUS
      <4>3. n = x + r
        BY <1>2, <4>2
      <4>4. n + m = x + d
        <5>1. r \in Int /\ d \in Int
          BY <1>2
        <5> HIDE <1>2
        <5> QED BY <4>1, <4>3, <5>1
      <4> QED BY <4>2, <4>4
    <3>2. d * q + d = d * (q + 1) + 0 /\ q + 1 \in Nat
      OBVIOUS
    <3>3. n + m = d * (q + 1) + 0
      BY <3>1, <3>2
    <3> HIDE <1>2
    <3> QED BY <3>2, <3>3
  <2> QED BY <2>1, <2>2
<1>7. IsDivision(n + m, d, k, 0)
  <2>1. 0 \in 0 .. d - 1
    OBVIOUS
  <2> QED BY <1>6, <2>1 DEF IsDivision
<1>8. Rest(n + m, d) = 0
  BY <1>7, Quotient
<1> QED BY <1>4, <1>5, <1>8

(* The ranks are numbered from 0. *)
LEMMA World == WorldSize \in Nat \ {0} /\ Ranks = 0 .. WorldSize - 1
<1>1. PICK n \in Nat \ {0}, m \in Nat \ {0} : n = NodeCount /\ m = PerNode
  BY PoolAssumption
<1>2. n * m \in Nat /\ n * m # 0
  OBVIOUS
<1> QED BY <1>1, <1>2 DEF WorldSize, Ranks

(* The calls there are. *)
IsCall(c) ==
  /\ c.mode \in Modes /\ c.rows \in Nat /\ c.padding \in Paddings
  /\ c.mode # "ONE_TO_ALL" \/ c.padding # "none" => c.rows # 0
  /\ c.padding \in {"auto positional", "auto keyword"} \/ c.method = "generate_sequences" => c.mode = "DP_COMPUTE_PROTO"

Added(c) == IF c.padding \in {"caller", "auto positional"} THEN PadSize(c.rows, WorldSize) ELSE 0

(* A batch's rows are named by their numbers. *)
LEMMA BatchIs ==
  ASSUME NEW c, c.rows \in Nat
  PROVE  Batch(c) \in Seq(1 .. c.rows) /\ Len(Batch(c)) = c.rows /\ \A i \in 1 .. c.rows : Batch(c)[i] = i
BY DEF Batch

(* Padding keeps the batch's rows, in front. *)
LEMMA PaddedIs ==
  ASSUME NEW c, IsCall(c)
  PROVE  /\ Added(c) \in 0 .. WorldSize - 1
         /\ Padded(c) \in Seq(1 .. c.rows) /\ Len(Padded(c)) = c.rows + Added(c)
         /\ \A i \in 1 .. c.rows : Padded(c)[i] = i
<1>1. PICK n \in Nat : n = c.rows
  BY DEF IsCall
<1>2. PICK w \in Nat \ {0} : w = WorldSize
  BY World
<1>3. PICK b \in Seq(1 .. n) : b = Batch(c) /\ Len(b) = n /\ \A i \in 1 .. n : b[i] = i
  BY <1>1, BatchIs
<1>4. PICK p : p = PadSize(n, w)
  OBVIOUS
<1>5. p \in 0 .. w - 1
  BY <1>4, PadSizeRange
<1>6. CASE c.padding = "caller"
  <2>1. n # 0
    BY <1>1, <1>6 DEF IsCall
  <2>2. Padded(c) = [i \in 1 .. n + p |-> b[Rest(i - 1, n) + 1]]
    BY <1>2, <1>3, <1>4, <1>6 DEF Padded, PadToDivisor, Rest
  <2>3. ASSUME NEW i \in 1 .. n + p PROVE Rest(i - 1, n) + 1 \in 1 .. n
    <3>1. i - 1 \in Nat
      BY <1>5
    <3>2. Rest(i - 1, n) \in 0 .. n - 1
      BY <2>1, <3>1, Division
    <3> QED BY <3>2
  <2>4. \A i \in 1 .. n + p : Padded(c)[i] = Rest(i - 1, n) + 1 /\ Padded(c)[i] \in 1 .. n
    BY <1>3, <2>2, <2>3
  <2>5. n + p \in Nat
    BY <1>5
  <2>6. Padded(c) \in Seq(1 .. n) /\ Len(Padded(c)) = n + p
    <3>0. PICK u : u = Padded(c)
      OBVIOUS
    <3>1. PICK k \in Nat : k = n + p
      BY <2>5
    <3>2. u = [i \in 1 .. k |-> u[i]]
      BY <2>2, <3>0, <3>1
    <3>3. \A i \in 1 .. k : u[i] \in 1 .. n
      BY <2>4, <3>0, <3>1
    <3>4. u \in Seq(1 .. n) /\ Len(u) = k
      BY <3>2, <3>3
    <3> QED BY <3>0, <3>1, <3>4
  <2>7. ASSUME NEW i \in 1 .. n PROVE Padded(c)[i] = i
    <3>1. i \in 1 .. n + p
      BY <1>5
    <3>2. IsDivision(i - 1, n, 0, i - 1)
      <4>1. n * 0 = 0
        OBVIOUS
      <4> QED BY <4>1 DEF IsDivision
    <3>3. Rest(i - 1, n) = i - 1
      BY <2>1, <3>2, Quotient
    <3> QED BY <2>4, <3>1, <3>3
  <2>8. Added(c) = p
    BY <1>1, <1>2, <1>4, <1>6 DEF Added
  <2> QED BY <1>1, <1>2, <1>5, <2>6, <2>7, <2>8
<1>7. CASE c.padding = "auto positional"
  <2>1. n # 0
    BY <1>1, <1>7 DEF IsCall
  <2>2. Padded(c) = b \o [i \in 1 .. p |-> b[n]]
    BY <1>1, <1>2, <1>3, <1>4, <1>7 DEF Padded, PadLast
  <2>3. PICK t : t = [i \in 1 .. p |-> b[n]]
    OBVIOUS
  <2>4. t \in Seq(1 .. n) /\ Len(t) = p
    <3>1. b[n] \in 1 .. n /\ p \in Nat
      BY <1>3, <1>5, <2>1
    <3> QED BY <2>3, <3>1
  <2>5. /\ b \o t \in Seq(1 .. n) /\ Len(b \o t) = Len(b) + Len(t)
        /\ \A i \in 1 .. Len(b) : (b \o t)[i] = b[i]
    BY <2>4, Joined
  <2>6. Added(c) = p
    BY <1>1, <1>2, <1>4, <1>7 DEF Added
  <2> QED BY <1>1, <1>2, <1>3, <1>5, <2>2, <2>3, <2>4, <2>5, <2>6
<1>8. CASE c.padding \notin {"caller", "auto positional"}
  <2>1. Padded(c) = b
    BY <1>3, <1>8 DEF Padded
  <2>2. Added(c) = 0
    BY <1>8 DEF Added
  <2> QED BY <1>1, <1>2, <1>3, <2>1, <2>2
<1> QED BY <1>6, <1>7, <1>8

----------------------------------------------------------------------------
(* Lemmas on ranks that generate together *)

(* The rows before the i-th chunk's end, for chunks of c rows. *)
LEMMA BoundsFrom ==
  ASSUME NEW n \in Nat, NEW w \in Nat \ {0}, Cuts(n, w), NEW t \in Nat \ {0}, NEW x \in Nat, x + t <= w
  PROVE  /\ Bound(n, w, x) \in Nat /\ Bound(n, w, x + t) \in Nat /\ Bound(n, w, x + t) <= n
         /\ \A i \in 0 .. t : /\ Bound(n, w, x + i) \in Nat /\ Bound(n, w, x + i) <= n
                              /\ Bound(n, w, x) <= Bound(n, w, x + i)
         /\ (t - 1) * ChunkSize(n, w) <= Bound(n, w, x + t) - Bound(n, w, x)
         /\ Bound(n, w, x + t) - Bound(n, w, x) <= t * ChunkSize(n, w)
<1>1. PICK c \in Nat : c = ChunkSize(n, w) /\ n <= w * c /\ (w - 1) * c <= n
  BY RoundedUp DEF Cuts
<1>2. \A i \in 0 .. w : Bound(n, w, i) \in Nat /\ Bound(n, w, i) <= n
  BY Bounds
<1>3. \A i \in 0 .. t : x + i \in 0 .. w
  OBVIOUS
<1>4. Bound(n, w, x) = x * c /\ x < w
  <2>1. x # w /\ x < w
    OBVIOUS
  <2> QED BY <1>1, <2>1 DEF Bound
<1>5. ASSUME NEW i \in 0 .. t
      PROVE  i # 0 => (i - 1) * c <= Bound(n, w, x + i) - x * c /\ Bound(n, w, x + i) - x * c <= i * c
  <2>1. CASE x + i # w
    <3>1. Bound(n, w, x + i) = (x + i) * c
      BY <1>1, <2>1 DEF Bound
    <3>2. (x + i) * c = x * c + i * c /\ i * c = (i - 1) * c + c
      OBVIOUS
    <3>3. PICK y \in Int, z \in Int, k \in Int : y = x * c /\ z = i * c /\ k = (i - 1) * c
      OBVIOUS
    <3> QED BY <3>1, <3>2, <3>3
  <2>2. CASE x + i = w
    <3>1. Bound(n, w, x + i) = n
      BY <2>2 DEF Bound
    <3>2. w * c = x * c + i * c /\ (w - 1) * c = x * c + (i - 1) * c
      <4>1. w = x + i /\ w - 1 = x + (i - 1)
        BY <2>2
      <4>2. (x + i) * c = x * c + i * c /\ (x + (i - 1)) * c = x * c + (i - 1) * c
        OBVIOUS
      <4> QED BY <4>1, <4>2
    <3>3. PICK y \in Int, z \in Int, k \in Int, u \in Int, v \in Int :
            y = x * c /\ z = i * c /\ k = (i - 1) * c /\ u = w * c /\ v = (w - 1) * c
      OBVIOUS
    <3> QED BY <1>1, <3>1, <3>2, <3>3
  <2> QED BY <2>1, <2>2
<1>6. ASSUME NEW i \in 0 .. t PROVE Bound(n, w, x) <= Bound(n, w, x + i)
  <2>1. CASE i = 0
    <3>1. x + i = x /\ x \in 0 .. w
      BY <2>1
    <3> QED BY <1>2, <3>1
  <2>2. CASE i # 0
    <3>1. (i - 1) * c <= Bound(n, w, x + i) - x * c
      BY <1>5, <2>2
    <3>2. (i - 1) * c >= 0
      <4>1. i - 1 \in Nat
        BY <2>2
      <4> QED BY <4>1
    <3>3. PICK y \in Int, z \in Int, k \in Int : y = x * c /\ z = Bound(n, w, x + i) /\ k = (i - 1) * c
      BY <1>2, <1>3
    <3> QED BY <1>4, <3>1, <3>2, <3>3
  <2> QED BY <2>1, <2>2
<1>7. t \in 0 .. t /\ 0 \in 0 .. t /\ t # 0 /\ x + 0 = x
  OBVIOUS
<1>8. (t - 1) * c <= Bound(n, w, x + t) - x * c /\ Bound(n, w, x + t) - x * c <= t * c
  BY <1>5, <1>7
<1>9. \A i \in 0 .. t : Bound(n, w, x + i) \in Nat /\ Bound(n, w, x + i) <= n /\ Bound(n, w, x) <= Bound(n, w, x + i)
  BY <1>2, <1>3, <1>6
<1>10. Bound(n, w, x) \in Nat /\ Bound(n, w, x + t) \in Nat /\ Bound(n, w, x + t) <= n
  BY <1>7, <1>9
<1> QED BY <1>1, <1>4, <1>8, <1>9, <1>10

(* Between (t - 1) * c and t * c rows can be cut into t chunks. *)
LEMMA NearlyWhole ==
  ASSUME NEW m \in Nat, NEW t \in Nat \ {0}, NEW c \in Nat, (t - 1) * c <= m, m <= t * c
  PROVE  Cuts(m, t)
<1>1. PICK d \in Nat : d = ChunkSize(m, t) /\ t * d < m + t
  BY RoundedUp
<1>2. d <= c
  <2>1. SUFFICES ASSUME c < d PROVE FALSE
    OBVIOUS
  <2>2. t * c + t <= t * d
    BY <2>1, Ordered
  <2>3. PICK x \in Int, y \in Int : x = t * c /\ y = t * d
    OBVIOUS
  <2> QED BY <1>1, <2>2, <2>3
<1>3. (t - 1) * d <= (t - 1) * c
  <2>1. t - 1 \in Nat
    OBVIOUS
  <2> QED BY <1>2, <2>1, NotLess
<1>4. PICK x \in Int, y \in Int : x = (t - 1) * d /\ y = (t - 1) * c
  OBVIOUS
<1> QED BY <1>1, <1>3, <1>4 DEF Cuts

(* What the ranks x to x + t - 1 gather. *)
Gathered(s, w, t, x) == Concat([i \in 1 .. t |-> Chunk(s, w)[x + i]])

(* How many rows these are. *)
Share(n, w, t, x) == Bound(n, w, x + t) - Bound(n, w, x)

(* What the j-th of them takes back. *)
IsShare(s, n, w, t, x, j) ==
  Chunk(Gathered(s, w, t, x), t)[j] =
    SubSeq(s, Bound(n, w, x) + Bound(Share(n, w, t, x), t, j - 1) + 1, Bound(n, w, x) + Bound(Share(n, w, t, x), t, j))

(* What the ranks x to x + t - 1 gather is a section, and what each takes   *)
(* back is one of its chunks.                                               *)
LEMMA GroupCut ==
  ASSUME NEW U, NEW s \in Seq(U), NEW w \in Nat \ {0}, Cuts(Len(s), w),
         NEW t \in Nat \ {0}, NEW x \in Nat, x + t <= w,
         NEW n, n = Len(s)
  PROVE  /\ Share(n, w, t, x) \in Nat /\ Bound(n, w, x) \in Nat /\ Bound(n, w, x) + Share(n, w, t, x) <= n
         /\ Cuts(Share(n, w, t, x), t)
         /\ \A j \in 1 .. t : IsShare(s, n, w, t, x, j)
<1>0. PICK from, m, in : from = Bound(n, w, x) /\ m = Share(n, w, t, x) /\ in = Gathered(s, w, t, x)
  OBVIOUS
<1>1. n \in Nat /\ n = Len(s)
  OBVIOUS
<1>2. PICK p : p = Chunk(s, w)
  OBVIOUS
<1>3. p \in [1 .. w -> Seq(U)] /\ \A i \in 1 .. w : p[i] = SubSeq(s, Bound(n, w, i - 1) + 1, Bound(n, w, i))
  BY <1>1, <1>2, ChunkCut
<1>4. /\ Bound(n, w, x) \in Nat /\ Bound(n, w, x + t) \in Nat /\ Bound(n, w, x + t) <= n
      /\ \A i \in 0 .. t : /\ Bound(n, w, x + i) \in Nat /\ Bound(n, w, x + i) <= n
                           /\ Bound(n, w, x) <= Bound(n, w, x + i)
      /\ (t - 1) * ChunkSize(n, w) <= Bound(n, w, x + t) - Bound(n, w, x)
      /\ Bound(n, w, x + t) - Bound(n, w, x) <= t * ChunkSize(n, w)
  BY <1>1, BoundsFrom
<1>5. from \in Nat /\ m \in Nat /\ from + m <= n /\ from + m = Bound(n, w, x + t)
  <2>1. t \in 0 .. t
    OBVIOUS
  <2>2. Bound(n, w, x) <= Bound(n, w, x + t)
    BY <1>4, <2>1
  <2>3. PICK y \in Nat : y = Bound(n, w, x + t) /\ y <= n /\ from <= y /\ m = y - from /\ from \in Nat
    BY <1>0, <1>4, <2>2 DEF Share
  <2>4. m \in Nat /\ from + m = y
    BY <2>3
  <2> QED BY <2>3, <2>4
<1>6. Cuts(m, t)
  <2>1. PICK c \in Nat : c = ChunkSize(n, w)
    BY RoundedUp
  <2>2. (t - 1) * c <= m /\ m <= t * c
    BY <1>0, <1>4, <2>1 DEF Share
  <2> QED BY <1>5, <2>2, NearlyWhole
<1>7. PICK b : b = [i \in 0 .. t |-> Bound(n, w, x + i)]
  OBVIOUS
<1>8. \A i \in 0 .. t : b[i] = Bound(n, w, x + i)
  BY <1>7
<1>9. b[0] = from /\ b[t] = from + m
  <2>1. 0 \in 0 .. t /\ t \in 0 .. t /\ x + 0 = x
    OBVIOUS
  <2> QED BY <1>0, <1>5, <1>8, <2>1
<1>10. PICK g : g = [i \in 1 .. t |-> p[x + i]]
  OBVIOUS
<1>11. ASSUME NEW i \in 1 .. t
       PROVE  g[i] \in Seq(U) /\ b[i - 1] <= b[i] /\ g[i] = SubSeq(s, b[i - 1] + 1, b[i])
  <2>1. x + i \in 1 .. w /\ i - 1 \in 0 .. t /\ i \in 0 .. t /\ (x + i) - 1 = x + (i - 1)
    OBVIOUS
  <2>2. PICK k \in 1 .. w : k = x + i /\ k - 1 = x + (i - 1)
    BY <2>1
  <2>3. g[i] = p[k] /\ b[i - 1] = Bound(n, w, k - 1) /\ b[i] = Bound(n, w, k)
    BY <1>8, <1>10, <2>1, <2>2
  <2>4. Bound(n, w, k - 1) <= Bound(n, w, k)
    BY <1>1, <2>2, Bounds
  <2> QED BY <1>3, <2>3, <2>4
<1>12. g \in [1 .. t -> Seq(U)]
  BY <1>10, <1>11
<1>13. Consecutive(s, t, b, g)
  <2>1. ASSUME NEW i \in 0 .. t PROVE b[i] \in Nat /\ b[0] <= b[i] /\ b[i] <= Len(s)
    <3>1. b[0] = Bound(n, w, x) /\ b[i] = Bound(n, w, x + i)
      BY <1>0, <1>8, <1>9
    <3> QED BY <1>1, <1>4, <3>1
  <2> QED BY <1>11, <2>1 DEF Consecutive
<1>14. in = SubSeq(s, from + 1, from + m)
  <2>1. Concat(g) = SubSeq(s, b[0] + 1, b[t])
    BY <1>12, <1>13, CutAndPut
  <2>2. in = Concat(g)
    BY <1>0, <1>2, <1>10 DEF Gathered
  <2> QED BY <1>9, <2>1, <2>2
<1>15. in \in Seq(U) /\ Len(in) = m
  <2>1. PICK y \in Nat : y = from + m /\ from <= y /\ y <= Len(s) /\ y - from = m
    BY <1>1, <1>5
  <2>2. in = SubSeq(s, from + 1, y)
    BY <1>14, <2>1
  <2>0. PICK f \in Nat : f = from
    BY <1>5
  <2>3. PICK u : u = in /\ f <= y /\ u = SubSeq(s, f + 1, y)
    BY <2>0, <2>1, <2>2
  <2>4. u \in Seq(U) /\ Len(u) = y - f
    <3>1. f <= y /\ y <= Len(s) /\ u = SubSeq(s, f + 1, y)
      BY <2>1, <2>3
    <3> HIDE <2>1, <2>3
    <3> QED BY <3>1, SectionNamed
  <2> QED BY <2>0, <2>1, <2>3, <2>4
<1>16. ASSUME NEW j \in 1 .. t PROVE IsShare(s, n, w, t, x, j)
  <2>1. Chunk(in, t)[j] = SubSeq(in, Bound(m, t, j - 1) + 1, Bound(m, t, j))
    BY <1>6, <1>15, ChunkCut
  <2>2. PICK u \in Nat, v \in Nat : u = Bound(m, t, j - 1) /\ v = Bound(m, t, j) /\ u <= v /\ v <= m
    <3>1. j \in 0 .. t /\ j - 1 \in 0 .. t
      OBVIOUS
    <3>2. m \in Nat
      BY <1>5
    <3>3. /\ \A i \in 0 .. t : Bound(m, t, i) \in Nat /\ Bound(m, t, i) <= m
          /\ \A i \in 1 .. t : Bound(m, t, i - 1) <= Bound(m, t, i)
      BY <1>6, <3>2, Bounds
    <3> QED BY <3>1, <3>3
  <2>3. SubSeq(SubSeq(s, from + 1, from + m), u + 1, v) = SubSeq(s, (from + u) + 1, from + v)
    <3>1. PICK y \in Nat : y = from + m /\ from <= y /\ y <= Len(s) /\ y - from = m
      BY <1>1, <1>5
    <3>2. PICK f \in Nat : f = from
      BY <1>5
    <3>3. SubSeq(SubSeq(s, f + 1, y), u + 1, v) = SubSeq(s, (f + u) + 1, f + v)
      <4>1. f <= y /\ y <= Len(s) /\ u <= v /\ v <= y - f
        BY <2>2, <3>1, <3>2
      <4> HIDE <1>0, <2>2, <3>1, <3>2
      <4> QED BY <4>1, SectionOfSection
    <3> QED BY <3>1, <3>2, <3>3
  <2> QED BY <1>0, <1>14, <2>1, <2>2, <2>3 DEF IsShare
<1> QED BY <1>0, <1>5, <1>6, <1>16

(* All of a sequence as a section. *)
LEMMA WholeSection ==
  ASSUME NEW U, NEW s \in Seq(U)
  PROVE  SubSeq(s, 1, Len(s)) = s
<1>0. PICK n \in Nat : n = Len(s) /\ 0 <= n
  OBVIOUS
<1>1. PICK u : u = SubSeq(s, 0 + 1, n)
  OBVIOUS
<1>2. u \in Seq(U) /\ Len(u) = n - 0 /\ \A i \in 1 .. n - 0 : u[i] = s[0 + i]
  BY <1>0, <1>1, SectionNamed
<1>3. u = s
  BY <1>0, <1>1, <1>2, SameSequence
<1> QED BY <1>0, <1>1, <1>3

(* The first of the g-th t ranks. *)
First(t, g) == t * g

(* The i-th rank's rows end with these, when t ranks generate together. *)
EndIn(n, w, t, i) ==
  LET first == First(t, Quot(i, t))
  IN  IF Rest(i, t) = 0 THEN Bound(n, w, i)
      ELSE Bound(n, w, first) + Bound(Share(n, w, t, first), t, Rest(i, t))

(* The next place among t. *)
LEMMA NextPlace ==
  ASSUME NEW t \in Nat \ {0}, NEW j \in 0 .. t - 1
  PROVE  j + 1 \in 1 .. t /\ (j + 1) - 1 = j /\ j \in 0 .. t /\ j + 1 \in 0 .. t
OBVIOUS

(* The boundaries of a rank's part, from its place among those that generate*)
(* together.                                                                *)
LEMMA EndsIn ==
  ASSUME NEW n \in Nat, NEW w \in Nat \ {0}, Cuts(n, w), NEW t \in Nat \ {0}, NEW r, NEW g, NEW j,
         IsDivision(r, t, g, j), First(t, g) + t <= w,
         Cuts(Share(n, w, t, First(t, g)), t), Share(n, w, t, First(t, g)) \in Nat
  PROVE  /\ EndIn(n, w, t, r) = Bound(n, w, First(t, g)) + Bound(Share(n, w, t, First(t, g)), t, j)
         /\ EndIn(n, w, t, r + 1) = Bound(n, w, First(t, g)) + Bound(Share(n, w, t, First(t, g)), t, j + 1)
<1>0. PICK x \in Nat : x = First(t, g) /\ x = t * g
  BY DEF IsDivision, First
<1>1. PICK m \in Nat : m = Share(n, w, t, x) /\ Cuts(m, t)
  BY <1>0
<1>2. g \in Nat /\ j \in 0 .. t - 1 /\ r = x + j
  BY <1>0 DEF IsDivision
<1>3. x + t <= w
  BY <1>0
<1>4. /\ Bound(m, t, 0) = 0 /\ Bound(m, t, t) = m
      /\ Bound(n, w, x) \in Nat /\ Bound(n, w, x + t) = Bound(n, w, x) + m
  <2>1. Bound(m, t, 0) = 0 /\ Bound(m, t, t) = m
    BY <1>1, Bounds
  <2>2. Bound(n, w, x) \in Nat /\ Bound(n, w, x + t) \in Nat
    BY <1>3, BoundsFrom
  <2> QED BY <1>1, <2>1, <2>2 DEF Share
<1>5. Quot(r, t) = g /\ Rest(r, t) = j
  BY Quotient
<1>6. EndIn(n, w, t, r) = Bound(n, w, x) + Bound(m, t, j)
  <2>1. CASE j = 0
    <3>1. r = x
      BY <1>2, <2>1
    <3> QED BY <1>4, <1>5, <2>1, <3>1 DEF EndIn
  <2>2. CASE j # 0
    BY <1>0, <1>1, <1>5, <2>2 DEF EndIn
  <2> QED BY <2>1, <2>2
<1>7. EndIn(n, w, t, r + 1) = Bound(n, w, x) + Bound(m, t, j + 1)
  <2>1. CASE j + 1 = t
    <3>1. r + 1 = x + t
      BY <1>2, <2>1
    <3>2. IsDivision(r + 1, t, g + 1, 0)
      <4>1. t * (g + 1) = t * g + t
        BY <1>2
      <4>2. 0 \in 0 .. t - 1 /\ g + 1 \in Nat
        BY <1>2
      <4>3. r + 1 = t * (g + 1) + 0
        BY <1>0, <3>1, <4>1
      <4> QED BY <4>2, <4>3 DEF IsDivision
    <3>3. Rest(r + 1, t) = 0
      BY <3>2, Quotient
    <3> QED BY <1>4, <2>1, <3>1, <3>3 DEF EndIn
  <2>2. CASE j + 1 # t
    <3>1. IsDivision(r + 1, t, g, j + 1)
      <4>1. j + 1 \in 0 .. t - 1
        BY <1>2, <2>2
      <4>2. r + 1 = x + (j + 1)
        BY <1>2
      <4> QED BY <1>0, <1>2, <4>1, <4>2 DEF IsDivision
    <3>2. Quot(r + 1, t) = g /\ Rest(r + 1, t) = j + 1
      BY <3>1, Quotient
    <3>3. j + 1 # 0
      BY <1>2
    <3> QED BY <1>0, <1>1, <3>2, <3>3 DEF EndIn
  <2> QED BY <2>1, <2>2
<1> QED BY <1>0, <1>1, <1>6, <1>7

(* Each rank takes back its chunk of what its group gathered. *)
TakeBack(s, w, t, out) ==
  \A r \in 0 .. w - 1 :
    out[r] = Chunk(Gathered(s, w, t, First(t, Quot(r, t))), t)[Rest(r, t) + 1]

(* What the ranks give, in their order. *)
OutputsOf(w, out) == [i \in 1 .. w |-> out[i - 1]]

(* Then the ranks have all rows in order. *)
LEMMA GroupsCut ==
  ASSUME NEW U, NEW s \in Seq(U), NEW w \in Nat \ {0}, Cuts(Len(s), w),
         NEW t \in Nat \ {0}, Rest(w, t) = 0, NEW out, TakeBack(s, w, t, out)
  PROVE  Concat(OutputsOf(w, out)) = s
<1>1. PICK n \in Nat : n = Len(s)
  OBVIOUS
<1>2. PICK k \in Nat : w = t * k
  <2>1. Quot(w, t) \in Nat /\ w = t * Quot(w, t) + Rest(w, t)
    BY Division
  <2>2. PICK k \in Nat : w = t * k + 0
    BY <2>1
  <2>3. t * k + 0 = t * k
    OBVIOUS
  <2> QED BY <2>2, <2>3
<1>3. PICK b : b = [i \in 0 .. w |-> EndIn(n, w, t, i)]
  OBVIOUS
<1>4. \A i \in 0 .. w : b[i] = EndIn(n, w, t, i)
  BY <1>3
<1>5. ASSUME NEW r \in 0 .. w - 1
      PROVE  /\ b[r] \in Nat /\ b[r + 1] \in Nat /\ b[r] <= b[r + 1] /\ b[r + 1] <= n
             /\ out[r] = SubSeq(s, b[r] + 1, b[r + 1])
  <2>0. r \in Nat /\ r < w
    OBVIOUS
  <2>1. Quot(r, t) \in Nat /\ Rest(r, t) \in 0 .. t - 1 /\ r = t * Quot(r, t) + Rest(r, t)
    BY <2>0, Division
  <2>2. PICK g \in Nat, j \in 0 .. t - 1 : g = Quot(r, t) /\ j = Rest(r, t) /\ r = t * g + j
    BY <2>1
  <2>3. g < k
    BY <1>2, <2>0, <2>2, SmallerQuotient
  <2>4. PICK x \in Nat : x = First(t, g) /\ x + t <= w
    <3>1. t * g + t <= t * k
      BY <2>3, Ordered
    <3>2. t * g \in Nat
      OBVIOUS
    <3> QED BY <1>2, <3>1, <3>2 DEF First
  <2>5. /\ Share(n, w, t, x) \in Nat /\ Bound(n, w, x) \in Nat /\ Bound(n, w, x) + Share(n, w, t, x) <= n
        /\ Cuts(Share(n, w, t, x), t)
        /\ \A i \in 1 .. t : IsShare(s, n, w, t, x, i)
    <3>1. x \in Nat /\ x + t <= w
      BY <2>4
    <3> HIDE <1>2, <1>3, <2>2, <2>4
    <3> QED BY <1>1, <3>1, GroupCut
  <2>6. PICK from \in Nat, m \in Nat :
          from = Bound(n, w, x) /\ m = Share(n, w, t, x) /\ from + m <= n /\ Cuts(m, t)
    BY <2>5
  <2>7. j + 1 \in 1 .. t /\ (j + 1) - 1 = j /\ j \in 0 .. t /\ j + 1 \in 0 .. t
    BY NextPlace
  <2>8. out[r] = SubSeq(s, from + Bound(m, t, j) + 1, from + Bound(m, t, j + 1))
    <3>1. out[r] = Chunk(Gathered(s, w, t, x), t)[j + 1]
      BY <2>2, <2>4 DEF TakeBack
    <3>2. IsShare(s, n, w, t, x, j + 1)
      BY <2>5, <2>7
    <3>3. Chunk(Gathered(s, w, t, x), t)[j + 1] = SubSeq(s, from + Bound(m, t, (j + 1) - 1) + 1, from + Bound(m, t, j + 1))
      BY <2>6, <3>2 DEF IsShare
    <3> QED BY <2>7, <3>1, <3>3
  <2>9. b[r] = from + Bound(m, t, j) /\ b[r + 1] = from + Bound(m, t, j + 1)
    <3>1. r \in 0 .. w /\ r + 1 \in 0 .. w
      OBVIOUS
    <3>2. IsDivision(r, t, g, j)
      BY <2>2 DEF IsDivision
    <3>3. First(t, g) + t <= w /\ Cuts(Share(n, w, t, First(t, g)), t) /\ Share(n, w, t, First(t, g)) \in Nat
      BY <2>4, <2>5
    <3>4. n \in Nat /\ Cuts(n, w)
      BY <1>1
    <3>5. /\ EndIn(n, w, t, r) = Bound(n, w, First(t, g)) + Bound(Share(n, w, t, First(t, g)), t, j)
          /\ EndIn(n, w, t, r + 1) = Bound(n, w, First(t, g)) + Bound(Share(n, w, t, First(t, g)), t, j + 1)
      <4> HIDE <1>1, <1>2, <1>3, <2>2, <2>4, <2>5, <2>6
      <4> QED BY <3>2, <3>3, <3>4, EndsIn
    <3> QED BY <1>4, <2>4, <2>6, <3>1, <3>5
  <2>10. PICK u \in Nat, v \in Nat : u = Bound(m, t, j) /\ v = Bound(m, t, j + 1) /\ u <= v /\ v <= m
    <3>1. /\ \A i \in 0 .. t : Bound(m, t, i) \in Nat /\ Bound(m, t, i) <= m
          /\ \A i \in 1 .. t : Bound(m, t, i - 1) <= Bound(m, t, i)
      BY <2>6, Bounds
    <3>2. Bound(m, t, j) <= Bound(m, t, j + 1)
      BY <2>7, <3>1
    <3> QED BY <2>7, <3>1, <3>2
  <2>11. PICK y \in Nat, z \in Nat : y = from + u /\ z = from + v /\ y <= z /\ z <= n
    <3>1. from \in Nat /\ m \in Nat /\ from + m <= n /\ n \in Nat
      BY <1>1, <2>6
    <3>2. u \in Nat /\ v \in Nat /\ u <= v /\ v <= m
      BY <2>10
    <3> HIDE <1>2, <1>3, <2>2, <2>4, <2>6, <2>10
    <3>3. from + u \in Nat /\ from + v \in Nat /\ from + u <= from + v /\ from + v <= n
      BY <3>1, <3>2
    <3> QED BY <3>3
  <2>12. b[r] = y /\ b[r + 1] = z /\ out[r] = SubSeq(s, y + 1, z)
    BY <2>8, <2>9, <2>10, <2>11
  <2> QED BY <2>11, <2>12
<1>6. PICK parts : parts = [i \in 1 .. w |-> out[i - 1]]
  OBVIOUS
<1>7. b[0] = 0 /\ b[w] = n
  <2>1. 0 \in 0 .. w /\ w \in 0 .. w
    OBVIOUS
  <2>2. IsDivision(0, t, 0, 0)
    <3>1. t * 0 = 0
      OBVIOUS
    <3> QED BY <3>1 DEF IsDivision
  <2>3. Rest(0, t) = 0
    BY <2>2, Quotient
  <2>4. Bound(n, w, 0) = 0 /\ Bound(n, w, w) = n
    BY <1>1, Bounds
  <2> QED BY <1>4, <2>1, <2>3, <2>4 DEF EndIn
<1>8. ASSUME NEW i \in 1 .. w
      PROVE  parts[i] \in Seq(U) /\ b[i - 1] <= b[i] /\ parts[i] = SubSeq(s, b[i - 1] + 1, b[i])
  <2>1. PICK r \in 0 .. w - 1 : r = i - 1 /\ i = r + 1
    OBVIOUS
  <2>2. /\ b[r] \in Nat /\ b[r + 1] \in Nat /\ b[r] <= b[r + 1] /\ b[r + 1] <= n
        /\ out[r] = SubSeq(s, b[r] + 1, b[r + 1])
    BY <1>5
  <2>3. SubSeq(s, b[r] + 1, b[r + 1]) \in Seq(U)
    BY <1>1, <2>2, Section
  <2> QED BY <1>6, <2>1, <2>2, <2>3
<1>9. parts \in [1 .. w -> Seq(U)]
  BY <1>6, <1>8
<1>10. Consecutive(s, w, b, parts)
  <2>1. ASSUME NEW i \in 0 .. w PROVE b[i] \in Nat /\ b[0] <= b[i] /\ b[i] <= Len(s)
    <3>1. CASE i = w
      BY <1>1, <1>7, <3>1
    <3>2. CASE i # w
      <4>1. i \in 0 .. w - 1
        BY <3>2
      <4>2. b[i] \in Nat /\ b[i + 1] \in Nat /\ b[i] <= b[i + 1] /\ b[i + 1] <= n
        BY <1>5, <4>1
      <4> QED BY <1>1, <1>7, <4>2
    <3> QED BY <3>1, <3>2
  <2> QED BY <1>8, <2>1 DEF Consecutive
<1>11. Concat(parts) = SubSeq(s, b[0] + 1, b[w])
  BY <1>9, <1>10, CutAndPut
<1>12. SubSeq(s, 1, n) = s
  BY <1>1, WholeSection
<1>13. 0 + 1 = 1
  OBVIOUS
<1> QED BY <1>6, <1>7, <1>11, <1>12, <1>13 DEF OutputsOf

----------------------------------------------------------------------------
(* Lemmas on the parts of a call and the output collected *)

(* How many chunks a mode has. *)
LEMMA PartsAre ==
  ASSUME NEW w \in Nat \ {0}, NEW lay \in Layouts(w)
  PROVE  /\ Parts("DP_COMPUTE_PROTO", lay) = w
         /\ Parts("MEGATRON_COMPUTE_PROTO", lay) = lay.dp /\ lay.dp \in Nat \ {0}
         /\ Parts("MEGATRON_PP_AS_DP_PROTO", lay) = lay.dp * lay.pp * lay.cp
         /\ lay.dp * lay.pp * lay.cp \in Nat \ {0}
<1>1. Parts("DP_COMPUTE_PROTO", lay) = w /\ lay.dp \in Nat \ {0}
  BY LayoutIs DEF Parts
<1>2. lay.dp * lay.pp * lay.cp \in Nat \ {0}
  BY StagesDealt
<1> QED BY <1>1, <1>2 DEF Parts

(* A batch that chunk accepts is cut into as many parts as there are.       *)
LEMMA SplitsCuts ==
  ASSUME layout \in Layouts(WorldSize), NEW c, IsCall(c), c.mode # "ONE_TO_ALL", Splits(c)
  PROVE  /\ Parts(c.mode, layout) \in Nat \ {0}
         /\ Cuts(Len(Padded(c)), Parts(c.mode, layout))
         /\ c.padding \in {"none", "caller"} => Rest(Len(Padded(c)), Parts(c.mode, layout)) = 0
<1>1. PICK k, n : k = Parts(c.mode, layout) /\ n = Len(Padded(c))
  OBVIOUS
<1>2. k \in Nat \ {0}
  <2>1. c.mode \in Modes \ {"ONE_TO_ALL"}
    BY DEF IsCall
  <2>2. WorldSize \in Nat \ {0}
    BY World
  <2> QED BY <1>1, <2>1, <2>2, PartsAre DEF Modes
<1>3. n \in Nat
  <2>1. Padded(c) \in Seq(1 .. c.rows)
    BY PaddedIs
  <2> QED BY <1>1, <2>1
<1>4. CASE c.padding \in {"auto positional", "auto keyword"}
  <2>1. CanChunk(n, k)
    BY <1>1, <1>4 DEF Splits
  <2>2. PICK x \in Int : x = (k - 1) * ChunkSize(n, k)
    BY <1>2, <1>3, RoundedUp
  <2>3. Cuts(n, k)
    BY <1>3, <2>1, <2>2 DEF Cuts, CanChunk
  <2> QED BY <1>1, <1>2, <1>4, <2>3
<1>5. CASE c.padding \notin {"auto positional", "auto keyword"}
  <2>1. Rest(n, k) = 0
    BY <1>1, <1>5 DEF Splits, Rest
  <2>2. Cuts(n, k)
    BY <1>2, <1>3, <2>1, WholeChunks
  <2> QED BY <1>1, <1>2, <2>1, <2>2
<1> QED BY <1>4, <1>5

(* What is collected is what the collected ranks give. *)
LEMMA CollectIs ==
  ASSUME NEW w \in Nat \ {0}, NEW lay \in Layouts(w), NEW mode, NEW out
  PROVE  Collect(mode, lay, out) = Concat(Given(CollectedRanks(mode, lay), w, out))
<1>1. Size(lay) = w
  BY LayoutIs
<1>2. PICK C : C = CollectedRanks(mode, lay)
  OBVIOUS
<1>3. ASSUME NEW i \in 1 .. w PROVE Collected(mode, lay, i - 1) <=> i - 1 \in C
  BY <1>1, <1>2 DEF CollectedRanks
<1>4. [i \in 1 .. w |-> IF Collected(mode, lay, i - 1) THEN out[i - 1] ELSE << >>] = Given(C, w, out)
  BY <1>3 DEF Given
<1> QED BY <1>1, <1>2, <1>4 DEF Collect

(* A rank's part is one of the chunks. *)
LEMMA PartTyped ==
  ASSUME NEW w \in Nat \ {0}, NEW lay \in Layouts(w), NEW mode \in Modes, NEW r \in 0 .. w - 1
  PROVE  PartOf(mode, lay, r) \in Nat
<1>1. PICK t \in 0 .. lay.tp - 1, x \in 0 .. lay.cp - 1, y \in 0 .. lay.dp - 1, z \in 0 .. lay.pp - 1 :
        HasPlace(lay, r, t, x, y, z)
  BY PlaceOf
<1>2. lay.dp \in Nat /\ lay.pp \in Nat
  BY LayoutIs
<1>3. CpRank(lay, r) \in Nat /\ DpRank(lay, r) \in Nat /\ PpRank(lay, r) \in Nat
  BY <1>1 DEF HasPlace
<1>4. PICK a \in Nat, b \in Nat : a = CpRank(lay, r) * lay.dp /\ b = (a + DpRank(lay, r)) * lay.pp
  BY <1>2, <1>3
<1>5. PartOf("MEGATRON_PP_AS_DP_PROTO", lay, r) = b + PpRank(lay, r) + 1
  BY <1>4 DEF PartOf
<1>6. PartOf("DP_COMPUTE_PROTO", lay, r) = r + 1 /\ PartOf("MEGATRON_COMPUTE_PROTO", lay, r) = DpRank(lay, r) + 1
      /\ PartOf("ONE_TO_ALL", lay, r) = 1
  BY DEF PartOf
<1> QED BY <1>3, <1>4, <1>5, <1>6 DEF Modes

(* Each rank returns the rows it was sent. *)
Echoed(mode, lay, w, s, n, out) == \A r \in 0 .. w - 1 : out[r] = Chunk(s, n)[PartOf(mode, lay, r)]

(* Ranks with their parts in order then give the whole batch. *)
LEMMA SentComesBack ==
  ASSUME NEW U, NEW s \in Seq(U), NEW w \in Nat \ {0}, NEW lay \in Layouts(w), NEW mode \in Modes, NEW n \in Nat \ {0},
         InPlace(CollectedRanks(mode, lay), w, n, Places(mode, lay)), Cuts(Len(s), n),
         NEW out, Echoed(mode, lay, w, s, n, out)
  PROVE  Collect(mode, lay, out) = s
<1>1. PICK C, place : C = CollectedRanks(mode, lay) /\ place = Places(mode, lay)
  OBVIOUS
<1>2. InPlace(C, w, n, place)
  BY <1>1
<1>3. PICK parts, b : parts = Chunk(s, n) /\ b = BoundsOf(Len(s), n)
  OBVIOUS
<1>4. parts \in [1 .. n -> Seq(U)] /\ Consecutive(s, n, b, parts) /\ b[0] = 0 /\ b[n] = Len(s)
  BY <1>3, ChunkCut
<1>5. ASSUME NEW r \in C PROVE out[r] = parts[place[r] + 1]
  <2>1. r \in 0 .. w - 1
    BY <1>2 DEF InPlace
  <2>2. place[r] \in Int /\ place[r] = PartOf(mode, lay, r) - 1
    BY <1>1, <1>2 DEF InPlace, Places
  <2>3. out[r] = Chunk(s, n)[PartOf(mode, lay, r)]
    BY <2>1 DEF Echoed
  <2>4. PartOf(mode, lay, r) \in Nat
    BY <2>1, PartTyped
  <2>5. PartOf(mode, lay, r) = place[r] + 1
    BY <2>2, <2>4
  <2> QED BY <1>3, <2>3, <2>5
<1>6. Concat(Given(C, w, out)) = SubSeq(s, b[0] + 1, b[n])
  <2>1. GivePart(C, place, parts, out)
    BY <1>5 DEF GivePart
  <2>2. w \in Nat \ {0} /\ n \in Nat \ {0}
    OBVIOUS
  <2>3. parts \in [1 .. n -> Seq(U)]
    BY <1>4
  <2>4. Consecutive(s, n, b, parts)
    BY <1>4
  <2>5. s \in Seq(U)
    OBVIOUS
  <2> HIDE <1>1, <1>3, <1>4, <1>5
  <2> QED BY <1>2, <2>1, <2>2, <2>3, <2>4, <2>5, CollectInOrder
<1>7. Collect(mode, lay, out) = SubSeq(s, 1, Len(s))
  <2>1. Collect(mode, lay, out) = Concat(Given(C, w, out))
    BY <1>1, CollectIs
  <2>2. b[0] + 1 = 1
    BY <1>4
  <2> QED BY <1>4, <1>6, <2>1, <2>2
<1> QED BY <1>7, WholeSection

----------------------------------------------------------------------------
(* Lemmas on what the ranks compute *)

(* Ranks that generate together are consecutive, from a multiple on. *)
LEMMA InferGroupIs ==
  ASSUME infer_tp \in Nat \ {0}, Rest(WorldSize, infer_tp) = 0, NEW r \in Ranks
  PROVE  /\ First(infer_tp, Quot(r, infer_tp)) \in Nat
         /\ First(infer_tp, Quot(r, infer_tp)) + infer_tp <= WorldSize
         /\ Rest(r, infer_tp) \in 0 .. infer_tp - 1
         /\ r = First(infer_tp, Quot(r, infer_tp)) + Rest(r, infer_tp)
         /\ \A i \in 1 .. infer_tp : InferGroup(r)[i] = First(infer_tp, Quot(r, infer_tp)) + i - 1
<1>1. PICK w \in Nat \ {0}, t \in Nat \ {0} : w = WorldSize /\ t = infer_tp
  BY World
<1>2. r \in Nat /\ r < w
  BY <1>1, World
<1>3. Quot(w, t) \in Nat /\ w = t * Quot(w, t) + Rest(w, t)
  BY Division
<1>4. PICK k \in Nat : w = t * k
  <2>1. PICK k \in Nat : w = t * k + 0
    BY <1>1, <1>3
  <2>2. t * k + 0 = t * k
    OBVIOUS
  <2> QED BY <2>1, <2>2
<1>5. Quot(r, t) \in Nat /\ Rest(r, t) \in 0 .. t - 1 /\ r = t * Quot(r, t) + Rest(r, t)
  BY <1>2, Division
<1>6. PICK g \in Nat, j \in 0 .. t - 1 : g = Quot(r, t) /\ j = Rest(r, t) /\ r = t * g + j
  BY <1>5
<1>7. g < k
  BY <1>2, <1>4, <1>6, SmallerQuotient
<1>8. PICK x \in Nat : x = First(t, g) /\ x = t * g /\ x + t <= w
  <2>1. t * g + t <= t * k
    BY <1>7, Ordered
  <2>2. t * g \in Nat
    OBVIOUS
  <2> QED BY <1>4, <2>1, <2>2 DEF First
<1>9. ASSUME NEW i \in 1 .. t PROVE InferGroup(r)[i] = x + i - 1
  <2>1. InferGroup(r)[i] = g * t + i - 1
    BY <1>1, <1>6 DEF InferGroup, Quot
  <2>2. g * t = t * g
    OBVIOUS
  <2> QED BY <1>8, <2>1, <2>2
<1>10. r = x + j
  BY <1>6, <1>8
<1> QED BY <1>1, <1>6, <1>8, <1>9, <1>10

(* A rank with its part of the batch. *)
LEMMA DispatchedIs ==
  ASSUME NEW c, c.mode # "ONE_TO_ALL", NEW r \in Ranks
  PROVE  Dispatched(c)[r] = Chunk(Padded(c), Parts(c.mode, layout))[PartOf(c.mode, layout, r)]
BY DEF Dispatched

(* What generation takes in is what the ranks that generate together have.  *)
LEMMA InputGathered ==
  ASSUME layout \in Layouts(WorldSize), infer_tp \in Nat \ {0}, Rest(WorldSize, infer_tp) = 0,
         call.mode = "DP_COMPUTE_PROTO", call.method = "generate_sequences", arg = Dispatched(call), NEW r \in Ranks
  PROVE  Input(r) = Gathered(Padded(call), WorldSize, infer_tp, First(infer_tp, Quot(r, infer_tp)))
<1>1. PICK w \in Nat \ {0}, t \in Nat \ {0} : w = WorldSize /\ t = infer_tp
  BY World
<1>2. PICK x \in Nat : x = First(t, Quot(r, t)) /\ x + t <= w /\ \A i \in 1 .. t : InferGroup(r)[i] = x + i - 1
  BY <1>1, InferGroupIs
<1>3. PICK s : s = Padded(call)
  OBVIOUS
<1>4. ASSUME NEW q \in Ranks PROVE arg[q] = Chunk(s, w)[q + 1]
  <2>1. arg[q] = Chunk(s, Parts("DP_COMPUTE_PROTO", layout))[PartOf("DP_COMPUTE_PROTO", layout, q)]
    BY <1>3, DispatchedIs
  <2>2. Parts("DP_COMPUTE_PROTO", layout) = w
    BY <1>1, PartsAre
  <2>3. PartOf("DP_COMPUTE_PROTO", layout, q) = q + 1
    BY DEF PartOf
  <2> QED BY <2>1, <2>2, <2>3
<1>5. ASSUME NEW i \in 1 .. t PROVE arg[InferGroup(r)[i]] = Chunk(s, w)[x + i]
  <2>1. PICK q \in Ranks : q = x + i - 1 /\ q + 1 = x + i
    BY <1>1, <1>2, World, SMTT(30)
  <2>2. InferGroup(r)[i] = q
    BY <1>2, <2>1
  <2> QED BY <1>4, <2>1, <2>2
<1>6. [i \in 1 .. t |-> arg[InferGroup(r)[i]]] = [i \in 1 .. t |-> Chunk(s, w)[x + i]]
  BY <1>5
<1>7. Input(r) = Concat([i \in 1 .. t |-> arg[InferGroup(r)[i]]])
  BY <1>1 DEF Input
<1> QED BY <1>1, <1>2, <1>3, <1>6, <1>7 DEF Gathered

(* The call under way has been dispatched, and each rank has computed. *)
AllComputed == \A r \in Ranks : output[r] = Computed(r)

CallDealt == /\ layout \in Layouts(WorldSize) /\ infer_tp \in Nat \ {0} /\ Rest(WorldSize, infer_tp) = 0
             /\ IsCall(call)
             /\ call.mode # "ONE_TO_ALL" => Splits(call) /\ arg = Dispatched(call)

(* What the ranks have generated is the batch, in order. *)
LEMMA GeneratedWhole ==
  ASSUME CallDealt, AllComputed, call.method = "generate_sequences"
  PROVE  Collect(call.mode, layout, output) = Padded(call)
<1>1. /\ call.mode = "DP_COMPUTE_PROTO" /\ Splits(call) /\ arg = Dispatched(call) /\ IsCall(call)
      /\ layout \in Layouts(WorldSize) /\ infer_tp \in Nat \ {0} /\ Rest(WorldSize, infer_tp) = 0
  BY DEF CallDealt, IsCall
<1>2. PICK w \in Nat \ {0}, t \in Nat \ {0} : w = WorldSize /\ t = infer_tp
  BY <1>1, World
<1>3. PICK s : s = Padded(call)
  OBVIOUS
<1>4. s \in Seq(1 .. call.rows) /\ Cuts(Len(s), w)
  <2>1. Parts(call.mode, layout) = w
    BY <1>1, <1>2, PartsAre
  <2>2. Cuts(Len(Padded(call)), Parts(call.mode, layout))
    BY <1>1, SplitsCuts
  <2>3. Padded(call) \in Seq(1 .. call.rows)
    BY <1>1, PaddedIs
  <2> QED BY <1>3, <2>1, <2>2, <2>3
<1>5. TakeBack(s, w, t, output)
  <2>1. ASSUME NEW r \in Ranks
        PROVE  output[r] = Chunk(Gathered(s, w, t, First(t, Quot(r, t))), t)[Rest(r, t) + 1]
    <3>1. Input(r) = Gathered(s, w, t, First(t, Quot(r, t)))
      BY <1>1, <1>2, <1>3, InputGathered
    <3>2. output[r] = OwnChunk(r)
      <4>1. output[r] = Computed(r)
        BY DEF AllComputed
      <4>2. Computed(r) = OwnChunk(r)
        BY <1>1 DEF Computed
      <4> QED BY <4>1, <4>2
    <3> QED BY <1>2, <3>1, <3>2 DEF OwnChunk, Rest
  <2>2. Ranks = 0 .. w - 1
    BY <1>2, World
  <2> QED BY <2>1, <2>2 DEF TakeBack
<1>6. Concat([i \in 1 .. w |-> output[i - 1]]) = s
  <2>1. Rest(w, t) = 0
    BY <1>1, <1>2
  <2>2. PICK U : s \in Seq(U)
    BY <1>4
  <2>3. Cuts(Len(s), w)
    BY <1>4
  <2> HIDE <1>1, <1>2, <1>3, <1>4
  <2>4. w \in Nat \ {0} /\ t \in Nat \ {0}
    BY <1>2
  <2>5. Concat(OutputsOf(w, output)) = s
    BY <1>5, <2>1, <2>2, <2>3, <2>4, GroupsCut
  <2> QED BY <2>5 DEF OutputsOf
<1>7. Collect(call.mode, layout, output) = Concat([i \in 1 .. w |-> output[i - 1]])
  <2>1. Size(layout) = w
    BY <1>1, <1>2, LayoutIs
  <2>2. \A i : Collected(call.mode, layout, i)
    BY <1>1 DEF Collected
  <2> QED BY <2>1, <2>2 DEF Collect
<1> QED BY <1>3, <1>6, <1>7

(* Outside generation a rank returns the rows it was sent. *)
LEMMA EchoedRows ==
  ASSUME CallDealt, AllComputed, call.method # "generate_sequences", call.mode # "ONE_TO_ALL"
  PROVE  Echoed(call.mode, layout, WorldSize, Padded(call), Parts(call.mode, layout), output)
<1>1. arg = Dispatched(call) /\ Ranks = 0 .. WorldSize - 1
  BY World DEF CallDealt
<1>2. ASSUME NEW r \in Ranks
      PROVE  output[r] = Chunk(Padded(call), Parts(call.mode, layout))[PartOf(call.mode, layout, r)]
  <2>1. output[r] = arg[r]
    <3>1. output[r] = Computed(r)
      BY DEF AllComputed
    <3>2. Computed(r) = arg[r]
      BY DEF Computed
    <3> QED BY <3>1, <3>2
  <2> QED BY <1>1, <2>1, DispatchedIs
<1> QED BY <1>1, <1>2 DEF Echoed

(* Rows come back as they were sent, in order, but from the stages of       *)
(* several dimensions.                                                      *)
LEMMA OrderedWhole ==
  ASSUME CallDealt, AllComputed, call.mode # "ONE_TO_ALL",
         call.mode # "MEGATRON_PP_AS_DP_PROTO" \/ OneDimension(layout)
  PROVE  Collect(call.mode, layout, output) = Padded(call)
<1>1. CASE call.method = "generate_sequences"
  BY <1>1, GeneratedWhole
<1>2. CASE call.method # "generate_sequences"
  <2>1. /\ Splits(call) /\ IsCall(call) /\ call.mode \in Modes
        /\ layout \in Layouts(WorldSize)
    BY DEF CallDealt, IsCall
  <2>2. PICK w \in Nat \ {0} : w = WorldSize
    BY World
  <2>3. PICK s, n, mode : s = Padded(call) /\ n = Parts(call.mode, layout) /\ mode = call.mode
    OBVIOUS
  <2>4. s \in Seq(1 .. call.rows) /\ Cuts(Len(s), n) /\ n \in Nat \ {0}
    BY <2>1, <2>3, SplitsCuts, PaddedIs
  <2>5. Echoed(mode, layout, w, s, n, output)
    BY <1>2, <2>2, <2>3, EchoedRows
  <2>6. layout \in Layouts(w)
    BY <2>1, <2>2
  <2>7. InPlace(CollectedRanks(mode, layout), w, n, Places(mode, layout))
    <3>1. CASE mode = "DP_COMPUTE_PROTO"
      <4>1. n = w
        BY <2>3, <2>6, <3>1, PartsAre
      <4> QED BY <2>6, <3>1, <4>1, ReplicasDealt
    <3>2. CASE mode = "MEGATRON_COMPUTE_PROTO"
      <4>1. n = layout.dp
        BY <2>3, <2>6, <3>2, PartsAre
      <4> QED BY <2>6, <3>2, <4>1, ShardsDealt
    <3>3. CASE mode = "MEGATRON_PP_AS_DP_PROTO"
      <4>1. n = layout.dp * layout.pp * layout.cp
        BY <2>3, <2>6, <3>3, PartsAre
      <4>2. OneDimension(layout)
        BY <2>3, <3>3
      <4> QED BY <2>6, <3>3, <4>1, <4>2, StagesInOrder
    <3>4. mode \in Modes \ {"ONE_TO_ALL"}
      BY <2>1, <2>3
    <3> QED BY <3>1, <3>2, <3>3, <3>4 DEF Modes
  <2>8. Collect(mode, layout, output) = s
    <3>1. PICK U : s \in Seq(U)
      BY <2>4
    <3>2. Cuts(Len(s), n) /\ n \in Nat \ {0} /\ mode \in Modes
      BY <2>1, <2>3, <2>4
    <3> HIDE <2>3, <2>2
    <3> QED BY <2>5, <2>6, <2>7, <3>1, <3>2, SentComesBack
  <2> QED BY <2>3, <2>8
<1> QED BY <1>1, <1>2

----------------------------------------------------------------------------
(* Lemmas on what is left when the padding is cut off *)

(* A sequence without rows. *)
LEMMA NoSection ==
  ASSUME NEW U, NEW s \in Seq(U), NEW n \in Int, n < 1
  PROVE  SubSeq(s, 1, n) = << >>
OBVIOUS

(* The rows that are left. *)
Left(c) == Len(Padded(c)) - PaddingCount(c)

(* What is left of the rows without the padding. *)
LEMMA LeftOver ==
  ASSUME NEW c, IsCall(c)
  PROVE  /\ Left(c) \in Int /\ Left(c) <= c.rows
         /\ c.padding # "auto keyword" => Left(c) = c.rows
<1>1. PICK n \in Nat, w \in Nat \ {0} : n = c.rows /\ w = WorldSize
  BY World DEF IsCall
<1>2. PICK p \in 0 .. w - 1, m \in 0 .. w - 1 : p = PadSize(n, w) /\ m = Rest(n, w)
  BY PadSizeRange, Division
<1>0. Len(Padded(c)) = c.rows + Added(c)
  BY PaddedIs
<1>3. CASE c.padding = "none"
  <2>1. Added(c) = 0 /\ PaddingCount(c) = 0
    BY <1>3 DEF Added, PaddingCount
  <2>2. Left(c) = n
    BY <1>0, <1>1, <2>1 DEF Left
  <2> QED BY <1>1, <2>2
<1>4. CASE c.padding \in {"caller", "auto positional"}
  <2>1. Added(c) = p /\ PaddingCount(c) = p
    BY <1>1, <1>2, <1>4 DEF Added, PaddingCount
  <2>2. Len(Padded(c)) = n + p
    BY <1>0, <1>1, <2>1
  <2>3. Left(c) = n
    BY <1>2, <2>1, <2>2 DEF Left
  <2> QED BY <1>1, <2>3
<1>5. CASE c.padding = "auto keyword"
  <2>1. Added(c) = 0 /\ PaddingCount(c) = w - m
    BY <1>1, <1>2, <1>5 DEF Added, PaddingCount, Rest
  <2>2. Left(c) = n + 0 - (w - m)
    BY <1>0, <1>1, <2>1 DEF Left
  <2>3. PICK x \in Int : x = n + 0 - (w - m) /\ x <= n
    BY <1>1
  <2>4. Left(c) = x /\ x <= c.rows
    BY <1>1, <2>2, <2>3
  <2> QED BY <1>5, <2>4
<1> QED BY <1>3, <1>4, <1>5 DEF IsCall, Paddings

(* The first n rows are 1 to n. *)
Upward(n, s) == n <= Len(s) /\ \A i \in 1 .. n : s[i] = i

(* The beginning of the rows in order. *)
LEMMA PrefixOfRows ==
  ASSUME NEW n \in Nat, NEW s \in Seq(1 .. n), NEW b \in Seq(1 .. n), Len(b) = n,
         Upward(n, s), Upward(n, b), NEW m \in Int, m <= n, NEW u, u = SubSeq(s, 1, m)
  PROVE  IsPrefix(u, b) /\ (m >= 0 => Len(u) = m)
<1>0. n <= Len(s) /\ \A i \in 1 .. n : b[i] = i /\ s[i] = i
  BY DEF Upward
<1>1. CASE m >= 0
  <2>0. m \in Nat /\ 0 <= m /\ m <= Len(s) /\ m <= Len(b)
    BY <1>0, <1>1
  <2>1. u \in Seq(1 .. n) /\ Len(u) = m - 0 /\ \A i \in 1 .. m - 0 : u[i] = s[0 + i]
    <3>1. u = SubSeq(s, 0 + 1, m)
      OBVIOUS
    <3> QED BY <2>0, <3>1, SectionNamed, SMTT(30)
  <2>2. PICK v : v = SubSeq(b, 0 + 1, m)
    OBVIOUS
  <2>3. v \in Seq(1 .. n) /\ Len(v) = m - 0 /\ \A i \in 1 .. m - 0 : v[i] = b[0 + i]
    BY <2>0, <2>2, SectionNamed
  <2>4. u = v
    <3>1. ASSUME NEW i \in 1 .. m PROVE u[i] = v[i]
      BY <1>0, <2>0, <2>1, <2>3
    <3>2. Len(u) = Len(v) /\ Len(u) = m
      BY <2>0, <2>1, <2>3
    <3> QED BY <2>1, <2>3, <3>1, <3>2, SameSequence
  <2>5. SubSeq(u, 1, Len(u)) = u
    BY <2>1, WholeSection
  <2>6. Len(u) = m
    BY <2>0, <2>1
  <2> QED BY <2>0, <2>2, <2>4, <2>5, <2>6 DEF IsPrefix
<1>2. CASE m < 0
  <2>1. u = << >>
    BY <1>2, NoSection
  <2>2. SubSeq(b, 1, 0) = << >>
    BY NoSection
  <2>3. SubSeq(u, 1, 0) = << >> /\ Len(u) = 0
    BY <2>1
  <2> QED BY <1>2, <2>2, <2>3 DEF IsPrefix
<1> QED BY <1>1, <1>2

(* With its rows in order, a batch without its padding is what was given,   *)
(* or the beginning of it.                                                  *)
LEMMA CutIsPrefix ==
  ASSUME NEW c, IsCall(c), NEW u, u = Unpad(Padded(c), PaddingCount(c))
  PROVE  IsPrefix(u, Batch(c)) /\ (c.padding # "auto keyword" => Len(u) = c.rows)
<1>1. PICK n \in Nat : n = c.rows
  BY DEF IsCall
<1>2. PICK m \in Int : m = Left(c)
  BY LeftOver
<1>3. m <= n /\ (c.padding # "auto keyword" => m = n)
  BY <1>1, <1>2, LeftOver
<1>4. PICK s \in Seq(1 .. n), b \in Seq(1 .. n) : s = Padded(c) /\ b = Batch(c)
  BY <1>1, PaddedIs, BatchIs
<1>5. Len(b) = n /\ \A i \in 1 .. n : b[i] = i
  BY <1>1, <1>4, BatchIs
<1>6. Len(s) = n + Added(c) /\ n <= Len(s) /\ \A i \in 1 .. n : s[i] = i
  <2>1. Len(s) = n + Added(c) /\ \A i \in 1 .. n : s[i] = i
    BY <1>1, <1>4, PaddedIs
  <2>2. Added(c) \in Nat
    BY World, PaddedIs
  <2> QED BY <2>1, <2>2
<1>7. u = SubSeq(s, 1, m)
  <2>1. u = SubSeq(s, 1, Len(s) - PaddingCount(c))
    BY <1>4 DEF Unpad
  <2> QED BY <1>2, <1>4, <2>1 DEF Left
<1>8. IsPrefix(u, b) /\ (m >= 0 => Len(u) = m)
  <2>1. Upward(n, s) /\ Upward(n, b)
    BY <1>5, <1>6 DEF Upward
  <2>2. m <= n /\ Len(b) = n
    BY <1>3, <1>5
  <2>3. m \in Int /\ n \in Nat /\ s \in Seq(1 .. n) /\ b \in Seq(1 .. n)
    BY <1>2, <1>4
  <2> HIDE <1>1, <1>2, <1>4
  <2>4. m <= n
    BY <2>2
  <2>5. Len(b) = n
    BY <2>2
  <2>6. Upward(n, s)
    BY <2>1
  <2>7. Upward(n, b)
    BY <2>1
  <2>8. IsPrefix(u, b)
    BY <1>7, <2>3, <2>4, <2>5, <2>6, <2>7, PrefixOfRows
  <2>9. m >= 0 => Len(u) = m
    BY <1>7, <2>3, <2>4, <2>5, <2>6, <2>7, PrefixOfRows
  <2> QED BY <2>8, <2>9
<1>9. IsPrefix(u, Batch(c))
  BY <1>4, <1>8
<1>10. ASSUME c.padding # "auto keyword" PROVE Len(u) = c.rows
  <2>1. m = n
    BY <1>3, <1>10
  <2>2. m >= 0
    BY <2>1
  <2> QED BY <1>1, <1>8, <2>1, <2>2
<1> QED BY <1>9, <1>10

----------------------------------------------------------------------------
(* Lemmas on parts put together in another order *)

SameLength(C, w, parts, size) == \A i \in 1 .. w : Len(parts[i]) = IF i - 1 \in C THEN size ELSE 0

(* n parts of a size are n times as long. *)
LEMMA LengthTogether ==
  ASSUME NEW U, NEW w \in Nat \ {0}, NEW parts \in [1 .. w -> Seq(U)], NEW size \in Nat,
         NEW C, NEW n \in Nat, SomeRanks(C, w, n), SameLength(C, w, parts, size)
  PROVE  Concat(parts) \in Seq(U) /\ Len(Concat(parts)) = size * n
<1>1. PICK f \in [1 .. w -> Seq(U)] : Together(f, w, parts) /\ Concat(parts) = f[w]
  BY ConcatByStep
<1> DEFINE K(i) == Cardinality(Earlier(C, i))
           Bad == {i \in Nat : i \in 1 .. w /\ Len(f[i]) # size * K(i)}
<1>2. /\ K(0) = 0 /\ K(w) = n
      /\ \A i \in 0 .. w : K(i) \in 0 .. n
      /\ \A i \in 0 .. w - 1 : K(i + 1) = IF i \in C THEN K(i) + 1 ELSE K(i)
  <2>1. CountsUp(C, w, n)
    BY CountingUp
  <2> QED BY <2>1 DEF CountsUp
<1> HIDE DEF K
<1>3. ASSUME NEW i \in 1 .. w
      PROVE  Len(parts[i]) \in Nat /\ size * K(i) = size * K(i - 1) + Len(parts[i]) /\ size * K(i - 1) \in Nat
  <2>1. PICK j \in 0 .. w - 1 : j = i - 1 /\ i = j + 1
    OBVIOUS
  <2>2. PICK k \in Nat : k = K(j)
    BY <1>2, <2>1
  <2>3. size * (k + 1) = size * k + size /\ size * k \in Nat
    BY <2>2
  <2>4. CASE j \in C
    <3>1. K(i) = k + 1 /\ Len(parts[i]) = size
      BY <1>2, <2>1, <2>2, <2>4 DEF SameLength
    <3> QED BY <2>1, <2>2, <2>3, <3>1
  <2>5. CASE j \notin C
    <3>1. K(i) = k /\ Len(parts[i]) = 0
      BY <1>2, <2>1, <2>2, <2>5 DEF SameLength
    <3> QED BY <2>1, <2>2, <2>3, <3>1
  <2> QED BY <2>4, <2>5
<1>4. Bad = {}
  <2>1. SUFFICES ASSUME Bad # {} PROVE FALSE
    OBVIOUS
  <2>2. PICK i \in Bad : \A j \in Bad : i <= j
    BY <2>1, LeastNatural
  <2>3. i \in 1 .. w /\ Len(f[i]) # size * K(i)
    OBVIOUS
  <2>4. CASE i = 1
    <3>1. f[i] = parts[i]
      BY <1>1, <2>4 DEF Together
    <3>2. size * K(i) = size * K(0) + Len(parts[i])
      BY <1>3, <2>3, <2>4
    <3>3. size * K(0) = 0
      BY <1>2
    <3>4. Len(parts[i]) \in Nat
      BY <1>3, <2>3
    <3> QED BY <2>3, <3>1, <3>2, <3>3, <3>4
  <2>5. CASE i # 1
    <3>1. PICK j \in 1 .. w : j = i - 1 /\ j \in Nat /\ j < i
      BY <2>3, <2>5
    <3>2. j \notin Bad
      BY <2>2, <3>1
    <3>3. Len(f[j]) = size * K(j)
      BY <3>1, <3>2
    <3>4. f[i] = f[j] \o parts[i]
      <4>1. i \in 2 .. w
        BY <2>3, <2>5
      <4>2. f[i] = f[i - 1] \o parts[i]
        BY <1>1, <4>1 DEF Together
      <4> QED BY <3>1, <4>2
    <3>5. Len(f[i]) = Len(f[j]) + Len(parts[i])
      <4>1. f[j] \in Seq(U) /\ parts[i] \in Seq(U)
        BY <1>1, <2>3, <3>1
      <4> QED BY <3>4, <4>1, Joined
    <3>6. size * K(i) = size * K(j) + Len(parts[i])
      BY <1>3, <2>3, <3>1
    <3> QED BY <2>3, <3>3, <3>5, <3>6
  <2> QED BY <2>4, <2>5
<1>5. w \in Nat /\ w \in 1 .. w
  OBVIOUS
<1>6. Len(f[w]) = size * K(w)
  BY <1>4, <1>5
<1>7. f[w] \in Seq(U)
  BY <1>1, <1>5
<1> QED BY <1>1, <1>2, <1>6, <1>7

(* Parts put together have the elements of all. *)
LEMMA ElementsTogether ==
  ASSUME NEW U, NEW w \in Nat \ {0}, NEW parts \in [1 .. w -> Seq(U)], NEW x
  PROVE  x \in Range(Concat(parts)) <=> \E i \in 1 .. w : x \in Range(parts[i])
<1>1. PICK f \in [1 .. w -> Seq(U)] : Together(f, w, parts) /\ Concat(parts) = f[w]
  BY ConcatByStep
<1> DEFINE Has(i) == x \in Range(f[i])
           Some(i) == \E j \in 1 .. i : x \in Range(parts[j])
           Bad == {i \in Nat : i \in 1 .. w /\ ~(Has(i) <=> Some(i))}
<1>2. ASSUME NEW s \in Seq(U), NEW t \in Seq(U) PROVE Range(s \o t) = Range(s) \cup Range(t)
  <2>1. /\ s \o t \in Seq(U) /\ Len(s \o t) = Len(s) + Len(t)
        /\ \A i \in 1 .. Len(s) : (s \o t)[i] = s[i]
        /\ \A i \in Len(s) + 1 .. Len(s) + Len(t) : (s \o t)[i] = t[i - Len(s)]
    BY Joined
  <2>0. Len(s) \in Nat /\ Len(t) \in Nat
    OBVIOUS
  <2>2. PICK v, m, n : v = s \o t /\ m = Len(s) /\ n = Len(t) /\ m \in Nat /\ n \in Nat
    BY <2>0
  <2>3. DOMAIN s = 1 .. m /\ DOMAIN t = 1 .. n /\ DOMAIN v = 1 .. m + n
    BY <2>1, <2>2
  <2>4. (\A i \in 1 .. m : v[i] = s[i]) /\ \A i \in m + 1 .. m + n : v[i] = t[i - m]
    BY <2>1, <2>2
  <2>5. ASSUME NEW y \in Range(v) PROVE y \in Range(s) \cup Range(t)
    <3>1. PICK i \in 1 .. m + n : y = v[i]
      BY <2>3 DEF Range
    <3>2. CASE i <= m
      <4>1. i \in 1 .. m
        BY <2>2, <3>2
      <4> QED BY <2>3, <2>4, <3>1, <4>1 DEF Range
    <3>3. CASE ~(i <= m)
      <4>1. i \in m + 1 .. m + n /\ i - m \in 1 .. n
        BY <2>2, <3>3
      <4> QED BY <2>3, <2>4, <3>1, <4>1 DEF Range
    <3> QED BY <3>2, <3>3
  <2>6. ASSUME NEW y \in Range(s) PROVE y \in Range(v)
    <3>1. PICK i \in 1 .. m : y = s[i]
      BY <2>3, <2>6 DEF Range
    <3>2. i \in 1 .. m + n
      BY <2>2
    <3> QED BY <2>3, <2>4, <3>1, <3>2 DEF Range
  <2>7. ASSUME NEW y \in Range(t) PROVE y \in Range(v)
    <3>1. PICK i \in 1 .. n : y = t[i]
      BY <2>3, <2>7 DEF Range
    <3>0. PICK k : k = i + m
      OBVIOUS
    <3>2. k \in m + 1 .. m + n /\ k - m = i
      <4>1. i \in Nat /\ 1 <= i /\ i <= n /\ m \in Nat /\ n \in Nat
        BY <2>2, <3>1
      <4>2. i + m \in m + 1 .. m + n /\ i + m - m = i
        BY <4>1
      <4> QED BY <3>0, <4>1, <4>2
    <3>3. k \in 1 .. m + n
      BY <2>2, <3>2
    <3> QED BY <2>3, <2>4, <3>1, <3>2, <3>3 DEF Range
  <2> QED BY <2>2, <2>5, <2>6, <2>7
<1>3. Bad = {}
  <2>1. SUFFICES ASSUME Bad # {} PROVE FALSE
    OBVIOUS
  <2>2. PICK i \in Bad : \A j \in Bad : i <= j
    BY <2>1, LeastNatural
  <2>3. i \in 1 .. w /\ ~(Has(i) <=> Some(i))
    OBVIOUS
  <2>4. CASE i = 1
    <3>1. f[i] = parts[i] /\ 1 .. i = {i}
      BY <1>1, <2>4 DEF Together
    <3> QED BY <2>3, <3>1
  <2>5. CASE i # 1
    <3>1. PICK j \in 1 .. w : j = i - 1 /\ j \in Nat /\ j < i
      BY <2>3, <2>5
    <3>2. j \notin Bad
      <4>1. ~(i <= j) /\ i \in Nat
        BY <2>3, <3>1
      <4> HIDE DEF Bad
      <4> QED BY <2>2, <4>1
    <3>3. Has(j) <=> Some(j)
      BY <3>1, <3>2
    <3>4. f[i] = f[j] \o parts[i]
      <4>1. i \in 2 .. w
        BY <2>3, <2>5
      <4>2. f[i] = f[i - 1] \o parts[i]
        BY <1>1, <4>1 DEF Together
      <4> QED BY <3>1, <4>2
    <3>5. Range(f[i]) = Range(f[j]) \cup Range(parts[i])
      <4>1. f[j] \in Seq(U) /\ parts[i] \in Seq(U)
        BY <1>1, <2>3, <3>1
      <4> QED BY <1>2, <3>4, <4>1
    <3>6. 1 .. i = (1 .. j) \cup {i}
      BY <2>3, <3>1
    <3>7. Some(i) <=> Some(j) \/ x \in Range(parts[i])
      BY <3>6
    <3> QED BY <2>3, <3>3, <3>5, <3>7
  <2> QED BY <2>4, <2>5
<1>4. w \in Nat /\ w \in 1 .. w
  OBVIOUS
<1>5. Has(w) <=> Some(w)
  BY <1>3, <1>4
<1> QED BY <1>1, <1>5

(* Chunks of one size. *)
LEMMA ChunksAlike ==
  ASSUME NEW U, NEW s \in Seq(U), NEW n \in Nat \ {0}, Rest(Len(s), n) = 0, NEW size, size = ChunkSize(Len(s), n)
  PROVE  /\ size \in Nat /\ Len(s) = size * n
         /\ Chunk(s, n) \in [1 .. n -> Seq(U)] /\ \A j \in 1 .. n : Len(Chunk(s, n)[j]) = size
         /\ Concat(Chunk(s, n)) = s
<1>1. PICK m \in Nat : m = Len(s)
  OBVIOUS
<1>2. size \in Nat /\ m = n * size /\ Cuts(m, n)
  BY <1>1, WholeChunks, RoundedUp
<1>3. m = size * n
  BY <1>2
<1>4. PICK parts, b : parts = Chunk(s, n) /\ b = BoundsOf(m, n)
  OBVIOUS
<1>5. /\ parts \in [1 .. n -> Seq(U)] /\ Consecutive(s, n, b, parts) /\ b[0] = 0 /\ b[n] = m
      /\ \A i \in 1 .. n : parts[i] = SubSeq(s, Bound(m, n, i - 1) + 1, Bound(m, n, i))
  <2>1. Cuts(Len(s), n)
    BY <1>1, <1>2
  <2>2. /\ Chunk(s, n) \in [1 .. n -> Seq(U)]
        /\ Consecutive(s, n, BoundsOf(Len(s), n), Chunk(s, n))
        /\ BoundsOf(Len(s), n)[0] = 0 /\ BoundsOf(Len(s), n)[n] = Len(s)
        /\ \A i \in 1 .. n : Chunk(s, n)[i] = SubSeq(s, Bound(Len(s), n, i - 1) + 1, Bound(Len(s), n, i))
    <3> HIDE <1>1, <1>2, <1>4
    <3> QED BY <2>1, ChunkCut
  <2> QED BY <1>1, <1>4, <2>2
<1>6. ASSUME NEW j \in 1 .. n PROVE Len(parts[j]) = size
  <2>1. Bound(m, n, j - 1) = (j - 1) * size /\ Bound(m, n, j) = j * size
    <3>1. Bound(m, n, j - 1) = (j - 1) * size
      <4>1. \A i \in 1 .. n : Bound(m, n, i - 1) = (i - 1) * ChunkSize(m, n)
        BY <1>2, Bounds, ZenonT(40)
      <4> QED BY <1>1, <4>1
    <3>2. Bound(m, n, j) = j * size
      BY <1>1, <1>2 DEF Bound
    <3> QED BY <3>1, <3>2
  <2>2. PICK x \in Nat : x = (j - 1) * size /\ x + size = j * size
    <3>1. size \in Nat /\ j - 1 \in Nat
      BY <1>2
    <3>2. (j - 1) * size \in Nat /\ j * size = (j - 1) * size + size
      BY <3>1
    <3> QED BY <3>2
  <2>3. PICK y \in Nat : y = x + size /\ y = j * size /\ y - x = size
    BY <1>2, <2>2, SMTT(30)
  <2>4. y <= m
    <3>1. \A i \in 0 .. n : Bound(m, n, i) <= m
      BY <1>2, Bounds
    <3> QED BY <2>1, <2>3, <3>1
  <2>5. parts[j] = SubSeq(s, x + 1, y)
    BY <1>5, <2>1, <2>2, <2>3
  <2>6. x <= y /\ y <= Len(s)
    BY <1>1, <1>2, <2>3, <2>4, SMTT(30)
  <2>7. Len(SubSeq(s, x + 1, y)) = y - x
    <3>1. x \in Nat /\ y \in Nat
      BY <2>2, <2>3
    <3> HIDE <1>2, <2>2, <2>3
    <3> QED BY <2>6, <3>1, Section
  <2> QED BY <2>3, <2>5, <2>7
<1>7. Concat(parts) = s
  <2>1. Concat(parts) = SubSeq(s, b[0] + 1, b[n])
    <3>1. parts \in [1 .. n -> Seq(U)]
      BY <1>5
    <3>2. Consecutive(s, n, b, parts)
      BY <1>5
    <3> HIDE <1>1, <1>2, <1>4, <1>5
    <3> QED BY <3>1, <3>2, CutAndPut
  <2>2. b[0] + 1 = 1
    BY <1>5
  <2>3. SubSeq(s, 1, Len(s)) = s
    BY WholeSection
  <2> QED BY <1>1, <1>5, <2>1, <2>2, <2>3
<1> QED BY <1>1, <1>2, <1>3, <1>4, <1>5, <1>6, <1>7

(* There are as many collected ranks as chunks. *)
LEMMA DealtCount ==
  ASSUME NEW w \in Nat, NEW n \in Nat, NEW C, NEW place, Dealt(C, w, n, place)
  PROVE  SomeRanks(C, w, n)
<1>1. /\ place \in [C -> 0 .. n - 1] /\ \A q, r \in C : place[q] = place[r] => q = r
      /\ \A k \in 0 .. n - 1 : \E r \in C : place[r] = k
  BY DEF Dealt
<1>2. IsFiniteSet(C) /\ Cardinality(C) = n
  BY <1>1, Counted
<1> QED BY <1>2 DEF Dealt, SomeRanks

(* Whatever the order of the ranks, all rows come back once. *)
LEMMA DealtTogether ==
  ASSUME NEW U, NEW s \in Seq(U), NEW w \in Nat \ {0}, NEW n \in Nat \ {0}, Rest(Len(s), n) = 0,
         NEW C, NEW place, Dealt(C, w, n, place), NEW out, GivePart(C, place, Chunk(s, n), out),
         NEW u, u = Concat(Given(C, w, out))
  PROVE  u \in Seq(U) /\ Len(u) = Len(s) /\ Range(u) = Range(s)
<1>1. PICK size : size = ChunkSize(Len(s), n)
  OBVIOUS
<1>2. PICK parts : parts = Chunk(s, n)
  OBVIOUS
<1>3. /\ size \in Nat /\ Len(s) = size * n
      /\ parts \in [1 .. n -> Seq(U)] /\ (\A j \in 1 .. n : Len(parts[j]) = size)
      /\ Concat(parts) = s
  BY <1>1, <1>2, ChunksAlike
<1>4. C \subseteq 0 .. w - 1 /\ (\A r \in C : place[r] \in 0 .. n - 1) /\ \A k \in 0 .. n - 1 : \E r \in C : place[r] = k
  BY DEF Dealt
<1>5. SomeRanks(C, w, n)
  BY DealtCount
<1>6. PICK p2 : p2 = Given(C, w, out)
  OBVIOUS
<1>7. ASSUME NEW r \in C PROVE r + 1 \in 1 .. w /\ place[r] + 1 \in 1 .. n /\ p2[r + 1] = parts[place[r] + 1]
  <2>1. r \in 0 .. w - 1 /\ place[r] \in 0 .. n - 1
    BY <1>4
  <2>2. r + 1 \in 1 .. w /\ (r + 1) - 1 = r /\ place[r] + 1 \in 1 .. n
    BY <2>1
  <2>3. out[r] = parts[place[r] + 1]
    BY <1>2 DEF GivePart
  <2> QED BY <1>6, <2>2, <2>3 DEF Given
<1>8. ASSUME NEW i \in 1 .. w, i - 1 \notin C PROVE p2[i] = << >>
  BY <1>6, <1>8 DEF Given
<1>9. ASSUME NEW i \in 1 .. w PROVE p2[i] \in Seq(U) /\ Len(p2[i]) = IF i - 1 \in C THEN size ELSE 0
  <2>1. CASE i - 1 \in C
    <3>1. PICK r \in C : r = i - 1 /\ i = r + 1
      BY <2>1
    <3>2. p2[i] = parts[place[r] + 1] /\ place[r] + 1 \in 1 .. n
      BY <1>7, <3>1
    <3> QED BY <1>3, <2>1, <3>2
  <2>2. CASE i - 1 \notin C
    <3>1. p2[i] = << >>
      BY <1>8, <2>2
    <3> QED BY <2>2, <3>1
  <2> QED BY <2>1, <2>2
<1>10. p2 \in [1 .. w -> Seq(U)] /\ SameLength(C, w, p2, size)
  <2>1. p2 = [i \in 1 .. w |-> p2[i]]
    BY <1>6 DEF Given
  <2> QED BY <1>9, <2>1 DEF SameLength
<1>11. u \in Seq(U) /\ Len(u) = size * n
  <2>1. n \in Nat
    OBVIOUS
  <2>2. p2 \in [1 .. w -> Seq(U)]
    BY <1>10
  <2>3. Concat(p2) \in Seq(U) /\ Len(Concat(p2)) = size * n
    BY <1>3, <1>5, <1>10, <2>1, <2>2, LengthTogether, SMTT(30)
  <2> QED BY <1>6, <2>3
<1>12. ASSUME NEW x PROVE x \in Range(u) <=> x \in Range(s)
  <2>1. x \in Range(u) <=> \E i \in 1 .. w : x \in Range(p2[i])
    BY <1>6, <1>10, ElementsTogether
  <2>2. x \in Range(s) <=> \E j \in 1 .. n : x \in Range(parts[j])
    <3>1. x \in Range(Concat(parts)) <=> \E j \in 1 .. n : x \in Range(parts[j])
      BY <1>3, ElementsTogether
    <3> QED BY <1>3, <3>1
  <2>3. ASSUME NEW i \in 1 .. w, x \in Range(p2[i]) PROVE \E j \in 1 .. n : x \in Range(parts[j])
    <3>1. i - 1 \in C
      <4>1. SUFFICES ASSUME i - 1 \notin C PROVE FALSE
        OBVIOUS
      <4>2. p2[i] = << >>
        BY <1>8, <4>1
      <4> QED BY <2>3, <4>2 DEF Range
    <3>2. PICK r \in C : r = i - 1 /\ i = r + 1
      BY <3>1
    <3>3. p2[i] = parts[place[r] + 1] /\ place[r] + 1 \in 1 .. n
      BY <1>7, <3>2
    <3> QED BY <2>3, <3>3
  <2>4. ASSUME NEW j \in 1 .. n, x \in Range(parts[j]) PROVE \E i \in 1 .. w : x \in Range(p2[i])
    <3>1. PICK k \in 0 .. n - 1 : k = j - 1 /\ k + 1 = j
      OBVIOUS
    <3>2. PICK r \in C : place[r] = k
      BY <1>4
    <3>3. r + 1 \in 1 .. w /\ p2[r + 1] = parts[j]
      BY <1>7, <3>1, <3>2
    <3> QED BY <2>4, <3>3
  <2> QED BY <2>1, <2>2, <2>3, <2>4
<1> QED BY <1>3, <1>11, <1>12

----------------------------------------------------------------------------
(* Lemmas on what the driver gets *)

(* What RowsComeBack says of the rows u returned by a call c. *)
RowsRight(c, lay, u) ==
  IF c.mode # "MEGATRON_PP_AS_DP_PROTO" \/ OneDimension(lay)
  THEN /\ IsPrefix(u, Batch(c))
       /\ c.padding # "auto keyword" => Len(u) = c.rows
  ELSE Len(u) = c.rows /\ (PaddingCount(c) = 0 => Range(u) = 1 .. c.rows)

(* All rows come back from the stages of several dimensions. *)
LEMMA StagesWhole ==
  ASSUME CallDealt, AllComputed, call.mode = "MEGATRON_PP_AS_DP_PROTO",
         NEW u, u = Collect(call.mode, layout, output)
  PROVE  /\ u \in Seq(1 .. call.rows) /\ Len(u) = Len(Padded(call)) /\ Range(u) = Range(Padded(call))
         /\ call.padding \in {"none", "caller"}
<1>1. /\ Splits(call) /\ IsCall(call) /\ call.mode # "ONE_TO_ALL" /\ call.method # "generate_sequences"
      /\ layout \in Layouts(WorldSize) /\ call.padding \in {"none", "caller"}
  BY DEF CallDealt, IsCall, Paddings
<1>2. PICK w \in Nat \ {0} : w = WorldSize /\ layout \in Layouts(w)
  BY <1>1, World
<1>3. PICK s, n, U : s = Padded(call) /\ n = Parts(call.mode, layout) /\ U = 1 .. call.rows
  OBVIOUS
<1>4. s \in Seq(U) /\ n \in Nat \ {0} /\ Rest(Len(s), n) = 0
  BY <1>1, <1>3, SplitsCuts, PaddedIs
<1>5. PICK C, place : C = CollectedRanks(call.mode, layout) /\ place = Places(call.mode, layout)
  OBVIOUS
<1>6. Dealt(C, w, n, place)
  <2>1. n = layout.dp * layout.pp * layout.cp
    BY <1>2, <1>3, PartsAre
  <2> QED BY <1>2, <1>5, <2>1, StagesDealt
<1>7. GivePart(C, place, Chunk(s, n), output)
  <2>1. Echoed(call.mode, layout, w, s, n, output)
    BY <1>1, <1>2, <1>3, EchoedRows
  <2>2. ASSUME NEW r \in C PROVE output[r] = Chunk(s, n)[place[r] + 1]
    <3>1. r \in 0 .. w - 1
      BY <1>6 DEF Dealt
    <3>2. output[r] = Chunk(s, n)[PartOf(call.mode, layout, r)]
      BY <2>1, <3>1 DEF Echoed
    <3>3. PartOf(call.mode, layout, r) \in Nat
      BY <1>1, <1>2, <3>1, PartTyped DEF IsCall
    <3>4. place[r] = PartOf(call.mode, layout, r) - 1
      BY <1>5 DEF Places
    <3>5. place[r] + 1 = PartOf(call.mode, layout, r)
      BY <3>3, <3>4
    <3> QED BY <3>2, <3>5
  <2> QED BY <2>2 DEF GivePart
<1>8. u = Concat(Given(C, w, output))
  BY <1>2, <1>5, CollectIs
<1>9. u \in Seq(U) /\ Len(u) = Len(s) /\ Range(u) = Range(s)
  <2>1. n \in Nat \ {0} /\ s \in Seq(U)
    BY <1>4
  <2>2. Rest(Len(s), n) = 0
    BY <1>4
  <2> HIDE <1>3, <1>4, <1>5
  <2> QED BY <1>6, <1>7, <1>8, <2>1, <2>2, DealtTogether
<1> QED BY <1>1, <1>3, <1>9

(* What the driver returns is right when all ranks have computed. *)
LEMMA ReturnedRows ==
  ASSUME CallDealt, AllComputed, call.mode # "ONE_TO_ALL",
         NEW u, u = Unpad(Collect(call.mode, layout, output), PaddingCount(call))
  PROVE  RowsRight(call, layout, u)
<1>0. IsCall(call)
  BY DEF CallDealt
<1>1. CASE call.mode # "MEGATRON_PP_AS_DP_PROTO" \/ OneDimension(layout)
  <2>1. Collect(call.mode, layout, output) = Padded(call)
    BY <1>1, OrderedWhole
  <2>2. u = Unpad(Padded(call), PaddingCount(call))
    BY <2>1
  <2>3. IsPrefix(u, Batch(call)) /\ (call.padding # "auto keyword" => Len(u) = call.rows)
    BY <1>0, <2>2, CutIsPrefix
  <2> QED BY <1>1, <2>3 DEF RowsRight
<1>2. CASE call.mode = "MEGATRON_PP_AS_DP_PROTO" /\ ~OneDimension(layout)
  <2>1. PICK v : v = Collect(call.mode, layout, output)
    OBVIOUS
  <2>2. /\ v \in Seq(1 .. call.rows) /\ Len(v) = Len(Padded(call)) /\ Range(v) = Range(Padded(call))
        /\ call.padding \in {"none", "caller"}
    BY <1>2, <2>1, StagesWhole
  <2>3. PICK n \in Nat : n = call.rows
    BY <1>0 DEF IsCall
  <2>4. Left(call) = n
    BY <1>0, <2>2, <2>3, LeftOver
  <2>5. u = SubSeq(v, 1, n)
    BY <2>1, <2>2, <2>4 DEF Unpad, Left
  <2>6. n <= Len(v)
    <3>1. Len(Padded(call)) = n + Added(call) /\ Added(call) \in Nat
      BY <1>0, <2>3, World, PaddedIs
    <3> QED BY <2>2, <2>3, <3>1
  <2>7. Len(u) = n
    <3>1. u = SubSeq(v, 0 + 1, n) /\ v \in Seq(1 .. call.rows) /\ n \in Nat
      BY <2>2, <2>5
    <3>2. Len(u) = n - 0
      <4> HIDE <2>1, <2>2, <2>3, <2>5
      <4> QED BY <2>6, <3>1, SectionNamed
    <3> QED BY <3>1, <3>2
  <2>8. ASSUME PaddingCount(call) = 0 PROVE Range(u) = 1 .. n
    <3>1. Added(call) = 0
      BY <2>2, <2>8 DEF Added, PaddingCount
    <3>2. Len(Padded(call)) = n /\ \A i \in 1 .. n : Padded(call)[i] = i
      BY <1>0, <2>3, <3>1, PaddedIs
    <3>3. Padded(call) \in Seq(1 .. n)
      BY <1>0, <2>3, PaddedIs
    <3>4. DOMAIN Padded(call) = 1 .. n
      BY <3>2, <3>3
    <3>5. Range(Padded(call)) = 1 .. n
      BY <3>2, <3>4 DEF Range
    <3>6. u = v
      <4>1. Len(v) = n
        BY <2>2, <3>2
      <4>2. SubSeq(v, 1, Len(v)) = v
        BY <2>2, WholeSection
      <4> QED BY <2>5, <4>1, <4>2
    <3> QED BY <2>2, <3>5, <3>6
  <2> QED BY <1>2, <2>3, <2>7, <2>8 DEF RowsRight
<1> QED BY <1>1, <1>2

----------------------------------------------------------------------------
(* The calls *)

AtStates == {"idle", "called", "inside", "done"}

DealInv == layout \in Layouts(WorldSize) /\ infer_tp \in Nat \ {0} /\ Rest(WorldSize, infer_tp) = 0

(* Before the group is there nothing is called. *)
StartInv == driver \notin {"created", "raised"} => call = InitModel("actor_rollout") /\ Idle

(* A call under way was dispatched as it is. *)
SentInv == ~Idle => Splits(call) /\ arg = Dispatched(call)

(* Who is through has computed. *)
DoneInv == \A r \in Ranks : at[r] = "done" => output[r] = Computed(r)

(* Between calls the driver has the rows of the last one. *)
BackInv == driver = "created" /\ Idle /\ call.mode # "ONE_TO_ALL" => RowsRight(call, layout, result)

RowInv ==
  /\ DealInv /\ IsCall(call) /\ at \in [Ranks -> AtStates] /\ output = [r \in Ranks |-> output[r]]
  /\ StartInv /\ SentInv /\ DoneInv /\ BackInv

(* Every call of the deployment is one. *)
LEMMA CallsAre ==
  /\ \A c \in Calls : IsCall(c)
  /\ \A role : IsCall(InitModel(role)) /\ InitModel(role).mode = "ONE_TO_ALL"
<1>1. ASSUME NEW c \in Calls PROVE IsCall(c)
  <2>1. CASE c \in [role : {"actor_rollout"}, mode : Modes, method : {"compute"}, rows : 1 .. MaxRows, padding : {"none", "caller"}]
    <3>1. c.mode \in Modes /\ c.method = "compute" /\ c.rows \in 1 .. MaxRows /\ c.padding \in {"none", "caller"}
      BY <2>1
    <3>2. c.rows \in Nat /\ c.rows # 0
      BY <3>1, BoundsAssumption
    <3>3. c.padding \in Paddings /\ c.padding \notin {"auto positional", "auto keyword"} /\ c.method # "generate_sequences"
      BY <3>1 DEF Paddings
    <3> QED BY <3>1, <3>2, <3>3 DEF IsCall
  <2>2. CASE c \in [role : {"actor_rollout"}, mode : {"DP_COMPUTE_PROTO"}, method : {"compute", "generate_sequences"},
                    rows : 1 .. MaxRows, padding : Paddings]
    <3>1. c.mode = "DP_COMPUTE_PROTO" /\ c.rows \in 1 .. MaxRows /\ c.padding \in Paddings
      BY <2>2
    <3> QED BY <3>1, BoundsAssumption DEF IsCall, Modes
  <2>3. CASE c \in [role : Range(InitOrder(deployment)), mode : {"ONE_TO_ALL"}, method : {"compute"}, rows : {1}, padding : {"none"}]
    <3>1. c.mode = "ONE_TO_ALL" /\ c.method = "compute" /\ c.rows = 1 /\ c.padding = "none"
      BY <2>3
    <3> QED BY <3>1 DEF IsCall, Modes, Paddings
  <2> QED BY <2>1, <2>2, <2>3 DEF Calls
<1>2. ASSUME NEW role PROVE IsCall(InitModel(role)) /\ InitModel(role).mode = "ONE_TO_ALL"
  <2>1. PICK c : c = InitModel(role)
    OBVIOUS
  <2>2. c.mode = "ONE_TO_ALL" /\ c.method = "init_model" /\ c.rows = 0 /\ c.padding = "none"
    BY <2>1 DEF InitModel
  <2>3. IsCall(c)
    BY <2>2 DEF IsCall, Modes, Paddings
  <2> QED BY <2>1, <2>2, <2>3
<1> QED BY <1>1, <1>2

(* There is a rank 0. *)
LEMMA RankZero == 0 \in Ranks
BY World

(* At first nothing is called. *)
LEMMA RowsStart == Init => RowInv
<1> SUFFICES ASSUME Init PROVE RowInv
  OBVIOUS
<1>1. deployment \in Deployments /\ driver = "checking"
  BY DEF Init, GroupInit
<1>2. call = InitModel("actor_rollout") /\ \A r \in Ranks : at[r] = "idle"
  BY DEF Init
<1>3. DealInv
  <2>1. layout \in deployment.layouts /\ infer_tp \in deployment.infer_tps
    BY DEF Init
  <2> QED BY <1>1, <2>1, LayoutsAssumption DEF DealInv, Rest
<1>4. call.mode = "ONE_TO_ALL" /\ IsCall(call)
  BY <1>2, CallsAre
<1>5. at \in [Ranks -> AtStates] /\ output = [r \in Ranks |-> output[r]]
  BY DEF Init, AtStates
<1>6. StartInv
  BY <1>2 DEF StartInv, Idle
<1>7. SentInv /\ BackInv /\ DoneInv
  BY <1>2, <1>4 DEF SentInv, BackInv, DoneInv, Idle
<1> QED BY <1>3, <1>4, <1>5, <1>6, <1>7 DEF RowInv

(* What is not of a call leaves the calls alone. *)
LEMMA OutsideCalls ==
  ASSUME RowInv, UNCHANGED callVars, driver' = driver \/ driver' = "raised" \/ driver \notin {"created", "raised"}
  PROVE  RowInv'
<1>1. UNCHANGED <<layout, infer_tp, calls, call, at, arg, output, result, models>>
  BY DEF callVars
<1>2. Idle' = Idle /\ DealInv' = DealInv
  BY <1>1 DEF Idle, DealInv
<1>3. DealInv' /\ IsCall(call)' /\ (at \in [Ranks -> AtStates])' /\ (output = [r \in Ranks |-> output[r]])'
  BY <1>1, <1>2 DEF RowInv
<1>4. StartInv'
  BY <1>1, <1>2 DEF RowInv, StartInv
<1>5. SentInv'
  <2>1. Splits(call)' = Splits(call) /\ Dispatched(call)' = Dispatched(call)
    BY <1>1 DEF Splits, Dispatched
  <2> QED BY <1>1, <1>2, <2>1 DEF RowInv, SentInv
<1>6. DoneInv'
  <2>1. ASSUME NEW r \in Ranks PROVE Computed(r)' = Computed(r)
    BY <1>1 DEF Computed, OwnChunk, Input, InferGroup
  <2> QED BY <1>1, <2>1 DEF RowInv, DoneInv
<1>7. BackInv'
  <2>1. driver' = "created" /\ Idle' /\ call'.mode # "ONE_TO_ALL" => driver = "created"
    <3>1. InitModel("actor_rollout").mode = "ONE_TO_ALL"
      BY CallsAre
    <3> QED BY <1>1, <3>1 DEF RowInv, StartInv
  <2> QED BY <1>1, <1>2, <2>1 DEF RowInv, BackInv
<1> QED BY <1>3, <1>4, <1>5, <1>6, <1>7 DEF RowInv

(* A call is sent. *)
LEMMA IssueRows == ASSUME RowInv, NEW c, IsCall(c), Issue(c) PROVE RowInv'
<1>1. /\ driver = "created" /\ Idle /\ call' = c /\ UNCHANGED <<layout, infer_tp, output>>
  BY DEF Issue
<1>2. Splits(c) => at' = [r \in Ranks |-> "called"] /\ arg' = Dispatched(c) /\ driver' = driver
  BY DEF Issue
<1>3. ~Splits(c) => driver' = "raised" /\ UNCHANGED <<at, arg>>
  BY DEF Issue
<1>4. DealInv' /\ IsCall(call') /\ (output = [r \in Ranks |-> output[r]])'
  BY <1>1 DEF RowInv, DealInv
<1>5. Splits(call)' = Splits(c) /\ Dispatched(call)' = Dispatched(c)
  BY <1>1 DEF Splits, Dispatched
<1>6. at' \in [Ranks -> AtStates] /\ (Splits(c) => ~Idle') /\ \A r \in Ranks : at'[r] # "done"
  <2>1. CASE Splits(c)
    <3>1. at' = [r \in Ranks |-> "called"]
      BY <1>2, <2>1
    <3>2. ~Idle'
      BY <3>1, RankZero DEF Idle
    <3> QED BY <3>1, <3>2 DEF AtStates
  <2>2. CASE ~Splits(c)
    BY <1>1, <1>3, <2>2 DEF Idle, RowInv
  <2> QED BY <2>1, <2>2
<1>7. ~Splits(c) => Idle'
  BY <1>1, <1>3 DEF Idle
<1>8. StartInv'
  BY <1>1, <1>2, <1>3 DEF StartInv
<1>9. SentInv'
  BY <1>1, <1>2, <1>5, <1>7 DEF SentInv
<1>10. DoneInv'
  BY <1>6 DEF DoneInv
<1>11. BackInv'
  BY <1>3, <1>6 DEF BackInv
<1> QED BY <1>4, <1>6, <1>8, <1>9, <1>10, <1>11 DEF RowInv

(* A rank enters the method. *)
LEMMA EnterRows == ASSUME RowInv, NEW r \in Ranks, Enter(r) PROVE RowInv'
<1>1. /\ at[r] = "called" /\ at' = [at EXCEPT ![r] = "inside"]
      /\ UNCHANGED <<driver, layout, infer_tp, call, arg, output, result>>
  BY DEF Enter, groupVars
<1>2. at \in [Ranks -> AtStates] /\ at' \in [Ranks -> AtStates] /\ ~Idle /\ ~Idle'
      /\ \A q \in Ranks : at'[q] = "done" => at[q] = "done"
  <2>1. at \in [Ranks -> AtStates]
    BY DEF RowInv
  <2>2. at'[r] = "inside" /\ \A q \in Ranks : q # r => at'[q] = at[q]
    BY <1>1, <2>1
  <2> QED BY <1>1, <2>1, <2>2 DEF Idle, AtStates
<1>3. DealInv' /\ IsCall(call)' /\ (output = [q \in Ranks |-> output[q]])'
  BY <1>1 DEF RowInv, DealInv
<1>4. StartInv' /\ BackInv'
  BY <1>1, <1>2 DEF RowInv, StartInv, BackInv
<1>5. SentInv'
  <2>1. Splits(call)' = Splits(call) /\ Dispatched(call)' = Dispatched(call)
    BY <1>1 DEF Splits, Dispatched
  <2> QED BY <1>1, <1>2, <2>1 DEF RowInv, SentInv
<1>6. DoneInv'
  <2>1. ASSUME NEW q \in Ranks PROVE Computed(q)' = Computed(q)
    BY <1>1 DEF Computed, OwnChunk, Input, InferGroup
  <2> QED BY <1>1, <1>2, <2>1 DEF RowInv, DoneInv
<1> QED BY <1>2, <1>3, <1>4, <1>5, <1>6 DEF RowInv

(* A rank has computed. *)
LEMMA FinishRows == ASSUME RowInv, NEW r \in Ranks, Finish(r) PROVE RowInv'
<1>1. /\ at[r] = "inside" /\ at' = [at EXCEPT ![r] = "done"] /\ output' = [output EXCEPT ![r] = Computed(r)]
      /\ UNCHANGED <<driver, layout, infer_tp, call, arg, result>>
  BY DEF Finish, groupVars
<1>2. at \in [Ranks -> AtStates] /\ at' \in [Ranks -> AtStates] /\ ~Idle /\ ~Idle'
      /\ \A q \in Ranks : at'[q] = "done" => at[q] = "done" \/ q = r
  <2>1. at \in [Ranks -> AtStates]
    BY DEF RowInv
  <2>2. at'[r] = "done" /\ \A q \in Ranks : q # r => at'[q] = at[q]
    BY <1>1, <2>1
  <2> QED BY <1>1, <2>1, <2>2 DEF Idle, AtStates
<1>3. DealInv' /\ IsCall(call)'
  BY <1>1 DEF RowInv, DealInv
<1>4. StartInv' /\ BackInv'
  BY <1>1, <1>2 DEF RowInv, StartInv, BackInv
<1>5. SentInv'
  <2>1. Splits(call)' = Splits(call) /\ Dispatched(call)' = Dispatched(call)
    BY <1>1 DEF Splits, Dispatched
  <2> QED BY <1>1, <1>2, <2>1 DEF RowInv, SentInv
<1>6. DoneInv' /\ (output = [q \in Ranks |-> output[q]])'
  <2>1. ASSUME NEW q \in Ranks PROVE Computed(q)' = Computed(q)
    BY <1>1 DEF Computed, OwnChunk, Input, InferGroup
  <2>2. output = [q \in Ranks |-> output[q]]
    BY DEF RowInv
  <2>3. output' = [q \in Ranks |-> IF q = r THEN Computed(r) ELSE output[q]]
    BY <1>1, <2>2
  <2>4. output'[r] = Computed(r) /\ \A q \in Ranks : q # r => output'[q] = output[q]
    BY <2>3
  <2>5. DoneInv'
    BY <1>2, <2>1, <2>4 DEF RowInv, DoneInv
  <2>6. output' = [q \in Ranks |-> output'[q]]
    BY <2>3
  <2> QED BY <2>5, <2>6
<1> QED BY <1>2, <1>3, <1>4, <1>5, <1>6 DEF RowInv

(* The driver collects. *)
LEMMA ReturnRows == ASSUME RowInv, Return PROVE RowInv'
<1>1. /\ \A r \in Ranks : at[r] = "done"
      /\ result' = Unpad(Collect(call.mode, layout, output), PaddingCount(call))
      /\ at' = [r \in Ranks |-> "idle"]
      /\ UNCHANGED <<driver, layout, infer_tp, call, arg, output>>
  BY DEF Return, groupVars
<1>2. ~Idle /\ Idle' /\ at' \in [Ranks -> AtStates] /\ \A r \in Ranks : at'[r] # "done"
  <2>1. ~Idle
    BY <1>1, RankZero DEF Idle
  <2> QED BY <1>1, <2>1 DEF Idle, AtStates
<1>3. DealInv' /\ IsCall(call)' /\ (output = [q \in Ranks |-> output[q]])'
  BY <1>1 DEF RowInv, DealInv
<1>4. StartInv'
  BY <1>1, <1>2 DEF RowInv, StartInv
<1>5. SentInv' /\ DoneInv'
  BY <1>2 DEF SentInv, DoneInv
<1>6. BackInv'
  <2>1. SUFFICES ASSUME call.mode # "ONE_TO_ALL" PROVE RowsRight(call, layout, result')
    BY <1>1 DEF BackInv
  <2>2. CallDealt
    BY <1>2 DEF RowInv, DealInv, SentInv, CallDealt
  <2>3. AllComputed
    BY <1>1 DEF RowInv, DoneInv, AllComputed
  <2> QED BY <1>1, <2>1, <2>2, <2>3, ReturnedRows
<1> QED BY <1>2, <1>3, <1>4, <1>5, <1>6 DEF RowInv

(* Every step keeps the rows. *)
LEMMA RowsStep == RowInv /\ [Next]_vars => RowInv'
<1> SUFFICES ASSUME RowInv, [Next]_vars PROVE RowInv'
  OBVIOUS
<1>1. CASE InitModels
  <2>1. PICK role : Issue(InitModel(role))
    BY <1>1 DEF InitModels
  <2> QED BY <2>1, CallsAre, IssueRows
<1>2. CASE NextCall
  <2>1. PICK c \in Calls : Issue(c)
    BY <1>2 DEF NextCall
  <2> QED BY <2>1, CallsAre, IssueRows
<1>3. CASE Return
  BY <1>3, ReturnRows
<1>4. CASE CallRaises
  <2>1. UNCHANGED callVars /\ driver' = "raised"
    BY <1>4 DEF CallRaises
  <2> QED BY <2>1, OutsideCalls
<1>5. CASE (CheckResources \/ PlaceGroups \/ CreateWorker \/ FindCenter) /\ UNCHANGED callVars
  <2>1. driver \notin {"created", "raised"}
    BY <1>5 DEF CheckResources, PlaceGroups, CreateWorker, FindCenter
  <2> QED BY <1>5, <2>1, OutsideCalls
<1>6. ASSUME NEW r \in Ranks, Worker(r) PROVE RowInv'
  <2>1. CASE Enter(r)
    BY <2>1, EnterRows
  <2>2. CASE Finish(r)
    BY <2>2, FinishRows
  <2>3. CASE Start(r) /\ UNCHANGED callVars
    <3>1. driver' = driver
      BY <2>3 DEF Start, SetWorkerInfo, Join, Up, JoinTimeout
    <3> QED BY <2>3, <3>1, OutsideCalls
  <2> QED BY <1>6, <2>1, <2>2, <2>3 DEF Worker
<1>7. CASE (MakeCenter \/ CenterTimeout \/ TakeMasterPort) /\ UNCHANGED callVars
  <2>1. driver' = driver \/ driver' = "raised"
    BY <1>7 DEF MakeCenter, CenterTimeout, TakeMasterPort
  <2> QED BY <1>7, <2>1, OutsideCalls
<1>8. CASE UNCHANGED vars
  <2>1. UNCHANGED callVars /\ driver' = driver
    BY <1>8 DEF vars, callVars
  <2> QED BY <2>1, OutsideCalls
<1> QED BY <1>1, <1>2, <1>3, <1>4, <1>5, <1>6, <1>7, <1>8 DEF Next, Driver

(* Whatever the mode, the layout and the padding, the driver gets one       *)
(* result per row, in the order of the rows, but from stages of several     *)
(* dimensions.                                                              *)
THEOREM RowsReturn == Spec => []RowsComeBack
<1>1. RowInv => RowsComeBack
  BY DEF RowInv, BackInv, RowsRight, RowsComeBack, Returned
<1> QED BY <1>1, RowsStart, RowsStep, PTL DEF Spec

----------------------------------------------------------------------------
(* The start of the group *)

WorkerStates == {"none", "starting", "registered", "joining", "up", "dead"}

DriverStates == {"checking", "placing", "creating", "finding", "created", "raised"}

PoolInv ==
  /\ deployment \in Deployments /\ (placed = << >> \/ placed \in Placements(deployment))
  /\ driver \in DriverStates /\ (driver \in {"creating", "finding", "created"} => placed \in Placements(deployment))
  /\ driver \notin {"created", "raised"} => calls = 0

(* Ranks are created in order, those after the first when the center is     *)
(* there.                                                                   *)
CenterInv ==
  /\ next_rank \in 0 .. WorldSize /\ center \in BOOLEAN /\ given \subseteq Ranks
  /\ worker \in [Ranks -> WorkerStates]
  /\ \A r \in Ranks : r >= next_rank => worker[r] = "none"
  /\ next_rank > 0 /\ driver \in {"creating", "created"} => center
  /\ driver \in {"checking", "placing"} => next_rank = 0
  /\ CenterBeforeRanks

(* A worker whose constructor is past its first step is registered. *)
InfoInv ==
  /\ info \subseteq Ranks /\ port_taken \in BOOLEAN
  /\ \A r \in Ranks : worker[r] \notin {"none", "starting"} => r \in info

(* Who is in a method is up, and after a call all are. *)
UpInv ==
  /\ at \in [Ranks -> AtStates]
  /\ \A r \in Ranks : at[r] \in {"inside", "done"} => worker[r] = "up"
  /\ driver = "created" /\ Idle /\ calls > 0 => \A r \in Ranks : worker[r] = "up"

(* What a step may do to a worker. *)
WorkersMove ==
  \A r \in Ranks :
    \/ worker'[r] = worker[r]
    \/ worker[r] = "none" /\ worker'[r] = "starting"
    \/ worker[r] = "starting" /\ worker'[r] = "registered" /\ r \in info'
    \/ worker[r] = "registered" /\ worker'[r] \in {"joining", "dead"}
    \/ worker[r] = "joining" /\ worker'[r] \in {"up", "dead"}

(* What a worker's own step of its start changes. *)
LEMMA StartMoves ==
  ASSUME worker \in [Ranks -> WorkerStates], NEW r \in Ranks, Start(r)
  PROVE  /\ UNCHANGED <<deployment, placed, driver, next_rank, center, given, port_taken>>
         /\ worker' \in [Ranks -> WorkerStates] /\ WorkersMove
         /\ worker[r] \notin {"none", "up"} /\ \A q \in Ranks : q # r => worker'[q] = worker[q]
         /\ info' = info \/ info' = info \cup {r}
<1>1. CASE SetWorkerInfo(r)
  <2>1. worker' = [worker EXCEPT ![r] = "registered"] /\ info' = info \cup {r} /\ worker[r] = "starting"
        /\ UNCHANGED <<deployment, placed, driver, next_rank, center, given, port_taken>>
    BY <1>1 DEF SetWorkerInfo
  <2>2. worker'[r] = "registered" /\ \A q \in Ranks : q # r => worker'[q] = worker[q]
    BY <2>1
  <2>3. worker' \in [Ranks -> WorkerStates]
    BY <2>1 DEF WorkerStates
  <2> QED BY <2>1, <2>2, <2>3 DEF WorkersMove
<1>2. CASE Join(r)
  <2>1. PICK s \in {"joining", "dead"} : worker' = [worker EXCEPT ![r] = s]
    BY <1>2 DEF Join
  <2>2. worker[r] = "registered"
        /\ UNCHANGED <<deployment, placed, driver, next_rank, center, given, info, port_taken>>
    BY <1>2 DEF Join
  <2>3. worker'[r] = s /\ \A q \in Ranks : q # r => worker'[q] = worker[q]
    BY <2>1
  <2>4. worker' \in [Ranks -> WorkerStates]
    BY <2>1 DEF WorkerStates
  <2> QED BY <2>2, <2>3, <2>4 DEF WorkersMove
<1>3. CASE Up(r) \/ JoinTimeout(r)
  <2>1. PICK s \in {"up", "dead"} : worker' = [worker EXCEPT ![r] = s]
    BY <1>3 DEF Up, JoinTimeout
  <2>2. worker[r] = "joining"
        /\ UNCHANGED <<deployment, placed, driver, next_rank, center, given, info, port_taken>>
    BY <1>3 DEF Up, JoinTimeout
  <2>3. worker'[r] = s /\ \A q \in Ranks : q # r => worker'[q] = worker[q]
    BY <2>1
  <2>4. worker' \in [Ranks -> WorkerStates]
    BY <2>1 DEF WorkerStates
  <2> QED BY <2>2, <2>3, <2>4 DEF WorkersMove
<1> QED BY <1>1, <1>2, <1>3 DEF Start

(* The pool at first. *)
LEMMA PoolStart == Init => PoolInv
BY DEF Init, GroupInit, PoolInv, DriverStates

(* Every step keeps the pool as it was placed. *)
LEMMA PoolStep == PoolInv /\ [Next]_vars => PoolInv'
<1> SUFFICES ASSUME PoolInv, [Next]_vars PROVE PoolInv'
  OBVIOUS
<1>1. ASSUME UNCHANGED <<deployment, placed>>, driver' \in {driver, "raised"}, driver # "created" => calls' = calls
      PROVE  PoolInv'
  BY <1>1 DEF PoolInv, DriverStates
<1>2. ASSUME NEW c, Issue(c) PROVE PoolInv'
  <2>1. UNCHANGED <<deployment, placed>> /\ driver' \in {driver, "raised"} /\ driver = "created"
    BY <1>2 DEF Issue
  <2> QED BY <1>1, <2>1
<1>3. CASE InitModels \/ NextCall
  BY <1>2, <1>3 DEF InitModels, NextCall
<1>4. CASE Return \/ CallRaises
  <2>1. UNCHANGED <<deployment, placed, calls>> /\ driver' \in {driver, "raised"}
    BY <1>4 DEF Return, CallRaises, groupVars, callVars
  <2> QED BY <1>1, <2>1
<1>5. CASE CheckResources /\ UNCHANGED callVars
  <2>1. driver = "checking" /\ driver' \in {"placing", "raised"} /\ UNCHANGED <<deployment, placed, calls>>
    BY <1>5 DEF CheckResources, callVars
  <2> QED BY <2>1 DEF PoolInv, DriverStates
<1>6. CASE PlaceGroups /\ UNCHANGED callVars
  <2>1. driver = "placing" /\ driver' = "creating" /\ placed' \in Placements(deployment) /\ UNCHANGED <<deployment, calls>>
    BY <1>6 DEF PlaceGroups, callVars
  <2> QED BY <2>1 DEF PoolInv, DriverStates
<1>7. CASE (CreateWorker \/ FindCenter) /\ UNCHANGED callVars
  <2>1. driver \in {"creating", "finding"} /\ driver' \in {"finding", "creating", "created"} /\ UNCHANGED <<deployment, placed, calls>>
    BY <1>7 DEF CreateWorker, FindCenter, AfterCreate, callVars
  <2> QED BY <2>1 DEF PoolInv, DriverStates
<1>8. ASSUME NEW r \in Ranks, Worker(r) PROVE PoolInv'
  <2>1. UNCHANGED <<deployment, placed, driver, calls>>
    BY <1>8 DEF Worker, Enter, Finish, Start, SetWorkerInfo, Join, Up, JoinTimeout, groupVars, callVars
  <2> QED BY <1>1, <2>1
<1>9. CASE (MakeCenter \/ CenterTimeout \/ TakeMasterPort) /\ UNCHANGED callVars
  <2>1. UNCHANGED <<deployment, placed, calls>> /\ driver' \in {driver, "raised"}
    BY <1>9 DEF MakeCenter, CenterTimeout, TakeMasterPort, callVars
  <2> QED BY <1>1, <2>1
<1>10. CASE UNCHANGED vars
  <2>1. UNCHANGED <<deployment, placed, driver, calls>>
    BY <1>10 DEF vars
  <2> QED BY <1>1, <2>1
<1> QED BY <1>3, <1>4, <1>5, <1>6, <1>7, <1>8, <1>9, <1>10 DEF Next, Driver

(* What a worker's steps change of the group. *)
LEMMA OthersKeepGroup ==
  ASSUME worker \in [Ranks -> WorkerStates], NEW r \in Ranks, Worker(r)
  PROVE  /\ UNCHANGED <<driver, next_rank, center, given, port_taken>>
         /\ worker' \in [Ranks -> WorkerStates] /\ WorkersMove
         /\ \A q \in Ranks : worker'[q] = worker[q] \/ (q = r /\ worker[r] \notin {"none", "up"})
         /\ info' = info \/ info' = info \cup {r}
<1>1. CASE Enter(r) \/ Finish(r)
  <2>1. UNCHANGED <<driver, next_rank, center, info, given, worker, port_taken>>
    BY <1>1 DEF Enter, Finish, groupVars
  <2> QED BY <2>1 DEF WorkersMove
<1>2. CASE Start(r)
  <2>1. /\ UNCHANGED <<deployment, placed, driver, next_rank, center, given, port_taken>>
        /\ worker' \in [Ranks -> WorkerStates] /\ WorkersMove
        /\ worker[r] \notin {"none", "up"} /\ \A q \in Ranks : q # r => worker'[q] = worker[q]
        /\ info' = info \/ info' = info \cup {r}
    BY <1>2, StartMoves
  <2> QED BY <2>1
<1> QED BY <1>1, <1>2 DEF Worker

(* What the driver's steps of a call change of the group. *)
LEMMA CallsKeepGroup ==
  ASSUME InitModels \/ NextCall \/ Return \/ CallRaises
  PROVE  UNCHANGED <<deployment, placed, next_rank, center, info, given, worker, port_taken>>
         /\ driver' \in {driver, "raised"}
<1>1. ASSUME NEW c, Issue(c)
      PROVE  UNCHANGED <<deployment, placed, next_rank, center, info, given, worker, port_taken>>
             /\ driver' \in {driver, "raised"}
  BY <1>1 DEF Issue
<1>2. CASE InitModels \/ NextCall
  BY <1>1, <1>2 DEF InitModels, NextCall
<1>3. CASE Return \/ CallRaises
  BY <1>3 DEF Return, CallRaises, groupVars
<1> QED BY <1>2, <1>3

(* At first there is no center. *)
LEMMA CenterStart == Init => CenterInv
<1> SUFFICES ASSUME Init PROVE CenterInv
  OBVIOUS
<1>1. /\ next_rank = 0 /\ center = FALSE /\ given = {} /\ worker = [r \in Ranks |-> "none"] /\ driver = "checking"
  BY DEF Init, GroupInit
<1>2. CenterBeforeRanks
  BY <1>1 DEF CenterBeforeRanks
<1>3. worker \in [Ranks -> WorkerStates] /\ \A r \in Ranks : worker[r] = "none"
  BY <1>1 DEF WorkerStates
<1>4. next_rank \in 0 .. WorldSize
  BY <1>1, World
<1> QED BY <1>1, <1>2, <1>3, <1>4 DEF CenterInv

(* Steps that create no rank keep it. *)
LEMMA CenterKept ==
  ASSUME CenterInv, UNCHANGED <<next_rank, given>>, worker' \in [Ranks -> WorkerStates], center' \in {center, TRUE},
         \A r \in Ranks : worker[r] = "none" => worker'[r] = "none",
         driver' \in {driver, "raised"}
  PROVE  CenterInv'
<1>1. CenterBeforeRanks'
  BY DEF CenterInv, CenterBeforeRanks
<1> QED BY <1>1, World DEF CenterInv

(* Every step keeps the ranks behind the center. *)
LEMMA CenterStep == PoolInv /\ CenterInv /\ [Next]_vars => CenterInv'
<1> SUFFICES ASSUME PoolInv, CenterInv, [Next]_vars PROVE CenterInv'
  OBVIOUS
<1>0. worker \in [Ranks -> WorkerStates] /\ next_rank \in 0 .. WorldSize /\ center \in BOOLEAN
  BY DEF CenterInv
<1>1. CASE InitModels \/ NextCall \/ Return \/ CallRaises
  <2>1. UNCHANGED <<next_rank, center, given, worker>> /\ driver' \in {driver, "raised"}
    BY <1>1, CallsKeepGroup
  <2> QED BY <1>0, <2>1, CenterKept
<1>2. CASE CheckResources
  <2>1. driver = "checking" /\ driver' \in {"placing", "raised"} /\ UNCHANGED <<next_rank, center, given, worker>>
    BY <1>2 DEF CheckResources
  <2>2. CenterBeforeRanks'
    BY <2>1 DEF CenterInv, CenterBeforeRanks
  <2> QED BY <2>1, <2>2 DEF CenterInv
<1>3. CASE PlaceGroups
  <2>1. driver = "placing" /\ driver' = "creating" /\ UNCHANGED <<next_rank, center, given, worker>>
    BY <1>3 DEF PlaceGroups
  <2>2. CenterBeforeRanks'
    BY <2>1 DEF CenterInv, CenterBeforeRanks
  <2> QED BY <2>1, <2>2 DEF CenterInv
<1>4. CASE CreateWorker
  <2>1. /\ driver = "creating" /\ next_rank < WorldSize /\ worker' = [worker EXCEPT ![next_rank] = "starting"]
        /\ given' = IF next_rank = 0 THEN given ELSE given \cup {next_rank}
        /\ next_rank' = next_rank + 1 /\ driver' = AfterCreate /\ center' = center
    BY <1>4 DEF CreateWorker
  <2>2. next_rank \in Ranks
    BY <1>0, <2>1, World
  <2>3. worker' \in [Ranks -> WorkerStates] /\ worker'[next_rank] = "starting"
        /\ \A r \in Ranks : r # next_rank => worker'[r] = worker[r]
    BY <1>0, <2>1, <2>2 DEF WorkerStates
  <2>4. CenterBeforeRanks'
    <3>1. ASSUME NEW r \in Ranks \ {0}, worker'[r] # "none" PROVE center' /\ r \in given'
      <4>1. CASE r = next_rank
        <5>1. next_rank # 0 /\ next_rank > 0
          BY <4>1, World
        <5>2. center
          BY <2>1, <5>1 DEF CenterInv
        <5> QED BY <2>1, <4>1, <5>1, <5>2
      <4>2. CASE r # next_rank
        <5>1. worker[r] # "none"
          BY <2>3, <3>1, <4>2
        <5>2. center /\ r \in given
          BY <5>1 DEF CenterInv, CenterBeforeRanks
        <5> QED BY <2>1, <5>2
      <4> QED BY <4>1, <4>2
    <3> QED BY <3>1 DEF CenterBeforeRanks
  <2>5. \A r \in Ranks : r >= next_rank' => worker'[r] = "none"
    <3>1. ASSUME NEW r \in Ranks, r >= next_rank' PROVE worker'[r] = "none"
      <4>1. r # next_rank /\ r >= next_rank
        BY <1>0, <2>1, <3>1, World
      <4>2. worker[r] = "none"
        BY <4>1 DEF CenterInv
      <4> QED BY <2>3, <4>1, <4>2
    <3> QED BY <3>1
  <2>6. driver' \in {"creating", "created"} => center'
    <3>1. CASE next_rank = 0
      BY <2>1, <3>1 DEF AfterCreate
    <3>2. CASE next_rank # 0
      <4>1. next_rank > 0
        BY <1>0, <3>2, World
      <4> QED BY <2>1, <4>1 DEF CenterInv
    <3> QED BY <3>1, <3>2
  <2>7. driver' \notin {"checking", "placing"}
    BY <2>1 DEF AfterCreate
  <2>8. next_rank' \in 0 .. WorldSize /\ given' \subseteq Ranks /\ center' \in BOOLEAN
    BY <1>0, <2>1, <2>2, World DEF CenterInv
  <2> QED BY <2>3, <2>4, <2>5, <2>6, <2>7, <2>8 DEF CenterInv
<1>5. CASE FindCenter
  <2>1. center /\ driver' \in {"creating", "created"} /\ UNCHANGED <<next_rank, center, given, worker>>
    BY <1>5 DEF FindCenter
  <2>2. CenterBeforeRanks'
    BY <2>1 DEF CenterInv, CenterBeforeRanks
  <2> QED BY <2>1, <2>2 DEF CenterInv
<1>6. ASSUME NEW r \in Ranks, Worker(r) PROVE CenterInv'
  <2>1. /\ UNCHANGED <<driver, next_rank, center, given>> /\ worker' \in [Ranks -> WorkerStates]
        /\ \A q \in Ranks : worker'[q] = worker[q] \/ (q = r /\ worker[r] \notin {"none", "up"})
    BY <1>0, <1>6, OthersKeepGroup
  <2>2. \A q \in Ranks : worker[q] = "none" => worker'[q] = "none"
    BY <2>1
  <2> QED BY <1>0, <2>1, <2>2, CenterKept
<1>7. CASE MakeCenter \/ CenterTimeout \/ TakeMasterPort
  <2>1. UNCHANGED <<next_rank, given, worker>> /\ center' \in {center, TRUE} /\ driver' \in {driver, "raised"}
    BY <1>7 DEF MakeCenter, CenterTimeout, TakeMasterPort
  <2> QED BY <1>0, <2>1, CenterKept
<1>8. CASE UNCHANGED vars
  <2>1. UNCHANGED <<driver, next_rank, center, given, worker>>
    BY <1>8 DEF vars
  <2> QED BY <1>0, <2>1, CenterKept
<1> QED BY <1>1, <1>2, <1>3, <1>4, <1>5, <1>6, <1>7, <1>8 DEF Next, Driver

(* At first nobody is registered. *)
LEMMA InfoStart == Init => InfoInv
<1> SUFFICES ASSUME Init PROVE InfoInv
  OBVIOUS
<1>1. info = {} /\ port_taken = FALSE /\ worker = [r \in Ranks |-> "none"]
  BY DEF Init, GroupInit
<1> QED BY <1>1 DEF InfoInv

(* Who is registered stays so. *)
LEMMA InfoStep == CenterInv /\ InfoInv /\ [Next]_vars => InfoInv'
<1> SUFFICES ASSUME CenterInv, InfoInv, [Next]_vars PROVE InfoInv'
  OBVIOUS
<1>0. worker \in [Ranks -> WorkerStates] /\ next_rank \in 0 .. WorldSize
  BY DEF CenterInv
<1>1. ASSUME UNCHANGED <<info, worker>>, port_taken' \in BOOLEAN PROVE InfoInv'
  BY <1>1 DEF InfoInv
<1>2. port_taken \in BOOLEAN
  BY DEF InfoInv
<1>3. CASE InitModels \/ NextCall \/ Return \/ CallRaises
  <2>1. UNCHANGED <<info, worker, port_taken>>
    BY <1>3, CallsKeepGroup
  <2> QED BY <1>1, <1>2, <2>1
<1>4. CASE CheckResources \/ PlaceGroups \/ FindCenter \/ MakeCenter \/ CenterTimeout \/ TakeMasterPort
  <2>1. UNCHANGED <<info, worker>> /\ port_taken' \in BOOLEAN
    BY <1>2, <1>4 DEF CheckResources, PlaceGroups, FindCenter, MakeCenter, CenterTimeout, TakeMasterPort
  <2> QED BY <1>1, <2>1
<1>5. CASE CreateWorker
  <2>1. worker' = [worker EXCEPT ![next_rank] = "starting"] /\ UNCHANGED <<info, port_taken>> /\ next_rank < WorldSize
    BY <1>5 DEF CreateWorker
  <2>2. next_rank \in Ranks
    BY <1>0, <2>1, World
  <2>3. worker'[next_rank] = "starting" /\ \A r \in Ranks : r # next_rank => worker'[r] = worker[r]
    BY <1>0, <2>1, <2>2
  <2> QED BY <2>1, <2>3 DEF InfoInv
<1>6. ASSUME NEW r \in Ranks, Worker(r) PROVE InfoInv'
  <2>1. WorkersMove /\ (info' = info \/ info' = info \cup {r}) /\ port_taken' = port_taken
    BY <1>0, <1>6, OthersKeepGroup
  <2>2. ASSUME NEW q \in Ranks, worker'[q] \notin {"none", "starting"} PROVE q \in info'
    BY <2>1, <2>2 DEF WorkersMove, InfoInv
  <2> QED BY <1>2, <2>1, <2>2 DEF InfoInv
<1>7. CASE UNCHANGED vars
  <2>1. UNCHANGED <<info, worker, port_taken>>
    BY <1>7 DEF vars
  <2> QED BY <1>1, <1>2, <2>1
<1> QED BY <1>3, <1>4, <1>5, <1>6, <1>7 DEF Next, Driver

(* At first no worker is up. *)
LEMMA UpStart == Init => UpInv
<1> SUFFICES ASSUME Init PROVE UpInv
  OBVIOUS
<1>1. at = [r \in Ranks |-> "idle"] /\ driver = "checking"
  BY DEF Init, GroupInit
<1> QED BY <1>1 DEF UpInv, AtStates

(* Where no worker falls, and nobody gets into a method or out of one.      *)
LEMMA UpKept ==
  ASSUME UpInv, UNCHANGED <<at, calls>>, \A r \in Ranks : worker[r] = "up" => worker'[r] = "up",
         driver' = "created" => driver = "created" \/ calls = 0
  PROVE  UpInv'
<1>1. Idle' = Idle
  BY DEF Idle
<1>2. CASE calls = 0
  BY <1>1, <1>2 DEF UpInv
<1>3. CASE calls # 0
  BY <1>1, <1>3 DEF UpInv
<1> QED BY <1>2, <1>3

(* Every step keeps the workers of a call up. *)
LEMMA UpStep == PoolInv /\ CenterInv /\ UpInv /\ [Next]_vars => UpInv'
<1> SUFFICES ASSUME PoolInv, CenterInv, UpInv, [Next]_vars PROVE UpInv'
  OBVIOUS
<1>0. worker \in [Ranks -> WorkerStates] /\ next_rank \in 0 .. WorldSize
  BY DEF CenterInv
<1>1. ASSUME NEW c, Issue(c) PROVE UpInv'
  <2>1. driver = "created" /\ Idle /\ worker' = worker
    BY <1>1 DEF Issue
  <2>2. CASE Splits(c)
    <3>1. at' = [r \in Ranks |-> "called"]
      BY <1>1, <2>2 DEF Issue
    <3>2. ~Idle'
      BY <3>1, RankZero DEF Idle
    <3> QED BY <3>1, <3>2 DEF UpInv, AtStates
  <2>3. CASE ~Splits(c)
    <3>1. driver' = "raised" /\ at' = at
      BY <1>1, <2>3 DEF Issue
    <3> QED BY <2>1, <3>1 DEF UpInv
  <2> QED BY <2>2, <2>3
<1>2. CASE InitModels \/ NextCall
  BY <1>1, <1>2 DEF InitModels, NextCall
<1>3. CASE Return
  <2>1. (\A r \in Ranks : at[r] = "done") /\ at' = [r \in Ranks |-> "idle"] /\ worker' = worker
    BY <1>3 DEF Return, groupVars
  <2> QED BY <2>1 DEF UpInv, AtStates
<1>4. CASE CallRaises
  <2>1. UNCHANGED <<at, calls, worker>> /\ driver' = "raised"
    BY <1>4 DEF CallRaises, callVars
  <2> QED BY <2>1, UpKept
<1>5. CASE (CheckResources \/ PlaceGroups \/ FindCenter \/ MakeCenter \/ CenterTimeout \/ TakeMasterPort) /\ UNCHANGED callVars
  <2>1. UNCHANGED <<at, calls, worker>> /\ (driver' = "created" => driver \in {"created", "finding"})
    BY <1>5 DEF CheckResources, PlaceGroups, FindCenter, MakeCenter, CenterTimeout, TakeMasterPort, callVars
  <2>2. driver' = "created" => driver = "created" \/ calls = 0
    BY <2>1 DEF PoolInv
  <2> QED BY <2>1, <2>2, UpKept
<1>6. CASE CreateWorker /\ UNCHANGED callVars
  <2>1. /\ worker' = [worker EXCEPT ![next_rank] = "starting"] /\ next_rank < WorldSize /\ UNCHANGED <<at, calls>>
        /\ driver = "creating"
    BY <1>6 DEF CreateWorker, callVars
  <2>2. next_rank \in Ranks
    BY <1>0, <2>1, World
  <2>3. worker[next_rank] = "none" /\ calls = 0
    BY <1>0, <2>1, <2>2, World DEF CenterInv, PoolInv
  <2>4. \A r \in Ranks : worker[r] = "up" => worker'[r] = "up"
    BY <1>0, <2>1, <2>3
  <2> QED BY <2>1, <2>3, <2>4, UpKept
<1>7. ASSUME NEW r \in Ranks, Worker(r) PROVE UpInv'
  <2>1. /\ driver' = driver
        /\ \A q \in Ranks : worker'[q] = worker[q] \/ (q = r /\ worker[r] \notin {"none", "up"})
    BY <1>0, <1>7, OthersKeepGroup
  <2>2. \A q \in Ranks : worker[q] = "up" => worker'[q] = "up"
    BY <2>1
  <2>3. CASE Enter(r) \/ Finish(r)
    <3>1. PICK s \in {"inside", "done"} : at' = [at EXCEPT ![r] = s]
      BY <2>3 DEF Enter, Finish
    <3>2. at[r] \in {"called", "inside"} /\ (at[r] = "called" => worker[r] = "up") /\ UNCHANGED calls
      BY <2>3 DEF Enter, Finish
    <3>3. at \in [Ranks -> AtStates]
      BY DEF UpInv
    <3>4. at'[r] = s /\ at' \in [Ranks -> AtStates] /\ \A q \in Ranks : q # r => at'[q] = at[q]
      BY <3>1, <3>3 DEF AtStates
    <3>5. ~Idle'
      BY <3>4 DEF Idle
    <3>6. \A q \in Ranks : at'[q] \in {"inside", "done"} => worker[q] = "up"
      BY <3>2, <3>4 DEF UpInv
    <3> QED BY <2>2, <3>4, <3>5, <3>6 DEF UpInv
  <2>4. CASE Start(r) /\ UNCHANGED callVars
    <3>1. UNCHANGED <<at, calls>>
      BY <2>4 DEF callVars
    <3> QED BY <2>1, <2>2, <3>1, UpKept
  <2> QED BY <1>7, <2>3, <2>4 DEF Worker
<1>8. CASE UNCHANGED vars
  <2>1. UNCHANGED <<driver, at, calls, worker>>
    BY <1>8 DEF vars
  <2> QED BY <2>1, UpKept
<1> QED BY <1>2, <1>3, <1>4, <1>5, <1>6, <1>7, <1>8 DEF Next, Driver

----------------------------------------------------------------------------

(* The roles and their names *)

(* Names with the same beginning are the same when their ends are. *)
LEMMA SameEnd ==
  ASSUME NEW U, NEW s \in Seq(U), NEW t \in Seq(U), NEW u \in Seq(U), s \o t = s \o u
  PROVE  t = u
<1>0. PICK k \in Nat : k = Len(s)
  OBVIOUS
<1>1. PICK a, b : a = s \o t /\ b = s \o u
  OBVIOUS
<1>2. Len(a) = k + Len(t) /\ \A i \in k + 1 .. k + Len(t) : a[i] = t[i - k]
  BY <1>0, <1>1, Joined
<1>3. Len(b) = k + Len(u) /\ \A i \in k + 1 .. k + Len(u) : b[i] = u[i - k]
  BY <1>0, <1>1, Joined
<1>4. Len(t) = Len(u)
  BY <1>0, <1>1, <1>2, <1>3
<1>5. ASSUME NEW i \in 1 .. Len(t) PROVE t[i] = u[i]
  <2>1. PICK j \in Nat : j = k + i
    BY <1>0
  <2>2. j \in k + 1 .. k + Len(t) /\ j - k = i
    BY <1>0, <2>1
  <2>3. a[j] = t[i] /\ b[j] = u[i]
    BY <1>2, <1>3, <1>4, <2>2
  <2> QED BY <1>1, <2>3
<1> QED BY <1>4, <1>5, SameSequence

(* A set of some numbers from 1 to n has a greatest one. *)
LEMMA GreatestIn ==
  ASSUME NEW n \in Nat, NEW S, S \subseteq 1 .. n, S # {}
  PROVE  Max(S) \in S
<1> DEFINE T == {n - x : x \in S}
<1>0. \A x \in S : x \in 1 .. n
  OBVIOUS
<1>1. T \subseteq Nat /\ T # {}
  <2>1. \A x \in S : n - x \in Nat
    BY <1>0
  <2>2. PICK y \in S : TRUE
    OBVIOUS
  <2>3. n - y \in T
    BY <2>2
  <2> QED BY <2>1, <2>3
<1>2. PICK k \in T : \A y \in T : k <= y
  <2> HIDE DEF T
  <2> QED BY <1>1, LeastNatural
<1>3. PICK x \in S : k = n - x
  BY <1>2
<1>4. ASSUME NEW y \in S PROVE x >= y
  <2>1. n - y \in T
    OBVIOUS
  <2>2. n - x <= n - y
    BY <1>2, <1>3, <2>1
  <2> QED BY <2>2
<1> QED BY <1>4 DEF Max

(* A name is a sequence of words. *)
AllWords ==
  {"actor", "rollout", "critic", "ref", "rm", "init", "model", "execute", "with", "func", "generator", "rank", "zero",
   "save", "load", "checkpoint", "method", "update", "generate", "sequences", "compute", "log", "prob", "values",
   "score", "resume", "offload"}

Names == Seq(AllWords)

(* Names of up to four words. *)
LEMMA Tuples ==
  ASSUME NEW U
  PROVE  /\ \A a \in U : <<a>> \in Seq(U)
         /\ \A a, b \in U : <<a, b>> \in Seq(U)
         /\ \A a, b, c \in U : <<a, b, c>> \in Seq(U)
         /\ \A a, b, c, e \in U : <<a, b, c, e>> \in Seq(U)
OBVIOUS

(* The words of the names. *)
LEMMA WordsAre ==
  ASSUME NEW role \in AllRoles
  PROVE  /\ Words(role) \in Names /\ Len(Words(role)) >= 1 /\ Words(role)[1] # "execute"
         /\ \A other \in AllRoles : Words(other)[1] = Words(role)[1] => other = role
         /\ "rollout" \in Range(Words(role)) => role = "actor_rollout"
<1>1. Words("actor_rollout") = <<"actor", "rollout">>
  BY DEF Words
<1>2. Words("critic") = <<"critic">>
  BY DEF Words
<1>3. Words("ref") = <<"ref">>
  BY DEF Words
<1>4. Words("rm") = <<"rm">>
  BY DEF Words
<1>5. Words(role) \in Names /\ Len(Words(role)) >= 1
  <2>1. \A a \in AllWords : <<a>> \in Names /\ Len(<<a>>) = 1
    BY Tuples DEF Names
  <2>2. \A a, b \in AllWords : <<a, b>> \in Names /\ Len(<<a, b>>) = 2
    BY Tuples DEF Names
  <2>3. "actor" \in AllWords /\ "rollout" \in AllWords /\ "critic" \in AllWords /\ "ref" \in AllWords /\ "rm" \in AllWords
    BY DEF AllWords
  <2>4. CASE role = "actor_rollout"
    BY <1>1, <2>2, <2>3, <2>4
  <2>5. CASE role = "critic"
    <3>1. <<"critic">> \in Names /\ Len(<<"critic">>) = 1
      BY <2>1, <2>3
    <3> QED BY <1>2, <2>5, <3>1
  <2>6. CASE role = "ref"
    <3>1. <<"ref">> \in Names /\ Len(<<"ref">>) = 1
      BY <2>1, <2>3
    <3> QED BY <1>3, <2>6, <3>1
  <2>7. CASE role = "rm"
    <3>1. <<"rm">> \in Names /\ Len(<<"rm">>) = 1
      BY <2>1, <2>3
    <3> QED BY <1>4, <2>7, <3>1
  <2> QED BY <2>4, <2>5, <2>6, <2>7 DEF AllRoles
<1>6. /\ Words("actor_rollout")[1] = "actor" /\ Words("critic")[1] = "critic" /\ Words("ref")[1] = "ref"
      /\ Words("rm")[1] = "rm"
  BY <1>1, <1>2, <1>3, <1>4
<1>7. \A other \in AllRoles : Words(other)[1] = Words(role)[1] => other = role
  BY <1>6 DEF AllRoles
<1>8. Words(role)[1] # "execute"
  BY <1>6 DEF AllRoles
<1>9. "rollout" \in Range(Words(role)) => role = "actor_rollout"
  <2>1. Range(<<"critic">>) = {"critic"} /\ Range(<<"ref">>) = {"ref"} /\ Range(<<"rm">>) = {"rm"}
    BY DEF Range
  <2> QED BY <1>2, <1>3, <1>4, <2>1 DEF AllRoles
<1> QED BY <1>5, <1>7, <1>8, <1>9

(* The methods that a role may have. *)
Methods ==
  WorkerMethods \cup {InitModelName} \cup Checkpoints \cup {<<"compute", "values">>, <<"update", "critic">>} \cup
  {<<"compute", "rm", "score">>} \cup ActorMethods \cup DirectMethods \cup {<<"resume">>, <<"offload">>}

(* The methods of each role. *)
LEMMA MethodsAre ==
  /\ Methods \subseteq Names /\ \A d, role : Registered(d, role) \subseteq Methods
  /\ \A d, role : InitModelName \in Registered(d, role)
<1>1. WorkerMethods \subseteq Names
  BY Tuples DEF WorkerMethods, Names, AllWords
<1>2. {InitModelName} \subseteq Names
  BY Tuples DEF InitModelName, Names, AllWords
<1>3. Checkpoints \subseteq Names
  BY Tuples DEF Checkpoints, Names, AllWords
<1>4. {<<"compute", "values">>, <<"update", "critic">>} \subseteq Names
  BY Tuples DEF Names, AllWords
<1>5. {<<"compute", "rm", "score">>} \subseteq Names
  BY Tuples DEF Names, AllWords
<1>6. ActorMethods \subseteq Names
  BY Tuples DEF ActorMethods, Names, AllWords
<1>7. DirectMethods \subseteq Names
  BY Tuples DEF DirectMethods, Names, AllWords
<1>8. {<<"resume">>, <<"offload">>} \subseteq Names
  BY Tuples DEF Names, AllWords
<1>9. Methods \subseteq Names
  BY <1>1, <1>2, <1>3, <1>4, <1>5, <1>6, <1>7, <1>8 DEF Methods
<1>10. ASSUME NEW d, NEW role PROVE Registered(d, role) \subseteq Methods /\ InitModelName \in Registered(d, role)
  <2>1. CASE role = "critic"
    BY <2>1 DEF Registered, Methods
  <2>2. CASE role = "rm"
    BY <2>2 DEF Registered, Methods
  <2>3. CASE role = "ref"
    BY <2>3 DEF Registered, Methods
  <2>4. CASE role \notin {"critic", "rm", "ref"}
    <3>1. Registered(d, role) = WorkerMethods \cup {InitModelName} \cup (Checkpoints \cup ActorMethods \cup
            IF d.mode = "async" THEN DirectMethods \cup {<<"resume">>, <<"offload">>} ELSE {})
      BY <2>4 DEF Registered
    <3> QED BY <3>1 DEF Methods
  <2> QED BY <2>1, <2>2, <2>3, <2>4
<1> QED BY <1>9, <1>10

(* The name that a role's method is given begins with the role's word. *)
LEMMA FirstWordOf ==
  ASSUME NEW role \in AllRoles, NEW m \in Names, NEW name, name = Words(role) \o m
  PROVE  name \in Names /\ Len(name) >= 1 /\ name[1] = Words(role)[1]
<1>1. PICK s : s = Words(role) /\ s \in Seq(AllWords) /\ Len(s) >= 1
  BY WordsAre DEF Names
<1>2. m \in Seq(AllWords)
  BY DEF Names
<1>3. /\ s \o m \in Seq(AllWords) /\ Len(s \o m) = Len(s) + Len(m)
      /\ \A i \in 1 .. Len(s) : (s \o m)[i] = s[i]
  BY <1>1, <1>2, Joined
<1>4. 1 \in 1 .. Len(s)
  BY <1>1
<1>5. name = s \o m
  BY <1>1
<1> QED BY <1>1, <1>2, <1>3, <1>4, <1>5 DEF Names

(* Which methods keep their names. *)
LEMMA DirectIs ==
  /\ \A role \in AllRoles : \A m \in Names : IsDirect(role, m) => role = "actor_rollout" /\ m = <<"execute", "method">>
  /\ <<"execute", "method">>[1] = "execute" /\ \A name \in WorkerMethods : name[1] = "execute"
<1>1. ASSUME NEW role \in AllRoles, NEW m \in Names, IsDirect(role, m)
      PROVE  role = "actor_rollout" /\ m = <<"execute", "method">>
  BY <1>1, WordsAre DEF IsDirect, DirectMethods
<1>2. <<"execute", "method">>[1] = "execute"
  OBVIOUS
<1>3. \A name \in WorkerMethods : name[1] = "execute"
  BY DEF WorkerMethods
<1> QED BY <1>1, <1>2, <1>3

(* A role's method is bound to one name, and no name to methods of two      *)
(* roles.                                                                   *)
LEMMA NamesApart ==
  ASSUME NEW d, NEW p \in AllRoles, NEW q \in AllRoles, NEW m \in Names, NEW k \in Names,
         ParentName(d, p, m) = ParentName(d, q, k)
  PROVE  p = q /\ m = k
<1>1. CASE IsDirect(p, m) /\ IsDirect(q, k)
  BY <1>1, DirectIs
<1>2. ASSUME NEW x \in AllRoles, NEW y \in AllRoles, NEW a \in Names, NEW b \in Names,
             ParentName(d, x, a) = ParentName(d, y, b), IsDirect(x, a), ~IsDirect(y, b)
      PROVE  FALSE
  <2>1. PICK name : name = Words(y) \o b /\ name = <<"execute", "method">>
    BY <1>2, DirectIs DEF ParentName
  <2>2. name[1] = Words(y)[1]
    <3>1. name = Words(y) \o b
      BY <2>1
    <3> HIDE <2>1
    <3> QED BY <3>1, FirstWordOf
  <2>3. Words(y)[1] # "execute"
    BY WordsAre
  <2> QED BY <2>1, <2>2, <2>3, DirectIs
<1>3. CASE ~IsDirect(p, m) /\ ~IsDirect(q, k)
  <2>1. PICK name : name = Words(p) \o m /\ name = Words(q) \o k
    BY <1>3 DEF ParentName
  <2>2. name[1] = Words(p)[1] /\ name[1] = Words(q)[1]
    <3>1. name = Words(p) \o m
      BY <2>1
    <3>2. name = Words(q) \o k
      BY <2>1
    <3>3. name[1] = Words(p)[1]
      BY <3>1, FirstWordOf
    <3>4. name[1] = Words(q)[1]
      BY <3>2, FirstWordOf
    <3> QED BY <3>3, <3>4
  <2>3. p = q
    BY <2>2, WordsAre
  <2>4. Words(p) \o m = Words(p) \o k
    BY <2>1, <2>3
  <2>5. m = k
    <3>1. Words(p) \in Seq(AllWords) /\ m \in Seq(AllWords) /\ k \in Seq(AllWords)
      BY WordsAre DEF Names
    <3> QED BY <2>4, <3>1, SameEnd
  <2> QED BY <2>3, <2>5
<1> QED BY <1>1, <1>2, <1>3

(* The class that holds all calls a role's method by the name it was given. *)
LEMMA BoundAlone ==
  ASSUME NEW d \in Deployments, NEW role \in Range(d.roles), NEW m \in Registered(d, role),
         NEW name, name = ParentName(d, role, m)
  PROVE  BoundTo(d, name) = {Handler(role, m)}
<1>1. d.roles \in Seq(AllRoles)
  BY DeploymentsAssumption
<1>2. PICK j \in DOMAIN d.roles : d.roles[j] = role
  BY DEF Range
<1>3. \A i \in DOMAIN d.roles : d.roles[i] \in AllRoles
  BY <1>1
<1>4. role \in AllRoles
  BY <1>2, <1>3
<1>5. PICK S : S = {i \in DOMAIN d.roles : \E k \in Registered(d, d.roles[i]) : ParentName(d, d.roles[i], k) = name}
  OBVIOUS
<1>6. j \in S
  BY <1>2, <1>5
<1>7. \A k : k \in Registered(d, role) => k \in Names
  BY MethodsAre
<1>8. ASSUME NEW i \in S PROVE d.roles[i] = role
  <2>1. PICK k \in Registered(d, d.roles[i]) : ParentName(d, d.roles[i], k) = name
    BY <1>5
  <2>2. i \in DOMAIN d.roles
    BY <1>5
  <2>3. d.roles[i] \in AllRoles /\ k \in Names /\ m \in Names
    BY <1>3, <1>7, <2>2, MethodsAre
  <2> QED BY <1>4, <2>1, <2>3, NamesApart
<1>9. d.roles[Max(S)] = role
  <2>1. DOMAIN d.roles = 1 .. Len(d.roles) /\ Len(d.roles) \in Nat
    BY <1>1
  <2>2. S \subseteq 1 .. Len(d.roles)
    BY <1>5, <2>1
  <2>3. Max(S) \in S
    BY <1>6, <2>1, <2>2, GreatestIn
  <2> QED BY <1>8, <2>3
<1>10. (CHOOSE k \in Registered(d, role) : ParentName(d, role, k) = name) = m
  <2>1. \A k \in Registered(d, role) : ParentName(d, role, k) = name => k = m
    BY <1>4, <1>7, NamesApart
  <2> QED BY <2>1
<1>11. S # {}
  BY <1>6
<1>12. BoundTo(d, name) = {Handler(d.roles[Max(S)], CHOOSE k \in Registered(d, d.roles[Max(S)]) : ParentName(d, d.roles[Max(S)], k) = name)}
  BY <1>5, <1>11 DEF BoundTo
<1> QED BY <1>9, <1>10, <1>12

(* Nothing is bound to the prefixed name of a method that keeps its own.    *)
LEMMA DirectUnprefixed ==
  ASSUME NEW d \in Deployments, NEW role \in AllRoles, NEW m \in Names, IsDirect(role, m)
  PROVE  BoundTo(d, Words(role) \o m) = {}
<1>1. d.roles \in Seq(AllRoles)
  BY DeploymentsAssumption
<1>2. PICK name : name = Words(role) \o m
  OBVIOUS
<1>3. name[1] = Words(role)[1] /\ name[1] # "execute"
  BY <1>2, FirstWordOf, WordsAre
<1>4. name \notin WorkerMethods
  BY <1>3, DirectIs
<1>5. ASSUME NEW i \in DOMAIN d.roles, NEW k \in Registered(d, d.roles[i]), ParentName(d, d.roles[i], k) = name
      PROVE  FALSE
  <2>1. PICK other : other = d.roles[i]
    OBVIOUS
  <2>2. other \in AllRoles /\ k \in Names
    BY <1>1, <2>1, MethodsAre
  <2>3. CASE IsDirect(other, k)
    <3>1. name = <<"execute", "method">>
      BY <1>5, <2>1, <2>2, <2>3, DirectIs DEF ParentName
    <3> QED BY <1>3, <3>1, DirectIs
  <2>4. CASE ~IsDirect(other, k)
    <3>1. name = Words(other) \o k
      BY <1>5, <2>1, <2>4 DEF ParentName
    <3>2. other = role
      BY <1>3, <2>2, <3>1, FirstWordOf, WordsAre
    <3>3. Words(role) \in Seq(AllWords) /\ m \in Seq(AllWords) /\ k \in Seq(AllWords)
      BY <2>2, WordsAre DEF Names
    <3>4. k = m
      BY <1>2, <3>1, <3>2, <3>3, SameEnd
    <3> QED BY <2>4, <3>2, <3>4
  <2> QED BY <2>3, <2>4
<1>6. {i \in DOMAIN d.roles : \E k \in Registered(d, d.roles[i]) : ParentName(d, d.roles[i], k) = name} = {}
  BY <1>5
<1>7. BoundTo(d, name) = {}
  BY <1>4, <1>6 DEF BoundTo
<1> QED BY <1>2, <1>7

(* Whatever roles share the workers, a role's own class runs its methods.   *)
LEMMA OwnClass ==
  ASSUME NEW d \in Deployments, NEW role \in Range(d.roles), NEW m \in Registered(d, role)
  PROVE  Reached(d, role, m) = {Handler(role, m)}
<1>1. role \in AllRoles /\ m \in Names
  <2>1. d.roles \in Seq(AllRoles)
    BY DeploymentsAssumption
  <2> QED BY <2>1, MethodsAre DEF Range
<1>2. CASE d.style = "fused"
  BY <1>2 DEF Reached, SpawnedFused
<1>3. CASE d.style # "fused"
  <2>1. BoundTo(d, ParentName(d, role, m)) = {Handler(role, m)}
    BY BoundAlone
  <2>2. CASE IsDirect(role, m)
    <3>1. BoundTo(d, Words(role) \o m) = {}
      BY <1>1, <2>2, DirectUnprefixed
    <3>2. ParentName(d, role, m) = m
      BY <2>2 DEF ParentName
    <3> QED BY <1>3, <2>1, <3>1, <3>2 DEF Reached, Spawned
  <2>3. CASE ~IsDirect(role, m)
    <3>1. ParentName(d, role, m) = Words(role) \o m
      BY <2>3 DEF ParentName
    <3> QED BY <1>3, <2>1, <3>1 DEF Reached, Spawned
  <2> QED BY <2>2, <2>3
<1> QED BY <1>2, <1>3

(* So the roles are apart in every state. *)
LEMMA RolesAlwaysApart == PoolInv => RolesApart
BY OwnClass DEF PoolInv, RolesApart

----------------------------------------------------------------------------
(* The order of the models *)

BuiltRoles(d) == {role \in Range(d.roles) : ~(role = "ref" /\ d.lora)}

BuiltIn(d, role) == IF role \in BuiltRoles(d) THEN <<role>> ELSE << >>

(* The sequence has the roles of a set, each once. *)
Listed(s, R) ==
  /\ s \in Seq(AllRoles) /\ Range(s) = R
  /\ \A i, j \in 1 .. Len(s) : s[i] = s[j] => i = j

(* A role is added to the order. *)
LEMMA OneMore ==
  ASSUME NEW R, NEW s, Listed(s, R), NEW role \in AllRoles, role \notin R, NEW t, t = s \o <<role>>
  PROVE  Listed(t, R \cup {role}) /\ Len(t) >= 1 /\ t[Len(t)] = role
<1>1. s \in Seq(AllRoles) /\ Range(s) = R /\ \A i, j \in 1 .. Len(s) : s[i] = s[j] => i = j
  BY DEF Listed
<1>2. PICK n \in Nat : n = Len(s)
  BY <1>1
<1>0. PICK u : u = <<role>>
  OBVIOUS
<1>3. u \in Seq(AllRoles) /\ Len(u) = 1 /\ u[1] = role
  BY <1>0
<1>4. /\ t \in Seq(AllRoles) /\ Len(t) = n + 1 /\ \A i \in 1 .. n : t[i] = s[i]
      /\ \A i \in n + 1 .. n + 1 : t[i] = u[i - n]
  <2>1. t = s \o u
    BY <1>0
  <2> QED BY <1>1, <1>2, <1>3, <2>1, Joined
<1>5. t[n + 1] = role
  <2>1. n + 1 \in n + 1 .. n + 1 /\ (n + 1) - n = 1
    OBVIOUS
  <2>2. t[n + 1] = u[(n + 1) - n]
    BY <1>4, <2>1
  <2> QED BY <1>3, <2>1, <2>2
<1>6. \A i \in 1 .. n : s[i] \in R
  <2>1. DOMAIN s = 1 .. n
    BY <1>1, <1>2
  <2> QED BY <1>1, <2>1 DEF Range
<1>7. \A i \in 1 .. n + 1 : i \in 1 .. n \/ i = n + 1
  OBVIOUS
<1>8. ASSUME NEW i \in 1 .. n + 1, NEW j \in 1 .. n + 1, t[i] = t[j] PROVE i = j
  <2>1. CASE i \in 1 .. n /\ j \in 1 .. n
    BY <1>1, <1>2, <1>4, <1>8, <2>1
  <2>2. CASE i = n + 1 /\ j = n + 1
    BY <2>2
  <2>3. CASE i \in 1 .. n /\ j = n + 1
    BY <1>4, <1>5, <1>6, <1>8, <2>3
  <2>4. CASE i = n + 1 /\ j \in 1 .. n
    BY <1>4, <1>5, <1>6, <1>8, <2>4
  <2> QED BY <1>7, <2>1, <2>2, <2>3, <2>4
<1>9. Range(t) = R \cup {role}
  <2>1. DOMAIN t = 1 .. n + 1
    BY <1>4
  <2>2. DOMAIN s = 1 .. n
    BY <1>1, <1>2
  <2>3. ASSUME NEW x \in Range(t) PROVE x \in R \cup {role}
    <3>1. PICK i \in 1 .. n + 1 : t[i] = x
      BY <2>1 DEF Range
    <3> QED BY <1>4, <1>5, <1>6, <1>7, <3>1
  <2>4. ASSUME NEW x \in R PROVE x \in Range(t)
    <3>1. PICK i \in 1 .. n : s[i] = x
      BY <1>1, <2>2 DEF Range
    <3>2. i \in 1 .. n + 1 /\ t[i] = x
      BY <1>4, <3>1
    <3> QED BY <2>1, <3>2 DEF Range
  <2>5. role \in Range(t)
    <3>1. n + 1 \in 1 .. n + 1
      OBVIOUS
    <3> QED BY <1>5, <2>1, <3>1 DEF Range
  <2> QED BY <2>3, <2>4, <2>5
<1>10. t \in Seq(AllRoles) /\ Len(t) = n + 1
  BY <1>4
<1>11. Len(t) >= 1 /\ t[Len(t)] = role
  BY <1>5, <1>10
<1>12. \A i, j \in 1 .. Len(t) : t[i] = t[j] => i = j
  BY <1>8, <1>10
<1>13. Listed(t, R \cup {role})
  BY <1>9, <1>10, <1>12 DEF Listed
<1> QED BY <1>11, <1>13

(* A role is added if it is built. *)
LEMMA MaybeMore ==
  ASSUME NEW d, NEW R, NEW s, Listed(s, R), NEW role \in AllRoles, role \notin R, NEW t, t = s \o BuiltIn(d, role)
  PROVE  Listed(t, R \cup (BuiltRoles(d) \cap {role}))
<1>1. CASE role \in BuiltRoles(d)
  <2>1. t = s \o <<role>> /\ R \cup (BuiltRoles(d) \cap {role}) = R \cup {role}
    BY <1>1 DEF BuiltIn
  <2> QED BY <2>1, OneMore
<1>2. CASE role \notin BuiltRoles(d)
  <2>1. t = s \o << >> /\ R \cup (BuiltRoles(d) \cap {role}) = R
    BY <1>2 DEF BuiltIn
  <2>2. s \in Seq(AllRoles)
    BY DEF Listed
  <2>3. s \o << >> = s
    BY <2>2
  <2> QED BY <2>1, <2>3
<1> QED BY <1>1, <1>2

(* Every role that is to be built has its place in the order, the one with  *)
(* the engine the last.                                                     *)
LEMMA OrderIs ==
  ASSUME NEW d \in Deployments, NEW s, s = InitOrder(d)
  PROVE  Listed(s, BuiltRoles(d)) /\ Len(s) >= 1 /\ s[Len(s)] = "actor_rollout" /\ "actor_rollout" \in BuiltRoles(d)
<1>1. d.roles \in Seq(AllRoles) /\ "actor_rollout" \in Range(d.roles)
  BY DeploymentsAssumption
<1>2. BuiltRoles(d) \subseteq AllRoles /\ "actor_rollout" \in BuiltRoles(d)
  BY <1>1 DEF BuiltRoles, Range
<1>3. PICK b : b = BuiltRoles(d)
  OBVIOUS
<1>4. s = ((BuiltIn(d, "critic") \o BuiltIn(d, "ref")) \o BuiltIn(d, "rm")) \o BuiltIn(d, "actor_rollout")
  BY DEF InitOrder, BuiltIn, BuiltRoles
<1>5. PICK s1 : s1 = BuiltIn(d, "critic")
  OBVIOUS
<1>6. PICK s2 : s2 = s1 \o BuiltIn(d, "ref")
  OBVIOUS
<1>7. PICK s3 : s3 = s2 \o BuiltIn(d, "rm")
  OBVIOUS
<1>8. s = s3 \o <<"actor_rollout">>
  BY <1>2, <1>4, <1>5, <1>6, <1>7 DEF BuiltIn
<1>9. PICK R1, R2, R3 : R1 = b \cap {"critic"} /\ R2 = R1 \cup (b \cap {"ref"}) /\ R3 = R2 \cup (b \cap {"rm"})
  OBVIOUS
<1>10. {"critic", "ref", "rm", "actor_rollout"} = AllRoles
  BY DEF AllRoles
<1>11. Listed(s1, R1)
  <2>1. CASE "critic" \in b
    <3>1. s1 = <<"critic">> /\ R1 = {"critic"}
      BY <1>3, <1>5, <1>9, <2>1 DEF BuiltIn
    <3>2. Range(<<"critic">>) = {"critic"}
      BY DEF Range
    <3> QED BY <1>10, <3>1, <3>2 DEF Listed
  <2>2. CASE "critic" \notin b
    <3>1. s1 = << >> /\ R1 = {}
      BY <1>3, <1>5, <1>9, <2>2 DEF BuiltIn
    <3>2. Range(<< >>) = {}
      BY DEF Range
    <3> QED BY <3>1, <3>2 DEF Listed
  <2> QED BY <2>1, <2>2
<1>12. Listed(s2, R2)
  <2>1. "ref" \notin R1 /\ "ref" \in AllRoles
    BY <1>9, <1>10
  <2> QED BY <1>3, <1>6, <1>9, <1>11, <2>1, MaybeMore
<1>13. Listed(s3, R3)
  <2>1. "rm" \notin R2 /\ "rm" \in AllRoles
    BY <1>9, <1>10
  <2> QED BY <1>3, <1>7, <1>9, <1>12, <2>1, MaybeMore
<1>14. R3 \cup {"actor_rollout"} = b
  BY <1>2, <1>3, <1>9, <1>10
<1>15. Listed(s, b) /\ Len(s) >= 1 /\ s[Len(s)] = "actor_rollout"
  <2>1. "actor_rollout" \notin R3 /\ "actor_rollout" \in AllRoles
    BY <1>9, <1>10
  <2> QED BY <1>8, <1>13, <1>14, <2>1, OneMore
<1> QED BY <1>2, <1>3, <1>15

----------------------------------------------------------------------------
(* The models *)

FirstOf(k) == {InitOrder(deployment)[i] : i \in 1 .. k}

(* The calls come in this order; a rank that is through with a call has the *)
(* models of all calls so far, one that is not those of the earlier.        *)
BuiltInv ==
  /\ calls \in Nat /\ calls <= FirstCalls + MaxCalls /\ (calls = 0 => Idle /\ call = InitModel("actor_rollout"))
  /\ calls \in 1 .. FirstCalls => call = InitModel(InitOrder(deployment)[calls])
  /\ calls > FirstCalls => call \in Calls
  /\ models = [r \in Ranks |-> models[r]]
  /\ \A r \in Ranks :
       models[r] = IF calls > FirstCalls THEN FirstOf(FirstCalls)
                   ELSE IF at[r] \in {"called", "inside"} THEN FirstOf(calls - 1) ELSE FirstOf(calls)

(* The first calls build the models in this order. *)
LEMMA FirstIs ==
  ASSUME deployment \in Deployments
  PROVE  FirstCalls \in Nat \ {0} /\ FirstOf(FirstCalls) = BuiltRoles(deployment)
         /\ Range(InitOrder(deployment)) = BuiltRoles(deployment)
<1>1. PICK s : s = InitOrder(deployment)
  OBVIOUS
<1>2. Listed(s, BuiltRoles(deployment)) /\ Len(s) >= 1
  BY <1>1, OrderIs
<1>3. s \in Seq(AllRoles) /\ Range(s) = BuiltRoles(deployment)
  BY <1>2 DEF Listed
<1>4. DOMAIN s = 1 .. Len(s) /\ Len(s) \in Nat
  BY <1>3
<1> QED BY <1>1, <1>2, <1>3, <1>4 DEF FirstCalls, FirstOf, Range

(* init_model goes to all ranks. *)
LEMMA InitSplits == ASSUME NEW role PROVE Splits(InitModel(role))
<1>1. PICK c : c = InitModel(role)
  OBVIOUS
<1>2. c.mode = "ONE_TO_ALL" /\ c.rows = 0 /\ c.padding = "none"
  BY <1>1 DEF InitModel
<1>3. Len(Padded(c)) = 0
  <2>1. Padded(c) = Batch(c)
    BY <1>2 DEF Padded
  <2> QED BY <1>2, <2>1, BatchIs
<1>4. Parts(c.mode, layout) = 1
  BY <1>2 DEF Parts
<1>5. 0 % 1 = 0
  OBVIOUS
<1>6. Splits(c)
  BY <1>2, <1>3, <1>4, <1>5 DEF Splits
<1> QED BY <1>1, <1>6

(* At first no model is built. *)
LEMMA BuiltStart == Init => BuiltInv
<1> SUFFICES ASSUME Init PROVE BuiltInv
  OBVIOUS
<1>1. /\ deployment \in Deployments /\ calls = 0 /\ call = InitModel("actor_rollout")
      /\ models = [r \in Ranks |-> {}] /\ \A r \in Ranks : at[r] = "idle"
  BY DEF Init, GroupInit
<1>2. FirstCalls \in Nat \ {0}
  BY <1>1, FirstIs
<1>3. Idle /\ \A r \in Ranks : models[r] = {}
  BY <1>1 DEF Idle
<1>4. FirstOf(0) = {}
  BY DEF FirstOf
<1> QED BY <1>1, <1>2, <1>3, <1>4, BoundsAssumption DEF BuiltInv

(* Where calls and models stay, so does this. *)
LEMMA BuiltKept == ASSUME BuiltInv, UNCHANGED <<deployment, callVars>> PROVE BuiltInv'
<1>1. UNCHANGED <<deployment, calls, call, at, models>>
  BY DEF callVars
<1>2. Idle' = Idle /\ FirstCalls' = FirstCalls /\ Calls' = Calls /\ InitOrder(deployment)' = InitOrder(deployment)
  BY <1>1 DEF Idle, FirstCalls, Calls
<1>3. FirstOf(FirstCalls)' = FirstOf(FirstCalls) /\ FirstOf(calls - 1)' = FirstOf(calls - 1) /\ FirstOf(calls)' = FirstOf(calls)
  BY <1>1, <1>2 DEF FirstOf
<1> QED BY <1>1, <1>2, <1>3 DEF BuiltInv

(* A call is issued. *)
LEMMA BuiltIssue ==
  ASSUME BuiltInv, deployment \in Deployments, NEW c, Issue(c),
         \/ calls < FirstCalls /\ c = InitModel(InitOrder(deployment)[calls + 1])
         \/ calls \in FirstCalls .. FirstCalls + MaxCalls - 1 /\ c \in Calls
  PROVE  BuiltInv'
<1>1. Idle /\ calls' = calls + 1 /\ call' = c /\ UNCHANGED <<deployment, models>>
  BY DEF Issue
<1>2. FirstCalls' = FirstCalls /\ Calls' = Calls /\ InitOrder(deployment)' = InitOrder(deployment)
  BY <1>1 DEF FirstCalls, Calls
<1>3. calls \in Nat /\ FirstCalls \in Nat \ {0} /\ MaxCalls \in Nat
  BY FirstIs, BoundsAssumption DEF BuiltInv
<1>5. models = [r \in Ranks |-> models[r]]
  BY DEF BuiltInv
<1>6. CASE calls < FirstCalls /\ c = InitModel(InitOrder(deployment)[calls + 1])
  <2>1. at' = [r \in Ranks |-> "called"]
    BY <1>6, InitSplits DEF Issue
  <2>2. calls' \in 1 .. FirstCalls /\ calls' - 1 = calls
    BY <1>1, <1>3, <1>6
  <2>3. ASSUME NEW r \in Ranks PROVE models'[r] = FirstOf(calls' - 1)
    <3>1. at[r] = "idle" /\ ~(calls > FirstCalls)
      BY <1>1, <1>3, <1>6 DEF Idle
    <3>2. models[r] = FirstOf(calls)
      BY <3>1 DEF BuiltInv
    <3> QED BY <1>1, <2>2, <3>2
  <2>4. ASSUME NEW r \in Ranks PROVE models'[r] = FirstOf(calls - 1)' /\ at'[r] = "called"
    <3>1. FirstOf(calls - 1)' = FirstOf(calls' - 1)
      BY <1>1 DEF FirstOf
    <3> QED BY <2>1, <2>3, <3>1
  <2> QED BY <1>1, <1>2, <1>3, <1>5, <1>6, <2>2, <2>4 DEF BuiltInv
<1>7. CASE calls \in FirstCalls .. FirstCalls + MaxCalls - 1 /\ c \in Calls
  <2>1. calls' > FirstCalls /\ calls' <= FirstCalls + MaxCalls /\ calls' \in Nat
    BY <1>1, <1>3, <1>7
  <2>2. ASSUME NEW r \in Ranks PROVE models'[r] = FirstOf(FirstCalls)'
    <3>1. at[r] = "idle"
      BY <1>1 DEF Idle
    <3>2. calls > FirstCalls \/ calls = FirstCalls
      BY <1>3, <1>7
    <3>3. models[r] = FirstOf(FirstCalls)
      BY <3>1, <3>2 DEF BuiltInv
    <3>4. FirstOf(FirstCalls)' = FirstOf(FirstCalls)
      BY <1>1, <1>2 DEF FirstOf
    <3> QED BY <1>1, <3>3, <3>4
  <2> QED BY <1>1, <1>2, <1>3, <1>5, <1>7, <2>1, <2>2 DEF BuiltInv
<1> QED BY <1>6, <1>7

(* One rank's place in the call changes.                                    *)
LEMMA BuiltMove ==
  ASSUME BuiltInv, deployment \in Deployments, at \in [Ranks -> AtStates], NEW r \in Ranks, Enter(r) \/ Finish(r)
  PROVE  BuiltInv'
<1>1. UNCHANGED <<deployment, calls, call>> /\ at[r] \in {"called", "inside"} /\ (Finish(r) => at[r] = "inside")
  BY DEF Enter, Finish, groupVars
<1>2. PICK s \in {"inside", "done"} : at' = [at EXCEPT ![r] = s]
  BY DEF Enter, Finish
<1>3. at'[r] = s /\ \A q \in Ranks : q # r => at'[q] = at[q]
  BY <1>2
<1>4. ~Idle /\ calls # 0 /\ calls \in Nat
  BY <1>1 DEF Idle, BuiltInv
<1>5. FirstCalls' = FirstCalls /\ Calls' = Calls /\ InitOrder(deployment)' = InitOrder(deployment)
  BY <1>1 DEF FirstCalls, Calls
<1>6. FirstOf(FirstCalls)' = FirstOf(FirstCalls) /\ FirstOf(calls - 1)' = FirstOf(calls - 1) /\ FirstOf(calls)' = FirstOf(calls)
  BY <1>1, <1>5 DEF FirstOf
<1>7. /\ calls <= FirstCalls + MaxCalls
      /\ calls \in 1 .. FirstCalls => call = InitModel(InitOrder(deployment)[calls])
      /\ calls > FirstCalls => call \in Calls
  BY DEF BuiltInv
<1>8. FirstCalls \in Nat \ {0}
  BY FirstIs
<1>9. models = [q \in Ranks |-> models[q]]
  BY DEF BuiltInv
<1>10. SUFFICES /\ models' = [q \in Ranks |-> models'[q]]
                /\ \A q \in Ranks :
                     models'[q] = IF calls > FirstCalls THEN FirstOf(FirstCalls)
                                  ELSE IF at'[q] \in {"called", "inside"} THEN FirstOf(calls - 1) ELSE FirstOf(calls)
  BY <1>1, <1>4, <1>5, <1>6, <1>7 DEF BuiltInv
<1>11. \A q \in Ranks :
         models[q] = IF calls > FirstCalls THEN FirstOf(FirstCalls)
                     ELSE IF at[q] \in {"called", "inside"} THEN FirstOf(calls - 1) ELSE FirstOf(calls)
  BY DEF BuiltInv
<1>12. CASE Enter(r)
  <2>1. models' = models /\ at'[r] \in {"called", "inside"}
    BY <1>2, <1>12, <1>1 DEF Enter
  <2> QED BY <1>1, <1>3, <1>9, <1>11, <2>1
<1>13. CASE Finish(r)
  <2>1. at'[r] = "done" /\ at[r] = "inside"
    BY <1>1, <1>2, <1>13 DEF Finish
  <2>2. CASE calls > FirstCalls
    <3>1. call \in Calls
      BY <1>7, <2>2
    <3>2. call.method # "init_model"
      BY <3>1 DEF Calls
    <3>3. models' = models
      BY <1>13, <3>2 DEF Finish
    <3> QED BY <1>9, <1>11, <2>2, <3>3
  <2>3. CASE ~(calls > FirstCalls)
    <3>1. calls \in 1 .. FirstCalls
      BY <1>4, <1>8, <2>3
    <3>2. PICK role : role = InitOrder(deployment)[calls]
      OBVIOUS
    <3>3. call = InitModel(role)
      BY <1>7, <3>1, <3>2
    <3>4. call.method = "init_model" /\ call.role = role
      BY <3>3 DEF InitModel
    <3>5. role \in Range(deployment.roles)
      <4>1. DOMAIN InitOrder(deployment) = 1 .. FirstCalls
        BY OrderIs DEF Listed, FirstCalls
      <4>2. role \in Range(InitOrder(deployment))
        BY <3>1, <3>2, <4>1 DEF Range
      <4> QED BY <4>2, FirstIs DEF BuiltRoles
    <3>6. Reached(deployment, role, InitModelName) = {Handler(role, InitModelName)}
      <4>1. InitModelName \in Registered(deployment, role)
        BY MethodsAre
      <4> QED BY <3>5, <4>1, OwnClass
    <3>7. {h.role : h \in Reached(deployment, call.role, InitModelName)} = {role}
      BY <3>4, <3>6 DEF Handler
    <3>8. models' = [models EXCEPT ![r] = @ \cup {role}]
      BY <1>13, <3>4, <3>7 DEF Finish
    <3>9. models'[r] = models[r] \cup {role} /\ \A q \in Ranks : q # r => models'[q] = models[q]
      BY <1>9, <3>8
    <3>10. FirstOf(calls) = FirstOf(calls - 1) \cup {role}
      <4>1. 1 .. calls = (1 .. calls - 1) \cup {calls}
        BY <3>1, <1>8
      <4> QED BY <3>2, <4>1 DEF FirstOf
    <3>11. models[r] = FirstOf(calls - 1)
      BY <1>11, <2>1, <2>3
    <3>12. models' = [q \in Ranks |-> models'[q]]
      BY <1>9, <3>8
    <3> QED BY <1>3, <1>11, <2>1, <2>3, <3>9, <3>10, <3>11, <3>12
  <2> QED BY <2>2, <2>3
<1> QED BY <1>12, <1>13

(* A call returns. *)
LEMMA BuiltReturn == ASSUME BuiltInv, deployment \in Deployments, Return PROVE BuiltInv'
<1>1. /\ UNCHANGED <<deployment, calls, call, models>> /\ at' = [r \in Ranks |-> "idle"]
      /\ \A r \in Ranks : at[r] = "done"
  BY DEF Return, groupVars
<1>2. FirstCalls' = FirstCalls /\ Calls' = Calls /\ InitOrder(deployment)' = InitOrder(deployment)
  BY <1>1 DEF FirstCalls, Calls
<1>3. FirstOf(FirstCalls)' = FirstOf(FirstCalls) /\ FirstOf(calls - 1)' = FirstOf(calls - 1) /\ FirstOf(calls)' = FirstOf(calls)
  BY <1>1, <1>2 DEF FirstOf
<1>4. Idle'
  BY <1>1 DEF Idle
<1>5. ASSUME NEW r \in Ranks PROVE at'[r] \notin {"called", "inside"} /\ at[r] \notin {"called", "inside"}
  BY <1>1
<1> QED BY <1>1, <1>2, <1>3, <1>4, <1>5 DEF BuiltInv

(* Every step keeps what is built. *)
LEMMA BuiltStep == PoolInv /\ UpInv /\ BuiltInv /\ [Next]_vars => BuiltInv'
<1> SUFFICES ASSUME PoolInv, UpInv, BuiltInv, [Next]_vars PROVE BuiltInv'
  OBVIOUS
<1>0. deployment \in Deployments /\ at \in [Ranks -> AtStates]
  BY DEF PoolInv, UpInv
<1>1. CASE InitModels
  <2>1. PICK c : c = InitModel(InitOrder(deployment)[calls + 1])
    OBVIOUS
  <2>2. calls < FirstCalls /\ Issue(c)
    BY <1>1, <2>1 DEF InitModels
  <2> QED BY <1>0, <2>1, <2>2, BuiltIssue
<1>2. CASE NextCall
  <2>1. calls \in FirstCalls .. FirstCalls + MaxCalls - 1
    BY <1>2 DEF NextCall
  <2>2. PICK c \in Calls : Issue(c)
    BY <1>2 DEF NextCall
  <2> QED BY <1>0, <2>1, <2>2, BuiltIssue
<1>3. CASE Return
  BY <1>0, <1>3, BuiltReturn
<1>4. CASE CallRaises
  <2>1. UNCHANGED deployment /\ UNCHANGED callVars
    BY <1>4 DEF CallRaises
  <2> QED BY <2>1, BuiltKept
<1>5. CASE (CheckResources \/ PlaceGroups \/ CreateWorker \/ FindCenter \/ MakeCenter \/ CenterTimeout \/ TakeMasterPort)
           /\ UNCHANGED callVars
  <2>1. UNCHANGED deployment
    BY <1>5 DEF CheckResources, PlaceGroups, CreateWorker, FindCenter, MakeCenter, CenterTimeout, TakeMasterPort
  <2> QED BY <1>5, <2>1, BuiltKept
<1>6. ASSUME NEW r \in Ranks, Worker(r) PROVE BuiltInv'
  <2>1. CASE Enter(r) \/ Finish(r)
    BY <1>0, <2>1, BuiltMove
  <2>2. CASE Start(r) /\ UNCHANGED callVars
    <3>1. UNCHANGED deployment
      BY <2>2 DEF Start, SetWorkerInfo, Join, Up, JoinTimeout
    <3> QED BY <2>2, <3>1, BuiltKept
  <2> QED BY <1>6, <2>1, <2>2 DEF Worker
<1>7. CASE UNCHANGED vars
  <2>1. UNCHANGED deployment /\ UNCHANGED callVars
    BY <1>7 DEF vars, callVars
  <2> QED BY <2>1, BuiltKept
<1> QED BY <1>1, <1>2, <1>3, <1>4, <1>5, <1>6, <1>7 DEF Next, Driver

(* A call that builds nothing is of the actor, of its reference or of a role*)
(* of its own.                                                              *)
LEMMA RoleOfCall == ASSUME NEW c \in Calls PROVE c.method # "init_model" /\ (c.role = "actor_rollout" \/ c.role \in Range(InitOrder(deployment)))
BY DEF Calls

(* A call finds its role's model built. *)
LEMMA ModelsFound == PoolInv /\ BuiltInv => ModelsBuilt
<1> SUFFICES ASSUME PoolInv, BuiltInv PROVE ModelsBuilt
  OBVIOUS
<1>1. deployment \in Deployments
  BY DEF PoolInv
<1>2. PICK s, b, n : s = InitOrder(deployment) /\ b = BuiltRoles(deployment) /\ n = FirstCalls
  OBVIOUS
<1>3. /\ n \in Nat \ {0} /\ FirstOf(n) = b /\ Range(s) = b /\ n = Len(s)
      /\ s[n] = "actor_rollout" /\ "actor_rollout" \in b /\ \A i, j \in 1 .. n : s[i] = s[j] => i = j
  BY <1>1, <1>2, FirstIs, OrderIs DEF Listed, FirstCalls
<1>4. calls \in Nat
  BY DEF BuiltInv
<1>5. ASSUME NEW r \in Ranks, at[r] = "inside", call.method # "init_model" PROVE call.role \in models[r]
  <2>1. calls # 0
    BY <1>5 DEF BuiltInv, Idle
  <2>2. calls > n
    <3>1. ASSUME calls \in 1 .. n PROVE FALSE
      <4>1. call = InitModel(s[calls])
        BY <1>2, <3>1 DEF BuiltInv
      <4> QED BY <1>5, <4>1 DEF InitModel
    <3> QED BY <1>3, <1>4, <2>1, <3>1
  <2>3. models[r] = b /\ call \in Calls
    BY <1>2, <1>3, <2>2 DEF BuiltInv
  <2> QED BY <1>2, <1>3, <2>3, RoleOfCall
<1>6. ASSUME NEW r \in Ranks, at[r] = "inside", call.method = "init_model", call.role = "actor_rollout"
      PROVE  models[r] = b \ {"actor_rollout"}
  <2>1. calls # 0
    BY <1>6 DEF BuiltInv, Idle
  <2>2. ~(calls > n)
    BY <1>2, <1>6, RoleOfCall DEF BuiltInv
  <2>3. calls \in 1 .. n
    BY <1>3, <1>4, <2>1, <2>2
  <2>4. call = InitModel(s[calls])
    BY <1>2, <2>3 DEF BuiltInv
  <2>5. s[calls] = "actor_rollout"
    BY <1>6, <2>4 DEF InitModel
  <2>6. calls = n
    BY <1>3, <2>3, <2>5
  <2>7. models[r] = FirstOf(n - 1)
    BY <1>2, <1>6, <2>2, <2>6 DEF BuiltInv
  <2>8. FirstOf(n - 1) = {s[i] : i \in 1 .. n - 1} /\ FirstOf(n) = {s[i] : i \in 1 .. n}
    BY <1>2 DEF FirstOf
  <2>9. 1 .. n = (1 .. n - 1) \cup {n} /\ \A i \in 1 .. n - 1 : i \in 1 .. n /\ i # n
    BY <1>3
  <2>10. \A i \in 1 .. n - 1 : s[i] # "actor_rollout"
    BY <1>3, <2>9
  <2> QED BY <1>3, <2>7, <2>8, <2>9, <2>10
<1>7. ASSUME Returned, "ref" \in Range(deployment.roles), NEW r \in Ranks PROVE RefGroup(deployment) \in models[r]
  <2>1. calls >= n /\ at[r] = "idle"
    BY <1>2, <1>7 DEF Returned, Idle
  <2>2. models[r] = b
    <3>1. CASE calls > n
      BY <1>2, <1>3, <3>1 DEF BuiltInv
    <3>2. CASE calls = n
      BY <1>2, <1>3, <2>1, <3>2 DEF BuiltInv
    <3> QED BY <1>3, <1>4, <2>1, <3>1, <3>2
  <2> QED BY <1>2, <1>3, <1>7, <2>2 DEF RefGroup, BuiltRoles
<1> QED BY <1>2, <1>3, <1>5, <1>6, <1>7 DEF ModelsBuilt

(* A call finds every rank's node registered. *)
LEMMA NodesFound == PoolInv /\ InfoInv /\ UpInv /\ BuiltInv => NodesRegistered
<1> SUFFICES ASSUME PoolInv, InfoInv, UpInv, BuiltInv, Returned PROVE info = Ranks
  BY DEF NodesRegistered
<1>1. FirstCalls \in Nat \ {0} /\ calls >= FirstCalls /\ driver = "created" /\ Idle
  BY FirstIs DEF PoolInv, Returned
<1>2. calls > 0
  <2>1. calls \in Nat
    BY DEF BuiltInv
  <2> QED BY <1>1, <2>1
<1>3. \A r \in Ranks : worker[r] = "up"
  BY <1>1, <1>2 DEF UpInv
<1> QED BY <1>3 DEF InfoInv

----------------------------------------------------------------------------
(* What is sent *)

(* A place in the layout is a number. *)
LEMMA PlaceIn ==
  ASSUME NEW a \in Nat \ {0}, NEW b \in Nat \ {0}, NEW x \in 0 .. a - 1, NEW y \in 0 .. b - 1
  PROVE  x * b + y \in 0 .. a * b - 1
<1>1. b * x + b <= b * a
  BY Ordered
<1>2. PICK u \in Nat, v \in Nat : u = x * b /\ v = a * b
  OBVIOUS
<1>3. b * x = u /\ b * a = v
  BY <1>2
<1> QED BY <1>1, <1>2, <1>3

(* A rank's part is one of the chunks. *)
LEMMA PartIn ==
  ASSUME NEW w \in Nat \ {0}, NEW lay \in Layouts(w), NEW mode \in Modes, NEW r \in 0 .. w - 1
  PROVE  PartOf(mode, lay, r) \in 1 .. Parts(mode, lay)
<1>1. PICK t \in 0 .. lay.tp - 1, x \in 0 .. lay.cp - 1, y \in 0 .. lay.dp - 1, z \in 0 .. lay.pp - 1 :
        HasPlace(lay, r, t, x, y, z)
  BY PlaceOf
<1>2. PICK c \in Nat \ {0}, d \in Nat \ {0}, p \in Nat \ {0} : c = lay.cp /\ d = lay.dp /\ p = lay.pp
  BY LayoutIs
<1>3. CpRank(lay, r) = x /\ DpRank(lay, r) = y /\ PpRank(lay, r) = z
  BY <1>1 DEF HasPlace
<1>4. CASE mode = "DP_COMPUTE_PROTO"
  BY <1>4, PartsAre DEF PartOf
<1>5. CASE mode = "MEGATRON_COMPUTE_PROTO"
  <2>1. PartOf(mode, lay, r) = y + 1 /\ Parts(mode, lay) = d
    BY <1>2, <1>3, <1>5 DEF PartOf, Parts
  <2> QED BY <1>2, <2>1
<1>6. CASE mode = "MEGATRON_PP_AS_DP_PROTO"
  <2>1. PartOf(mode, lay, r) = (x * d + y) * p + z + 1 /\ Parts(mode, lay) = d * p * c
    BY <1>2, <1>3, <1>6 DEF PartOf, Parts
  <2>2. PICK m \in Nat \ {0} : m = c * d
    BY <1>2
  <2>3. PICK k \in 0 .. m - 1 : k = x * d + y
    <3>1. x \in 0 .. c - 1 /\ y \in 0 .. d - 1
      BY <1>2
    <3> HIDE <1>1, <1>2
    <3> QED BY <2>2, <3>1, PlaceIn
  <2>4. k * p + z \in 0 .. m * p - 1
    <3>1. z \in 0 .. p - 1
      BY <1>2
    <3> QED BY <3>1, PlaceIn
  <2>5. m * p = d * p * c
    <3>1. (c * d) * p = d * p * c
      BY <1>2
    <3> QED BY <2>2, <3>1
  <2>6. PICK a \in Nat, n \in Nat : a = k * p /\ n = m * p /\ a + z \in 0 .. n - 1
    BY <2>4
  <2>7. PartOf(mode, lay, r) = a + z + 1 /\ Parts(mode, lay) = n
    BY <2>1, <2>3, <2>5, <2>6
  <2> QED BY <2>6, <2>7
<1>7. CASE mode = "ONE_TO_ALL"
  BY <1>7 DEF PartOf, Parts
<1> QED BY <1>4, <1>5, <1>6, <1>7 DEF Modes

(* Nobody is sent more rows than the batch has with its padding. *)
LEMMA SentRows ==
  ASSUME layout \in Layouts(WorldSize), NEW c, IsCall(c), Splits(c), NEW r \in Ranks
  PROVE  Dispatched(c)[r] \in Seq(1 .. c.rows) /\ Len(Dispatched(c)[r]) < c.rows + WorldSize
<1>0. PICK w \in Nat \ {0} : w = WorldSize
  BY World
<1>1. PICK n \in Nat, p \in 0 .. w - 1 : n = c.rows /\ p = Added(c)
  <2>1. c.rows \in Nat
    BY DEF IsCall
  <2>2. Added(c) \in 0 .. w - 1
    BY <1>0, PaddedIs
  <2> QED BY <2>1, <2>2
<1>2. PICK s, U : s = Padded(c) /\ U = 1 .. c.rows
  OBVIOUS
<1>3. s \in Seq(U) /\ Len(s) = n + p /\ Len(s) < n + w
  <2>1. s \in Seq(U) /\ Len(s) = n + p
    BY <1>1, <1>2, PaddedIs
  <2> QED BY <2>1
<1>4. CASE c.mode = "ONE_TO_ALL"
  BY <1>0, <1>1, <1>2, <1>3, <1>4 DEF Dispatched
<1>5. CASE c.mode # "ONE_TO_ALL"
  <2>1. PICK k \in Nat \ {0} : k = Parts(c.mode, layout) /\ Cuts(Len(s), k)
    BY <1>2, <1>5, SplitsCuts
  <2>2. PICK i \in 1 .. k : i = PartOf(c.mode, layout, r)
    <3>1. c.mode \in Modes
      BY DEF IsCall
    <3> QED BY <2>1, <3>1, World, PartIn
  <2>3. Dispatched(c)[r] = Chunk(s, k)[i]
    BY <1>2, <1>5, <2>1, <2>2, DispatchedIs
  <2>4. Chunk(s, k)[i] = SubSeq(s, Bound(Len(s), k, i - 1) + 1, Bound(Len(s), k, i))
    BY <1>3, <2>1, ChunkCut
  <2>5. PICK x \in Nat, y \in Nat : x = Bound(Len(s), k, i - 1) /\ y = Bound(Len(s), k, i) /\ x <= y /\ y <= Len(s)
    <3>1. i \in 0 .. k /\ i - 1 \in 0 .. k
      OBVIOUS
    <3>2. Len(s) \in Nat
      BY <1>1, <1>3
    <3> QED BY <2>1, <3>1, <3>2, Bounds
  <2>6. PICK u : u = SubSeq(s, x + 1, y)
    OBVIOUS
  <2>7. u \in Seq(U) /\ Len(u) = y - x
    <3>1. s \in Seq(U) /\ x <= y /\ y <= Len(s)
      BY <1>3, <2>5
    <3> HIDE <1>2, <2>5
    <3> QED BY <2>6, <3>1, SectionNamed
  <2>8. Len(u) < n + w
    <3>1. PICK m \in Nat : m = Len(s) /\ m < n + w
      BY <1>1, <1>3
    <3>2. PICK l \in Int : l = y - x /\ l <= y /\ y <= m
      BY <2>5, <3>1
    <3>3. Len(u) = l
      BY <2>7, <3>2
    <3> QED BY <3>1, <3>2, <3>3
  <2> QED BY <1>0, <1>1, <1>2, <2>3, <2>4, <2>5, <2>6, <2>7, <2>8
<1> QED BY <1>4, <1>5

(* The ranks that generate together are ranks. *)
LEMMA GroupFits ==
  ASSUME NEW w \in Nat \ {0}, NEW t \in Nat \ {0}, Rest(w, t) = 0
  PROVE  t \in 1 .. w
<1>1. PICK q \in Nat : q = Quot(w, t) /\ w = t * q + 0
  BY Division
<1>2. q # 0
  BY <1>1
<1>3. t * 0 + t <= t * q
  BY <1>1, <1>2, Ordered
<1>4. PICK x \in Nat : x = t * q
  BY <1>1
<1> QED BY <1>1, <1>3, <1>4

(* The invariant gives the types. *)
LEMMA Typed == RowInv /\ PoolInv /\ CenterInv /\ InfoInv /\ BuiltInv => TypeOK
<1> SUFFICES ASSUME RowInv, PoolInv, CenterInv, InfoInv, BuiltInv PROVE TypeOK
  OBVIOUS
<1>1. /\ deployment \in Deployments /\ (placed = << >> \/ placed \in Placements(deployment))
      /\ driver \in {"checking", "placing", "creating", "finding", "created", "raised"}
  BY DEF PoolInv, DriverStates
<1>2. /\ next_rank \in 0 .. WorldSize /\ center \in BOOLEAN /\ given \subseteq Ranks
      /\ worker \in [Ranks -> {"none", "starting", "registered", "joining", "up", "dead"}]
  BY DEF CenterInv, WorkerStates
<1>3. info \subseteq Ranks /\ port_taken \in BOOLEAN
  BY DEF InfoInv
<1>4. layout \in Layouts(WorldSize) /\ infer_tp \in 1 .. WorldSize
  BY World, GroupFits DEF RowInv, DealInv
<1>5. /\ calls \in 0 .. FirstCalls + MaxCalls
      /\ call \in Calls \cup {InitModel(role) : role \in Range(deployment.roles)}
  <2>1. calls \in Nat /\ calls <= FirstCalls + MaxCalls /\ FirstCalls \in Nat \ {0} /\ MaxCalls \in Nat
    BY <1>1, FirstIs, BoundsAssumption DEF BuiltInv
  <2>2. CASE calls = 0
    BY <1>1, <2>2, DeploymentsAssumption DEF BuiltInv
  <2>3. CASE calls \in 1 .. FirstCalls
    <3>1. PICK role : role = InitOrder(deployment)[calls] /\ call = InitModel(role)
      BY <2>3 DEF BuiltInv
    <3>2. DOMAIN InitOrder(deployment) = 1 .. FirstCalls
      BY <1>1, OrderIs DEF Listed, FirstCalls
    <3>3. role \in Range(InitOrder(deployment))
      BY <2>3, <3>1, <3>2 DEF Range
    <3>4. role \in Range(deployment.roles)
      BY <1>1, <3>3, FirstIs DEF BuiltRoles
    <3> QED BY <2>1, <3>1, <3>4
  <2>4. CASE calls > FirstCalls
    BY <2>1, <2>4 DEF BuiltInv
  <2>5. calls \in 0 .. FirstCalls + MaxCalls
    BY <2>1
  <2> QED BY <2>1, <2>2, <2>3, <2>4, <2>5
<1>6. at \in [Ranks -> {"idle", "called", "inside", "done"}]
  BY DEF RowInv, AtStates
<1>7. ASSUME NEW r \in Ranks, at[r] # "idle" PROVE arg[r] \in Seq(1 .. call.rows) /\ Len(arg[r]) < call.rows + WorldSize
  <2>1. Splits(call) /\ arg = Dispatched(call) /\ IsCall(call)
    BY <1>7 DEF RowInv, SentInv, Idle
  <2> QED BY <1>4, <2>1, SentRows
<1> QED BY <1>1, <1>2, <1>3, <1>4, <1>5, <1>6, <1>7 DEF TypeOK

(* Ranks that generate together have the same input. *)
LEMMA TogetherAlike == RowInv => SameInput
<1> SUFFICES ASSUME RowInv, NEW q \in Ranks, NEW r \in Ranks, at[q] = "inside", at[r] = "inside"
             PROVE  /\ call.mode = "MEGATRON_COMPUTE_PROTO" /\ DpRank(layout, q) = DpRank(layout, r) => Input(q) = Input(r)
                    /\ call.method = "generate_sequences" /\ q \div infer_tp = r \div infer_tp => Input(q) = Input(r)
  BY DEF SameInput
<1>1. arg = Dispatched(call) /\ IsCall(call)
  BY DEF RowInv, SentInv, Idle
<1>2. ASSUME call.mode = "MEGATRON_COMPUTE_PROTO", DpRank(layout, q) = DpRank(layout, r) PROVE Input(q) = Input(r)
  <2>1. call.method # "generate_sequences"
    BY <1>1, <1>2 DEF IsCall
  <2>2. PartOf(call.mode, layout, q) = PartOf(call.mode, layout, r)
    BY <1>2 DEF PartOf
  <2>3. arg[q] = arg[r]
    BY <1>1, <1>2, <2>2, DispatchedIs
  <2> QED BY <2>1, <2>3 DEF Input
<1>3. ASSUME call.method = "generate_sequences", q \div infer_tp = r \div infer_tp PROVE Input(q) = Input(r)
  <2>1. InferGroup(q) = InferGroup(r)
    BY <1>3 DEF InferGroup
  <2> QED BY <1>3, <2>1 DEF Input
<1> QED BY <1>2, <1>3

----------------------------------------------------------------------------
(* Where the placement groups are *)

On(p, n) == {k \in DOMAIN p : p[k] = n}
UpTo(p, n) == {k \in DOMAIN p : p[k] <= n}

(* A group's node in the order of the nodes. *)
IsPlace(p, i, n) == n \in Range(p) /\ Cardinality(UpTo(p, n - 1)) < i /\ i <= Cardinality(UpTo(p, n))

PlaceOfGroup(p, i) == CHOOSE n : IsPlace(p, i, n)

(* Sorting gives each group its place. *)
LEMMA SortIs ==
  ASSUME NEW p
  PROVE  sort_placement_group_by_node_ip(p) = [i \in DOMAIN p |-> PlaceOfGroup(p, i)]
<1> DEFINE C(n) == Cardinality({k \in DOMAIN p : p[k] <= n})
<1>1. sort_placement_group_by_node_ip(p) = [i \in DOMAIN p |-> CHOOSE n \in Range(p) : C(n - 1) < i /\ i <= C(n)]
  BY DEF sort_placement_group_by_node_ip
<1>2. ASSUME NEW i \in DOMAIN p
      PROVE  (CHOOSE n \in Range(p) : C(n - 1) < i /\ i <= C(n)) = PlaceOfGroup(p, i)
  <2>1. \A n : IsPlace(p, i, n) <=> n \in Range(p) /\ C(n - 1) < i /\ i <= C(n)
    BY DEF IsPlace, UpTo
  <2> QED BY <2>1 DEF PlaceOfGroup
<1> QED BY <1>1, <1>2

(* Groups on nodes 1 to g. *)
IsPlacement(p, k, g) == k \in Nat /\ g \in Nat /\ p \in [1 .. k -> 1 .. g]

(* Groups on a node, and up to a node, add up. *)
LEMMA CountsOf ==
  ASSUME NEW p, NEW k, NEW g, IsPlacement(p, k, g)
  PROVE  /\ \A n \in Nat : Cardinality(UpTo(p, n)) \in 0 .. k /\ Cardinality(On(p, n)) \in 0 .. k
         /\ \A n \in Nat : n \in Range(p) <=> Cardinality(On(p, n)) # 0
         /\ \A n \in Nat : Cardinality(UpTo(p, n + 1)) = Cardinality(UpTo(p, n)) + Cardinality(On(p, n + 1))
         /\ Cardinality(UpTo(p, 0)) = 0 /\ Cardinality(UpTo(p, g)) = k
<1>1. k \in Nat /\ g \in Nat /\ p \in [1 .. k -> 1 .. g] /\ DOMAIN p = 1 .. k
  BY DEF IsPlacement
<1>2. IsFiniteSet(1 .. k) /\ Cardinality(1 .. k) = k
  BY <1>1, FS_Interval
<1>3. ASSUME NEW S \in SUBSET (1 .. k) PROVE IsFiniteSet(S) /\ Cardinality(S) \in 0 .. k
  <2>1. IsFiniteSet(S) /\ Cardinality(S) <= Cardinality(1 .. k)
    BY <1>2, FS_Subset
  <2>2. Cardinality(S) \in Nat
    BY <2>1, FS_CardinalityType
  <2> QED BY <1>1, <1>2, <2>1, <2>2
<1>4. \A n : UpTo(p, n) \in SUBSET (1 .. k) /\ On(p, n) \in SUBSET (1 .. k)
  BY <1>1 DEF UpTo, On
<1>5. ASSUME NEW n \in Nat PROVE n \in Range(p) <=> Cardinality(On(p, n)) # 0
  <2>1. n \in Range(p) <=> On(p, n) # {}
    BY DEF Range, On
  <2>2. IsFiniteSet(On(p, n))
    BY <1>3, <1>4
  <2> QED BY <2>1, <2>2, FS_EmptySet
<1>6. ASSUME NEW n \in Nat
      PROVE  Cardinality(UpTo(p, n + 1)) = Cardinality(UpTo(p, n)) + Cardinality(On(p, n + 1))
  <2>1. UpTo(p, n + 1) = UpTo(p, n) \cup On(p, n + 1) /\ UpTo(p, n) \cap On(p, n + 1) = {}
    <3>1. \A i \in 1 .. k : p[i] \in Nat
      BY <1>1
    <3>2. \A i \in 1 .. k : p[i] <= n + 1 <=> p[i] <= n \/ p[i] = n + 1
      BY <3>1
    <3>3. \A i \in 1 .. k : ~(p[i] <= n /\ p[i] = n + 1)
      BY <3>1
    <3> QED BY <1>1, <3>2, <3>3 DEF UpTo, On
  <2>2. IsFiniteSet(UpTo(p, n)) /\ IsFiniteSet(On(p, n + 1))
    BY <1>3, <1>4
  <2>3. Cardinality(UpTo(p, n) \cup On(p, n + 1))
          = Cardinality(UpTo(p, n)) + Cardinality(On(p, n + 1)) - Cardinality(UpTo(p, n) \cap On(p, n + 1))
    BY <2>2, FS_Union
  <2>4. PICK a \in Nat, b \in Nat : a = Cardinality(UpTo(p, n)) /\ b = Cardinality(On(p, n + 1))
    BY <2>2, FS_CardinalityType
  <2>5. Cardinality(UpTo(p, n) \cap On(p, n + 1)) = 0
    BY <2>1, FS_EmptySet
  <2>6. Cardinality(UpTo(p, n + 1)) = a + b - 0
    BY <2>1, <2>3, <2>4, <2>5
  <2> QED BY <2>4, <2>6
<1>7. Cardinality(UpTo(p, 0)) = 0
  <2>1. UpTo(p, 0) = {}
    <3>1. \A i \in 1 .. k : ~(p[i] <= 0)
      BY <1>1
    <3> QED BY <1>1, <3>1 DEF UpTo
  <2> QED BY <2>1, FS_EmptySet
<1>8. Cardinality(UpTo(p, g)) = k
  <2>1. UpTo(p, g) = 1 .. k
    <3>1. \A i \in 1 .. k : p[i] <= g
      BY <1>1
    <3> QED BY <1>1, <3>1 DEF UpTo
  <2> QED BY <1>2, <2>1
<1> QED BY <1>3, <1>4, <1>5, <1>6, <1>7, <1>8

(* Where every node has as many groups, as many come up to each. *)
LEMMA SameCounts ==
  ASSUME NEW p, NEW q, NEW k, NEW g, IsPlacement(p, k, g), IsPlacement(q, k, g),
         \A n \in 1 .. g : Cardinality(On(p, n)) = Cardinality(On(q, n))
  PROVE  /\ Range(p) = Range(q)
         /\ \A n \in 0 .. g : Cardinality(UpTo(p, n)) = Cardinality(UpTo(q, n))
<1>1. g \in Nat /\ p \in [1 .. k -> 1 .. g] /\ q \in [1 .. k -> 1 .. g]
  BY DEF IsPlacement
<1>2. Range(p) \subseteq 1 .. g /\ Range(q) \subseteq 1 .. g
  BY <1>1 DEF Range
<1>3. ASSUME NEW n \in 1 .. g PROVE n \in Range(p) <=> n \in Range(q)
  <2>1. n \in Nat
    BY <1>1
  <2>2. n \in Range(p) <=> Cardinality(On(p, n)) # 0
    BY <2>1, CountsOf
  <2>3. n \in Range(q) <=> Cardinality(On(q, n)) # 0
    BY <2>1, CountsOf
  <2> QED BY <2>2, <2>3
<1>4. PICK Bad : Bad = {n \in 0 .. g : Cardinality(UpTo(p, n)) # Cardinality(UpTo(q, n))}
  OBVIOUS
<1>5. Bad = {}
  <2>1. SUFFICES ASSUME Bad # {} PROVE FALSE
    OBVIOUS
  <2>2. Bad \subseteq Nat
    BY <1>1, <1>4
  <2>3. PICK n \in Bad : \A m \in Bad : n <= m
    BY <2>1, <2>2, LeastNatural
  <2>4. n \in 0 .. g /\ n \in Nat
    BY <1>4, <2>2, <2>3
  <2>5. n # 0
    <3>1. Cardinality(UpTo(p, 0)) = 0
      BY CountsOf
    <3>2. Cardinality(UpTo(q, 0)) = 0
      BY CountsOf
    <3> QED BY <1>4, <2>3, <3>1, <3>2
  <2>6. PICK m \in Nat : n = m + 1 /\ m \in 0 .. g /\ n \in 1 .. g
    <3>1. n - 1 \in Nat /\ n = (n - 1) + 1 /\ n - 1 \in 0 .. g /\ n \in 1 .. g
      BY <1>1, <2>4, <2>5
    <3> QED BY <3>1
  <2>7. m \notin Bad
    <3>1. ~(n <= m)
      BY <2>6
    <3> QED BY <2>3, <3>1
  <2>8. Cardinality(UpTo(p, m)) = Cardinality(UpTo(q, m))
    BY <1>4, <2>6, <2>7
  <2>9. Cardinality(UpTo(p, m + 1)) = Cardinality(UpTo(p, m)) + Cardinality(On(p, m + 1))
    BY <2>6, CountsOf
  <2>10. Cardinality(UpTo(q, m + 1)) = Cardinality(UpTo(q, m)) + Cardinality(On(q, m + 1))
    BY <2>6, CountsOf
  <2>11. Cardinality(UpTo(p, n)) = Cardinality(UpTo(q, n))
    BY <2>6, <2>8, <2>9, <2>10
  <2> QED BY <1>4, <2>3, <2>11
<1> QED BY <1>2, <1>3, <1>4, <1>5

(* The placements of the code. *)
LEMMA PlacementIs ==
  ASSUME NEW d \in Deployments, NEW p \in Placements(d)
  PROVE  IsPlacement(p, NodeCount, Len(d.gpus)) /\ Nodes(d) = 1 .. Len(d.gpus) /\ DOMAIN p = 1 .. NodeCount
<1>1. d.gpus \in Seq(Nat)
  BY DeploymentsAssumption
<1>2. Nodes(d) = 1 .. Len(d.gpus) /\ Len(d.gpus) \in Nat
  BY <1>1 DEF Nodes
<1>3. p \in [1 .. NodeCount -> Nodes(d)]
  BY DEF Placements
<1> QED BY <1>2, <1>3, PoolAssumption DEF IsPlacement

(* Then sorting does not see which group is where. *)
LEMMA SameSort ==
  ASSUME NEW p, NEW q, NEW k, NEW g, IsPlacement(p, k, g), IsPlacement(q, k, g),
         \A n \in 1 .. g : Cardinality(On(p, n)) = Cardinality(On(q, n))
  PROVE  sort_placement_group_by_node_ip(p) = sort_placement_group_by_node_ip(q)
<1>1. /\ Range(p) = Range(q)
      /\ \A n \in 0 .. g : Cardinality(UpTo(p, n)) = Cardinality(UpTo(q, n))
  BY SameCounts
<1>2. g \in Nat /\ p \in [1 .. k -> 1 .. g] /\ DOMAIN p = 1 .. k /\ DOMAIN q = 1 .. k
  BY DEF IsPlacement
<1>3. ASSUME NEW i \in 1 .. k, NEW n PROVE IsPlace(p, i, n) <=> IsPlace(q, i, n)
  <2>1. CASE n \in Range(p)
    <3>1. n \in 1 .. g
      BY <1>2, <2>1 DEF Range
    <3>2. n \in 0 .. g /\ n - 1 \in 0 .. g
      BY <1>2, <3>1
    <3> QED BY <1>1, <3>2 DEF IsPlace
  <2>2. CASE n \notin Range(p)
    BY <1>1, <2>2 DEF IsPlace
  <2> QED BY <2>1, <2>2
<1>4. ASSUME NEW i \in 1 .. k PROVE PlaceOfGroup(p, i) = PlaceOfGroup(q, i)
  BY <1>3 DEF PlaceOfGroup
<1>5. sort_placement_group_by_node_ip(p) = [i \in 1 .. k |-> PlaceOfGroup(p, i)]
  BY <1>2, SortIs
<1>6. sort_placement_group_by_node_ip(q) = [i \in 1 .. k |-> PlaceOfGroup(q, i)]
  BY <1>2, SortIs
<1>7. [i \in 1 .. k |-> PlaceOfGroup(p, i)] = [i \in 1 .. k |-> PlaceOfGroup(q, i)]
  BY <1>4
<1> QED BY <1>5, <1>6, <1>7

(* So the ranks are where they were in every state. *)
LEMMA RanksAlwaysStay == PoolInv => RanksStay
<1> SUFFICES ASSUME PoolInv, placed # << >>, NEW p \in Placements(deployment),
                    \A n \in Nodes(deployment) :
                      Cardinality({k \in DOMAIN p : p[k] = n}) = Cardinality({k \in DOMAIN p : placed[k] = n}),
                    NEW r \in Ranks
             PROVE  NodeOf(p, r) = NodeOf(placed, r)
  BY DEF RanksStay
<1>1. deployment \in Deployments /\ placed \in Placements(deployment)
  BY DEF PoolInv
<1>2. PICK g, k : g = Len(deployment.gpus) /\ k = NodeCount
  OBVIOUS
<1>3. /\ IsPlacement(p, k, g) /\ IsPlacement(placed, k, g) /\ Nodes(deployment) = 1 .. g
      /\ DOMAIN p = 1 .. k /\ DOMAIN placed = 1 .. k
  BY <1>1, <1>2, PlacementIs
<1>4. ASSUME NEW n \in 1 .. g PROVE Cardinality(On(p, n)) = Cardinality(On(placed, n))
  BY <1>3 DEF On
<1>5. sort_placement_group_by_node_ip(p) = sort_placement_group_by_node_ip(placed)
  BY <1>3, <1>4, SameSort
<1> QED BY <1>5 DEF NodeOf

----------------------------------------------------------------------------
(* Nodes that are used alike *)

(* Every node that has groups has c of them. *)
Spread(p, c) == \A n \in Range(p) : Cardinality(On(p, n)) = c

(* Groups spread evenly fill the nodes in whole numbers of c. *)
LEMMA WholeNodes ==
  ASSUME NEW p, NEW k, NEW g, IsPlacement(p, k, g), NEW c \in Nat, Spread(p, c), NEW n \in Nat
  PROVE  \E q \in Nat : Cardinality(UpTo(p, n)) = c * q
<1>1. PICK Bad : Bad = {m \in Nat : ~ \E q \in Nat : Cardinality(UpTo(p, m)) = c * q}
  OBVIOUS
<1>2. Bad = {}
  <2>1. SUFFICES ASSUME Bad # {} PROVE FALSE
    OBVIOUS
  <2>2. Bad \subseteq Nat
    BY <1>1
  <2>3. PICK x \in Bad : \A m \in Bad : x <= m
    BY <2>1, <2>2, LeastNatural
  <2>4. x \in Nat
    BY <2>2, <2>3
  <2>5. x # 0
    <3>1. Cardinality(UpTo(p, 0)) = 0 /\ c * 0 = 0
      BY CountsOf
    <3> QED BY <1>1, <2>3, <3>1
  <2>6. PICK m \in Nat : x = m + 1
    <3>1. x - 1 \in Nat /\ x = (x - 1) + 1
      BY <2>4, <2>5
    <3> QED BY <3>1
  <2>7. m \notin Bad
    <3>1. ~(x <= m)
      BY <2>6
    <3> QED BY <2>3, <3>1
  <2>8. PICK q \in Nat : Cardinality(UpTo(p, m)) = c * q
    BY <1>1, <2>6, <2>7
  <2>9. Cardinality(UpTo(p, m + 1)) = Cardinality(UpTo(p, m)) + Cardinality(On(p, m + 1))
    BY <2>6, CountsOf
  <2>10. CASE m + 1 \in Range(p)
    <3>1. Cardinality(On(p, m + 1)) = c
      BY <2>10 DEF Spread
    <3>2. c * (q + 1) = c * q + c
      BY <2>8
    <3>3. Cardinality(UpTo(p, x)) = c * (q + 1) /\ q + 1 \in Nat
      BY <2>6, <2>8, <2>9, <3>1, <3>2
    <3> QED BY <1>1, <2>3, <3>3
  <2>11. CASE m + 1 \notin Range(p)
    <3>1. m + 1 \in Nat
      BY <2>6
    <3>2. Cardinality(On(p, m + 1)) = 0
      BY <2>11, <3>1, CountsOf
    <3>3. c * q \in Nat
      BY <2>8
    <3>4. Cardinality(UpTo(p, x)) = c * q
      BY <2>6, <2>8, <2>9, <3>2, <3>3
    <3> QED BY <1>1, <2>3, <2>8, <3>4
  <2> QED BY <2>10, <2>11
<1> QED BY <1>1, <1>2

(* Every group has its place. *)
LEMMA PlaceFound ==
  ASSUME NEW p, NEW k, NEW g, IsPlacement(p, k, g), NEW i \in 1 .. k
  PROVE  IsPlace(p, i, PlaceOfGroup(p, i))
<1>1. k \in Nat /\ g \in Nat
  BY DEF IsPlacement
<1>2. PICK Far : Far = {n \in Nat : i <= Cardinality(UpTo(p, n))}
  OBVIOUS
<1>3. g \in Far
  <2>1. Cardinality(UpTo(p, g)) = k
    BY CountsOf
  <2> QED BY <1>1, <1>2, <2>1
<1>4. Far \subseteq Nat
  BY <1>2
<1>5. PICK n \in Far : \A m \in Far : n <= m
  BY <1>3, <1>4, LeastNatural
<1>6. n \in Nat /\ i <= Cardinality(UpTo(p, n))
  BY <1>2, <1>5
<1>7. n # 0
  <2>1. Cardinality(UpTo(p, 0)) = 0
    BY CountsOf
  <2> QED BY <1>1, <1>6, <2>1
<1>8. PICK m \in Nat : n = m + 1 /\ m = n - 1
  <2>1. n - 1 \in Nat /\ n = (n - 1) + 1
    BY <1>6, <1>7
  <2> QED BY <2>1
<1>9. m \notin Far
  <2>1. ~(n <= m)
    BY <1>8
  <2> QED BY <1>5, <2>1
<1>10. Cardinality(UpTo(p, m)) \in 0 .. k
  BY <1>8, CountsOf
<1>11. Cardinality(UpTo(p, m)) < i
  BY <1>1, <1>2, <1>8, <1>9, <1>10
<1>12. n \in Range(p)
  <2>1. Cardinality(UpTo(p, m + 1)) = Cardinality(UpTo(p, m)) + Cardinality(On(p, m + 1))
    BY <1>8, CountsOf
  <2>2. Cardinality(On(p, n)) # 0
    BY <1>6, <1>8, <1>10, <1>11, <2>1
  <2> QED BY <1>6, <2>2, CountsOf
<1>13. IsPlace(p, i, n)
  BY <1>6, <1>8, <1>11, <1>12 DEF IsPlace
<1> QED BY <1>13 DEF PlaceOfGroup

(* The groups before those of a group's node are whole rounds of c.         *)
LEMMA BeforePlace ==
  ASSUME NEW p, NEW k, NEW g, IsPlacement(p, k, g), NEW c \in Nat \ {0}, Spread(p, c),
         NEW i \in 1 .. k, NEW n, IsPlace(p, i, n)
  PROVE  /\ n \in Nat \ {0} /\ Quot(i - 1, c) \in Nat
         /\ Cardinality(UpTo(p, n - 1)) = c * Quot(i - 1, c)
         /\ Cardinality(UpTo(p, n)) = c * Quot(i - 1, c) + c
<1>1. k \in Nat /\ g \in Nat /\ p \in [1 .. k -> 1 .. g]
  BY DEF IsPlacement
<1>2. n \in Range(p) /\ Cardinality(UpTo(p, n - 1)) < i /\ i <= Cardinality(UpTo(p, n))
  BY DEF IsPlace
<1>3. PICK m \in Nat : n = m + 1 /\ m = n - 1
  <2>1. n \in 1 .. g
    BY <1>1, <1>2 DEF Range
  <2>2. n - 1 \in Nat /\ n = (n - 1) + 1
    BY <1>1, <2>1
  <2> QED BY <2>2
<1>4. PICK q \in Nat : Cardinality(UpTo(p, m)) = c * q
  BY <1>3, WholeNodes
<1>5. Cardinality(UpTo(p, m + 1)) = Cardinality(UpTo(p, m)) + Cardinality(On(p, m + 1))
  BY <1>3, CountsOf
<1>6. Cardinality(On(p, n)) = c
  BY <1>2 DEF Spread
<1>7. PICK x \in Nat : x = c * q
  BY <1>4
<1>8. Cardinality(UpTo(p, m)) = x /\ Cardinality(UpTo(p, n)) = x + c
  BY <1>3, <1>4, <1>5, <1>6, <1>7
<1>9. x < i /\ i <= x + c
  BY <1>2, <1>3, <1>8
<1>10. IsDivision(i - 1, c, q, i - 1 - x)
  <2>1. i - 1 - x \in 0 .. c - 1 /\ i - 1 = x + (i - 1 - x)
    BY <1>1, <1>7, <1>9
  <2> QED BY <1>4, <1>7, <2>1 DEF IsDivision
<1>11. Quot(i - 1, c) = q
  BY <1>10, Quotient
<1> QED BY <1>3, <1>4, <1>7, <1>8, <1>11

(* On evenly used nodes the sorted groups change node every c groups. *)
LEMMA EvenPlaces ==
  ASSUME NEW p, NEW k, NEW g, IsPlacement(p, k, g), NEW c \in Nat \ {0}, Spread(p, c),
         NEW i \in 1 .. k, NEW j \in 1 .. k
  PROVE  PlaceOfGroup(p, i) = PlaceOfGroup(p, j) <=> Quot(i - 1, c) = Quot(j - 1, c)
<1>1. PICK m, n : m = PlaceOfGroup(p, i) /\ n = PlaceOfGroup(p, j)
  OBVIOUS
<1>2. IsPlace(p, i, m) /\ IsPlace(p, j, n)
  BY <1>1, PlaceFound
<1>3. PICK a \in Nat, b \in Nat : a = Quot(i - 1, c) /\ b = Quot(j - 1, c)
  BY <1>2, BeforePlace
<1>4. m \in Nat \ {0} /\ Cardinality(UpTo(p, m - 1)) = c * a /\ Cardinality(UpTo(p, m)) = c * a + c
  BY <1>2, <1>3, BeforePlace
<1>5. n \in Nat \ {0} /\ Cardinality(UpTo(p, n - 1)) = c * b /\ Cardinality(UpTo(p, n)) = c * b + c
  BY <1>2, <1>3, BeforePlace
<1>6. ASSUME m = n PROVE a = b
  <2>1. c * a = c * b
    BY <1>4, <1>5, <1>6
  <2>2. a < b => c * a + c <= c * b
    BY <1>3, Ordered
  <2>3. b < a => c * b + c <= c * a
    BY <1>3, Ordered
  <2>4. PICK x \in Nat : x = c * a /\ x = c * b
    BY <1>3, <2>1
  <2> QED BY <1>3, <2>2, <2>3, <2>4
<1>7. ASSUME NEW x \in Nat \ {0}, NEW y \in Nat \ {0}, x < y
      PROVE  Cardinality(UpTo(p, x)) <= Cardinality(UpTo(p, y - 1))
  <2>1. k \in Nat /\ g \in Nat /\ p \in [1 .. k -> 1 .. g] /\ DOMAIN p = 1 .. k
    BY DEF IsPlacement
  <2>2. UpTo(p, x) \subseteq UpTo(p, y - 1)
    <3>1. \A l \in 1 .. k : p[l] \in Nat
      BY <2>1
    <3>2. \A l \in 1 .. k : p[l] <= x => p[l] <= y - 1
      BY <1>7, <3>1
    <3> QED BY <2>1, <3>2 DEF UpTo
  <2>3. IsFiniteSet(UpTo(p, y - 1))
    <3>1. IsFiniteSet(1 .. k)
      BY <2>1, FS_Interval
    <3>2. UpTo(p, y - 1) \in SUBSET (1 .. k)
      BY <2>1 DEF UpTo
    <3> QED BY <3>1, <3>2, FS_Subset
  <2> QED BY <2>2, <2>3, FS_Subset
<1>8. ASSUME a = b PROVE m = n
  <2>1. PICK x \in Nat : x = c * a /\ x = c * b
    BY <1>3, <1>8
  <2>2. ~(m < n)
    <3>1. m < n => Cardinality(UpTo(p, m)) <= Cardinality(UpTo(p, n - 1))
      BY <1>4, <1>5, <1>7
    <3> QED BY <1>4, <1>5, <2>1, <3>1
  <2>3. ~(n < m)
    <3>1. n < m => Cardinality(UpTo(p, n)) <= Cardinality(UpTo(p, m - 1))
      BY <1>4, <1>5, <1>7
    <3> QED BY <1>4, <1>5, <2>1, <3>1
  <2> QED BY <1>4, <1>5, <2>2, <2>3
<1> QED BY <1>1, <1>3, <1>6, <1>8

----------------------------------------------------------------------------
(* The devices of a rank *)

(* c groups to every node make l ranks of a node follow each other.         *)
EvenNodes(c, l) ==
  /\ c \in Nat \ {0} /\ l = PerNode * c /\ Spread(placed, c)
  /\ \E g : IsPlacement(placed, NodeCount, g)

(* Then two ranks are on one node exactly when their quotients agree. *)
LEMMA NodesAlike ==
  ASSUME NEW c, NEW l, EvenNodes(c, l), NEW q \in Ranks, NEW r \in Ranks
  PROVE  NodeOf(placed, q) = NodeOf(placed, r) <=> Quot(q, l) = Quot(r, l)
<1>1. PICK k \in Nat \ {0}, m \in Nat \ {0} : k = NodeCount /\ m = PerNode
  BY PoolAssumption
<1>2. PICK g : IsPlacement(placed, k, g)
  BY <1>1 DEF EvenNodes
<1>3. c \in Nat \ {0} /\ Spread(placed, c) /\ l = m * c
  BY <1>1 DEF EvenNodes
<1>4. DOMAIN placed = 1 .. k
  BY <1>2 DEF IsPlacement
<1>5. ASSUME NEW x \in Ranks
      PROVE  /\ Quot(x, m) \in 0 .. k - 1 /\ NodeOf(placed, x) = PlaceOfGroup(placed, Quot(x, m) + 1)
             /\ Quot(x, l) = Quot(Quot(x, m), c)
  <2>1. x \in Nat /\ x < m * k
    <3>1. PICK w \in Nat : w = m * k /\ w = WorldSize
      BY <1>1 DEF WorldSize
    <3>2. x \in 0 .. w - 1
      BY <3>1, World
    <3> QED BY <3>1, <3>2
  <2>2. PICK y \in Nat : y = Quot(x, m)
    BY <2>1, Division
  <2>3. y < k
    BY <2>1, <2>2, SmallerQuotient
  <2>4. y + 1 \in 1 .. k
    BY <2>3
  <2>5. NodeOf(placed, x) = sort_placement_group_by_node_ip(placed)[y + 1]
    BY <1>1, <2>2 DEF NodeOf, Quot
  <2>6. NodeOf(placed, x) = PlaceOfGroup(placed, y + 1)
    BY <1>4, <2>4, <2>5, SortIs
  <2>7. Quot(x, l) = Quot(y, c)
    BY <1>3, <2>1, <2>2, TwoDivisions
  <2> QED BY <2>2, <2>3, <2>6, <2>7
<1>6. PICK a \in 0 .. k - 1, b \in 0 .. k - 1 : a = Quot(q, m) /\ b = Quot(r, m)
  BY <1>5
<1>7. PICK i \in 1 .. k, j \in 1 .. k : i = a + 1 /\ j = b + 1 /\ i - 1 = a /\ j - 1 = b
  <2>1. a + 1 \in 1 .. k /\ b + 1 \in 1 .. k /\ (a + 1) - 1 = a /\ (b + 1) - 1 = b
    OBVIOUS
  <2> QED BY <2>1
<1>8. PlaceOfGroup(placed, i) = PlaceOfGroup(placed, j) <=> Quot(i - 1, c) = Quot(j - 1, c)
  BY <1>2, <1>3, EvenPlaces
<1> QED BY <1>5, <1>6, <1>7, <1>8

(* The ranks of a node before a rank are those since the node's first.      *)
LEMMA DeviceIs ==
  ASSUME NEW c, NEW l, EvenNodes(c, l), NEW r \in Ranks
  PROVE  DeviceOf(r) = Rest(r, l)
<1>1. l \in Nat \ {0}
  <2>1. PICK m \in Nat \ {0}, d \in Nat \ {0} : m = PerNode /\ d = c
    BY PoolAssumption DEF EvenNodes
  <2>2. m * d \in Nat \ {0}
    OBVIOUS
  <2> QED BY <2>1, <2>2 DEF EvenNodes
<1>2. r \in Nat
  BY World
<1>3. PICK q \in Nat, s \in 0 .. l - 1 : q = Quot(r, l) /\ s = Rest(r, l) /\ r = l * q + s
  BY <1>1, <1>2, Division
<1>4. PICK x \in Nat : x = l * q /\ r = x + s
  BY <1>1, <1>3
<1>5. ASSUME NEW p \in 0 .. r - 1 PROVE NodeOf(placed, p) = NodeOf(placed, r) <=> p \in x .. r - 1
  <2>1. p \in Ranks /\ p \in Nat
    <3>1. PICK w \in Nat : w = WorldSize
      BY World
    <3>2. r \in 0 .. w - 1
      BY <3>1, World
    <3>3. p \in 0 .. w - 1
      BY <3>2
    <3> QED BY <3>1, <3>3, World
  <2>2. NodeOf(placed, p) = NodeOf(placed, r) <=> Quot(p, l) = q
    BY <1>3, <2>1, NodesAlike
  <2>3. ASSUME p >= x PROVE Quot(p, l) = q
    <3>1. p - x \in 0 .. l - 1 /\ p = x + (p - x)
      BY <1>1, <1>3, <1>4, <2>1, <2>3
    <3>2. IsDivision(p, l, q, p - x)
      BY <1>3, <1>4, <3>1 DEF IsDivision
    <3> QED BY <1>1, <3>2, Quotient
  <2>4. ASSUME Quot(p, l) = q PROVE p >= x
    <3>1. Rest(p, l) \in 0 .. l - 1 /\ p = l * q + Rest(p, l)
      BY <1>1, <2>1, <2>4, Division
    <3>2. p = x + Rest(p, l)
      BY <1>4, <3>1
    <3> QED BY <3>1, <3>2
  <2> QED BY <1>2, <2>1, <2>2, <2>3, <2>4
<1>6. {p \in 0 .. r - 1 : NodeOf(placed, p) = NodeOf(placed, r)} = x .. r - 1
  <2>1. \A p \in x .. r - 1 : p \in 0 .. r - 1
    BY <1>2
  <2> QED BY <1>5, <2>1
<1>7. Cardinality(x .. r - 1) = s
  <2>1. Cardinality(x .. r - 1) = IF x > r - 1 THEN 0 ELSE (r - 1) - x + 1
    BY <1>2, FS_Interval
  <2> QED BY <1>2, <1>4, <2>1
<1> QED BY <1>3, <1>6, <1>7 DEF DeviceOf

(* The ranks t*k to t*k + t - 1, on one node with others. *)
LEMMA WithinNode ==
  ASSUME NEW t \in Nat \ {0}, NEW m \in Nat \ {0}, NEW l, l = t * m, NEW k \in Nat, NEW j \in 0 .. t - 1,
         NEW x, x = t * k + j
  PROVE  /\ Rest(x, t) = j /\ Quot(x, l) = Quot(k, m) /\ Rest(x, l) = t * Rest(k, m) + j
         /\ Rest(k, m) \in Nat
<1>1. IsDivision(x, t, k, j)
  BY DEF IsDivision
<1>2. Quot(x, t) = k /\ Rest(x, t) = j
  BY <1>1, Quotient
<1>3. x \in Nat
  OBVIOUS
<1>4. Quot(x, l) = Quot(k, m) /\ Rest(x, l) = t * Rest(k, m) + j
  BY <1>2, <1>3, TwoDivisions
<1>5. Rest(k, m) \in Nat
  BY Division
<1> QED BY <1>2, <1>4, <1>5

(* They have whole nodes of l ranks. *)
IsProduct(a, b, c) == a = b * c

(* A rank of a group of whole nodes, by its place in the group. *)
LEMMA OverNodes ==
  ASSUME NEW l \in Nat \ {0}, NEW m \in Nat \ {0}, NEW t, IsProduct(t, l, m), NEW k \in Nat, NEW j \in 0 .. t - 1,
         NEW x, IsDivision(x, t, k, j), NEW n, IsProduct(n, m, k)
  PROVE  Rest(x, t) = j /\ Rest(x, l) = Rest(j, l) /\ Quot(x, l) = n + Quot(j, l)
<1>0. t = l * m /\ n = m * k
  BY DEF IsProduct
<1>1. t \in Nat \ {0}
  <2>1. l * m \in Nat \ {0}
    OBVIOUS
  <2> QED BY <1>0, <2>1
<1>2. x = t * k + j
  BY DEF IsDivision
<1>3. Rest(x, t) = j
  BY <1>1, Quotient
<1>4. PICK q \in Nat, s \in 0 .. l - 1 : q = Quot(j, l) /\ s = Rest(j, l) /\ j = l * q + s
  <2>1. j \in Nat
    BY <1>1
  <2> QED BY <2>1, Division, ZenonT(40)
<1>5. x = l * (m * k + q) + s
  <2>1. l * (m * k + q) = (l * m) * k + l * q
    BY <1>4
  <2>2. PICK a \in Nat : a = (l * m) * k
    OBVIOUS
  <2>3. PICK b \in Nat : b = l * q
    BY <1>4
  <2>4. x = a + j
    BY <1>0, <1>2, <2>2
  <2>5. j = b + s
    BY <1>4, <2>3
  <2>6. l * (m * k + q) = a + b
    BY <2>1, <2>2, <2>3
  <2>7. x = (a + b) + s
    BY <2>4, <2>5
  <2> QED BY <2>6, <2>7
<1>6. IsDivision(x, l, m * k + q, s)
  <2>1. m * k + q \in Nat
    BY <1>4
  <2> QED BY <1>4, <1>5, <2>1 DEF IsDivision
<1>7. Quot(x, l) = m * k + q /\ Rest(x, l) = s
  BY <1>6, Quotient
<1> QED BY <1>0, <1>3, <1>4, <1>7

----------------------------------------------------------------------------
(* The processes of an engine *)

(* The k-th t ranks, the devices they have where l ranks are on a node, and *)
(* the first of every s of them.                                            *)
GroupOf(t, k) == {First(t, k) + j : j \in 0 .. t - 1}
DevicesOf(t, l, k) == {Rest(x, l) : x \in GroupOf(t, k)}
MakersOf(t, k, s) == {x \in GroupOf(t, k) : Rest(Rest(x, t), s) = 0}

(* The sizes come out as s, and the makers' nodes have the devices of all,  *)
(* each maker on a node of its own.                                         *)
Processes(t, l, k, s) ==
  /\ s \in Nat \ {0} /\ IsFiniteSet(DevicesOf(t, l, k)) /\ Cardinality(DevicesOf(t, l, k)) = s
  /\ DevicesOf(t, l, k) \subseteq Nat
  /\ Quot(t, Quot(t + s - 1, s)) = s
  /\ \A q \in MakersOf(t, k, s), v \in DevicesOf(t, l, k) : \E x \in GroupOf(t, k) : Quot(x, l) = Quot(q, l) /\ Rest(x, l) = v
  /\ \A x \in GroupOf(t, k) : \E q \in MakersOf(t, k, s) : Quot(q, l) = Quot(x, l)
  /\ \A p, q \in MakersOf(t, k, s) : Quot(p, l) = Quot(q, l) => p = q

(* Engines within a node: every rank makes a process. *)
LEMMA ProcessWithin ==
  ASSUME NEW t \in Nat \ {0}, NEW m \in Nat \ {0}, NEW l, l = t * m, NEW k \in Nat
  PROVE  Processes(t, l, k, t)
<1>1. PICK b \in Nat : b = First(t, k) /\ b = t * k
  BY DEF First
<1>2. PICK e \in Nat : e = t * Rest(k, m)
  <2>1. Rest(k, m) \in Nat
    BY Division
  <2> QED BY <2>1
<1>3. ASSUME NEW j \in 0 .. t - 1
      PROVE  Rest(b + j, t) = j /\ Quot(b + j, l) = Quot(k, m) /\ Rest(b + j, l) = e + j
  <2>1. PICK x : x = b + j
    OBVIOUS
  <2>2. x = t * k + j
    BY <1>1, <2>1
  <2>3. Rest(x, t) = j /\ Quot(x, l) = Quot(k, m) /\ Rest(x, l) = t * Rest(k, m) + j
    <3> HIDE <1>1, <1>2, <2>1
    <3> QED BY <2>2, WithinNode
  <2> QED BY <1>2, <2>1, <2>3
<1>4. GroupOf(t, k) = {b + j : j \in 0 .. t - 1}
  BY <1>1 DEF GroupOf
<1>5. DevicesOf(t, l, k) = e .. e + t - 1
  <2>1. ASSUME NEW v \in DevicesOf(t, l, k) PROVE v \in e .. e + t - 1
    <3>1. PICK j \in 0 .. t - 1 : v = Rest(b + j, l)
      BY <1>4 DEF DevicesOf
    <3>2. v = e + j
      BY <1>3, <3>1
    <3> QED BY <1>2, <3>2
  <2>2. ASSUME NEW v \in e .. e + t - 1 PROVE v \in DevicesOf(t, l, k)
    <3>1. PICK j \in 0 .. t - 1 : v = e + j
      <4>1. v - e \in 0 .. t - 1 /\ v = e + (v - e)
        BY <1>2
      <4> QED BY <4>1
    <3>2. v = Rest(b + j, l) /\ b + j \in GroupOf(t, k)
      BY <1>3, <1>4, <3>1
    <3> QED BY <3>2 DEF DevicesOf
  <2> QED BY <2>1, <2>2
<1>6. IsFiniteSet(DevicesOf(t, l, k)) /\ Cardinality(DevicesOf(t, l, k)) = t /\ DevicesOf(t, l, k) \subseteq Nat
  <2>1. PICK f \in Int : f = e + t - 1
    BY <1>2
  <2>0. e \in Int /\ f \in Int
    BY <1>2
  <2>2. IsFiniteSet(e .. f) /\ Cardinality(e .. f) = IF e > f THEN 0 ELSE f - e + 1
    BY <2>0, FS_Interval
  <2>3. Cardinality(e .. f) = t
    BY <1>2, <2>1, <2>2
  <2> QED BY <1>2, <1>5, <2>1, <2>2, <2>3, SMTT(30)
<1>7. Quot(t, Quot(t + t - 1, t)) = t
  <2>1. IsDivision(t + t - 1, t, 1, t - 1)
    BY DEF IsDivision
  <2>2. Quot(t + t - 1, t) = 1
    BY <2>1, Quotient
  <2>3. IsDivision(t, 1, t, 0)
    BY DEF IsDivision
  <2>4. 1 \in Nat \ {0}
    OBVIOUS
  <2>5. Quot(t, 1) = t
    BY <2>3, <2>4, Quotient
  <2> QED BY <2>2, <2>5
<1>8. ASSUME NEW j \in 0 .. t - 1 PROVE Rest(j, t) = j
  <2>1. IsDivision(j, t, 0, j)
    BY DEF IsDivision
  <2> QED BY <2>1, Quotient
<1>9. MakersOf(t, k, t) = {b}
  <2>1. ASSUME NEW x \in MakersOf(t, k, t) PROVE x = b
    <3>1. PICK j \in 0 .. t - 1 : x = b + j
      BY <1>4 DEF MakersOf
    <3>2. Rest(x, t) = j /\ Rest(Rest(x, t), t) = 0
      BY <1>3, <3>1 DEF MakersOf
    <3>3. j = 0
      BY <1>8, <3>2
    <3> QED BY <1>1, <3>1, <3>3
  <2>2. b \in MakersOf(t, k, t)
    <3>1. 0 \in 0 .. t - 1 /\ b + 0 = b
      BY <1>1
    <3>2. b \in GroupOf(t, k) /\ Rest(b, t) = 0
      BY <1>3, <1>4, <3>1
    <3> QED BY <1>8, <3>1, <3>2 DEF MakersOf
  <2> QED BY <2>1, <2>2
<1>10. \A x \in GroupOf(t, k) : Quot(x, l) = Quot(k, m)
  BY <1>3, <1>4
<1>11. b \in GroupOf(t, k)
  BY <1>9 DEF MakersOf
<1>12. ASSUME NEW v \in DevicesOf(t, l, k) PROVE \E x \in GroupOf(t, k) : Quot(x, l) = Quot(b, l) /\ Rest(x, l) = v
  BY <1>10, <1>11 DEF DevicesOf
<1> QED BY <1>6, <1>7, <1>9, <1>10, <1>11, <1>12 DEF Processes

(* Engines over several nodes: one rank of each node makes its processes. *)
LEMMA ProcessOver ==
  ASSUME NEW l \in Nat \ {0}, NEW m \in Nat \ {0}, NEW t, t = l * m, NEW k \in Nat
  PROVE  Processes(t, l, k, l)
<1>0. t \in Nat \ {0} /\ l <= t
  <2>1. l * 0 + l <= l * m
    BY Ordered
  <2>2. PICK x \in Nat : x = l * m
    OBVIOUS
  <2> QED BY <2>1, <2>2
<1>1. PICK b \in Nat : b = First(t, k) /\ b = t * k
  BY <1>0 DEF First
<1>2. PICK n \in Nat : n = m * k
  OBVIOUS
<1>3. ASSUME NEW j \in 0 .. t - 1
      PROVE  Rest(b + j, t) = j /\ Quot(b + j, l) = n + Quot(j, l) /\ Rest(b + j, l) = Rest(j, l)
  <2>1. PICK x : x = b + j
    OBVIOUS
  <2>2. x = t * k + j
    BY <1>1, <2>1
  <2>3. Rest(x, t) = j /\ Rest(x, l) = Rest(j, l) /\ Quot(x, l) = n + Quot(j, l)
    <3>1. IsDivision(x, t, k, j)
      BY <1>0, <2>2 DEF IsDivision
    <3>2. IsProduct(t, l, m) /\ IsProduct(n, m, k)
      BY <1>2 DEF IsProduct
    <3> HIDE <1>0, <1>1, <1>2, <2>1
    <3> QED BY <3>1, <3>2, OverNodes
  <2> QED BY <1>2, <2>1, <2>3
<1>4. GroupOf(t, k) = {b + j : j \in 0 .. t - 1}
  BY <1>1 DEF GroupOf
<1>5. ASSUME NEW j \in 0 .. t - 1
      PROVE  \E i \in 0 .. m - 1, s \in 0 .. l - 1 : i = Quot(j, l) /\ s = Rest(j, l) /\ j = l * i + s
  <2>0. j \in Nat
    BY <1>0
  <2>1. j < l * m
    BY <1>0
  <2>2. PICK i \in Nat, s \in 0 .. l - 1 : i = Quot(j, l) /\ s = Rest(j, l) /\ j = l * i + s
    BY <2>0, Division, ZenonT(40)
  <2>3. i < m
    BY <2>0, <2>1, <2>2, SmallerQuotient
  <2> QED BY <2>2, <2>3
<1>6. ASSUME NEW i \in 0 .. m - 1, NEW s \in 0 .. l - 1
      PROVE  l * i + s \in 0 .. t - 1 /\ Quot(l * i + s, l) = i /\ Rest(l * i + s, l) = s
  <2>1. l * i + l <= l * m
    BY Ordered
  <2>2. PICK x \in Nat, y \in Nat : x = l * i /\ y = l * m
    OBVIOUS
  <2>3. x + s \in 0 .. t - 1
    BY <2>1, <2>2
  <2>4. IsDivision(x + s, l, i, s)
    BY <2>2 DEF IsDivision
  <2>5. Quot(x + s, l) = i /\ Rest(x + s, l) = s
    BY <2>4, Quotient
  <2> QED BY <2>2, <2>3, <2>5
<1>7. DevicesOf(t, l, k) = 0 .. l - 1
  <2>1. ASSUME NEW v \in DevicesOf(t, l, k) PROVE v \in 0 .. l - 1
    <3>1. PICK j \in 0 .. t - 1 : v = Rest(b + j, l)
      BY <1>4 DEF DevicesOf
    <3>2. v = Rest(j, l)
      BY <1>3, <3>1
    <3>3. PICK s \in 0 .. l - 1 : s = Rest(j, l)
      BY <1>5
    <3> QED BY <3>2, <3>3
  <2>2. ASSUME NEW v \in 0 .. l - 1 PROVE v \in DevicesOf(t, l, k)
    <3>1. 0 \in 0 .. m - 1 /\ l * 0 + v = v
      OBVIOUS
    <3>2. v \in 0 .. t - 1 /\ Rest(v, l) = v
      BY <1>6, <3>1
    <3>3. v = Rest(b + v, l) /\ b + v \in GroupOf(t, k)
      BY <1>3, <1>4, <3>2
    <3> QED BY <3>3 DEF DevicesOf
  <2> QED BY <2>1, <2>2
<1>8. IsFiniteSet(DevicesOf(t, l, k)) /\ Cardinality(DevicesOf(t, l, k)) = l /\ DevicesOf(t, l, k) \subseteq Nat
  <2>1. PICK f \in Int : f = l - 1
    OBVIOUS
  <2>2. IsFiniteSet(0 .. f) /\ Cardinality(0 .. f) = IF 0 > f THEN 0 ELSE f - 0 + 1
    BY <2>1, FS_Interval
  <2>3. Cardinality(0 .. f) = l
    BY <2>1, <2>2
  <2> QED BY <1>7, <2>1, <2>2, <2>3
<1>9. Quot(t, Quot(t + l - 1, l)) = l
  <2>1. IsDivision(t + l - 1, l, m, l - 1)
    <3>1. PICK x \in Nat : x = l * m
      OBVIOUS
    <3> QED BY <3>1 DEF IsDivision
  <2>2. Quot(t + l - 1, l) = m
    BY <2>1, Quotient
  <2>3. IsDivision(t, m, l, 0)
    <3>1. PICK x \in Nat : x = l * m /\ x = m * l
      OBVIOUS
    <3> QED BY <3>1 DEF IsDivision
  <2>4. Quot(t, m) = l
    BY <2>3, Quotient
  <2> QED BY <2>2, <2>4
<1>10. ASSUME NEW x \in MakersOf(t, k, l)
       PROVE  \E i \in 0 .. m - 1 : x = b + (l * i + 0) /\ Quot(x, l) = n + i
  <2>1. PICK j \in 0 .. t - 1 : x = b + j
    BY <1>4 DEF MakersOf
  <2>2. Rest(j, l) = 0
    BY <1>3, <2>1 DEF MakersOf
  <2>3. PICK i \in 0 .. m - 1, s \in 0 .. l - 1 : i = Quot(j, l) /\ s = Rest(j, l) /\ j = l * i + s
    BY <1>5
  <2> QED BY <1>3, <2>1, <2>2, <2>3
<1>11. ASSUME NEW i \in 0 .. m - 1, NEW s \in 0 .. l - 1
       PROVE  /\ b + (l * i + s) \in GroupOf(t, k)
              /\ Quot(b + (l * i + s), l) = n + i /\ Rest(b + (l * i + s), l) = s
              /\ s = 0 => b + (l * i + s) \in MakersOf(t, k, l)
  <2>1. PICK j \in 0 .. t - 1 : j = l * i + s /\ Quot(j, l) = i /\ Rest(j, l) = s
    BY <1>6
  <2>2. b + j \in GroupOf(t, k)
    BY <1>4
  <2>3. Rest(b + j, t) = j /\ Quot(b + j, l) = n + i /\ Rest(b + j, l) = s
    BY <1>3, <2>1
  <2>4. s = 0 => b + j \in MakersOf(t, k, l)
    BY <2>1, <2>2, <2>3 DEF MakersOf
  <2> QED BY <2>1, <2>2, <2>3, <2>4
<1>12. ASSUME NEW q \in MakersOf(t, k, l), NEW v \in DevicesOf(t, l, k)
       PROVE  \E x \in GroupOf(t, k) : Quot(x, l) = Quot(q, l) /\ Rest(x, l) = v
  <2>1. PICK i \in 0 .. m - 1 : Quot(q, l) = n + i
    BY <1>10
  <2>2. v \in 0 .. l - 1
    BY <1>7
  <2>3. PICK x : x = b + (l * i + v)
    OBVIOUS
  <2>4. x \in GroupOf(t, k) /\ Quot(x, l) = n + i /\ Rest(x, l) = v
    BY <1>11, <2>2, <2>3
  <2> QED BY <2>1, <2>4
<1>13. ASSUME NEW x \in GroupOf(t, k) PROVE \E q \in MakersOf(t, k, l) : Quot(q, l) = Quot(x, l)
  <2>1. PICK j \in 0 .. t - 1 : x = b + j
    BY <1>4
  <2>2. PICK i \in 0 .. m - 1, s \in 0 .. l - 1 : i = Quot(j, l) /\ s = Rest(j, l) /\ j = l * i + s
    BY <1>5
  <2>3. Quot(x, l) = n + i
    BY <1>3, <2>1, <2>2
  <2>4. 0 \in 0 .. l - 1
    OBVIOUS
  <2>5. PICK q : q = b + (l * i + 0)
    OBVIOUS
  <2>6. q \in MakersOf(t, k, l) /\ Quot(q, l) = n + i
    BY <1>11, <2>4, <2>5
  <2> QED BY <2>3, <2>6
<1>14. ASSUME NEW p \in MakersOf(t, k, l), NEW q \in MakersOf(t, k, l), Quot(p, l) = Quot(q, l) PROVE p = q
  <2>1. PICK i \in 0 .. m - 1 : p = b + (l * i + 0) /\ Quot(p, l) = n + i
    BY <1>10
  <2>2. PICK j \in 0 .. m - 1 : q = b + (l * j + 0) /\ Quot(q, l) = n + j
    BY <1>10
  <2>3. i = j
    BY <1>2, <1>14, <2>1, <2>2
  <2> QED BY <2>1, <2>2, <2>3
<1> QED BY <1>8, <1>9, <1>12, <1>13, <1>14 DEF Processes

(* Those before an element are fewer than all. *)
LEMMA FewerBefore ==
  ASSUME NEW V, IsFiniteSet(V), V \subseteq Nat, NEW v \in V
  PROVE  Cardinality({w \in V : w < v}) < Cardinality(V)
<1>1. PICK S \in SUBSET V : S = {w \in V : w < v}
  OBVIOUS
<1>2. v \notin S
  BY <1>1
<1>3. Cardinality(S) <= Cardinality(V) /\ Cardinality(S) # Cardinality(V) /\ IsFiniteSet(S)
  BY <1>2, FS_Subset
<1>4. PICK m \in Nat, n \in Nat : m = Cardinality(S) /\ n = Cardinality(V)
  BY <1>3, FS_CardinalityType
<1> QED BY <1>1, <1>3, <1>4

(* The ranks of an engine, the same seen from each of them. *)
LEMMA GroupIs ==
  ASSUME DealInv, NEW r \in Ranks, NEW k, k = Quot(r, infer_tp)
  PROVE  /\ k \in Nat /\ DOMAIN InferGroup(r) = 1 .. infer_tp /\ Range(InferGroup(r)) = GroupOf(infer_tp, k)
         /\ \A q \in GroupOf(infer_tp, k) : q \in Ranks /\ InferGroup(q) = InferGroup(r)
         /\ \A i \in 1 .. infer_tp : InferGroup(r)[i] \in GroupOf(infer_tp, k)
<1>1. PICK t \in Nat \ {0} : t = infer_tp
  BY DEF DealInv
<1>2. PICK w \in Nat \ {0} : w = WorldSize
  BY World
<1>3. k \in Nat
  <2>1. r \in Nat
    BY World
  <2> QED BY <1>1, <2>1, Division
<1>4. PICK b \in Nat : b = First(t, k)
  BY <1>1, <1>3 DEF First
<1>5. b + t <= w /\ \A i \in 1 .. t : InferGroup(r)[i] = b + i - 1
  BY <1>1, <1>2, <1>4, InferGroupIs DEF DealInv
<1>6. GroupOf(t, k) = {b + j : j \in 0 .. t - 1}
  BY <1>4 DEF GroupOf
<1>7. DOMAIN InferGroup(r) = 1 .. t
  BY <1>1 DEF InferGroup
<1>8. \A i \in 1 .. t : InferGroup(r)[i] \in GroupOf(t, k)
  <2>1. ASSUME NEW i \in 1 .. t PROVE InferGroup(r)[i] \in GroupOf(t, k)
    <3>1. PICK j \in 0 .. t - 1 : j = i - 1 /\ b + i - 1 = b + j
      <4>1. i - 1 \in 0 .. t - 1 /\ b + i - 1 = b + (i - 1)
        BY <1>4
      <4> QED BY <4>1
    <3> QED BY <1>5, <1>6, <3>1
  <2> QED BY <2>1
<1>9. Range(InferGroup(r)) = GroupOf(t, k)
  <2>1. ASSUME NEW x \in GroupOf(t, k) PROVE x \in Range(InferGroup(r))
    <3>1. PICK j \in 0 .. t - 1 : x = b + j
      BY <1>6
    <3>2. PICK i \in 1 .. t : i = j + 1 /\ b + i - 1 = b + j
      <4>1. j + 1 \in 1 .. t /\ b + (j + 1) - 1 = b + j
        BY <1>4
      <4> QED BY <4>1
    <3>3. x = InferGroup(r)[i]
      BY <1>5, <3>1, <3>2
    <3> QED BY <1>7, <3>3 DEF Range
  <2> QED BY <1>7, <1>8, <2>1 DEF Range
<1>10. ASSUME NEW q \in GroupOf(t, k) PROVE q \in Ranks /\ InferGroup(q) = InferGroup(r)
  <2>1. PICK j \in 0 .. t - 1 : q = b + j
    BY <1>6
  <2>2. q \in 0 .. w - 1
    BY <1>5, <2>1
  <2>3. q = t * k + j
    BY <1>4, <2>1 DEF First
  <2>4. IsDivision(q, t, k, j)
    BY <1>3, <2>3 DEF IsDivision
  <2>5. Quot(q, t) = k
    <3> HIDE <1>1, <1>4, <2>1
    <3> QED BY <2>4, Quotient
  <2>6. q \div infer_tp = r \div infer_tp
    BY <1>1, <2>5 DEF Quot
  <2>7. InferGroup(q) = InferGroup(r)
    BY <2>6 DEF InferGroup
  <2> QED BY <1>2, <2>2, <2>7, World
<1> QED BY <1>1, <1>3, <1>7, <1>8, <1>9, <1>10

(* The devices a worker sees. *)
LEMMA VisibleIs ==
  ASSUME DealInv, NEW c, NEW l, EvenNodes(c, l), NEW r \in Ranks, NEW k, k = Quot(r, infer_tp)
  PROVE  VisibleDevices(r) = DevicesOf(infer_tp, l, k)
<1>1. /\ DOMAIN InferGroup(r) = 1 .. infer_tp /\ Range(InferGroup(r)) = GroupOf(infer_tp, k)
      /\ \A q \in GroupOf(infer_tp, k) : q \in Ranks
      /\ \A i \in 1 .. infer_tp : InferGroup(r)[i] \in GroupOf(infer_tp, k)
  BY GroupIs
<1>2. \A q \in GroupOf(infer_tp, k) : DeviceOf(q) = Rest(q, l)
  BY <1>1, DeviceIs
<1>3. \A i \in 1 .. infer_tp : DeviceOf(InferGroup(r)[i]) = Rest(InferGroup(r)[i], l)
  BY <1>1, <1>2
<1>4. VisibleDevices(r) = {Rest(InferGroup(r)[i], l) : i \in 1 .. infer_tp}
  BY <1>3 DEF VisibleDevices
<1>5. \A q \in GroupOf(infer_tp, k) : \E i \in 1 .. infer_tp : InferGroup(r)[i] = q
  BY <1>1 DEF Range
<1> QED BY <1>1, <1>4, <1>5 DEF DevicesOf

(* The processes of one engine work on the devices of its ranks.            *)
LEMMA EngineFits ==
  ASSUME DealInv, NEW c, NEW l, EvenNodes(c, l), NEW r \in Ranks, NEW k, k = Quot(r, infer_tp),
         NEW s, Processes(infer_tp, l, k, s),
         NEW group, group = Range(InferGroup(r)), NEW makers, makers = {q \in group : MakesEngine(q)}
  PROVE  /\ UNION {EngineDevices(q) : q \in makers} = {<<NodeOf(placed, q), DeviceOf(q)>> : q \in group}
         /\ \A p, q \in makers : p # q => EngineDevices(p) \intersect EngineDevices(q) = {}
<1>1. PICK t, V, M : t = infer_tp /\ V = DevicesOf(t, l, k) /\ M = MakersOf(t, k, s)
  OBVIOUS
<1>2. group = GroupOf(t, k) /\ \A q \in group : q \in Ranks /\ InferGroup(q) = InferGroup(r)
  BY <1>1, GroupIs
<1>3. /\ s \in Nat \ {0} /\ IsFiniteSet(V) /\ Cardinality(V) = s /\ V \subseteq Nat
      /\ Quot(t, Quot(t + s - 1, s)) = s
  BY <1>1 DEF Processes
<1>4. ASSUME NEW q \in group PROVE VisibleDevices(q) = V /\ PerEngineNode(q) = s
  <2>1. VisibleDevices(q) = VisibleDevices(r)
    BY <1>2 DEF VisibleDevices
  <2>2. VisibleDevices(q) = V
    BY <1>1, <2>1, VisibleIs
  <2>3. EngineNodes(q) = Quot(t + s - 1, s)
    BY <1>1, <1>3, <2>2 DEF EngineNodes, Quot
  <2>4. PerEngineNode(q) = s
    BY <1>1, <1>3, <2>3 DEF PerEngineNode, Quot
  <2> QED BY <2>2, <2>4
<1>5. makers = M
  <2>1. \A q \in group : MakesEngine(q) <=> Rest(Rest(q, t), s) = 0
    BY <1>1, <1>4 DEF MakesEngine, Rest
  <2> QED BY <1>1, <1>2, <2>1 DEF MakersOf
<1>6. ASSUME NEW q \in M PROVE q \in group /\ EngineDevices(q) = {<<NodeOf(placed, q), v>> : v \in V}
  <2>1. q \in group
    BY <1>5
  <2>2. \A v \in V : Cardinality({w \in V : w < v}) < s
    BY <1>3, FewerBefore
  <2>3. {v \in V : Cardinality({w \in V : w < v}) < s} = V
    BY <2>2
  <2>4. EngineDevices(q) = {<<NodeOf(placed, q), v>> : v \in {v \in V : Cardinality({w \in V : w < v}) < s}}
    BY <1>4, <2>1 DEF EngineDevices
  <2> QED BY <2>1, <2>3, <2>4
<1>7. \A x, y \in group : NodeOf(placed, x) = NodeOf(placed, y) <=> Quot(x, l) = Quot(y, l)
  BY <1>2, NodesAlike
<1>8. \A x \in group : DeviceOf(x) = Rest(x, l) /\ Rest(x, l) \in V
  <2>1. \A x \in group : DeviceOf(x) = Rest(x, l)
    BY <1>2, DeviceIs
  <2> QED BY <1>1, <1>2, <2>1 DEF DevicesOf
<1>9. \A q \in M, v \in V : \E x \in group : NodeOf(placed, x) = NodeOf(placed, q) /\ DeviceOf(x) = v
  <2>1. ASSUME NEW q \in M, NEW v \in V PROVE \E x \in group : NodeOf(placed, x) = NodeOf(placed, q) /\ DeviceOf(x) = v
    <3>1. PICK x \in group : Quot(x, l) = Quot(q, l) /\ Rest(x, l) = v
      BY <1>1, <1>2 DEF Processes
    <3> QED BY <1>6, <1>7, <1>8, <3>1
  <2> QED BY <2>1
<1>10. \A x \in group : \E q \in M : NodeOf(placed, q) = NodeOf(placed, x)
  <2>1. ASSUME NEW x \in group PROVE \E q \in M : NodeOf(placed, q) = NodeOf(placed, x)
    <3>1. PICK q \in M : Quot(q, l) = Quot(x, l)
      BY <1>1, <1>2 DEF Processes
    <3> QED BY <1>6, <1>7, <3>1
  <2> QED BY <2>1
<1>11. \A p, q \in M : NodeOf(placed, p) = NodeOf(placed, q) => p = q
  <2>1. \A p, q \in M : Quot(p, l) = Quot(q, l) => p = q
    BY <1>1 DEF Processes
  <2> QED BY <1>6, <1>7, <2>1
<1>12. UNION {EngineDevices(q) : q \in M} = {<<NodeOf(placed, q), DeviceOf(q)>> : q \in group}
  <2>1. ASSUME NEW q \in M, NEW e \in EngineDevices(q) PROVE e \in {<<NodeOf(placed, x), DeviceOf(x)>> : x \in group}
    <3>1. PICK v \in V : e = <<NodeOf(placed, q), v>>
      BY <1>6
    <3>2. PICK x \in group : NodeOf(placed, x) = NodeOf(placed, q) /\ DeviceOf(x) = v
      BY <1>9
    <3> QED BY <3>1, <3>2
  <2>2. ASSUME NEW x \in group PROVE \E q \in M : <<NodeOf(placed, x), DeviceOf(x)>> \in EngineDevices(q)
    <3>1. PICK q \in M : NodeOf(placed, q) = NodeOf(placed, x)
      BY <1>10
    <3> QED BY <1>6, <1>8, <3>1
  <2> QED BY <2>1, <2>2
<1>13. ASSUME NEW p \in M, NEW q \in M, p # q PROVE EngineDevices(p) \intersect EngineDevices(q) = {}
  <2>1. NodeOf(placed, p) # NodeOf(placed, q)
    BY <1>11, <1>13
  <2> QED BY <1>6, <2>1
<1> QED BY <1>5, <1>12, <1>13

(* What Aligned says of the placement. *)
LEMMA AlignedIs ==
  ASSUME DealInv, NEW g, IsPlacement(placed, NodeCount, g), Aligned
  PROVE  \E c, l : EvenNodes(c, l) /\ l \in Nat \ {0} /\ (Rest(l, infer_tp) = 0 \/ Rest(infer_tp, l) = 0)
<1>1. PICK k \in Nat \ {0}, m \in Nat \ {0} : k = NodeCount /\ m = PerNode
  BY PoolAssumption
<1>2. placed \in [1 .. k -> 1 .. g] /\ DOMAIN placed = 1 .. k /\ g \in Nat
  BY <1>1 DEF IsPlacement
<1>3. PICK n : n = placed[1]
  OBVIOUS
<1>4. n \in Range(placed) /\ \A x \in Range(placed) : x \in Nat
  <2>1. 1 \in 1 .. k
    BY <1>1
  <2> QED BY <1>2, <1>3, <2>1 DEF Range
<1>5. PICK c \in Nat \ {0} : c = Cardinality(On(placed, n))
  <2>1. k \in Nat /\ n \in Nat
    BY <1>1, <1>4
  <2>2. Cardinality(On(placed, n)) \in 0 .. k /\ Cardinality(On(placed, n)) # 0
    BY <1>1, <1>4, <2>1, CountsOf
  <2> QED BY <2>1, <2>2
<1>6. PICK l \in Nat \ {0} : l = m * c
  <2>1. m * c \in Nat \ {0}
    OBVIOUS
  <2> QED BY <2>1
<1>7. \A x \in Range(placed) :
        PerNode * Cardinality(On(placed, x)) = PerNode * Cardinality(On(placed, n))
  BY <1>4 DEF Aligned, On
<1>8. ASSUME NEW x \in Range(placed) PROVE Cardinality(On(placed, x)) = c
  <2>1. x \in Nat
    BY <1>4
  <2>2. Cardinality(On(placed, x)) \in 0 .. k
    BY <1>1, <2>1, CountsOf
  <2>3. PICK d \in Nat : d = Cardinality(On(placed, x))
    BY <2>2
  <2>4. m * d = m * c
    BY <1>1, <1>5, <1>7, <2>3
  <2>5. d < c => m * d + m <= m * c
    BY Ordered
  <2>6. c < d => m * c + m <= m * d
    BY Ordered
  <2>7. PICK y \in Nat : y = m * d /\ y = m * c
    BY <2>4
  <2>8. d = c
    BY <2>5, <2>6, <2>7
  <2> QED BY <2>3, <2>8
<1>9. l % infer_tp = 0 \/ infer_tp % l = 0
  <2>1. PerNode * Cardinality(On(placed, n)) = l
    BY <1>1, <1>5, <1>6
  <2>2. \/ (PerNode * Cardinality(On(placed, n))) % infer_tp = 0
        \/ infer_tp % (PerNode * Cardinality(On(placed, n))) = 0
    BY <1>4 DEF Aligned, On
  <2> QED BY <2>1, <2>2
<1>10. EvenNodes(c, l)
  BY <1>1, <1>6, <1>8 DEF EvenNodes, Spread
<1> QED BY <1>9, <1>10 DEF Rest

(* A divisor leaves no remainder. *)
LEMMA Divides ==
  ASSUME NEW a \in Nat \ {0}, NEW b \in Nat \ {0}, Rest(a, b) = 0
  PROVE  \E m \in Nat \ {0} : a = b * m
<1>1. PICK q \in Nat : q = Quot(a, b) /\ a = b * q + 0
  BY Division
<1>2. a = b * q
  <2>1. b * q \in Nat
    BY <1>1
  <2> QED BY <1>1, <2>1
<1>3. q # 0
  BY <1>2
<1> QED BY <1>2, <1>3

(* So the engines are apart in every state. *)
LEMMA EnginesAlwaysApart == DealInv /\ PoolInv => EnginesApart
<1> SUFFICES ASSUME DealInv, PoolInv, driver = "creating", Aligned, NEW r \in Ranks,
                    NEW group, group = Range(InferGroup(r)), NEW makers, makers = {q \in group : MakesEngine(q)}
             PROVE  /\ UNION {EngineDevices(q) : q \in makers} = {<<NodeOf(placed, q), DeviceOf(q)>> : q \in group}
                    /\ \A p, q \in makers : p # q => EngineDevices(p) \intersect EngineDevices(q) = {}
  BY DEF EnginesApart
<1>1. PICK g : IsPlacement(placed, NodeCount, g)
  BY PlacementIs DEF PoolInv
<1>2. PICK c, l : EvenNodes(c, l) /\ l \in Nat \ {0} /\ (Rest(l, infer_tp) = 0 \/ Rest(infer_tp, l) = 0)
  BY <1>1, AlignedIs
<1>3. PICK k : k = Quot(r, infer_tp)
  OBVIOUS
<1>4. PICK t \in Nat \ {0} : t = infer_tp
  BY DEF DealInv
<1>5. k \in Nat
  BY <1>3, GroupIs
<1>6. \E s : Processes(t, l, k, s)
  <2>1. CASE Rest(l, t) = 0
    <3>1. PICK m \in Nat \ {0} : l = t * m
      BY <1>2, <2>1, Divides
    <3>2. Processes(t, l, k, t)
      BY <1>5, <3>1, ProcessWithin
    <3> QED BY <3>2
  <2>2. CASE Rest(t, l) = 0
    <3>1. PICK m \in Nat \ {0} : t = l * m
      BY <1>2, <2>2, Divides, SMTT(30)
    <3>2. Processes(t, l, k, l)
      BY <1>2, <1>5, <3>1, ProcessOver
    <3> QED BY <3>2
  <2> QED BY <1>2, <1>4, <2>1, <2>2
<1>7. PICK s : Processes(infer_tp, l, k, s)
  BY <1>4, <1>6
<1> QED BY <1>2, <1>3, <1>7, EngineFits

----------------------------------------------------------------------------
GroupInv == RowInv /\ PoolInv /\ CenterInv /\ InfoInv /\ UpInv /\ BuiltInv

(* What holds whenever the driver calls the group: rank zero's center was   *)
(* there before the ranks that look for it and has every rank's node, the   *)
(* ranks that compute together get the same rows, a role's method is run by *)
(* its own class, on a model that has been built, and the ranks of a job    *)
(* and the devices of its engines are where they should be.                 *)
THEOREM CallsAlwaysFindTheGroup == Spec => []CallsFindTheGroup
<1>1. Init => GroupInv
  BY RowsStart, PoolStart, CenterStart, InfoStart, UpStart, BuiltStart DEF GroupInv
<1>2. GroupInv /\ [Next]_vars => GroupInv'
  BY RowsStep, PoolStep, CenterStep, InfoStep, UpStep, BuiltStep DEF GroupInv
<1>3. GroupInv => CallsFindTheGroup
  <2> SUFFICES ASSUME GroupInv PROVE CallsFindTheGroup
    OBVIOUS
  <2>1. RowInv /\ PoolInv /\ CenterInv /\ InfoInv /\ UpInv /\ BuiltInv /\ DealInv
    BY DEF GroupInv, RowInv
  <2>2. TypeOK
    BY <2>1, Typed
  <2>3. CenterBeforeRanks
    BY <2>1 DEF CenterInv
  <2>4. NodesRegistered /\ SameInput
    BY <2>1, NodesFound, TogetherAlike
  <2>5. RolesApart /\ ModelsBuilt /\ RanksStay /\ EnginesApart
    BY <2>1, RolesAlwaysApart, ModelsFound, RanksAlwaysStay, EnginesAlwaysApart
  <2> QED BY <2>2, <2>3, <2>4, <2>5 DEF CallsFindTheGroup
<1> QED BY <1>1, <1>2, <1>3, PTL DEF Spec
=============================================================================
