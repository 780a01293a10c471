--------------------------- MODULE Requests_proofs ----------------------------
(* What holds of the requests of a batch, their rows and their tools for    *)
(* every number of requests, calls, turns, threads and tokens, and all      *)
(* lengths, with either format.                                             *)
EXTENDS Requests, FiniteSetTheorems, WellFoundedInduction, TLAPS

Token == {"ask", "head", "word", "tool", "end"}

Mark == {0, 1}

RequestRecords ==
  [state : {"pending", "running", "tool_calling", "completed"},
   at : {"loop", "engine", "tools", "out", "done"}, turns : 0 .. MaxTurns,
   reason : {"none", "length", "stop", "tool_calls"}, asked : Seq(Tools),
   prompt : 1 .. PromptLength, full : Nat, ids : Seq(Token), mask : Seq(Mark)]

(* The token at i is the model's own. *)
Own(ids, i) == ids[i] = "word" \/ (i > 1 /\ ids[i] = "end" /\ ids[i - 1] \in {"word", "head"})

Marked(ids, mask) ==
  Len(ids) = Len(mask) /\ \A i \in 1 .. Len(ids) : (mask[i] = 1) <=> Own(ids, i)

(* Where in the coroutine a request may be. *)
Placed(q) ==
  /\ q.state = "pending" => q.at = "loop" /\ q.turns = 0
  /\ q.turns = 0 => q.at \in {"loop", "engine"}
  /\ q.at = "engine" => q.state = "running" /\ q.turns < MaxTurns /\ Fits(q)
  /\ q.at = "tools" => q.state = "tool_calling"
  /\ q.state = "tool_calling" => q.asked # <<>> /\ q.turns # 0
  /\ q.at = "out" => q.turns >= MaxTurns \/ q.reason # "tool_calls"
  /\ q.at = "done" => q.state = "completed"

(* Once the model has answered, a row ends where a message ends, unless the *)
(* room is used up.                                                         *)
Ended(q) ==
  q.turns > 0 /\ q.at # "done" =>
    \/ Last(q.ids) = "end"
    \/ q.at = "out" /\ (q.reason = "length" \/ Len(q.ids) >= ModelLength)

WellEnded(q) ==
  q.at = "done" =>
    LET response == Len(q.ids) - q.prompt IN
    /\ response <= ResponseLength
    /\ response = ResponseLength \/ q.reason = "length" \/ Last(q.ids) = "end"

Sound(q) ==
  /\ q \in RequestRecords /\ q.prompt <= Len(q.ids)
  /\ Marked(q.ids, q.mask) /\ Placed(q) /\ Ended(q) /\ WellEnded(q)

RowsInv ==
  /\ req = [r \in Rows |-> req[r]]
  /\ \A r \in Rows : Sound(req[r]) /\ Len(req[r].asked) <= MaxCalls[r]

(* What a request has of its tools. *)
Lent == UNION {{<<t, r>> : t \in grant[r]} :
          r \in {s \in Rows : req[s].state # "pending" /\ req[s].at # "done"}}

LentInv ==
  /\ batches \in 1 .. MaxBatches /\ grant \in [Rows -> Grants]
  /\ failed \in {"no", "engine", "format", "grant", "tool"}
  /\ instances \subseteq Tools \X Rows
  /\ failed = "no" => instances = Lent

(* The calls under way are those of the requests at their tools. *)
CallsInv ==
  \A c \in Calls : call[c].phase # "none" =>
    /\ c[1] \in Rows /\ req[c[1]].at = "tools" /\ c[2] \in DOMAIN req[c[1]].asked
    /\ call[c].tool = req[c[1]].asked[c[2]] /\ call[c].tool \in grant[c[1]]

(* acquire() messages are of waiting calls, one for each. *)
LineInv ==
  /\ \A i \in 1 .. Len(acquiring) :
       call[acquiring[i]].phase = "waiting" /\ call[acquiring[i]].tool \in limited
  /\ \A i, j \in 1 .. Len(acquiring) : acquiring[i] = acquiring[j] => i = j

Serving == {c \in In({"running"}) : call[c].tool \in limited}

TokenInv == IsFiniteSet(Serving) /\ tokens + returning + Cardinality(Serving) = RateLimit

IInv == PoolTypeOK /\ RowsInv /\ LentInv /\ CallsInv /\ LineInv /\ TokenInv

----------------------------------------------------------------------------
(* Lemmas on the tokens appended *)

LEMMA LeastNatural ==
  ASSUME NEW T, T \subseteq Nat, T # {}
  PROVE  \E x \in T : \A y \in T : x <= y
<1> DEFINE Less == OpToRel(<, Nat)
<1>1. PICK x \in T : \A y \in T : ~(<<y, x>> \in Less)
  <2>1. IsWellFoundedOn(Less, Nat)
    BY NatLessThanWellFounded DEF Less
  <2> QED BY <2>1, WFMin
<1>2. \A y \in T : ~(y < x)
  BY <1>1 DEF OpToRel
<1> QED BY <1>2

(* The tokens after a response, from those before it. *)
After(s, words, k, n) ==
  IF k > 1 /\ Len(s) >= ModelLength THEN s ELSE s \o ToolResponse(words[k], k = 1, k = n)

(* The recursive function of the responses exists. *)
LEMMA ResponsesByStep ==
  ASSUME NEW ids, NEW words, NEW n \in Nat
  PROVE  /\ WithResponses(ids, words, n)[0] = ids
         /\ \A k \in 1 .. n : WithResponses(ids, words, n)[k] =
                                After(WithResponses(ids, words, n)[k - 1], words, k, n)
<1> DEFINE Good(f, m) == f = [k \in 0 .. m |-> IF k = 0 THEN ids ELSE After(f[k - 1], words, k, n)]
           Bad == {m \in Nat : ~ \E f : Good(f, m)}
<1>1. Bad = {}
  <2>1. SUFFICES ASSUME Bad # {} PROVE FALSE
    OBVIOUS
  <2>2. PICK m \in Bad : \A k \in Bad : m <= k
    <3>1. Bad \subseteq Nat
      OBVIOUS
    <3> HIDE DEF Bad
    <3> QED BY <2>1, <3>1, LeastNatural
  <2>3. m # 0
    <3>1. Good([k \in 0 .. 0 |-> ids], 0)
      OBVIOUS
    <3> HIDE DEF Good
    <3> QED BY <3>1
  <2>4. m \in Nat /\ m - 1 \in Nat /\ m - 1 \notin Bad
    <3>1. m \in Nat
      BY <2>2
    <3>2. m - 1 \notin Bad
      <4> HIDE DEF Bad
      <4> QED BY <2>2, <3>1
    <3> QED BY <2>3, <3>1, <3>2
  <2>5. PICK f : Good(f, m - 1)
    BY <2>4
  <2>6. Good([k \in 0 .. m |-> IF k = 0 THEN ids ELSE After(f[k - 1], words, k, n)], m)
    <3> DEFINE g == [k \in 0 .. m |-> IF k = 0 THEN ids ELSE After(f[k - 1], words, k, n)]
    <3>1. \A k \in 0 .. m : k # 0 => g[k - 1] = f[k - 1]
      BY <2>5, <2>4
    <3> QED BY <3>1
  <2> HIDE DEF Good
  <2> QED BY <2>2, <2>6
<1>2. \E f : Good(f, n)
  BY <1>1
<1>3. WithResponses(ids, words, n) = CHOOSE f : Good(f, n)
  BY DEF WithResponses, After
<1>4. Good(WithResponses(ids, words, n), n)
  <2> HIDE DEF Good
  <2> QED BY <1>2, <1>3
<1> QED BY <1>4

LEMMA Joined ==
  ASSUME NEW U, NEW s \in Seq(U), NEW t \in Seq(U)
  PROVE  /\ s \o t \in Seq(U) /\ Len(s \o t) = Len(s) + Len(t)
         /\ \A i \in 1 .. Len(s) : (s \o t)[i] = s[i]
         /\ \A i \in Len(s) + 1 .. Len(s) + Len(t) : (s \o t)[i] = t[i - Len(s)]
OBVIOUS

LEMMA Repeated ==
  ASSUME NEW U, NEW u \in U, NEW n \in Nat
  PROVE  /\ [i \in 1 .. n |-> u] \in Seq(U) /\ Len([i \in 1 .. n |-> u]) = n
         /\ \A i \in 1 .. n : [j \in 1 .. n |-> u][i] = u
OBVIOUS

LEMMA ZerosType ==
  ASSUME NEW n \in Nat
  PROVE  Zeros(n) \in Seq(Mark) /\ Len(Zeros(n)) = n /\ \A i \in 1 .. n : Zeros(n)[i] = 0
BY DEF Zeros, Mark

(* The token at i of what is appended after last is the model's own. *)
OwnAfter(last, text, i) ==
  text[i] = "word" \/ (text[i] = "end" /\ (IF i = 1 THEN last ELSE text[i - 1]) \in {"word", "head"})

(* Marked rows stay marked when tokens with their own marks are appended. *)
LEMMA MarkedJoined ==
  ASSUME NEW ids \in Seq(Token), NEW mask \in Seq(Mark), Len(ids) > 0, Marked(ids, mask),
         NEW text \in Seq(Token), NEW marks \in Seq(Mark), Len(text) = Len(marks),
         \A i \in 1 .. Len(text) : (marks[i] = 1) <=> OwnAfter(Last(ids), text, i)
  PROVE  /\ ids \o text \in Seq(Token) /\ mask \o marks \in Seq(Mark)
         /\ Len(ids \o text) = Len(ids) + Len(text)
         /\ Len(text) > 0 => Last(ids \o text) = Last(text)
         /\ Marked(ids \o text, mask \o marks)
<1>1. /\ ids \o text \in Seq(Token) /\ Len(ids \o text) = Len(ids) + Len(text)
      /\ \A i \in 1 .. Len(ids) : (ids \o text)[i] = ids[i]
      /\ \A i \in Len(ids) + 1 .. Len(ids) + Len(text) : (ids \o text)[i] = text[i - Len(ids)]
  <2>1. ids \o text \in Seq(Token) /\ Len(ids \o text) = Len(ids) + Len(text)
    BY Joined
  <2>2. \A i \in 1 .. Len(ids) : (ids \o text)[i] = ids[i]
    BY Joined
  <2>3. \A i \in Len(ids) + 1 .. Len(ids) + Len(text) : (ids \o text)[i] = text[i - Len(ids)]
    BY Joined
  <2> QED BY <2>1, <2>2, <2>3
<1>2. /\ mask \o marks \in Seq(Mark) /\ Len(mask \o marks) = Len(mask) + Len(marks)
      /\ \A i \in 1 .. Len(mask) : (mask \o marks)[i] = mask[i]
      /\ \A i \in Len(mask) + 1 .. Len(mask) + Len(marks) : (mask \o marks)[i] = marks[i - Len(mask)]
  BY Joined
<1>3. Len(ids) \in Nat /\ Len(text) \in Nat /\ Len(mask) = Len(ids)
  BY DEF Marked
<1> DEFINE s == ids \o text
           m == mask \o marks
<1> HIDE DEF s, m
<1>4. Len(s) = Len(m) /\ Len(s) = Len(ids) + Len(text)
  BY <1>1, <1>2, <1>3 DEF s, m
<1>5. ASSUME NEW i \in 1 .. Len(s) PROVE (m[i] = 1) <=> Own(s, i)
  <2>1. CASE i <= Len(ids)
    <3>1. i \in 1 .. Len(ids) /\ s[i] = ids[i] /\ m[i] = mask[i]
      BY <2>1, <1>1, <1>2, <1>3 DEF s, m
    <3>2. i > 1 => i - 1 \in 1 .. Len(ids)
      BY <3>1, <1>3
    <3>3. i > 1 => s[i - 1] = ids[i - 1]
      BY <3>2, <1>1 DEF s
    <3> QED BY <3>1, <3>3 DEF Marked, Own
  <2>2. CASE i > Len(ids)
    <3>1. PICK j : j = i - Len(ids)
      OBVIOUS
    <3>2. j \in 1 .. Len(text) /\ i \in Len(ids) + 1 .. Len(ids) + Len(text) /\ i > 1
      BY <3>1, <2>2, <1>3, <1>4
    <3>3. s[i] = text[j] /\ m[i] = marks[j]
      BY <3>1, <3>2, <1>1, <1>2, <1>3 DEF s, m
    <3>4. s[i - 1] = IF j = 1 THEN Last(ids) ELSE text[j - 1]
      <4>1. CASE j = 1
        <5>1. i - 1 = Len(ids) /\ i - 1 \in 1 .. Len(ids)
          BY <4>1, <3>1, <3>2, <1>3
        <5> QED BY <4>1, <5>1, <1>1 DEF s, Last
      <4>2. CASE j # 1
        <5>1. i - 1 \in Len(ids) + 1 .. Len(ids) + Len(text) /\ (i - 1) - Len(ids) = j - 1
          BY <4>2, <3>1, <3>2, <1>3
        <5> QED BY <4>2, <5>1, <1>1 DEF s
      <4> QED BY <4>1, <4>2
    <3>5. (marks[j] = 1) <=> OwnAfter(Last(ids), text, j)
      BY <3>2
    <3> QED BY <3>2, <3>3, <3>4, <3>5 DEF Own, OwnAfter
  <2> QED BY <2>1, <2>2, <1>3, <1>4
<1>6. Len(text) > 0 => s[Len(s)] = text[Len(text)]
  <2>1. Len(text) > 0 => Len(s) \in Len(ids) + 1 .. Len(ids) + Len(text) /\ Len(s) - Len(ids) = Len(text)
    BY <1>3, <1>4
  <2> QED BY <2>1, <1>1 DEF s
<1>7. Marked(s, m)
  BY <1>4, <1>5 DEF Marked
<1> QED BY <1>1, <1>2, <1>6, <1>7 DEF s, m, Last

LEMMA Associative ==
  ASSUME NEW U, NEW s \in Seq(U), NEW t \in Seq(U), NEW u \in Seq(U)
  PROVE  (s \o t) \o u = s \o (t \o u)
OBVIOUS

(* One token over and over, with at most one before and one after. *)
LEMMA Spliced ==
  ASSUME NEW u \in Token, NEW words \in Nat, NEW head \in Seq(Token), NEW tail \in Seq(Token),
         Len(head) \in {0, 1}, Len(tail) \in {0, 1}
  PROVE  LET text == [i \in 1 .. words |-> u] \o tail
             all == head \o text IN
         /\ [i \in 1 .. words |-> u] \in Seq(Token)
         /\ text \in Seq(Token) /\ Len(text) = words + Len(tail)
         /\ all \in Seq(Token) /\ Len(all) = Len(head) + words + Len(tail)
         /\ \A i \in 1 .. Len(all) : all[i] = IF i <= Len(head) THEN head[1]
                                             ELSE IF i <= Len(head) + words THEN u ELSE tail[1]
<1>1. PICK some : some = [i \in 1 .. words |-> u]
  OBVIOUS
<1>2. some \in Seq(Token) /\ Len(some) = words /\ \A i \in 1 .. words : some[i] = u
  BY <1>1, Repeated
<1>3. PICK text : text = some \o tail
  OBVIOUS
<1>4. /\ text \in Seq(Token) /\ Len(text) = words + Len(tail)
      /\ \A i \in 1 .. words : text[i] = some[i]
      /\ \A i \in words + 1 .. words + Len(tail) : text[i] = tail[i - words]
  <2>1. /\ some \o tail \in Seq(Token) /\ Len(some \o tail) = Len(some) + Len(tail)
        /\ \A i \in 1 .. Len(some) : (some \o tail)[i] = some[i]
        /\ \A i \in Len(some) + 1 .. Len(some) + Len(tail) : (some \o tail)[i] = tail[i - Len(some)]
    BY <1>2, Joined, ZenonT(40)
  <2> QED BY <2>1, <1>2, <1>3
<1>5. \A i \in 1 .. Len(text) : text[i] = IF i <= words THEN u ELSE tail[1]
  <2>1. SUFFICES ASSUME NEW i \in 1 .. Len(text) PROVE text[i] = IF i <= words THEN u ELSE tail[1]
    OBVIOUS
  <2>2. CASE i <= words
    BY <2>2, <1>2, <1>4
  <2>3. CASE i > words
    <3>1. i = words + 1 /\ i \in words + 1 .. words + Len(tail) /\ Len(tail) = 1 /\ i - words = 1
      BY <2>3, <1>4
    <3> QED BY <3>1, <1>4, <2>3
  <2> QED BY <2>2, <2>3, <1>4
<1>6. PICK all : all = head \o text
  OBVIOUS
<1>7. /\ all \in Seq(Token) /\ Len(all) = Len(head) + Len(text)
      /\ \A k \in 1 .. Len(head) : all[k] = head[k]
  <2>1. all \in Seq(Token) /\ Len(all) = Len(head) + Len(text)
    BY <1>4, <1>6, Joined
  <2>2. \A k \in 1 .. Len(head) : all[k] = head[k]
    BY <1>4, <1>6, Joined
  <2> QED BY <2>1, <2>2
<1>8. \A k \in Len(head) + 1 .. Len(head) + Len(text) : all[k] = text[k - Len(head)]
  <2>1. text \in Seq(Token)
    BY <1>4
  <2>2. \A k \in Len(head) + 1 .. Len(head) + Len(text) : (head \o text)[k] = text[k - Len(head)]
    BY <2>1
  <2> QED BY <2>2, <1>6
<1>9. \A i \in 1 .. Len(all) : all[i] = IF i <= Len(head) THEN head[1]
                                        ELSE IF i <= Len(head) + words THEN u ELSE tail[1]
  <2>1. SUFFICES ASSUME NEW i \in 1 .. Len(all)
                 PROVE  all[i] = IF i <= Len(head) THEN head[1]
                                 ELSE IF i <= Len(head) + words THEN u ELSE tail[1]
    OBVIOUS
  <2>2. CASE i <= Len(head)
    BY <2>2, <1>7
  <2>3. CASE i > Len(head)
    <3>1. i \in Len(head) + 1 .. Len(head) + Len(text) /\ i - Len(head) \in 1 .. Len(text)
          /\ (i <= Len(head) + words <=> i - Len(head) <= words)
      BY <2>3, <1>7, <1>4
    <3>2. all[i] = text[i - Len(head)]
      BY <3>1, <1>8
    <3>3. text[i - Len(head)] = IF i - Len(head) <= words THEN u ELSE tail[1]
      BY <3>1, <1>5
    <3> QED BY <2>3, <3>1, <3>2, <3>3
  <2> QED BY <2>2, <2>3, <1>7
<1> QED
  <2>1. Len(all) = Len(head) + words + Len(tail)
    BY <1>4, <1>7
  <2> QED BY <2>1, <1>1, <1>2, <1>3, <1>4, <1>6, <1>7, <1>9

(* The tokens of a message of the model, and their marks. *)
LEMMA MessageText ==
  ASSUME NEW last \in {"head", "end"}, NEW words \in Nat,
         NEW head \in Seq(Token), NEW tail \in Seq(Token), Len(head) \in {0, 1}, Len(tail) \in {0, 1},
         Len(head) = 0 => last = "head", Len(head) = 1 => head[1] = "head",
         Len(tail) = 1 => tail[1] = "end"
  PROVE  LET text == [i \in 1 .. words |-> "word"] \o tail
             marks == Zeros(Len(head)) \o [i \in 1 .. Len(text) |-> 1] IN
         /\ text \in Seq(Token) /\ head \o text \in Seq(Token) /\ marks \in Seq(Mark)
         /\ Len(head \o text) = Len(marks)
         /\ \A i \in 1 .. Len(head \o text) : (marks[i] = 1) <=> OwnAfter(last, head \o text, i)
         /\ Len(tail) = 1 => Len(head \o text) > 0 /\ Last(head \o text) = "end"
<1>1. PICK text : text = [i \in 1 .. words |-> "word"] \o tail
  OBVIOUS
<1>2. PICK all : all = head \o text
  OBVIOUS
<1>3. "word" \in Token
  BY DEF Token
<1>4. /\ text \in Seq(Token) /\ Len(text) = words + Len(tail) /\ Len(text) \in Nat
      /\ all \in Seq(Token) /\ Len(all) = Len(head) + words + Len(tail)
      /\ \A i \in 1 .. Len(all) : all[i] = IF i <= Len(head) THEN head[1]
                                          ELSE IF i <= Len(head) + words THEN "word" ELSE tail[1]
  <2>1. LET tx == [i \in 1 .. words |-> "word"] \o tail
            al == head \o tx IN
         /\ tx \in Seq(Token) /\ Len(tx) = words + Len(tail)
         /\ al \in Seq(Token) /\ Len(al) = Len(head) + words + Len(tail)
         /\ \A i \in 1 .. Len(al) : al[i] = IF i <= Len(head) THEN head[1]
                                             ELSE IF i <= Len(head) + words THEN "word" ELSE tail[1]
    BY <1>3, Spliced
  <2> QED BY <2>1, <1>1, <1>2
<1>5. \A i \in 1 .. Len(all) : all[i] = IF i <= Len(head) THEN "head"
                                        ELSE IF i <= Len(head) + words THEN "word" ELSE "end"
  BY <1>4
<1>6. PICK ones : ones = [i \in 1 .. Len(text) |-> 1]
  OBVIOUS
<1>7. ones \in Seq(Mark) /\ Len(ones) = Len(text) /\ \A i \in 1 .. Len(text) : ones[i] = 1
  <2>1. Len(text) \in Nat /\ 1 \in Mark
    BY <1>4 DEF Mark
  <2> QED BY <2>1, <1>6, Repeated
<1>8. PICK marks : marks = Zeros(Len(head)) \o ones
  OBVIOUS
<1>9. /\ marks \in Seq(Mark) /\ Len(marks) = Len(head) + Len(text)
      /\ \A i \in 1 .. Len(marks) : marks[i] = IF i <= Len(head) THEN 0 ELSE 1
  <2>1. PICK z : z = Zeros(Len(head))
    OBVIOUS
  <2>2. z \in Seq(Mark) /\ Len(z) = Len(head) /\ \A i \in 1 .. Len(head) : z[i] = 0
    BY <2>1, ZerosType
  <2>3. /\ z \o ones \in Seq(Mark) /\ Len(z \o ones) = Len(z) + Len(ones)
        /\ \A i \in 1 .. Len(z) : (z \o ones)[i] = z[i]
        /\ \A i \in Len(z) + 1 .. Len(z) + Len(ones) : (z \o ones)[i] = ones[i - Len(z)]
    <3>1. z \o ones \in Seq(Mark) /\ Len(z \o ones) = Len(z) + Len(ones)
      BY <2>2, <1>7, Joined, ZenonT(40)
    <3>2. \A i \in 1 .. Len(z) : (z \o ones)[i] = z[i]
      BY <2>2, <1>7, Joined
    <3>3. \A i \in Len(z) + 1 .. Len(z) + Len(ones) : (z \o ones)[i] = ones[i - Len(z)]
      <4>1. z \in Seq(Mark) /\ ones \in Seq(Mark)
        BY <2>2, <1>7
      <4> QED BY <4>1
    <3> QED BY <3>1, <3>2, <3>3
  <2>4. ASSUME NEW i \in 1 .. Len(marks) PROVE marks[i] = IF i <= Len(head) THEN 0 ELSE 1
    <3>1. Len(marks) = Len(head) + Len(text) /\ Len(head) \in Nat /\ Len(text) \in Nat
      BY <2>1, <2>2, <2>3, <1>7, <1>8
    <3>2. CASE i <= Len(head)
      BY <3>1, <3>2, <2>1, <2>2, <2>3, <1>8
    <3>3. CASE i > Len(head)
      <4>1. i \in Len(z) + 1 .. Len(z) + Len(ones) /\ i - Len(z) \in 1 .. Len(text)
        BY <3>1, <3>3, <2>2, <1>7
      <4> QED BY <4>1, <3>3, <2>1, <2>3, <1>7, <1>8, SMTT(30)
    <3> QED BY <3>1, <3>2, <3>3
  <2> QED BY <2>1, <2>2, <2>3, <2>4, <1>7, <1>8
<1>10. ASSUME NEW i \in 1 .. Len(all) PROVE (marks[i] = 1) <=> OwnAfter(last, all, i)
  <2>0. Len(all) = Len(marks) /\ Len(all) = Len(head) + words + Len(tail)
    BY <1>4, <1>9
  <2>1. CASE i <= Len(head)
    <3>1. marks[i] = 0 /\ all[i] = "head"
      BY <2>0, <2>1, <1>9, <1>5
    <3> QED BY <3>1 DEF OwnAfter
  <2>2. CASE i > Len(head) /\ i <= Len(head) + words
    <3>1. marks[i] = 1 /\ all[i] = "word"
      BY <2>0, <2>2, <1>9, <1>5
    <3> QED BY <3>1 DEF OwnAfter
  <2>3. CASE i > Len(head) + words
    <3>1. marks[i] = 1 /\ all[i] = "end"
      BY <2>0, <2>3, <1>9, <1>5
    <3>2. (IF i = 1 THEN last ELSE all[i - 1]) \in {"word", "head"}
      <4>1. CASE i = 1
        <5>1. Len(head) = 0
          BY <4>1, <2>3
        <5> QED BY <5>1, <4>1
      <4>2. CASE i # 1
        <5>1. i - 1 \in 1 .. Len(all) /\ i - 1 <= Len(head) + words
          <6>1. i <= Len(head) + words + 1 /\ i \in 1 .. Len(all) /\ Len(all) \in Nat
            BY <2>0, SMTT(30)
          <6> QED BY <6>1, <4>2
        <5>2. all[i - 1] \in {"word", "head"}
          BY <5>1, <1>5
        <5> QED BY <4>2, <5>2
      <4> QED BY <4>1, <4>2
    <3> QED BY <3>1, <3>2 DEF OwnAfter
  <2> QED BY <2>0, <2>1, <2>2, <2>3
<1>11. Len(tail) = 1 => Len(all) > 0 /\ Last(all) = "end"
  <2>1. Len(tail) = 1 => Len(all) = Len(head) + words + 1
    BY <1>4
  <2>2. Len(tail) = 1 => all[Len(all)] = "end" /\ Len(all) > 0
    BY <2>1, <1>5
  <2> QED BY <2>2 DEF Last
<1> QED
  <2>1. Len(all) = Len(marks)
    BY <1>4, <1>9
  <2> QED BY <2>1, <1>1, <1>2, <1>4, <1>6, <1>8, <1>9, <1>10, <1>11

(* A message of the model: its words, after a "head" unless there is one,   *)
(* and an "end" unless it was cut.                                          *)
LEMMA AssistantMarked ==
  ASSUME NEW q \in RequestRecords, NEW words \in Nat, NEW overlong \in BOOLEAN,
         Len(q.ids) > 0, Marked(q.ids, q.mask), Appendable(q)
  PROVE  \E ids \in Seq(Token), mask \in Seq(Mark) :
           /\ AddAssistantMessage(q, words, overlong) = [q EXCEPT !.ids = ids, !.mask = mask]
           /\ Marked(ids, mask) /\ Len(ids) >= Len(q.ids)
           /\ ~overlong => Last(ids) = "end"
<1>1. PICK head : head = IF Last(q.ids) = "head" THEN <<>> ELSE <<"head">>
  OBVIOUS
<1>2. PICK tail : tail = IF overlong THEN <<>> ELSE <<"end">>
  OBVIOUS
<1>3. PICK last : last = Last(q.ids)
  OBVIOUS
<1>4. last \in {"head", "end"}
  BY <1>3 DEF Appendable
<1>5. /\ head \in Seq(Token) /\ Len(head) \in {0, 1}
      /\ Len(head) = 0 => last = "head"
      /\ Len(head) = 1 => head[1] = "head"
  <2>1. CASE last = "head"
    <3>1. head = <<>>
      BY <2>1, <1>1, <1>3
    <3> QED BY <3>1, <2>1
  <2>2. CASE last # "head"
    <3>1. head = <<"head">>
      BY <2>2, <1>1, <1>3
    <3> QED BY <3>1 DEF Token
  <2> QED BY <2>1, <2>2
<1>6. /\ tail \in Seq(Token) /\ Len(tail) \in {0, 1}
      /\ Len(tail) = 1 => tail[1] = "end"
      /\ ~overlong => Len(tail) = 1
  <2>1. CASE overlong
    <3>1. tail = <<>>
      BY <2>1, <1>2
    <3> QED BY <3>1, <2>1
  <2>2. CASE ~overlong
    <3>1. tail = <<"end">>
      BY <2>2, <1>2
    <3> QED BY <3>1 DEF Token
  <2> QED BY <2>1, <2>2
<1>7. PICK text : text = [i \in 1 .. words |-> "word"] \o tail
  OBVIOUS
<1>8. PICK ones : ones = [i \in 1 .. Len(text) |-> 1]
  OBVIOUS
<1>9. PICK marks : marks = Zeros(Len(head)) \o ones
  OBVIOUS
<1>10. PICK added : added = head \o text
  OBVIOUS
<1>11. /\ text \in Seq(Token) /\ added \in Seq(Token) /\ marks \in Seq(Mark)
       /\ Len(added) = Len(marks)
       /\ \A i \in 1 .. Len(added) : (marks[i] = 1) <=> OwnAfter(last, added, i)
       /\ Len(tail) = 1 => Len(added) > 0 /\ Last(added) = "end"
  <2>1. LET tx == [i \in 1 .. words |-> "word"] \o tail
            mk == Zeros(Len(head)) \o [i \in 1 .. Len(tx) |-> 1] IN
         /\ tx \in Seq(Token) /\ head \o tx \in Seq(Token) /\ mk \in Seq(Mark)
         /\ Len(head \o tx) = Len(mk)
         /\ \A i \in 1 .. Len(head \o tx) : (mk[i] = 1) <=> OwnAfter(last, head \o tx, i)
         /\ Len(tail) = 1 => Len(head \o tx) > 0 /\ Last(head \o tx) = "end"
    BY <1>4, <1>5, <1>6, MessageText
  <2> QED BY <2>1, <1>7, <1>8, <1>9, <1>10
<1>12. PICK ids, mask : ids = q.ids /\ mask = q.mask
  OBVIOUS
<1>13. ids \in Seq(Token) /\ mask \in Seq(Mark) /\ Len(ids) > 0 /\ Marked(ids, mask) /\ last = Last(ids)
  BY <1>3, <1>12 DEF RequestRecords
<1>14. /\ ids \o added \in Seq(Token) /\ mask \o marks \in Seq(Mark)
       /\ Len(ids \o added) = Len(ids) + Len(added)
       /\ Len(added) > 0 => Last(ids \o added) = Last(added)
       /\ Marked(ids \o added, mask \o marks)
  BY <1>11, <1>13, MarkedJoined
<1>15. (ids \o head) \o text = ids \o added
  <2>1. ids \in Seq(Token) /\ head \in Seq(Token) /\ text \in Seq(Token)
    BY <1>5, <1>11, <1>13
  <2>2. (ids \o head) \o text = ids \o (head \o text)
    BY <2>1, Associative, SMTT(30)
  <2> QED BY <2>2, <1>10
<1>16. (mask \o Zeros(Len(head))) \o ones = mask \o marks
  <2>1. Zeros(Len(head)) \in Seq(Mark)
    BY <1>5, ZerosType
  <2>2. ones \in Seq(Mark)
    <3>1. Len(text) \in Nat /\ 1 \in Mark
      BY <1>11 DEF Mark
    <3> QED BY <3>1, <1>8, Repeated
  <2>3. PICK z : z = Zeros(Len(head))
    OBVIOUS
  <2>4. mask \in Seq(Mark) /\ z \in Seq(Mark) /\ ones \in Seq(Mark)
    BY <2>1, <2>2, <2>3, <1>13
  <2>5. (mask \o z) \o ones = mask \o (z \o ones)
    BY <2>4, Associative
  <2> QED BY <2>3, <2>5, <1>9
<1>17. AddAssistantMessage(q, words, overlong) =
         [q EXCEPT !.ids = (ids \o head) \o text, !.mask = (mask \o Zeros(Len(head))) \o ones]
  BY <1>1, <1>2, <1>7, <1>8, <1>12 DEF AddAssistantMessage, RequestRecords
<1>18. Len(ids) \in Nat /\ Len(added) \in Nat
  BY <1>11, <1>13
<1>19. AddAssistantMessage(q, words, overlong) = [q EXCEPT !.ids = ids \o added, !.mask = mask \o marks]
  BY <1>15, <1>16, <1>17
<1>20. ~overlong => Last(ids \o added) = "end"
  BY <1>6, <1>11, <1>14
<1>21. Len(ids \o added) >= Len(q.ids)
  BY <1>12, <1>14, <1>18
<1> QED BY <1>14, <1>19, <1>20, <1>21

(* The tokens of a tool's response. *)
LEMMA ResponseText ==
  ASSUME NEW words \in Nat, NEW first \in BOOLEAN, NEW last \in BOOLEAN
  PROVE  LET text == ToolResponse(words, first, last) IN
         /\ text \in Seq(Token)
         /\ \A i \in 1 .. Len(text) :
              /\ text[i] \in {"tool", "end"}
              /\ text[i] = "end" => (last \/ ~Merge) /\ (i > 1 => text[i - 1] = "tool")
         /\ first \/ ~Merge => Len(text) > 0 /\ text[1] = "tool"
         /\ last \/ ~Merge => Len(text) > 0 /\ text[Len(text)] = "end"
<1>1. PICK head : head = IF first \/ ~Merge THEN <<"tool">> ELSE <<>>
  OBVIOUS
<1>2. PICK tail : tail = IF last \/ ~Merge THEN <<"end">> ELSE <<>>
  OBVIOUS
<1>3. /\ head \in Seq(Token) /\ Len(head) \in {0, 1}
      /\ Len(head) = 1 => head[1] = "tool"
      /\ first \/ ~Merge => Len(head) = 1
  <2>1. CASE first \/ ~Merge
    <3>1. head = <<"tool">>
      BY <2>1, <1>1
    <3> QED BY <3>1 DEF Token
  <2>2. CASE ~(first \/ ~Merge)
    <3>1. head = <<>>
      BY <2>2, <1>1
    <3>2. head \in Seq(Token) /\ Len(head) = 0
      BY <3>1
    <3> QED BY <3>2, <2>2
  <2> QED BY <2>1, <2>2
<1>4. /\ tail \in Seq(Token) /\ Len(tail) \in {0, 1}
      /\ Len(tail) = 1 => tail[1] = "end"
      /\ last \/ ~Merge <=> Len(tail) = 1
  <2>1. CASE last \/ ~Merge
    <3>1. tail = <<"end">>
      BY <2>1, <1>2
    <3>2. tail \in Seq(Token) /\ Len(tail) = 1 /\ tail[1] = "end"
      BY <3>1 DEF Token
    <3> QED BY <3>2, <2>1
  <2>2. CASE ~(last \/ ~Merge)
    <3>1. tail = <<>>
      BY <2>2, <1>2
    <3>2. tail \in Seq(Token) /\ Len(tail) = 0
      BY <3>1
    <3> QED BY <3>2, <2>2
  <2> QED BY <2>1, <2>2
<1>5. PICK some : some = [i \in 1 .. words |-> "tool"]
  OBVIOUS
<1>6. PICK text : text = head \o (some \o tail)
  OBVIOUS
<1>7. "tool" \in Token
  BY DEF Token
<1>8. /\ some \in Seq(Token) /\ text \in Seq(Token) /\ Len(text) = Len(head) + words + Len(tail)
      /\ \A i \in 1 .. Len(text) : text[i] = IF i <= Len(head) THEN head[1]
                                           ELSE IF i <= Len(head) + words THEN "tool" ELSE tail[1]
  <2>1. LET tx == [i \in 1 .. words |-> "tool"] \o tail
            al == head \o tx IN
         /\ [i \in 1 .. words |-> "tool"] \in Seq(Token)
         /\ tx \in Seq(Token) /\ Len(tx) = words + Len(tail)
         /\ al \in Seq(Token) /\ Len(al) = Len(head) + words + Len(tail)
         /\ \A i \in 1 .. Len(al) : al[i] = IF i <= Len(head) THEN head[1]
                                             ELSE IF i <= Len(head) + words THEN "tool" ELSE tail[1]
    BY <1>3, <1>4, <1>7, Spliced
  <2> QED BY <2>1, <1>5, <1>6
<1>9. ToolResponse(words, first, last) = text
  <2>1. (head \o some) \o tail = text
    <3>1. head \in Seq(Token) /\ some \in Seq(Token) /\ tail \in Seq(Token)
      BY <1>3, <1>4, <1>8
    <3>2. (head \o some) \o tail = head \o (some \o tail)
      BY <3>1, Associative, SMTT(30)
    <3> QED BY <3>2, <1>6
  <2> QED BY <2>1, <1>1, <1>2, <1>5 DEF ToolResponse
<1>10. \A i \in 1 .. Len(text) : text[i] = IF i <= Len(head) + words THEN "tool" ELSE "end"
  BY <1>3, <1>4, <1>8
<1>11. ASSUME NEW i \in 1 .. Len(text)
       PROVE  /\ text[i] \in {"tool", "end"}
              /\ text[i] = "end" => (last \/ ~Merge) /\ (i > 1 => text[i - 1] = "tool")
  <2>1. text[i] = "end" => i > Len(head) + words
    BY <1>10
  <2>2. text[i] = "end" => Len(tail) = 1 /\ i = Len(head) + words + 1
    <3>1. Len(text) = Len(head) + words + Len(tail) /\ Len(head) \in Nat
      BY <1>3, <1>8
    <3>2. Len(tail) \in {0, 1}
      BY <1>4
    <3>3. i \in 1 .. Len(text)
      OBVIOUS
    <3>4. PICK h, n, e : h = Len(head) /\ n = Len(text) /\ e = Len(tail)
      OBVIOUS
    <3>5. h \in Nat /\ e \in {0, 1} /\ n = h + words + e /\ i \in 1 .. n
      BY <3>1, <3>2, <3>3, <3>4
    <3>6. i > h + words => e = 1 /\ i = h + words + 1
      BY <3>5
    <3> QED BY <2>1, <3>4, <3>6
  <2>3. text[i] = "end" /\ i > 1 => i - 1 \in 1 .. Len(text) /\ i - 1 <= Len(head) + words
    BY <2>2, <1>3, <1>8
  <2>4. text[i] = "end" /\ i > 1 => text[i - 1] = "tool"
    BY <2>3, <1>10
  <2>5. text[i] \in {"tool", "end"}
    BY <1>10
  <2> QED BY <2>2, <2>4, <2>5, <1>4
<1>12. Len(head) = 1 => Len(text) > 0 /\ text[1] = "tool"
  BY <1>3, <1>4, <1>8, <1>10
<1>13. Len(tail) = 1 => Len(text) > 0 /\ text[Len(text)] = "end"
  <2>1. Len(tail) = 1 => Len(text) \in 1 .. Len(text) /\ Len(text) > Len(head) + words
    BY <1>3, <1>8
  <2> QED BY <2>1, <1>3, <1>8, <1>10
<1> QED BY <1>3, <1>4, <1>8, <1>9, <1>11, <1>12, <1>13

(* Of the tokens after ids none is the model's: each is a tool's, and an    *)
(* "end" comes after one.                                                   *)
Quiet(ids, s) ==
  /\ s \in Seq(Token) /\ Len(ids) <= Len(s)
  /\ \A i \in 1 .. Len(ids) : s[i] = ids[i]
  /\ \A i \in Len(ids) + 1 .. Len(s) : s[i] \in {"tool", "end"} /\ (s[i] = "end" => s[i - 1] = "tool")

LEMMA QuietJoined ==
  ASSUME NEW ids \in Seq(Token), Len(ids) > 0, NEW s, Quiet(ids, s), NEW text \in Seq(Token),
         \A i \in 1 .. Len(text) :
           /\ text[i] \in {"tool", "end"}
           /\ text[i] = "end" => (IF i = 1 THEN s[Len(s)] ELSE text[i - 1]) = "tool"
  PROVE  /\ Quiet(ids, s \o text) /\ Len(s \o text) = Len(s) + Len(text)
         /\ Len(text) > 0 => (s \o text)[Len(s \o text)] = text[Len(text)]
         /\ Len(text) = 0 => s \o text = s
<1>1. s \in Seq(Token) /\ Len(s) \in Nat /\ Len(ids) \in Nat /\ Len(text) \in Nat /\ Len(ids) <= Len(s)
  BY DEF Quiet
<1>2. PICK t : t = s \o text
  OBVIOUS
<1>3. t \in Seq(Token) /\ Len(t) = Len(s) + Len(text)
  BY <1>1, <1>2, Joined
<1>4. \A k \in 1 .. Len(s) : t[k] = s[k]
  BY <1>1, <1>2, Joined
<1>5. \A k \in Len(s) + 1 .. Len(s) + Len(text) : t[k] = text[k - Len(s)]
  BY <1>1, <1>2
<1>6. \A i \in 1 .. Len(ids) : t[i] = ids[i]
  <2>1. SUFFICES ASSUME NEW i \in 1 .. Len(ids) PROVE t[i] = ids[i]
    OBVIOUS
  <2>2. i \in 1 .. Len(s)
    BY <1>1
  <2> QED BY <2>2, <1>4 DEF Quiet
<1>7. ASSUME NEW i \in Len(ids) + 1 .. Len(t)
      PROVE  t[i] \in {"tool", "end"} /\ (t[i] = "end" => t[i - 1] = "tool")
  <2>1. CASE i <= Len(s)
    <3>1. i \in 1 .. Len(s) /\ i \in Len(ids) + 1 .. Len(s) /\ i - 1 \in 1 .. Len(s)
      BY <2>1, <1>1, <1>3
    <3>2. t[i] = s[i] /\ t[i - 1] = s[i - 1]
      BY <3>1, <1>4
    <3> QED BY <3>1, <3>2 DEF Quiet
  <2>2. CASE i > Len(s)
    <3>1. PICK j : j = i - Len(s)
      OBVIOUS
    <3>2. j \in 1 .. Len(text) /\ i \in Len(s) + 1 .. Len(s) + Len(text)
      BY <2>2, <3>1, <1>1, <1>3
    <3>3. t[i] = text[j]
      BY <3>1, <3>2, <1>5
    <3>4. t[i - 1] = IF j = 1 THEN s[Len(s)] ELSE text[j - 1]
      <4>1. CASE j = 1
        <5>1. i - 1 = Len(s) /\ i - 1 \in 1 .. Len(s)
          BY <4>1, <3>1, <3>2, <1>1
        <5> QED BY <4>1, <5>1, <1>4
      <4>2. CASE j # 1
        <5>1. i - 1 \in Len(s) + 1 .. Len(s) + Len(text) /\ (i - 1) - Len(s) = j - 1
          <6>1. PICK a, b : a = Len(s) /\ b = Len(text)
            OBVIOUS
          <6>2. a \in Nat /\ b \in Nat /\ j = i - a /\ j \in 1 .. b /\ i \in a + 1 .. a + b
            BY <6>1, <3>1, <3>2, <1>1
          <6>3. i - 1 \in a + 1 .. a + b /\ (i - 1) - a = j - 1
            BY <6>2, <4>2
          <6> QED BY <6>1, <6>3
        <5>2. t[i - 1] = text[(i - 1) - Len(s)]
          BY <5>1, <1>5
        <5> QED BY <4>2, <5>1, <5>2
      <4> QED BY <4>1, <4>2
    <3> QED BY <3>2, <3>3, <3>4
  <2> QED BY <2>1, <2>2, <1>1, <1>3
<1>8. Quiet(ids, t)
  BY <1>1, <1>3, <1>6, <1>7 DEF Quiet
<1>9. Len(text) > 0 => t[Len(t)] = text[Len(text)]
  <2>1. Len(text) > 0 => Len(t) \in Len(s) + 1 .. Len(s) + Len(text) /\ Len(t) - Len(s) = Len(text)
    BY <1>1, <1>3
  <2> QED BY <2>1, <1>5
<1>10. Len(text) = 0 => t = s
  BY <1>1, <1>2
<1> QED BY <1>2, <1>3, <1>8, <1>9, <1>10

(* The row after k of n responses. *)
Replied(ids, s, k, n) ==
  /\ Quiet(ids, s)
  /\ k < n /\ Merge => s[Len(s)] = "tool"
  /\ k = n => Len(s) >= ModelLength \/ s[Len(s)] = "end"

LEMMA RepliedStep ==
  ASSUME NEW ids \in Seq(Token), Len(ids) > 0, NEW n \in Nat, NEW words \in [1 .. n -> Nat],
         NEW k \in 1 .. n, NEW s, IF k = 1 THEN s = ids ELSE Replied(ids, s, k - 1, n)
  PROVE  Replied(ids, After(s, words, k, n), k, n)
<1>1. Quiet(ids, s)
  <2>1. Quiet(ids, ids)
    BY DEF Quiet
  <2> QED BY <2>1 DEF Replied
<1>2. k > 1 /\ Merge => s[Len(s)] = "tool"
  BY DEF Replied
<1>3. CASE k > 1 /\ Len(s) >= ModelLength
  BY <1>1, <1>2, <1>3 DEF After, Replied
<1>4. CASE ~(k > 1 /\ Len(s) >= ModelLength)
  <2>1. PICK text : text = ToolResponse(words[k], k = 1, k = n)
    OBVIOUS
  <2>2. PICK first \in BOOLEAN, last \in BOOLEAN : (first <=> k = 1) /\ (last <=> k = n)
    <3>1. (k = 1) \in BOOLEAN /\ (k = n) \in BOOLEAN
      OBVIOUS
    <3> QED BY <3>1, Zenon
  <2>3. words[k] \in Nat /\ text = ToolResponse(words[k], first, last)
    <3>1. first = (k = 1) /\ last = (k = n)
      BY <2>2
    <3> QED BY <3>1, <2>1
  <2>4. k # 1 => k > 1
    OBVIOUS
  <2>5. /\ text \in Seq(Token)
        /\ \A i \in 1 .. Len(text) :
             /\ text[i] \in {"tool", "end"}
             /\ text[i] = "end" => (last \/ ~Merge) /\ (i > 1 => text[i - 1] = "tool")
        /\ first \/ ~Merge => Len(text) > 0 /\ text[1] = "tool"
        /\ last \/ ~Merge => Len(text) > 0 /\ text[Len(text)] = "end"
    <3>1. PICK w \in Nat : w = words[k]
      BY <2>3
    <3>2. LET tx == ToolResponse(w, first, last) IN
          /\ tx \in Seq(Token)
          /\ \A i \in 1 .. Len(tx) :
               /\ tx[i] \in {"tool", "end"}
               /\ tx[i] = "end" => (last \/ ~Merge) /\ (i > 1 => tx[i - 1] = "tool")
          /\ first \/ ~Merge => Len(tx) > 0 /\ tx[1] = "tool"
          /\ last \/ ~Merge => Len(tx) > 0 /\ tx[Len(tx)] = "end"
      BY <2>2, <3>1, ResponseText
    <3> QED BY <3>1, <3>2, <2>3
  <2>6. ASSUME NEW i \in 1 .. Len(text)
        PROVE  /\ text[i] \in {"tool", "end"}
               /\ text[i] = "end" => (IF i = 1 THEN s[Len(s)] ELSE text[i - 1]) = "tool"
    <3>1. i = 1 /\ text[1] = "end" => k > 1 /\ Merge
      <4>1. text[1] = "end" => ~first /\ Merge
        BY <2>5, RequestsAssumption
      <4>2. ~first => k > 1
        BY <2>2, <2>4
      <4> QED BY <4>1, <4>2
    <3>2. i # 1 => i > 1
      BY <2>5
    <3> QED BY <3>1, <3>2, <1>2, <2>5
  <2>7. PICK t : t = s \o text
    OBVIOUS
  <2>8. /\ Quiet(ids, t) /\ Len(t) = Len(s) + Len(text)
        /\ Len(text) > 0 => t[Len(t)] = text[Len(text)]
        /\ Len(text) = 0 => t = s
    <3>1. /\ Quiet(ids, s \o text) /\ Len(s \o text) = Len(s) + Len(text)
          /\ Len(text) > 0 => (s \o text)[Len(s \o text)] = text[Len(text)]
          /\ Len(text) = 0 => s \o text = s
      BY <1>1, <2>5, <2>6, QuietJoined, SMTT(30)
    <3> QED BY <3>1, <2>7
  <2>9. After(s, words, k, n) = t
    BY <1>4, <2>1, <2>7 DEF After
  <2>10. k < n /\ Merge => t[Len(t)] = "tool"
    <3>1. SUFFICES ASSUME k < n, Merge PROVE t[Len(t)] = "tool"
      OBVIOUS
    <3>2. CASE Len(text) = 0
      <4>1. ~first
        BY <2>5, <3>2
      <4>2. k > 1
        BY <4>1, <2>2, <2>4
      <4> QED BY <3>1, <3>2, <4>2, <1>2, <2>8
    <3>3. CASE Len(text) # 0
      <4>1. Len(text) \in 1 .. Len(text) /\ Len(text) > 0
        BY <3>3, <2>5
      <4>2. ~last /\ Merge
        <5>1. k # n
          BY <3>1
        <5> QED BY <5>1, <3>1, <2>2
      <4>3. text[Len(text)] = "tool"
        BY <4>1, <4>2, <2>5
      <4> QED BY <4>1, <4>3, <2>8
    <3> QED BY <3>2, <3>3
  <2>11. k = n => t[Len(t)] = "end"
    <3>1. k = n => last
      BY <2>2
    <3> QED BY <3>1, <2>5, <2>8
  <2> QED BY <2>8, <2>9, <2>10, <2>11 DEF Replied
<1> QED BY <1>3, <1>4

(* However many responses there are and wherever the loop breaks. *)
LEMMA AllReplied ==
  ASSUME NEW ids \in Seq(Token), Len(ids) > 0, NEW n \in Nat \ {0}, NEW words \in [1 .. n -> Nat]
  PROVE  Replied(ids, WithResponses(ids, words, n)[n], n, n)
<1>1. PICK f : f = WithResponses(ids, words, n)
  OBVIOUS
<1>2. f[0] = ids /\ \A k \in 1 .. n : f[k] = After(f[k - 1], words, k, n)
  BY <1>1, ResponsesByStep
<1>3. PICK bad : bad = {k \in 1 .. n : ~Replied(ids, f[k], k, n)}
  OBVIOUS
<1>4. bad = {}
  <2>1. SUFFICES ASSUME bad # {} PROVE FALSE
    OBVIOUS
  <2>2. bad \subseteq Nat
    BY <1>3
  <2>3. PICK k \in bad : \A j \in bad : k <= j
    BY <2>1, <2>2, LeastNatural
  <2>4. k \in 1 .. n /\ ~Replied(ids, f[k], k, n)
    BY <1>3
  <2>5. k = 1 => f[k - 1] = ids
    BY <1>2
  <2>6. k # 1 => Replied(ids, f[k - 1], k - 1, n)
    <3>1. k # 1 => k - 1 \in 1 .. n /\ ~(k <= k - 1)
      BY <2>4
    <3> QED BY <3>1, <2>3, <1>3
  <2>7. Replied(ids, After(f[k - 1], words, k, n), k, n)
    BY <2>4, <2>5, <2>6, RepliedStep
  <2> QED BY <2>4, <2>7, <1>2
<1>5. n \in 1 .. n
  OBVIOUS
<1> QED BY <1>1, <1>3, <1>4, <1>5

(* The responses keep a row marked. *)
LEMMA QuietMarked ==
  ASSUME NEW ids \in Seq(Token), NEW mask \in Seq(Mark), Len(ids) > 0, Marked(ids, mask),
         NEW s, Quiet(ids, s)
  PROVE  /\ mask \o Zeros(Len(s) - Len(ids)) \in Seq(Mark)
         /\ Marked(s, mask \o Zeros(Len(s) - Len(ids)))
<1>1. s \in Seq(Token) /\ Len(s) \in Nat /\ Len(ids) \in Nat /\ Len(ids) <= Len(s) /\ Len(mask) = Len(ids)
  BY DEF Quiet, Marked
<1>2. PICK z : z = Zeros(Len(s) - Len(ids))
  OBVIOUS
<1>3. z \in Seq(Mark) /\ Len(z) = Len(s) - Len(ids) /\ \A i \in 1 .. Len(s) - Len(ids) : z[i] = 0
  <2>1. Len(s) - Len(ids) \in Nat
    BY <1>1
  <2> QED BY <2>1, <1>2, ZerosType
<1>4. PICK m : m = mask \o z
  OBVIOUS
<1>5. m \in Seq(Mark) /\ Len(m) = Len(s)
  <2>1. m \in Seq(Mark) /\ Len(m) = Len(mask) + Len(z)
    BY <1>3, <1>4, Joined
  <2> QED BY <2>1, <1>1, <1>3
<1>6. \A k \in 1 .. Len(mask) : m[k] = mask[k]
  BY <1>3, <1>4, Joined
<1>7. \A k \in Len(mask) + 1 .. Len(mask) + Len(z) : m[k] = z[k - Len(mask)]
  BY <1>3, <1>4
<1>8. ASSUME NEW i \in 1 .. Len(s) PROVE (m[i] = 1) <=> Own(s, i)
  <2>1. CASE i <= Len(ids)
    <3>1. i \in 1 .. Len(ids) /\ (i > 1 => i - 1 \in 1 .. Len(ids))
      BY <2>1, <1>1
    <3>2. s[i] = ids[i] /\ m[i] = mask[i] /\ (i > 1 => s[i - 1] = ids[i - 1])
      BY <3>1, <1>1, <1>6 DEF Quiet
    <3> QED BY <3>1, <3>2 DEF Marked, Own
  <2>2. CASE i > Len(ids)
    <3>1. i \in Len(ids) + 1 .. Len(s) /\ i \in Len(mask) + 1 .. Len(mask) + Len(z)
          /\ i - Len(mask) \in 1 .. Len(s) - Len(ids)
      BY <2>2, <1>1, <1>3
    <3>2. m[i] = 0
      BY <3>1, <1>3, <1>7
    <3>3. s[i] \in {"tool", "end"} /\ (s[i] = "end" => s[i - 1] = "tool")
      BY <3>1 DEF Quiet
    <3> QED BY <3>2, <3>3 DEF Own
  <2> QED BY <2>1, <2>2, <1>1
<1> QED BY <1>1, <1>2, <1>4, <1>5, <1>8 DEF Marked

----------------------------------------------------------------------------
(* Every step of a request keeps it sound *)

LEMMA NewSound ==
  ASSUME NEW n \in Nat
  PROVE  /\ Sound(NewRequest(n))
         /\ NewRequest(n).state = "pending" /\ NewRequest(n).at = "loop" /\ NewRequest(n).asked = <<>>
<1>1. PICK whole : whole = Prompt(n)
  OBVIOUS
<1>2. whole \in Seq(Token) /\ Len(whole) = n + 1 /\ \A i \in 1 .. n + 1 : whole[i] \in {"ask", "head"}
  <2>1. PICK u : u = [i \in 1 .. n |-> "ask"]
    OBVIOUS
  <2>2. u \in Seq(Token) /\ Len(u) = n /\ \A i \in 1 .. n : u[i] = "ask"
    BY <2>1, Repeated DEF Token
  <2>3. <<"head">> \in Seq(Token) /\ Len(<<"head">>) = 1 /\ <<"head">>[1] = "head"
    BY DEF Token
  <2>4. whole = u \o <<"head">>
    BY <1>1, <2>1 DEF Prompt
  <2>5. whole \in Seq(Token) /\ Len(whole) = n + 1
    BY <2>2, <2>3, <2>4, Joined
  <2>6. ASSUME NEW i \in 1 .. n + 1 PROVE whole[i] \in {"ask", "head"}
    <3>1. CASE i <= n
      BY <3>1, <2>2, <2>3, <2>4, Joined
    <3>2. CASE i = n + 1
      BY <3>2, <2>2, <2>4
    <3> QED BY <3>1, <3>2
  <2> QED BY <2>5, <2>6
<1>3. PICK l : l = Least(n + 1, PromptLength)
  OBVIOUS
<1>4. l \in 1 .. PromptLength /\ l <= n + 1
  BY <1>3, RequestsAssumption DEF Least
<1>5. PICK ids : ids = SubSeq(whole, 1, l)
  OBVIOUS
<1>6. ids \in Seq(Token) /\ Len(ids) = l /\ \A i \in 1 .. l : ids[i] = whole[i]
  BY <1>2, <1>4, <1>5
<1>7. PICK mask : mask = Zeros(l)
  OBVIOUS
<1>8. mask \in Seq(Mark) /\ Len(mask) = l /\ \A i \in 1 .. l : mask[i] = 0
  <2>1. l \in Nat
    BY <1>4
  <2> QED BY <2>1, <1>7, ZerosType
<1>9. Marked(ids, mask)
  <2>1. \A i \in 1 .. l : ids[i] \in {"ask", "head"}
    BY <1>2, <1>4, <1>6
  <2> QED BY <2>1, <1>6, <1>8 DEF Marked, Own
<1>10. PICK q : q = NewRequest(n)
  OBVIOUS
<1>11. q = [state |-> "pending", at |-> "loop", turns |-> 0, reason |-> "none", asked |-> <<>>,
            prompt |-> l, full |-> n + 1, ids |-> ids, mask |-> mask]
  BY <1>1, <1>3, <1>5, <1>6, <1>7, <1>10 DEF NewRequest
<1>12. q \in RequestRecords
  <2>1. <<>> \in Seq(Tools)
    OBVIOUS
  <2> QED BY <2>1, <1>4, <1>6, <1>8, <1>11, RequestsAssumption DEF RequestRecords
<1>13. q.prompt <= Len(q.ids) /\ Marked(q.ids, q.mask)
  BY <1>4, <1>6, <1>9, <1>11
<1>14. Placed(q) /\ Ended(q) /\ WellEnded(q)
  BY <1>11 DEF Placed, Ended, WellEnded
<1> QED BY <1>10, <1>11, <1>12, <1>13, <1>14 DEF Sound

(* Steps that only change the place or the state. *)
LEMMA MovedSound ==
  ASSUME NEW q, Sound(q),
         NEW at \in {"loop", "engine", "tools", "out"}, NEW state \in {"running", "tool_calling", "completed"},
         q.at = "loop",
         at = "engine" => state = "running" /\ q.turns < MaxTurns /\ Fits(q),
         at = "tools" => state = "tool_calling",
         state = "tool_calling" => q.state = "tool_calling",
         at = "out" => q.turns >= MaxTurns,
         q.turns = 0 => at \in {"loop", "engine"}
  PROVE  Sound([q EXCEPT !.at = at, !.state = state])
<1>1. PICK p : p = [q EXCEPT !.at = at, !.state = state]
  OBVIOUS
<1>2. q \in RequestRecords
  BY DEF Sound
<1>3. /\ p \in RequestRecords /\ p.at = at /\ p.state = state /\ p.turns = q.turns /\ p.asked = q.asked
      /\ p.ids = q.ids /\ p.mask = q.mask /\ p.prompt = q.prompt /\ p.reason = q.reason
  BY <1>1, <1>2 DEF RequestRecords
<1>4. p.prompt <= Len(p.ids) /\ Marked(p.ids, p.mask)
  BY <1>3 DEF Sound
<1>5. Placed(p)
  <2>1. at = "engine" => Fits(p)
    BY <1>1, <1>2 DEF Fits, GenerationLength, RequestRecords
  <2> QED BY <2>1, <1>3 DEF Sound, Placed
<1>6. Ended(p) /\ WellEnded(p)
  BY <1>3 DEF Sound, Ended, WellEnded
<1> QED BY <1>1, <1>3, <1>4, <1>5, <1>6 DEF Sound

LEMMA AnsweredSound ==
  ASSUME NEW q, Sound(q), q.at = "engine", Appendable(q),
         NEW kind \in {"length", "calls", "garbled", "plain"}, NEW words \in Nat,
         NEW asked \in Seq(Tools), kind = "calls" => asked # <<>>
  PROVE  LET p == Answered(q, kind, words, asked) IN
         Sound(p) /\ p.asked = asked /\ p.state # "pending" /\ p.at \in {"loop", "out"}
<1>1. /\ q \in RequestRecords /\ Marked(q.ids, q.mask) /\ q.state = "running" /\ q.turns < MaxTurns
      /\ q.turns \in Nat /\ q.prompt <= Len(q.ids) /\ q.prompt \in 1 .. PromptLength /\ q.ids \in Seq(Token)
  BY RequestsAssumption DEF Sound, Placed, RequestRecords
<1>2. Len(q.ids) > 0 /\ Len(q.ids) \in Nat
  BY <1>1
<1>3. PICK overlong \in BOOLEAN : overlong <=> kind = "length"
  <2>1. (kind = "length") \in BOOLEAN
    OBVIOUS
  <2> QED BY <2>1, Zenon
<1>4. PICK ids \in Seq(Token), mask \in Seq(Mark) :
        /\ AddAssistantMessage(q, words, overlong) = [q EXCEPT !.ids = ids, !.mask = mask]
        /\ Marked(ids, mask) /\ Len(ids) >= Len(q.ids)
        /\ ~overlong => Last(ids) = "end"
  BY <1>1, <1>2, <1>3, AssistantMarked, ZenonT(40)
<1>5. PICK m : m = [AddAssistantMessage(q, words, kind = "length") EXCEPT !.turns = q.turns + 1, !.asked = asked]
  OBVIOUS
<1>6. m = [[q EXCEPT !.ids = ids, !.mask = mask] EXCEPT !.turns = q.turns + 1, !.asked = asked]
  <2>1. overlong = (kind = "length")
    BY <1>3
  <2> QED BY <2>1, <1>4, <1>5
<1>7. /\ m \in RequestRecords /\ m.at = "engine" /\ m.state = "running" /\ m.turns = q.turns + 1 /\ m.asked = asked
      /\ m.ids = ids /\ m.mask = mask /\ m.prompt = q.prompt
  <2>1. q.turns + 1 \in 0 .. MaxTurns
    BY <1>1, RequestsAssumption
  <2> QED BY <2>1, <1>1, <1>4, <1>6 DEF RequestRecords, Sound
<1>8. PICK p : p = Answered(q, kind, words, asked)
  OBVIOUS
<1>9. /\ kind = "length" => p = [m EXCEPT !.reason = "length", !.at = "out"]
      /\ kind = "calls" => p = [m EXCEPT !.reason = "tool_calls", !.at = "loop", !.state = "tool_calling"]
      /\ kind = "garbled" => p = [m EXCEPT !.reason = "stop", !.at = "out", !.state = "completed"]
      /\ kind = "plain" => p = [m EXCEPT !.reason = "stop", !.at = "out"]
  BY <1>5, <1>8 DEF Answered
<1>10. /\ p \in RequestRecords /\ p.turns = q.turns + 1 /\ p.asked = asked
       /\ p.ids = ids /\ p.mask = mask /\ p.prompt = q.prompt
       /\ kind = "length" => p.reason = "length" /\ p.at = "out" /\ p.state = "running"
       /\ kind = "calls" => p.reason = "tool_calls" /\ p.at = "loop" /\ p.state = "tool_calling"
       /\ kind = "garbled" => p.reason = "stop" /\ p.at = "out" /\ p.state = "completed"
       /\ kind = "plain" => p.reason = "stop" /\ p.at = "out" /\ p.state = "running"
  <2>1. CASE kind = "length"
    BY <2>1, <1>7, <1>9 DEF RequestRecords
  <2>2. CASE kind = "calls"
    BY <2>2, <1>7, <1>9 DEF RequestRecords
  <2>3. CASE kind = "garbled"
    BY <2>3, <1>7, <1>9, ZenonT(40) DEF RequestRecords
  <2>4. CASE kind = "plain"
    BY <2>4, <1>7, <1>9, ZenonT(40) DEF RequestRecords
  <2> QED BY <2>1, <2>2, <2>3, <2>4
<1>11. p.prompt <= Len(p.ids) /\ Marked(p.ids, p.mask)
  <2>1. Len(ids) \in Nat
    BY <1>4
  <2> QED BY <2>1, <1>1, <1>2, <1>4, <1>10
<1>12. Placed(p)
  <2>1. p.turns # 0
    BY <1>1, <1>10
  <2> QED BY <2>1, <1>10 DEF Placed
<1>13. Ended(p) /\ WellEnded(p)
  <2>1. kind # "length" => Last(p.ids) = "end"
    BY <1>3, <1>4, <1>10
  <2> QED BY <2>1, <1>10 DEF Ended, WellEnded
<1>14. Sound(p) /\ p.asked = asked /\ p.state # "pending" /\ p.at \in {"loop", "out"}
  BY <1>10, <1>11, <1>12, <1>13 DEF Sound
<1> QED BY <1>8, <1>14

LEMMA RespondedSound ==
  ASSUME NEW q, Sound(q), q.at = "tools", NEW words \in [DOMAIN q.asked -> Nat]
  PROVE  LET p == Responded(q, words) IN
         Sound(p) /\ p.asked = q.asked /\ p.state # "pending" /\ p.at \in {"loop", "out"}
<1>1. /\ q \in RequestRecords /\ Marked(q.ids, q.mask) /\ q.state = "tool_calling" /\ q.asked # <<>>
      /\ q.turns \in Nat /\ q.turns # 0 /\ q.prompt <= Len(q.ids) /\ q.prompt \in 1 .. PromptLength
      /\ q.ids \in Seq(Token) /\ q.mask \in Seq(Mark) /\ q.asked \in Seq(Tools)
  BY RequestsAssumption DEF Sound, Placed, RequestRecords
<1>2. Len(q.ids) > 0 /\ Len(q.ids) \in Nat
  BY <1>1
<1>3. PICK n : n = Len(q.asked)
  OBVIOUS
<1>4. n \in Nat \ {0} /\ DOMAIN q.asked = 1 .. n
  BY <1>1, <1>3
<1>5. PICK s : s = WithResponses(q.ids, words, n)[n]
  OBVIOUS
<1>6. Replied(q.ids, s, n, n)
  <2>1. words \in [1 .. n -> Nat]
    BY <1>4
  <2> QED BY <2>1, <1>1, <1>2, <1>4, <1>5, AllReplied
<1>7. Quiet(q.ids, s) /\ (Len(s) >= ModelLength \/ s[Len(s)] = "end")
  BY <1>6 DEF Replied
<1>8. s \in Seq(Token) /\ Len(s) \in Nat /\ Len(q.ids) <= Len(s)
  BY <1>7 DEF Quiet
<1>9. PICK mask : mask = q.mask \o Zeros(Len(s) - Len(q.ids))
  OBVIOUS
<1>10. mask \in Seq(Mark) /\ Marked(s, mask)
  BY <1>1, <1>2, <1>7, <1>9, QuietMarked
<1>11. PICK m : m = [q EXCEPT !.ids = s, !.mask = mask]
  OBVIOUS
<1>12. /\ m \in RequestRecords /\ m.at = "tools" /\ m.state = "tool_calling" /\ m.turns = q.turns
       /\ m.asked = q.asked /\ m.ids = s /\ m.mask = mask /\ m.prompt = q.prompt
  BY <1>1, <1>8, <1>10, <1>11 DEF RequestRecords
<1>13. PICK p : p = Responded(q, words)
  OBVIOUS
<1>14. p = IF Len(s) >= ModelLength THEN [m EXCEPT !.reason = "stop", !.at = "out"]
                                    ELSE [m EXCEPT !.state = "running", !.at = "loop"]
  BY <1>1, <1>3, <1>5, <1>9, <1>11, <1>13 DEF Responded, RequestRecords
<1>15. /\ p \in RequestRecords /\ p.turns = q.turns /\ p.asked = q.asked /\ p.ids = s /\ p.mask = mask
       /\ p.prompt = q.prompt
       /\ IF Len(s) >= ModelLength THEN p.reason = "stop" /\ p.at = "out" /\ p.state = "tool_calling"
                                   ELSE p.at = "loop" /\ p.state = "running"
  <2>1. CASE Len(s) >= ModelLength
    BY <2>1, <1>12, <1>14 DEF RequestRecords
  <2>2. CASE ~(Len(s) >= ModelLength)
    BY <2>2, <1>12, <1>14 DEF RequestRecords
  <2> QED BY <2>1, <2>2
<1>16. p.prompt <= Len(p.ids) /\ Marked(p.ids, p.mask)
  BY <1>1, <1>2, <1>8, <1>10, <1>15
<1>17. Placed(p)
  BY <1>1, <1>15 DEF Placed
<1>18. Ended(p) /\ WellEnded(p)
  BY <1>7, <1>15 DEF Ended, WellEnded, Last
<1>19. Sound(p) /\ p.asked = q.asked /\ p.state # "pending" /\ p.at \in {"loop", "out"}
  BY <1>15, <1>16, <1>17, <1>18 DEF Sound
<1> QED BY <1>13, <1>19

LEMMA FinalSound ==
  ASSUME NEW q, Sound(q), q.at = "out"
  PROVE  LET p == [Truncated(q) EXCEPT !.at = "done", !.state = "completed"] IN
         Sound(p) /\ p.asked = q.asked /\ p.state = "completed" /\ p.at = "done"
<1>1. /\ q \in RequestRecords /\ Marked(q.ids, q.mask) /\ q.turns \in Nat /\ q.turns # 0
      /\ q.prompt <= Len(q.ids) /\ q.prompt \in 1 .. PromptLength
      /\ q.ids \in Seq(Token) /\ q.mask \in Seq(Mark)
      /\ Last(q.ids) = "end" \/ q.reason = "length" \/ Len(q.ids) >= ModelLength
  BY RequestsAssumption DEF Sound, Placed, Ended, RequestRecords
<1>2. PICK l : l = Len(q.ids)
  OBVIOUS
<1>3. l \in Nat /\ Len(q.mask) = l /\ q.prompt <= l
  BY <1>1, <1>2 DEF Marked
<1>4. PICK limit : limit = Least(Least(l, PromptLength + ResponseLength), q.prompt + ResponseLength)
  OBVIOUS
<1>5. /\ limit \in Nat /\ limit <= l /\ limit >= q.prompt /\ limit <= q.prompt + ResponseLength
      /\ limit = l \/ limit = q.prompt + ResponseLength
  BY <1>1, <1>3, <1>4, RequestsAssumption DEF Least
<1>6. PICK ids, mask : ids = SubSeq(q.ids, 1, limit) /\ mask = SubSeq(q.mask, 1, limit)
  OBVIOUS
<1>7. ids \in Seq(Token) /\ Len(ids) = limit /\ \A i \in 1 .. limit : ids[i] = q.ids[i]
  BY <1>1, <1>2, <1>5, <1>6
<1>8. mask \in Seq(Mark) /\ Len(mask) = limit /\ \A i \in 1 .. limit : mask[i] = q.mask[i]
  BY <1>1, <1>3, <1>5, <1>6
<1>9. Marked(ids, mask)
  <2>1. ASSUME NEW i \in 1 .. limit PROVE (mask[i] = 1) <=> Own(ids, i)
    <3>1. i \in 1 .. l /\ (i > 1 => i - 1 \in 1 .. limit)
      BY <1>3, <1>5
    <3>2. (q.mask[i] = 1) <=> Own(q.ids, i)
      BY <3>1, <1>1, <1>2 DEF Marked
    <3>3. i > 1 => ids[i - 1] = q.ids[i - 1]
      BY <3>1, <1>7
    <3> QED BY <3>2, <3>3, <1>7, <1>8 DEF Own
  <2> QED BY <2>1, <1>7, <1>8 DEF Marked
<1>10. PICK m : m = Truncated(q)
  OBVIOUS
<1>11. m = [q EXCEPT !.ids = ids, !.mask = mask]
  BY <1>1, <1>2, <1>4, <1>6, <1>10 DEF Truncated, RequestRecords
<1>12. m \in RequestRecords /\ m.ids = ids /\ m.mask = mask /\ m.prompt = q.prompt /\ m.asked = q.asked
       /\ m.reason = q.reason /\ m.turns = q.turns
  BY <1>1, <1>7, <1>8, <1>11 DEF RequestRecords
<1>13. PICK p : p = [m EXCEPT !.at = "done", !.state = "completed"]
  OBVIOUS
<1>14. /\ p \in RequestRecords /\ p.at = "done" /\ p.state = "completed" /\ p.ids = ids /\ p.mask = mask
       /\ p.prompt = q.prompt /\ p.asked = q.asked /\ p.reason = q.reason /\ p.turns = q.turns
  BY <1>12, <1>13 DEF RequestRecords
<1>15. p.prompt <= Len(p.ids) /\ Marked(p.ids, p.mask)
  BY <1>5, <1>7, <1>9, <1>14
<1>16. Placed(p) /\ Ended(p)
  BY <1>1, <1>14 DEF Placed, Ended
<1>17. WellEnded(p)
  <2>1. CASE limit = q.prompt + ResponseLength
    <3>1. Len(p.ids) - p.prompt = ResponseLength
      BY <2>1, <1>1, <1>5, <1>7, <1>14, RequestsAssumption
    <3>2. ResponseLength <= ResponseLength
      BY RequestsAssumption
    <3> QED BY <3>1, <3>2 DEF WellEnded
  <2>2. CASE limit # q.prompt + ResponseLength
    <3>1. limit = l
      BY <2>2, <1>5
    <3>2. ~(Len(q.ids) >= ModelLength)
      BY <2>2, <3>1, <1>1, <1>2, <1>5, RequestsAssumption, SMTT(30)
    <3>3. l > 0 /\ l \in 1 .. limit
      BY <3>1, <1>1, <1>3
    <3>4. Last(p.ids) = Last(q.ids)
      BY <3>1, <3>3, <1>2, <1>7, <1>14 DEF Last
    <3>5. Len(p.ids) - p.prompt <= ResponseLength
      BY <1>1, <1>5, <1>7, <1>14, RequestsAssumption
    <3> QED BY <3>2, <3>4, <3>5, <1>1, <1>14 DEF WellEnded
  <2> QED BY <2>1, <2>2
<1>18. Sound(p) /\ p.asked = q.asked /\ p.state = "completed" /\ p.at = "done"
  BY <1>14, <1>15, <1>16, <1>17 DEF Sound
<1> QED BY <1>10, <1>13, <1>18

----------------------------------------------------------------------------
(* The invariant holds at first and is kept *)

LEMMA InitInv == Init => IInv
<1> SUFFICES ASSUME Init PROVE IInv
  OBVIOUS
<1>1. PICK ask \in [Rows -> AskLengths] : req = [r \in Rows |-> NewRequest(ask[r])]
  BY DEF Init
<1>2. \A r \in Rows : /\ Sound(req[r]) /\ req[r].state = "pending" /\ Len(req[r].asked) <= MaxCalls[r]
  <2>1. SUFFICES ASSUME NEW r \in Rows
                 PROVE  Sound(req[r]) /\ req[r].state = "pending" /\ Len(req[r].asked) <= MaxCalls[r]
    OBVIOUS
  <2>2. ask[r] \in Nat /\ req[r] = NewRequest(ask[r]) /\ MaxCalls[r] \in Nat
    BY <1>1, RequestsAssumption
  <2>3. Sound(req[r]) /\ req[r].state = "pending" /\ req[r].asked = <<>>
    BY <2>2, NewSound
  <2> QED BY <2>2, <2>3
<1>3. RowsInv
  BY <1>1, <1>2 DEF RowsInv
<1>4. LentInv
  <2>1. Lent = {}
    BY <1>2 DEF Lent
  <2> QED BY <2>1, RequestsAssumption DEF LentInv, Init
<1>5. /\ call = [c \in Calls |-> NoCall] /\ acquiring = <<>> /\ tokens = RateLimit /\ returning = 0
      /\ limited \in Limiters
  BY DEF Init, PoolInit
<1>6. PoolTypeOK
  <2>1. NoCall \in CallRecords
    BY DEF NoCall, CallRecords, Tools
  <2> QED BY <2>1, <1>5, PoolAssumption DEF PoolTypeOK
<1>7. CallsInv /\ LineInv
  BY <1>5 DEF CallsInv, LineInv, NoCall
<1>8. TokenInv
  <2>1. Serving = {}
    BY <1>5 DEF Serving, In, NoCall
  <2> QED BY <2>1, <1>5, PoolAssumption, FS_EmptySet DEF TokenInv
<1> QED BY <1>3, <1>4, <1>6, <1>7, <1>8 DEF IInv

LEMMA OneRow ==
  ASSUME RowsInv, NEW r \in Rows, NEW p, Sound(p), Len(p.asked) <= MaxCalls[r],
         req' = [req EXCEPT ![r] = p]
  PROVE  RowsInv'
<1>1. DOMAIN req = Rows
  BY DEF RowsInv
<1>2. \A s \in Rows : req'[s] = IF s = r THEN p ELSE req[s]
  BY <1>1
<1>3. \A s \in Rows : Sound(req'[s]) /\ Len(req'[s].asked) <= MaxCalls[s]
  BY <1>2 DEF RowsInv
<1>4. req' = [s \in Rows |-> req'[s]]
  BY <1>1
<1>5. \A q : Sound(q)' <=> Sound(q)
  BY DEF Sound, Placed, Ended, WellEnded, Marked, Own, RequestRecords
<1> QED BY <1>3, <1>4 DEF RowsInv, Sound, Placed, Ended, WellEnded, Marked, Own, RequestRecords

(* Only pending and finished requests have nothing of their tools. *)
Has(q) == q.state # "pending" /\ q.at # "done"

(* The steps of a request that leave its tools alone. *)
LEMMA QuietStep ==
  ASSUME IInv, failed = "no", NEW r \in Rows, NEW p, Sound(p), Len(p.asked) <= MaxCalls[r],
         req[r].at # "tools", Has(p) <=> Has(req[r]),
         req' = [req EXCEPT ![r] = p], UNCHANGED <<poolVars, batches, grant, instances, failed>>
  PROVE  IInv'
<1>0. UNCHANGED <<limited, call, acquiring, tokens, returning>> /\ UNCHANGED <<batches, grant, instances, failed>>
  BY DEF poolVars
<1>1. RowsInv'
  BY OneRow DEF IInv
<1>2. \A s \in Rows : req'[s] = IF s = r THEN p ELSE req[s]
  BY DEF IInv, RowsInv
<1>3. LentInv'
  <2>1. \A s \in Rows : (req'[s].state # "pending" /\ req'[s].at # "done")
                          <=> (req[s].state # "pending" /\ req[s].at # "done")
    BY <1>2 DEF Has
  <2>2. Lent' = Lent
    <3>1. {s \in Rows : req'[s].state # "pending" /\ req'[s].at # "done"}
            = {s \in Rows : req[s].state # "pending" /\ req[s].at # "done"}
      BY <2>1, Zenon
    <3> QED BY <3>1, <1>0 DEF Lent
  <2> QED BY <2>2, <1>0 DEF IInv, LentInv
<1>4. CallsInv'
  <2>1. SUFFICES ASSUME NEW c \in Calls, call[c].phase # "none"
                 PROVE  /\ c[1] \in Rows /\ req'[c[1]].at = "tools" /\ c[2] \in DOMAIN req'[c[1]].asked
                        /\ call[c].tool = req'[c[1]].asked[c[2]] /\ call[c].tool \in grant[c[1]]
    BY <1>0 DEF CallsInv
  <2>2. /\ c[1] \in Rows /\ req[c[1]].at = "tools" /\ c[2] \in DOMAIN req[c[1]].asked
        /\ call[c].tool = req[c[1]].asked[c[2]] /\ call[c].tool \in grant[c[1]]
    BY <2>1 DEF IInv, CallsInv
  <2>3. req'[c[1]] = req[c[1]]
    BY <2>2, <1>2
  <2> QED BY <2>2, <2>3
<1>5. PoolTypeOK' /\ LineInv' /\ TokenInv'
  <2>1. Serving' = Serving
    BY <1>0 DEF Serving, In
  <2> QED BY <2>1, <1>0 DEF IInv, PoolTypeOK, LineInv, TokenInv
<1> QED BY <1>1, <1>3, <1>4, <1>5 DEF IInv

(* An exception ends the batch as it is. *)
LEMMA RaiseInv ==
  ASSUME IInv, NEW what \in {"engine", "format", "grant", "tool"}, Raise(what)
  PROVE  IInv'
<1>1. failed' = what /\ UNCHANGED <<batches, grant, req, instances>>
      /\ UNCHANGED <<limited, call, acquiring, tokens, returning>>
  BY DEF Raise, poolVars
<1>2. RowsInv'
  BY <1>1 DEF IInv, RowsInv, Sound, Placed, Ended, WellEnded, Marked, Own, RequestRecords
<1>3. LentInv'
  BY <1>1 DEF IInv, LentInv
<1>4. CallsInv'
  BY <1>1 DEF IInv, CallsInv
<1>5. PoolTypeOK' /\ LineInv' /\ TokenInv'
  <2>1. Serving' = Serving
    BY <1>1 DEF Serving, In
  <2> QED BY <2>1, <1>1 DEF IInv, PoolTypeOK, LineInv, TokenInv
<1> QED BY <1>2, <1>3, <1>4, <1>5 DEF IInv

LEMMA RowFacts ==
  ASSUME IInv, NEW r \in Rows
  PROVE  /\ Sound(req[r]) /\ Len(req[r].asked) <= MaxCalls[r] /\ DOMAIN req = Rows
         /\ req[r] \in RequestRecords /\ Placed(req[r])
         /\ req[r].asked \in Seq(Tools) /\ grant[r] \in SUBSET Tools
BY RequestsAssumption DEF IInv, RowsInv, LentInv, Sound, RequestRecords

LEMMA EngineInv == ASSUME IInv, NEW r \in Rows, HandleEngineCall(r) PROVE IInv'
<1>1. failed = "no" /\ req[r].at = "loop" /\ req[r].state = "running" /\ req[r].turns < MaxTurns
  BY DEF HandleEngineCall, Turning, At
<1>2. CASE Fits(req[r])
  <2>1. PICK p : p = [req[r] EXCEPT !.at = "engine", !.state = "running"]
    BY Zenon
  <2>2. Sound(p)
    <3>1. Sound(req[r])
      BY RowFacts
    <3> QED BY <3>1, <2>1, <1>1, <1>2, MovedSound, ZenonT(20)
  <2>3. req[r] \in RequestRecords /\ Len(req[r].asked) <= MaxCalls[r]
    BY RowFacts
  <2>4. p = [req[r] EXCEPT !.at = "engine"] /\ p.asked = req[r].asked /\ p.state = "running" /\ p.at = "engine"
    BY <2>1, <2>3, <1>1 DEF RequestRecords
  <2>5. req' = [req EXCEPT ![r] = p] /\ UNCHANGED <<poolVars, batches, grant, instances, failed>>
    BY <1>2, <2>4 DEF HandleEngineCall
  <2>6. Has(p) <=> Has(req[r])
    BY <2>4, <1>1 DEF Has
  <2> QED BY <2>2, <2>3, <2>4, <2>5, <2>6, <1>1, QuietStep
<1>3. CASE ~Fits(req[r])
  BY <1>3, RaiseInv DEF HandleEngineCall
<1> QED BY <1>2, <1>3

LEMMA UseUpInv == ASSUME IInv, NEW r \in Rows, UseUpTurns(r) PROVE IInv'
<1>1. failed = "no" /\ req[r].at = "loop" /\ req[r].turns >= MaxTurns
  BY DEF UseUpTurns, At
<1>2. Sound(req[r]) /\ req[r] \in RequestRecords /\ Len(req[r].asked) <= MaxCalls[r]
  BY RowFacts
<1>3. req[r].turns # 0
  BY <1>1, RequestsAssumption
<1>4. req[r].state \in {"running", "tool_calling", "completed"}
  BY <1>2, <1>3 DEF Sound, Placed, RequestRecords
<1>5. PICK p : p = [req[r] EXCEPT !.at = "out", !.state = req[r].state]
  BY Zenon
<1>6. Sound(p)
  BY <1>1, <1>2, <1>3, <1>4, <1>5, MovedSound, ZenonT(20)
<1>7. p = [req[r] EXCEPT !.at = "out"] /\ p.asked = req[r].asked /\ p.state = req[r].state /\ p.at = "out"
  BY <1>2, <1>5 DEF RequestRecords
<1>8. req' = [req EXCEPT ![r] = p] /\ UNCHANGED <<poolVars, batches, grant, instances, failed>>
  BY <1>7 DEF UseUpTurns
<1>9. Has(p) <=> Has(req[r])
  BY <1>7, <1>1, <1>4 DEF Has
<1> QED BY <1>1, <1>2, <1>6, <1>7, <1>8, <1>9, QuietStep

LEMMA AnswerInv == ASSUME IInv, NEW r \in Rows, EngineAnswers(r) PROVE IInv'
<1>1. failed = "no" /\ req[r].at = "engine"
  BY DEF EngineAnswers, At
<1>2. /\ Sound(req[r]) /\ req[r] \in RequestRecords /\ req[r].state = "running" /\ DOMAIN req = Rows
      /\ MaxCalls[r] \in Nat
  BY <1>1, RowFacts, RequestsAssumption DEF Placed
<1>3. CASE ~Appendable(req[r])
  <2>1. Raise("format")
    BY <1>3 DEF EngineAnswers, Raise
  <2> QED BY <2>1, RaiseInv
<1>4. CASE Appendable(req[r])
  <2>1. ASSUME NEW kind \in {"length", "calls", "garbled", "plain"}, NEW words \in Nat, NEW asked \in Seq(Tools),
               kind = "calls" => asked # <<>>, Len(asked) <= MaxCalls[r],
               req' = [req EXCEPT ![r] = Answered(@, kind, words, asked)],
               UNCHANGED <<poolVars, batches, grant, instances, failed>>
        PROVE  IInv'
    <3>1. PICK p : p = Answered(req[r], kind, words, asked)
      OBVIOUS
    <3>2. Sound(p) /\ p.asked = asked /\ p.state # "pending" /\ p.at \in {"loop", "out"}
      <4>1. LET a == Answered(req[r], kind, words, asked) IN
            Sound(a) /\ a.asked = asked /\ a.state # "pending" /\ a.at \in {"loop", "out"}
        BY <1>1, <1>2, <1>4, <2>1, AnsweredSound
      <4> QED BY <4>1, <3>1
    <3>3. req' = [req EXCEPT ![r] = p]
      BY <2>1, <3>1
    <3>4. Has(p) <=> Has(req[r])
      BY <3>2, <1>1, <1>2 DEF Has
    <3> QED BY <1>1, <2>1, <3>2, <3>3, <3>4, QuietStep
  <2>2. UNCHANGED <<poolVars, batches, grant, instances, failed>>
    BY <1>4 DEF EngineAnswers
  <2>3. <<>> \in Seq(Tools) /\ Len(<<>>) <= MaxCalls[r]
    BY <1>2
  <2>4. Room(req[r]) \in Nat
    <3>1. Fits(req[r])
      BY <1>1, RowFacts DEF Placed
    <3>2. GenerationLength(req[r]) \in Int
      BY <1>2 DEF GenerationLength, RequestRecords
    <3> QED BY <3>1, <3>2, RequestsAssumption DEF Fits, Room, Least
  <2>5. CASE req' = [req EXCEPT ![r] = Answered(@, "length", Room(@), <<>>)]
    <3>1. req' = [req EXCEPT ![r] = Answered(@, "length", Room(req[r]), <<>>)]
      BY <2>5
    <3> QED BY <3>1, <2>1, <2>2, <2>3, <2>4
  <2>6. ASSUME NEW words \in Words, NEW kind \in {"plain", "garbled"},
               req' = [req EXCEPT ![r] = Answered(@, kind, words, <<>>)]
        PROVE  IInv'
    <3>1. words \in Nat
      BY RequestsAssumption
    <3> QED BY <3>1, <2>1, <2>2, <2>3, <2>6
  <2>7. ASSUME NEW words \in Words, NEW asked \in AskedCalls(r),
               req' = [req EXCEPT ![r] = Answered(@, "calls", words, asked)]
        PROVE  IInv'
    <3>1. words \in Nat
      BY RequestsAssumption
    <3>2. asked \in Seq(Tools) /\ asked # <<>> /\ Len(asked) <= MaxCalls[r]
      <4>1. PICK n \in 1 .. MaxCalls[r] : asked \in [1 .. n -> Tools]
        BY DEF AskedCalls
      <4>2. asked \in Seq(Tools) /\ Len(asked) = n
        BY <4>1, <1>2
      <4> QED BY <4>1, <4>2, <1>2
    <3> QED BY <3>1, <3>2, <2>1, <2>2, <2>7
  <2> QED BY <1>4, <2>5, <2>6, <2>7 DEF EngineAnswers
<1> QED BY <1>3, <1>4

(* The tools of a request are made before its first turn and released once, *)
(* after its last.                                                          *)
LEMMA PendingInv == ASSUME IInv, NEW r \in Rows, HandlePending(r) PROVE IInv'
<1>1. failed = "no" /\ req[r].at = "loop" /\ req[r].state = "pending"
  BY DEF HandlePending, Turning, At
<1>2. Sound(req[r]) /\ req[r] \in RequestRecords /\ Len(req[r].asked) <= MaxCalls[r] /\ DOMAIN req = Rows
      /\ grant[r] \in SUBSET Tools /\ req[r].turns = 0
  BY <1>1, RowFacts DEF Placed
<1>3. PICK p : p = [req[r] EXCEPT !.at = "loop", !.state = "running"]
  BY Zenon
<1>4. Sound(p)
  BY <1>1, <1>2, <1>3, MovedSound, ZenonT(20)
<1>5. p = [req[r] EXCEPT !.state = "running"] /\ p.asked = req[r].asked /\ p.state = "running" /\ p.at = "loop"
  BY <1>1, <1>2, <1>3 DEF RequestRecords
<1>6. /\ req' = [req EXCEPT ![r] = p] /\ instances' = instances \cup (grant[r] \X {r})
      /\ UNCHANGED <<batches, grant, failed>> /\ UNCHANGED <<limited, call, acquiring, tokens, returning>>
  BY <1>5 DEF HandlePending, poolVars
<1>7. \A s \in Rows : req'[s] = IF s = r THEN p ELSE req[s]
  BY <1>2, <1>6
<1>8. RowsInv'
  BY <1>2, <1>4, <1>5, <1>6, OneRow DEF IInv
<1>9. LentInv'
  <2>1. PICK some : some = {s \in Rows : req[s].state # "pending" /\ req[s].at # "done"}
    OBVIOUS
  <2>2. {s \in Rows : req'[s].state # "pending" /\ req'[s].at # "done"} = some \cup {r}
    BY <1>5, <1>7, <2>1
  <2>3. Lent = UNION {{<<t, s>> : t \in grant[s]} : s \in some}
    BY <2>1 DEF Lent
  <2>4. Lent' = UNION {{<<t, s>> : t \in grant[s]} : s \in some \cup {r}}
    BY <2>2, <1>6 DEF Lent
  <2>5. Lent' = Lent \cup (grant[r] \X {r})
    BY <2>3, <2>4
  <2>6. instances' \subseteq Tools \X Rows
    BY <1>2, <1>6 DEF IInv, LentInv
  <2> QED BY <2>5, <2>6, <1>1, <1>6 DEF IInv, LentInv
<1>10. CallsInv'
  <2>1. SUFFICES ASSUME NEW c \in Calls, call[c].phase # "none"
                 PROVE  /\ c[1] \in Rows /\ req'[c[1]].at = "tools" /\ c[2] \in DOMAIN req'[c[1]].asked
                        /\ call[c].tool = req'[c[1]].asked[c[2]] /\ call[c].tool \in grant[c[1]]
    BY <1>6 DEF CallsInv
  <2>2. /\ c[1] \in Rows /\ req[c[1]].at = "tools" /\ c[2] \in DOMAIN req[c[1]].asked
        /\ call[c].tool = req[c[1]].asked[c[2]] /\ call[c].tool \in grant[c[1]]
    BY <2>1 DEF IInv, CallsInv
  <2>3. req'[c[1]] = req[c[1]]
    BY <2>2, <1>1, <1>7
  <2> QED BY <2>2, <2>3
<1>11. PoolTypeOK' /\ LineInv' /\ TokenInv'
  <2>1. Serving' = Serving
    BY <1>6 DEF Serving, In
  <2> QED BY <2>1, <1>6 DEF IInv, PoolTypeOK, LineInv, TokenInv
<1> QED BY <1>8, <1>9, <1>10, <1>11 DEF IInv

LEMMA FinalizeInv == ASSUME IInv, NEW r \in Rows, Finalize(r) PROVE IInv'
<1>1. failed = "no" /\ req[r].at = "out"
  BY DEF Finalize, At
<1>2. /\ Sound(req[r]) /\ req[r] \in RequestRecords /\ Len(req[r].asked) <= MaxCalls[r] /\ DOMAIN req = Rows
      /\ req[r].state # "pending" /\ (req[r].turns >= MaxTurns \/ req[r].reason # "tool_calls")
  BY <1>1, RowFacts DEF Placed
<1>3. FinalReason(req[r]) # "tool_calls"
  BY <1>2 DEF FinalReason
<1>4. instances = Lent /\ grant[r] \X {r} \subseteq Lent
  BY <1>1, <1>2 DEF IInv, LentInv, Lent
<1>5. PICK p : p = [Truncated(req[r]) EXCEPT !.at = "done", !.state = "completed"]
  OBVIOUS
<1>6. Sound(p) /\ p.asked = req[r].asked /\ p.state = "completed" /\ p.at = "done"
  <2>1. LET a == [Truncated(req[r]) EXCEPT !.at = "done", !.state = "completed"] IN
        Sound(a) /\ a.asked = req[r].asked /\ a.state = "completed" /\ a.at = "done"
    BY <1>1, <1>2, FinalSound
  <2> QED BY <2>1, <1>5
<1>7. /\ req' = [req EXCEPT ![r] = p] /\ instances' = instances \ (grant[r] \X {r})
      /\ UNCHANGED <<batches, grant, failed>> /\ UNCHANGED <<limited, call, acquiring, tokens, returning>>
  BY <1>3, <1>4, <1>5 DEF Finalize, ReleasedTools, poolVars
<1>8. \A s \in Rows : req'[s] = IF s = r THEN p ELSE req[s]
  BY <1>2, <1>7
<1>9. RowsInv'
  BY <1>2, <1>6, <1>7, OneRow DEF IInv
<1>10. LentInv'
  <2>1. PICK some : some = {s \in Rows : req[s].state # "pending" /\ req[s].at # "done"}
    OBVIOUS
  <2>2. {s \in Rows : req'[s].state # "pending" /\ req'[s].at # "done"} = some \ {r}
    BY <1>6, <1>8, <2>1
  <2>3. Lent = UNION {{<<t, s>> : t \in grant[s]} : s \in some}
    BY <2>1 DEF Lent
  <2>4. Lent' = UNION {{<<t, s>> : t \in grant[s]} : s \in some \ {r}}
    BY <2>2, <1>7 DEF Lent
  <2>5. Lent' = Lent \ (grant[r] \X {r})
    BY <2>3, <2>4
  <2>6. instances' \subseteq Tools \X Rows
    BY <1>7 DEF IInv, LentInv
  <2> QED BY <2>5, <2>6, <1>1, <1>4, <1>7 DEF IInv, LentInv
<1>11. CallsInv'
  <2>1. SUFFICES ASSUME NEW c \in Calls, call[c].phase # "none"
                 PROVE  /\ c[1] \in Rows /\ req'[c[1]].at = "tools" /\ c[2] \in DOMAIN req'[c[1]].asked
                        /\ call[c].tool = req'[c[1]].asked[c[2]] /\ call[c].tool \in grant[c[1]]
    BY <1>7 DEF CallsInv
  <2>2. /\ c[1] \in Rows /\ req[c[1]].at = "tools" /\ c[2] \in DOMAIN req[c[1]].asked
        /\ call[c].tool = req[c[1]].asked[c[2]] /\ call[c].tool \in grant[c[1]]
    BY <2>1 DEF IInv, CallsInv
  <2>3. req'[c[1]] = req[c[1]]
    BY <2>2, <1>1, <1>8
  <2> QED BY <2>2, <2>3
<1>12. PoolTypeOK' /\ LineInv' /\ TokenInv'
  <2>1. Serving' = Serving
    BY <1>7 DEF Serving, In
  <2> QED BY <2>1, <1>7 DEF IInv, PoolTypeOK, LineInv, TokenInv
<1> QED BY <1>9, <1>10, <1>11, <1>12 DEF IInv

LEMMA CallIdentity ==
  ASSUME NEW r \in Rows, req[r].asked \in Seq(Tools), Len(req[r].asked) <= MaxCalls[r], NEW c
  PROVE  c \in CallsOf(r) <=> c \in Calls /\ c[1] = r /\ c[2] \in DOMAIN req[r].asked
<1>1. MaxCalls[r] \in Nat /\ DOMAIN req[r].asked \subseteq 1 .. MaxCalls[r]
  BY RequestsAssumption
<1>2. Calls = UNION {{s} \X (1 .. MaxCalls[s]) : s \in Rows}
  BY RequestsAssumption
<1>3. ASSUME c \in CallsOf(r) PROVE c \in Calls /\ c[1] = r /\ c[2] \in DOMAIN req[r].asked
  BY <1>1, <1>2, <1>3 DEF CallsOf
<1>4. ASSUME c \in Calls, c[1] = r, c[2] \in DOMAIN req[r].asked PROVE c \in CallsOf(r)
  <2>1. PICK s \in Rows : c \in {s} \X (1 .. MaxCalls[s])
    BY <1>2, <1>4
  <2>2. c = <<r, c[2]>>
    BY <2>1, <1>4
  <2> QED BY <2>2, <1>4 DEF CallsOf
<1> QED BY <1>3, <1>4

LEMMA CallInv == ASSUME IInv, NEW r \in Rows, CallTools(r) PROVE IInv'
<1>1. failed = "no" /\ req[r].at = "loop" /\ req[r].state = "tool_calling"
  BY DEF CallTools, Turning, At
<1>2. /\ Sound(req[r]) /\ req[r] \in RequestRecords /\ Len(req[r].asked) <= MaxCalls[r] /\ DOMAIN req = Rows
      /\ grant[r] \in SUBSET Tools /\ req[r].turns # 0 /\ req[r].asked # <<>> /\ req[r].asked \in Seq(Tools)
  BY <1>1, RowFacts DEF Placed
<1>3. CASE ~(Range(req[r].asked) \subseteq grant[r])
  <2>1. Raise("grant")
    BY <1>2, <1>3 DEF CallTools
  <2> QED BY <2>1, RaiseInv
<1>4. CASE Range(req[r].asked) \subseteq grant[r]
  <2>1. PICK p : p = [req[r] EXCEPT !.at = "tools", !.state = "tool_calling"]
    BY Zenon
  <2>2. Sound(p)
    BY <1>1, <1>2, <2>1, MovedSound, ZenonT(20)
  <2>3. /\ p = [req[r] EXCEPT !.at = "tools"] /\ p.asked = req[r].asked /\ p.state = "tool_calling"
        /\ p.at = "tools"
    BY <1>1, <1>2, <2>1 DEF RequestRecords
  <2>4. /\ req' = [req EXCEPT ![r] = p]
        /\ call' = [c \in Calls |->
             IF c \in CallsOf(r) THEN [NoCall EXCEPT !.tool = req[r].asked[c[2]], !.phase = "queued"] ELSE call[c]]
        /\ UNCHANGED <<limited, acquiring, tokens, returning, batches, grant, instances, failed>>
    BY <1>2, <1>4, <2>3 DEF CallTools
  <2>5. \A s \in Rows : req'[s] = IF s = r THEN p ELSE req[s]
    BY <1>2, <2>4
  <2>6. RowsInv'
    BY <1>2, <2>2, <2>3, <2>4, OneRow DEF IInv
  <2>7. LentInv'
    <3>1. {s \in Rows : req'[s].state # "pending" /\ req'[s].at # "done"}
            = {s \in Rows : req[s].state # "pending" /\ req[s].at # "done"}
      BY <1>1, <2>3, <2>5
    <3>2. grant' = grant
      BY <2>4
    <3>3. Lent' = Lent
      BY <3>1, <3>2 DEF Lent
    <3> QED BY <3>3, <2>4 DEF IInv, LentInv
  <2>8. \A c \in CallsOf(r) : c \in Calls /\ c[1] = r /\ c[2] \in DOMAIN req[r].asked
    BY <1>2, CallIdentity
  <2>9. \A c \in CallsOf(r) : call[c].phase = "none"
    BY <1>1, <2>8 DEF IInv, CallsInv
  <2>10. \A c \in Calls : c \in CallsOf(r) =>
           call'[c].phase = "queued" /\ call'[c].tool = req[r].asked[c[2]] /\ call'[c].tool \in grant[r]
    <3>1. SUFFICES ASSUME NEW c \in Calls, c \in CallsOf(r)
                   PROVE  /\ call'[c].phase = "queued" /\ call'[c].tool = req[r].asked[c[2]]
                          /\ call'[c].tool \in grant[r]
      OBVIOUS
    <3>2. call'[c] = [NoCall EXCEPT !.tool = req[r].asked[c[2]], !.phase = "queued"]
      BY <3>1, <2>4
    <3>3. call'[c].phase = "queued" /\ call'[c].tool = req[r].asked[c[2]]
      BY <3>2 DEF NoCall
    <3>4. req[r].asked[c[2]] \in Range(req[r].asked)
      BY <3>1, <2>8 DEF Range
    <3> QED BY <3>1, <3>3, <3>4, <1>4
  <2>11. \A c \in Calls : c \notin CallsOf(r) => call'[c] = call[c]
    BY <2>4
  <2>12. CallsInv'
    <3>1. SUFFICES ASSUME NEW c \in Calls, call'[c].phase # "none"
                   PROVE  /\ c[1] \in Rows /\ req'[c[1]].at = "tools" /\ c[2] \in DOMAIN req'[c[1]].asked
                          /\ call'[c].tool = req'[c[1]].asked[c[2]] /\ call'[c].tool \in grant[c[1]]
      BY <2>4 DEF CallsInv
    <3>2. CASE c \in CallsOf(r)
      <4>1. c[1] = r /\ c[2] \in DOMAIN req[r].asked /\ req'[r] = p
        BY <3>2, <2>5, <2>8
      <4> QED BY <4>1, <3>2, <2>3, <2>10
    <3>3. CASE c \notin CallsOf(r)
      <4>1. call'[c] = call[c]
        BY <3>3, <2>11
      <4>2. /\ c[1] \in Rows /\ req[c[1]].at = "tools" /\ c[2] \in DOMAIN req[c[1]].asked
            /\ call[c].tool = req[c[1]].asked[c[2]] /\ call[c].tool \in grant[c[1]]
        BY <3>1, <4>1 DEF IInv, CallsInv
      <4>3. req'[c[1]] = req[c[1]]
        BY <4>2, <1>1, <2>5
      <4> QED BY <4>1, <4>2, <4>3
    <3> QED BY <3>2, <3>3
  <2>13. PoolTypeOK'
    <3>1. \A c \in CallsOf(r) : req[r].asked[c[2]] \in Tools
      BY <1>2, <2>8
    <3>2. ASSUME NEW c \in Calls PROVE call'[c] \in CallRecords
      <4>1. CASE c \in CallsOf(r)
        <5>1. call'[c] = [NoCall EXCEPT !.tool = req[r].asked[c[2]], !.phase = "queued"]
          BY <4>1, <2>4
        <5>2. PICK t \in Tools : t = req[r].asked[c[2]]
          BY <4>1, <3>1
        <5>3. call'[c] = [tool |-> t, phase |-> "queued", tries |-> 0, result |-> "none"]
          BY <5>1, <5>2 DEF NoCall
        <5> QED BY <5>2, <5>3 DEF CallRecords
      <4>2. CASE c \notin CallsOf(r)
        BY <4>2, <2>11 DEF IInv, PoolTypeOK
      <4> QED BY <4>1, <4>2
    <3> QED BY <3>2, <2>4 DEF IInv, PoolTypeOK
  <2>14. LineInv'
    <3>1. \A i \in 1 .. Len(acquiring) : acquiring[i] \in Calls
      BY DEF IInv, PoolTypeOK
    <3>2. \A i \in 1 .. Len(acquiring) : call'[acquiring[i]] = call[acquiring[i]]
      BY <3>1, <2>9, <2>11 DEF IInv, LineInv
    <3>3. acquiring' = acquiring /\ limited' = limited
      BY <2>4
    <3> QED BY <3>2, <3>3 DEF IInv, LineInv
  <2>15. TokenInv'
    <3>1. Serving' = Serving
      BY <2>4, <2>9, <2>10, <2>11 DEF Serving, In
    <3> QED BY <3>1, <2>4 DEF IInv, TokenInv
  <2> QED BY <2>6, <2>7, <2>12, <2>13, <2>14, <2>15 DEF IInv
<1> QED BY <1>3, <1>4

LEMMA GatherInv == ASSUME IInv, NEW r \in Rows, GatherTools(r) PROVE IInv'
<1>1. failed = "no" /\ req[r].at = "tools"
  BY DEF GatherTools, At
<1>2. /\ Sound(req[r]) /\ req[r] \in RequestRecords /\ Len(req[r].asked) <= MaxCalls[r] /\ DOMAIN req = Rows
      /\ req[r].state = "tool_calling" /\ req[r].asked \in Seq(Tools)
  BY <1>1, RowFacts DEF Placed
<1>3. CASE Raise("tool")
  BY <1>3, RaiseInv
<1>4. CASE /\ \A c \in CallsOf(r) : call[c].phase = "done" /\ ~Raises(c)
           /\ \E words \in [DOMAIN req[r].asked -> ToolWords] :
                req' = [req EXCEPT ![r] = Responded(@, words)]
           /\ call' = [c \in Calls |-> IF c \in CallsOf(r) THEN NoCall ELSE call[c]]
           /\ UNCHANGED <<limited, acquiring, tokens, returning, batches, grant, instances, failed>>
  <2>1. PICK words \in [DOMAIN req[r].asked -> ToolWords] : req' = [req EXCEPT ![r] = Responded(@, words)]
    BY <1>4
  <2>2. PICK p : p = Responded(req[r], words)
    OBVIOUS
  <2>3. Sound(p) /\ p.asked = req[r].asked /\ p.state # "pending" /\ p.at \in {"loop", "out"}
    <3>1. words \in [DOMAIN req[r].asked -> Nat]
      BY RequestsAssumption
    <3>2. LET a == Responded(req[r], words) IN
          Sound(a) /\ a.asked = req[r].asked /\ a.state # "pending" /\ a.at \in {"loop", "out"}
      BY <1>1, <1>2, <3>1, RespondedSound
    <3> QED BY <3>2, <2>2
  <2>4. req' = [req EXCEPT ![r] = p]
    BY <2>1, <2>2
  <2>5. \A s \in Rows : req'[s] = IF s = r THEN p ELSE req[s]
    BY <1>2, <2>4
  <2>6. RowsInv'
    BY <1>2, <2>3, <2>4, OneRow DEF IInv
  <2>7. LentInv'
    <3>1. {s \in Rows : req'[s].state # "pending" /\ req'[s].at # "done"}
            = {s \in Rows : req[s].state # "pending" /\ req[s].at # "done"}
      BY <1>1, <1>2, <2>3, <2>5
    <3>2. Lent' = Lent
      BY <3>1, <1>4 DEF Lent
    <3> QED BY <3>2, <1>4 DEF IInv, LentInv
  <2>8. \A c \in Calls : c \in CallsOf(r) => call'[c] = NoCall
    BY <1>4
  <2>9. \A c \in Calls : c \notin CallsOf(r) => call'[c] = call[c]
    BY <1>4
  <2>10. CallsInv'
    <3>1. SUFFICES ASSUME NEW c \in Calls, call'[c].phase # "none"
                   PROVE  /\ c[1] \in Rows /\ req'[c[1]].at = "tools" /\ c[2] \in DOMAIN req'[c[1]].asked
                          /\ call'[c].tool = req'[c[1]].asked[c[2]] /\ call'[c].tool \in grant[c[1]]
      BY <1>4 DEF CallsInv
    <3>2. c \notin CallsOf(r) /\ call'[c] = call[c]
      BY <3>1, <2>8, <2>9 DEF NoCall
    <3>3. /\ c[1] \in Rows /\ req[c[1]].at = "tools" /\ c[2] \in DOMAIN req[c[1]].asked
          /\ call[c].tool = req[c[1]].asked[c[2]] /\ call[c].tool \in grant[c[1]]
      BY <3>1, <3>2 DEF IInv, CallsInv
    <3>4. c[1] # r
      BY <3>2, <3>3, <1>2, CallIdentity
    <3>5. req'[c[1]] = req[c[1]]
      BY <3>3, <3>4, <2>5
    <3> QED BY <3>2, <3>3, <3>5
  <2>11. PoolTypeOK'
    <3>1. NoCall \in CallRecords
      BY DEF NoCall, CallRecords, Tools
    <3>2. call' \in [Calls -> CallRecords]
      BY <3>1, <1>4 DEF IInv, PoolTypeOK
    <3> QED BY <3>2, <1>4 DEF IInv, PoolTypeOK
  <2>12. LineInv'
    <3>1. \A i \in 1 .. Len(acquiring) : acquiring[i] \in Calls
      BY DEF IInv, PoolTypeOK
    <3>2. \A i \in 1 .. Len(acquiring) : call'[acquiring[i]] = call[acquiring[i]]
      BY <3>1, <1>4, <2>9 DEF IInv, LineInv
    <3>3. acquiring' = acquiring /\ limited' = limited
      BY <1>4
    <3> QED BY <3>2, <3>3 DEF IInv, LineInv
  <2>13. TokenInv'
    <3>1. Serving' = Serving
      BY <1>4, <2>8, <2>9 DEF Serving, In, NoCall
    <3> QED BY <3>1, <1>4 DEF IInv, TokenInv
  <2> QED BY <2>6, <2>7, <2>10, <2>11, <2>12, <2>13 DEF IInv
<1> QED BY <1>3, <1>4 DEF GatherTools

LEMMA BatchInv == ASSUME IInv, BeginBatch PROVE IInv'
<1>1. /\ failed = "no" /\ (\A r \in Rows : req[r].at = "done") /\ batches < MaxBatches
      /\ batches' = batches + 1 /\ grant' \in [Rows -> Grants]
      /\ UNCHANGED <<instances, failed>> /\ UNCHANGED <<limited, call, acquiring, tokens, returning>>
  BY DEF BeginBatch, Over, NewBatch, poolVars
<1>2. PICK ask \in [Rows -> AskLengths] : req' = [r \in Rows |-> NewRequest(ask[r])]
  BY DEF BeginBatch, NewBatch
<1>3. \A r \in Rows : Sound(req'[r]) /\ req'[r].state = "pending" /\ Len(req'[r].asked) <= MaxCalls[r]
  <2>1. SUFFICES ASSUME NEW r \in Rows
                 PROVE  Sound(req'[r]) /\ req'[r].state = "pending" /\ Len(req'[r].asked) <= MaxCalls[r]
    OBVIOUS
  <2>2. ask[r] \in Nat /\ req'[r] = NewRequest(ask[r]) /\ MaxCalls[r] \in Nat
    BY <1>2, RequestsAssumption
  <2>3. Sound(req'[r]) /\ req'[r].state = "pending" /\ req'[r].asked = <<>>
    BY <2>2, NewSound
  <2> QED BY <2>2, <2>3
<1>4. RowsInv'
  <2>1. req' = [r \in Rows |-> req'[r]]
    BY <1>2
  <2> QED BY <2>1, <1>3 DEF RowsInv, Sound, Placed, Ended, WellEnded, Marked, Own, RequestRecords
<1>5. LentInv'
  <2>1. Lent = {}
    BY <1>1 DEF Lent
  <2>2. Lent' = {}
    BY <1>3 DEF Lent
  <2>3. batches' \in 1 .. MaxBatches
    BY <1>1, RequestsAssumption DEF IInv, LentInv
  <2> QED BY <2>1, <2>2, <2>3, <1>1 DEF IInv, LentInv
<1>6. \A c \in Calls : call[c].phase = "none"
  BY <1>1 DEF IInv, CallsInv
<1>7. CallsInv'
  BY <1>1, <1>6 DEF CallsInv
<1>8. PoolTypeOK' /\ LineInv' /\ TokenInv'
  <2>1. Serving' = Serving
    BY <1>1 DEF Serving, In
  <2> QED BY <2>1, <1>1 DEF IInv, PoolTypeOK, LineInv, TokenInv
<1> QED BY <1>4, <1>5, <1>7, <1>8 DEF IInv

(* What the pools do leaves the requests alone, and calls theirs. *)
LEMMA PoolStep ==
  ASSUME IInv, UNCHANGED requestVars, limited' = limited, PoolTypeOK', LineInv', TokenInv',
         \A c \in Calls : call[c].phase = "none" => call'[c].phase = "none",
         \A c \in Calls : call'[c].tool = call[c].tool
  PROVE  IInv'
<1>1. UNCHANGED <<batches, grant, req, instances, failed>>
  BY DEF requestVars
<1>2. RowsInv'
  BY <1>1 DEF IInv, RowsInv, Sound, Placed, Ended, WellEnded, Marked, Own, RequestRecords
<1>3. LentInv'
  <2>1. Lent' = Lent
    BY <1>1 DEF Lent
  <2> QED BY <1>1, <2>1 DEF IInv, LentInv
<1>4. CallsInv'
  BY <1>1 DEF IInv, CallsInv
<1> QED BY <1>2, <1>3, <1>4 DEF IInv

LEMMA StartInv == ASSUME IInv, UNCHANGED requestVars, NEW c \in Calls, Start(c) PROVE IInv'
<1>1. call[c].phase = "queued" /\ UNCHANGED <<limited, tokens, returning>> /\ DOMAIN call = Calls
      /\ call[c] \in CallRecords /\ acquiring \in Seq(Calls)
  BY DEF Start, IInv, PoolTypeOK
<1>2. CASE call[c].tool \in limited
  <2>1. call' = [call EXCEPT ![c].phase = "waiting"] /\ acquiring' = Append(acquiring, c)
    BY <1>2 DEF Start
  <2>2. PICK d : d = [call[c] EXCEPT !.phase = "waiting"]
    OBVIOUS
  <2>3. d \in CallRecords /\ d.phase = "waiting" /\ d.tool = call[c].tool
    BY <1>1, <2>2 DEF CallRecords
  <2>4. call' = [call EXCEPT ![c] = d]
    BY <2>1, <2>2
  <2>5. \A b \in Calls : call'[b] = IF b = c THEN d ELSE call[b]
    BY <1>1, <2>4
  <2>6. PoolTypeOK'
    <3>1. call' \in [Calls -> CallRecords]
      BY <2>3, <2>4 DEF IInv, PoolTypeOK
    <3>2. acquiring' \in Seq(Calls)
      BY <1>1, <2>1
    <3> QED BY <3>1, <3>2, <1>1 DEF IInv, PoolTypeOK
  <2>7. LineInv'
    <3>1. PICK n : n = Len(acquiring)
      OBVIOUS
    <3>2. n \in Nat /\ Len(acquiring') = n + 1 /\ acquiring'[n + 1] = c
          /\ \A i \in 1 .. n : acquiring'[i] = acquiring[i] /\ acquiring[i] \in Calls
      BY <1>1, <2>1, <3>1
    <3>3. \A i \in 1 .. n : acquiring[i] # c
      BY <1>1, <3>1 DEF IInv, LineInv
    <3>4. \A i \in 1 .. n + 1 : call'[acquiring'[i]].phase = "waiting" /\ call'[acquiring'[i]].tool \in limited
      <4>1. SUFFICES ASSUME NEW i \in 1 .. n + 1
                     PROVE  call'[acquiring'[i]].phase = "waiting" /\ call'[acquiring'[i]].tool \in limited
        OBVIOUS
      <4>2. CASE i = n + 1
        BY <4>2, <1>2, <2>3, <2>5, <3>2
      <4>3. CASE i \in 1 .. n
        <5>1. acquiring'[i] = acquiring[i] /\ acquiring[i] \in Calls /\ acquiring[i] # c
          BY <4>3, <3>2, <3>3
        <5>2. call[acquiring[i]].phase = "waiting" /\ call[acquiring[i]].tool \in limited
          BY <4>3, <3>1 DEF IInv, LineInv
        <5> QED BY <5>1, <5>2, <2>5
      <4> QED BY <4>2, <4>3, <3>2
    <3>5. \A i, j \in 1 .. n + 1 : acquiring'[i] = acquiring'[j] => i = j
      <4>1. SUFFICES ASSUME NEW i \in 1 .. n + 1, NEW j \in 1 .. n + 1, acquiring'[i] = acquiring'[j]
                     PROVE  i = j
        OBVIOUS
      <4>2. i = n + 1 <=> acquiring'[i] = c
        BY <3>2, <3>3
      <4>3. j = n + 1 <=> acquiring'[j] = c
        BY <3>2, <3>3
      <4>4. CASE i \in 1 .. n /\ j \in 1 .. n
        <5>1. acquiring[i] = acquiring[j]
          BY <4>1, <4>4, <3>2
        <5> QED BY <5>1, <4>4, <3>1 DEF IInv, LineInv
      <4>5. CASE i = n + 1 /\ j = n + 1
        BY <4>5
      <4>6. i = n + 1 <=> j = n + 1
        BY <4>1, <4>2, <4>3
      <4> QED BY <4>4, <4>5, <4>6, <3>2
    <3> QED BY <3>2, <3>4, <3>5, <1>1 DEF LineInv
  <2>8. TokenInv'
    <3>1. Serving' = Serving
      BY <1>1, <2>3, <2>5 DEF Serving, In
    <3> QED BY <3>1, <1>1 DEF IInv, TokenInv
  <2>9. \A b \in Calls : /\ call[b].phase = "none" => call'[b].phase = "none"
                         /\ call'[b].tool = call[b].tool
    BY <1>1, <2>3, <2>5
  <2> QED BY <1>1, <2>6, <2>7, <2>8, <2>9, PoolStep
<1>3. CASE call[c].tool \notin limited
  <2>1. PICK d : d = IF call[c].tool = "search" THEN [call[c] EXCEPT !.phase = "running"]
                     ELSE [call[c] EXCEPT !.phase = "done", !.result = "raised"]
    OBVIOUS
  <2>2. call' = [call EXCEPT ![c] = d] /\ acquiring' = acquiring
    BY <1>3, <2>1 DEF Start
  <2>3. d \in CallRecords /\ d.phase \in {"running", "done"} /\ d.tool = call[c].tool
    BY <1>1, <2>1 DEF CallRecords
  <2>4. \A b \in Calls : call'[b] = IF b = c THEN d ELSE call[b]
    BY <1>1, <2>2
  <2>5. PoolTypeOK'
    BY <1>1, <2>2, <2>3 DEF IInv, PoolTypeOK
  <2>6. LineInv'
    <3>1. \A i \in 1 .. Len(acquiring) : acquiring[i] \in Calls /\ acquiring[i] # c
      BY <1>1 DEF IInv, LineInv
    <3>2. \A i \in 1 .. Len(acquiring) : call'[acquiring[i]] = call[acquiring[i]]
      BY <3>1, <2>4
    <3> QED BY <3>2, <2>2, <1>1 DEF IInv, LineInv
  <2>7. TokenInv'
    <3>1. Serving' = Serving
      BY <1>1, <1>3, <2>3, <2>4 DEF Serving, In
    <3> QED BY <3>1, <1>1 DEF IInv, TokenInv
  <2>8. \A b \in Calls : /\ call[b].phase = "none" => call'[b].phase = "none"
                         /\ call'[b].tool = call[b].tool
    BY <1>1, <2>3, <2>4
  <2> QED BY <1>1, <2>5, <2>6, <2>7, <2>8, PoolStep
<1> QED BY <1>2, <1>3

LEMMA AcquireInv == ASSUME IInv, UNCHANGED requestVars, Acquire PROVE IInv'
<1>1. /\ acquiring # <<>> /\ tokens > 0 /\ tokens' = tokens - 1 /\ acquiring' = Tail(acquiring)
      /\ call' = [call EXCEPT ![Head(acquiring)].phase = "running"] /\ UNCHANGED <<limited, returning>>
      /\ acquiring \in Seq(Calls) /\ DOMAIN call = Calls /\ tokens \in Nat /\ returning \in Nat
  BY DEF Acquire, IInv, PoolTypeOK
<1>2. PICK n : n = Len(acquiring)
  OBVIOUS
<1>3. PICK c : c = acquiring[1]
  OBVIOUS
<1>4. n \in Nat /\ n > 0 /\ c \in Calls /\ Head(acquiring) = c /\ Len(acquiring') = n - 1
      /\ (\A i \in 1 .. n : acquiring[i] \in Calls) /\ acquiring' \in Seq(Calls)
      /\ \A i \in 1 .. n - 1 : acquiring'[i] = acquiring[i + 1]
  BY <1>1, <1>2, <1>3
<1>5. call[c].phase = "waiting" /\ call[c].tool \in limited /\ call[c] \in CallRecords
  BY <1>2, <1>3, <1>4 DEF IInv, LineInv, PoolTypeOK
<1>6. PICK d : d = [call[c] EXCEPT !.phase = "running"]
  OBVIOUS
<1>7. d \in CallRecords /\ d.phase = "running" /\ d.tool = call[c].tool
  BY <1>5, <1>6 DEF CallRecords
<1>8. call' = [call EXCEPT ![c] = d]
  BY <1>1, <1>4, <1>6
<1>9. \A b \in Calls : call'[b] = IF b = c THEN d ELSE call[b]
  BY <1>1, <1>8
<1>10. PoolTypeOK'
  <2>1. call' \in [Calls -> CallRecords]
    BY <1>7, <1>8 DEF IInv, PoolTypeOK
  <2> QED BY <2>1, <1>1, <1>4 DEF IInv, PoolTypeOK
<1>11. LineInv'
  <2>1. ASSUME NEW i \in 1 .. n - 1
        PROVE  /\ acquiring'[i] \in Calls /\ acquiring'[i] # c
               /\ call'[acquiring'[i]].phase = "waiting" /\ call'[acquiring'[i]].tool \in limited
    <3>1. i + 1 \in 1 .. n /\ 1 \in 1 .. n /\ i + 1 # 1
      BY <1>4
    <3>2. acquiring'[i] = acquiring[i + 1] /\ acquiring[i + 1] \in Calls
      BY <3>1, <1>4
    <3>3. acquiring[i + 1] # acquiring[1]
      BY <3>1, <1>2 DEF IInv, LineInv
    <3>4. call[acquiring[i + 1]].phase = "waiting" /\ call[acquiring[i + 1]].tool \in limited
      BY <3>1, <1>2 DEF IInv, LineInv
    <3> QED BY <3>2, <3>3, <3>4, <1>3, <1>9
  <2>2. ASSUME NEW i \in 1 .. n - 1, NEW j \in 1 .. n - 1, acquiring'[i] = acquiring'[j] PROVE i = j
    <3>1. i + 1 \in 1 .. n /\ j + 1 \in 1 .. n
      BY <1>4
    <3>2. acquiring[i + 1] = acquiring[j + 1]
      BY <2>2, <1>4
    <3>3. i + 1 = j + 1
      BY <3>1, <3>2, <1>2 DEF IInv, LineInv
    <3> QED BY <3>3
  <2> QED BY <2>1, <2>2, <1>1, <1>4 DEF LineInv
<1>12. TokenInv'
  <2>1. IsFiniteSet(Serving) /\ tokens + returning + Cardinality(Serving) = RateLimit
    BY DEF IInv, TokenInv
  <2>2. c \notin Serving
    BY <1>5 DEF Serving, In
  <2>3. Serving' = Serving \cup {c}
    <3>1. ASSUME NEW b \in Calls PROVE b \in Serving' <=> b \in Serving \cup {c}
      <4>1. CASE b = c
        BY <4>1, <1>1, <1>5, <1>7, <1>9 DEF Serving, In
      <4>2. CASE b # c
        <5>1. call'[b] = call[b] /\ limited' = limited
          BY <4>2, <1>1, <1>9
        <5> QED BY <4>2, <5>1 DEF Serving, In
      <4> QED BY <4>1, <4>2
    <3>2. Serving \subseteq Calls /\ Serving' \subseteq Calls
      BY DEF Serving, In
    <3> QED BY <3>1, <3>2, <1>4
  <2>4. IsFiniteSet(Serving \cup {c}) /\ Cardinality(Serving \cup {c}) = Cardinality(Serving) + 1
    BY <2>1, <2>2, FS_AddElement
  <2>5. Cardinality(Serving) \in Nat
    BY <2>1, FS_CardinalityType
  <2>6. tokens' + returning' + (Cardinality(Serving) + 1) = RateLimit
    BY <2>1, <2>5, <1>1
  <2> QED BY <2>3, <2>4, <2>6 DEF TokenInv
<1>13. \A b \in Calls : /\ call[b].phase = "none" => call'[b].phase = "none"
                        /\ call'[b].tool = call[b].tool
  BY <1>5, <1>7, <1>9
<1> QED BY <1>1, <1>10, <1>11, <1>12, <1>13, PoolStep

LEMMA ReleaseInv == ASSUME IInv, UNCHANGED requestVars, Release PROVE IInv'
<1>1. /\ returning > 0 /\ tokens' = tokens + 1 /\ returning' = returning - 1
      /\ UNCHANGED <<limited, call, acquiring>> /\ tokens \in Nat /\ returning \in Nat
  BY DEF Release, IInv, PoolTypeOK
<1>2. PoolTypeOK' /\ LineInv'
  BY <1>1 DEF IInv, PoolTypeOK, LineInv
<1>3. TokenInv'
  <2>1. IsFiniteSet(Serving) /\ tokens + returning + Cardinality(Serving) = RateLimit
    BY DEF IInv, TokenInv
  <2>2. Cardinality(Serving) \in Nat
    BY <2>1, FS_CardinalityType
  <2>3. Serving' = Serving
    BY <1>1 DEF Serving, In
  <2>4. tokens' + returning' + Cardinality(Serving) = RateLimit
    BY <2>1, <2>2, <1>1
  <2> QED BY <2>1, <2>3, <2>4 DEF TokenInv
<1> QED BY <1>1, <1>2, <1>3, PoolStep

(* A call that is served keeps its token, and one that ends returns it. *)
LEMMA ServedInv ==
  ASSUME IInv, UNCHANGED requestVars, NEW c \in Calls, call[c].phase = "running",
         NEW d \in CallRecords, d.phase \in {"running", "done"}, d.tool = call[c].tool,
         call' = [call EXCEPT ![c] = d], UNCHANGED <<limited, acquiring, tokens>>,
         returning' = returning + (IF d.phase = "done" /\ call[c].tool \in limited THEN 1 ELSE 0)
  PROVE  IInv'
<1>1. DOMAIN call = Calls /\ returning \in Nat /\ tokens \in Nat
  BY DEF IInv, PoolTypeOK
<1>2. \A b \in Calls : call'[b] = IF b = c THEN d ELSE call[b]
  BY <1>1
<1>3. PoolTypeOK'
  <2>1. call' \in [Calls -> CallRecords] /\ returning' \in Nat
    BY <1>1 DEF IInv, PoolTypeOK
  <2> QED BY <2>1 DEF IInv, PoolTypeOK
<1>4. LineInv'
  <2>1. \A i \in 1 .. Len(acquiring) : acquiring[i] \in Calls /\ acquiring[i] # c
    BY DEF IInv, LineInv, PoolTypeOK
  <2>2. \A i \in 1 .. Len(acquiring) : call'[acquiring[i]] = call[acquiring[i]]
    BY <2>1, <1>2
  <2> QED BY <2>2 DEF IInv, LineInv
<1>5. TokenInv'
  <2>1. IsFiniteSet(Serving) /\ tokens + returning + Cardinality(Serving) = RateLimit
    BY DEF IInv, TokenInv
  <2>2. Cardinality(Serving) \in Nat
    BY <2>1, FS_CardinalityType
  <2>3. CASE d.phase = "done" /\ call[c].tool \in limited
    <3>1. c \in Serving
      BY <2>3 DEF Serving, In
    <3>2. Serving' = Serving \ {c}
      <4>1. ASSUME NEW b \in Calls PROVE b \in Serving' <=> b \in Serving \ {c}
        BY <2>3, <1>2 DEF Serving, In
      <4>2. Serving \subseteq Calls /\ Serving' \subseteq Calls
        BY DEF Serving, In
      <4> QED BY <4>1, <4>2
    <3>3. IsFiniteSet(Serving \ {c}) /\ Cardinality(Serving \ {c}) = Cardinality(Serving) - 1
      BY <2>1, <3>1, FS_RemoveElement
    <3>4. returning' = returning + 1
      BY <2>3
    <3>5. tokens' + returning' + (Cardinality(Serving) - 1) = RateLimit
      BY <2>1, <2>2, <3>4, <1>1
    <3> QED BY <3>2, <3>3, <3>5 DEF TokenInv
  <2>4. CASE ~(d.phase = "done" /\ call[c].tool \in limited)
    <3>1. ASSUME NEW b \in Calls PROVE b \in Serving' <=> b \in Serving
      BY <2>4, <1>2 DEF Serving, In
    <3>2. Serving' = Serving
      <4>1. Serving \subseteq Calls /\ Serving' \subseteq Calls
        BY DEF Serving, In
      <4> QED BY <4>1, <3>1
    <3>3. returning' = returning
      BY <2>4, <1>1
    <3> QED BY <2>1, <3>2, <3>3 DEF TokenInv
  <2> QED BY <2>3, <2>4
<1>6. \A b \in Calls : /\ call[b].phase = "none" => call'[b].phase = "none"
                       /\ call'[b].tool = call[b].tool
  BY <1>2
<1> QED BY <1>3, <1>4, <1>5, <1>6, PoolStep

LEMMA DoneInv ==
  ASSUME IInv, UNCHANGED requestVars, NEW c \in Calls, call[c].phase = "running",
         NEW result \in {"text", "error", "raised"}, Done(c, result)
  PROVE  IInv'
<1>1. PICK d : d = [call[c] EXCEPT !.phase = "done", !.result = result]
  OBVIOUS
<1>2. call[c] \in CallRecords
  BY DEF IInv, PoolTypeOK
<1>3. d \in CallRecords /\ d.phase = "done" /\ d.tool = call[c].tool
  BY <1>1, <1>2 DEF CallRecords
<1>4. call' = [call EXCEPT ![c] = d] /\ UNCHANGED <<limited, acquiring, tokens>>
      /\ returning' = returning + (IF call[c].tool \in limited THEN 1 ELSE 0)
  BY <1>1 DEF Done
<1>5. returning' = returning + (IF d.phase = "done" /\ call[c].tool \in limited THEN 1 ELSE 0)
  BY <1>3, <1>4
<1> QED BY <1>3, <1>4, <1>5, ServedInv

LEMMA RetryInv ==
  ASSUME IInv, UNCHANGED requestVars, NEW c \in Calls, call[c].phase = "running",
         call' = [call EXCEPT ![c].tries = @ + 1], UNCHANGED <<limited, acquiring, tokens, returning>>
  PROVE  IInv'
<1>1. PICK d : d = [call[c] EXCEPT !.tries = @ + 1]
  OBVIOUS
<1>2. call[c] \in CallRecords /\ returning \in Nat
  BY DEF IInv, PoolTypeOK
<1>3. d \in CallRecords /\ d.phase = "running" /\ d.tool = call[c].tool
  BY <1>1, <1>2 DEF CallRecords
<1>4. call' = [call EXCEPT ![c] = d]
  BY <1>1
<1>5. returning' = returning + (IF d.phase = "done" /\ call[c].tool \in limited THEN 1 ELSE 0)
  BY <1>2, <1>3
<1> QED BY <1>3, <1>4, <1>5, ServedInv

LEMMA PoolInv == ASSUME IInv, Pool PROVE IInv'
<1>1. UNCHANGED requestVars /\ PoolNext
  BY DEF Pool
<1>2. ASSUME NEW c \in Calls, Start(c) PROVE IInv'
  BY <1>1, <1>2, StartInv
<1>3. ASSUME NEW c \in Calls, CallSandbox(c) PROVE IInv'
  <2>1. call[c].phase = "running"
    BY <1>3 DEF CallSandbox
  <2> QED BY <1>1, <1>3, <2>1, DoneInv, RetryInv DEF CallSandbox
<1>4. ASSUME NEW c \in Calls, CallSearch(c) PROVE IInv'
  <2>1. call[c].phase = "running"
    BY <1>4 DEF CallSearch
  <2> QED BY <1>1, <1>4, <2>1, DoneInv, RetryInv DEF CallSearch
<1>5. CASE Acquire
  BY <1>1, <1>5, AcquireInv
<1>6. CASE Release
  BY <1>1, <1>6, ReleaseInv
<1> QED BY <1>1, <1>2, <1>3, <1>4, <1>5, <1>6 DEF PoolNext

LEMMA StutterInv == ASSUME IInv, UNCHANGED vars PROVE IInv'
<1>1. UNCHANGED requestVars /\ UNCHANGED <<limited, call, acquiring, tokens, returning>>
  BY DEF vars, requestVars, poolVars
<1>2. PoolTypeOK' /\ LineInv' /\ TokenInv'
  <2>1. Serving' = Serving
    BY <1>1 DEF Serving, In
  <2> QED BY <2>1, <1>1 DEF IInv, PoolTypeOK, LineInv, TokenInv
<1> QED BY <1>1, <1>2, PoolStep

(* The invariant the theorems follow from. *)
LEMMA Inductive == Spec => []IInv
<1>1. Init => IInv
  BY InitInv
<1>2. IInv /\ [Next]_vars => IInv'
  <2>1. SUFFICES ASSUME IInv, [Next]_vars PROVE IInv'
    OBVIOUS
  <2>2. ASSUME NEW r \in Rows, Step(r) PROVE IInv'
    BY <2>1, <2>2, PendingInv, EngineInv, AnswerInv, CallInv, GatherInv, UseUpInv, FinalizeInv DEF Step
  <2>3. CASE Pool
    BY <2>1, <2>3, PoolInv
  <2>4. CASE BeginBatch
    BY <2>1, <2>4, BatchInv
  <2>5. CASE UNCHANGED vars
    BY <2>1, <2>5, StutterInv
  <2> QED BY <2>1, <2>2, <2>3, <2>4, <2>5 DEF Next
<1> QED BY <1>1, <1>2, PTL DEF Spec

(* The bucket's tokens and the requests' tools come back, however engine,   *)
(* tools and services interleave and fail (TokenBucketWorker,               *)
(* _async_rollout_a_request).                                               *)
THEOREM ToolsReturn == Spec => []ToolsComeBack
<1>1. IInv => ToolsComeBack
  <2>1. SUFFICES ASSUME IInv PROVE WithinLimit /\ InstancesReleased
    BY DEF ToolsComeBack
  <2>2. WithinLimit
    BY <2>1 DEF IInv, TokenInv, WithinLimit, Serving
  <2>3. ASSUME failed = "no" PROVE
          /\ \A c \in In({"queued", "waiting", "running", "done"}) : <<call[c].tool, c[1]>> \in instances
          /\ Over => instances = {}
    <3>1. instances = Lent
      BY <2>1, <2>3 DEF IInv, LentInv
    <3>2. ASSUME NEW c \in In({"queued", "waiting", "running", "done"})
          PROVE  <<call[c].tool, c[1]>> \in Lent
      <4>1. c \in Calls /\ call[c].phase # "none"
        BY DEF In
      <4>2. c[1] \in Rows /\ req[c[1]].at = "tools" /\ call[c].tool \in grant[c[1]]
        BY <2>1, <4>1 DEF IInv, CallsInv
      <4>3. req[c[1]].state # "pending"
        BY <2>1, <4>2, RowFacts DEF Placed
      <4> QED BY <4>2, <4>3 DEF Lent
    <3>3. Over => Lent = {}
      BY DEF Over, Lent
    <3> QED BY <3>1, <3>2, <3>3
  <2> QED BY <2>2, <2>3 DEF InstancesReleased
<1> QED BY <1>1, Inductive, PTL

(* Finished rows are what their conversations were, whatever their lengths, *)
(* turns and tools: what the model wrote is what is trained on, and nothing *)
(* that fits is lost (AsyncRolloutRequest, _req_level_generate_sequences).  *)
THEOREM RowsRight == Spec => []RowsComeOutRight
<1>1. IInv => RowsComeOutRight
  <2>1. SUFFICES ASSUME IInv PROVE TypeOK /\ FinishesInOrder /\ TrainedOnOwnWords /\ RowsEndWell
    BY DEF RowsComeOutRight
  <2>2. TypeOK
    <3>1. \A r \in Rows :
            /\ req[r].state \in {"pending", "running", "tool_calling", "completed"}
            /\ req[r].at \in {"loop", "engine", "tools", "out", "done"}
            /\ req[r].turns \in 0 .. MaxTurns
            /\ req[r].reason \in {"none", "length", "stop", "tool_calls"}
            /\ Len(req[r].ids) = Len(req[r].mask)
      BY <2>1 DEF IInv, RowsInv, Sound, RequestRecords, Marked
    <3>2. /\ batches \in 1 .. MaxBatches /\ grant \in [Rows -> Grants] /\ instances \subseteq Tools \X Rows
          /\ failed \in {"no", "engine", "format", "message", "grant", "tool", "reason", "instance"}
      BY <2>1 DEF IInv, LentInv
    <3> QED BY <2>1, <3>1, <3>2 DEF IInv, TypeOK
  <2>3. FinishesInOrder
    BY <2>1 DEF IInv, LentInv, FinishesInOrder
  <2>4. TrainedOnOwnWords
    <3>1. SUFFICES ASSUME NEW r \in Rows, NEW i \in DOMAIN req[r].ids
                   PROVE  (req[r].mask[i] = 1) =
                            (req[r].ids[i] = "word"
                               \/ (i > 1 /\ req[r].ids[i] = "end" /\ req[r].ids[i - 1] \in {"word", "head"}))
      BY DEF TrainedOnOwnWords
    <3>2. Marked(req[r].ids, req[r].mask) /\ req[r].ids \in Seq(Token)
      BY <2>1 DEF IInv, RowsInv, Sound, RequestRecords
    <3>3. i \in 1 .. Len(req[r].ids)
      BY <3>2
    <3>4. (req[r].mask[i] = 1) <=> Own(req[r].ids, i)
      BY <3>2, <3>3 DEF Marked
    <3> QED BY <3>4 DEF Own
  <2>5. RowsEndWell
    BY <2>1 DEF IInv, RowsInv, Sound, WellEnded, RowsEndWell
  <2> QED BY <2>2, <2>3, <2>4, <2>5
<1> QED BY <1>1, Inductive, PTL
=============================================================================
