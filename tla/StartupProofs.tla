----------------------------- MODULE StartupProofs -----------------------------
(***************************************************************************)
(* Proofs about Startup: names and passwords come through quoting and      *)
(* parsing, and a proxy that serves has its database and all of the        *)
(* schema, however many start at once, fail and start again.               *)
(***************************************************************************)
EXTENDS Startup, DataFacts

-----------------------------------------------------------------------------
(* Quotes. *)

LEMMA QuotesStep ==
  ASSUME NEW t, NEW i \in Nat
  PROVE  /\ Quotes(t, 1, i) \in Nat /\ Quotes(t, 1, 0) = 0
         /\ Quotes(t, 1, i + 1) = Quotes(t, 1, i) + (IF t[i + 1] = "'" THEN 1 ELSE 0)
<1> DEFINE Q(j) == {k \in 1 .. j : t[k] = "'"}
<1>1. \A j \in Nat : IsFiniteSet(Q(j)) /\ Cardinality(Q(j)) \in Nat
  <2> SUFFICES ASSUME NEW j \in Nat PROVE IsFiniteSet(Q(j)) /\ Cardinality(Q(j)) \in Nat
    OBVIOUS
  <2>1. IsFiniteSet(1 .. j) /\ Q(j) \in SUBSET (1 .. j)
    BY FS_Interval
  <2>2. IsFiniteSet(Q(j))
    BY <2>1, FS_Subset
  <2> QED
    BY <2>2, FS_CardinalityType
<1>2. Q(0) = {} /\ Cardinality(Q(0)) = 0
  BY FS_EmptySet
<1>3. CASE t[i + 1] = "'"
  <2>1. Q(i + 1) = Q(i) \cup {i + 1} /\ i + 1 \notin Q(i)
    BY <1>3
  <2>2. Cardinality(Q(i) \cup {i + 1}) = Cardinality(Q(i)) + 1
    BY <1>1, <2>1, FS_AddElement
  <2> QED
    BY <1>1, <1>2, <1>3, <2>1, <2>2 DEF Quotes
<1>4. CASE t[i + 1] # "'"
  <2>1. Q(i + 1) = Q(i)
    BY <1>4
  <2> QED
    BY <1>1, <1>2, <1>4, <2>1 DEF Quotes
<1> QED
  BY <1>3, <1>4

LEMMA QuotesSame ==
  ASSUME NEW s, NEW t, NEW i \in Nat, \A k \in 1 .. i : s[k] = t[k]
  PROVE  Quotes(s, 1, i) = Quotes(t, 1, i)
<1>1. {k \in 1 .. i : s[k] = "'"} = {k \in 1 .. i : t[k] = "'"}
  OBVIOUS
<1> QED
  BY <1>1 DEF Quotes

LEMMA QuotesConcat ==
  ASSUME NEW S, NEW s \in Seq(S), NEW t \in Seq(S), NEW j \in 0 .. Len(t)
  PROVE  Quotes(s \o t, 1, Len(s) + j) = Quotes(s, 1, Len(s)) + Quotes(t, 1, j)
<1> DEFINE w == s \o t
           m == Len(s)
           N == {n \in Nat : n <= Len(t) => Quotes(w, 1, m + n) = Quotes(s, 1, m) + Quotes(t, 1, n)}
<1>1. /\ m \in Nat /\ Len(t) \in Nat
      /\ \A i \in 1 .. m : w[i] = s[i]
      /\ \A i \in 1 .. Len(t) : w[m + i] = t[i]
  OBVIOUS
<1> HIDE DEF w
<1>2. 0 \in N
  <2>1. Quotes(w, 1, m) = Quotes(s, 1, m)
    BY <1>1, QuotesSame
  <2>2. Quotes(t, 1, 0) = 0 /\ Quotes(s, 1, m) \in Nat
    BY <1>1, QuotesStep
  <2> QED
    BY <1>1, <2>1, <2>2
<1>3. ASSUME NEW n \in Nat, n \in N PROVE n + 1 \in N
  <2> SUFFICES ASSUME n + 1 <= Len(t)
               PROVE  Quotes(w, 1, m + (n + 1)) = Quotes(s, 1, m) + Quotes(t, 1, n + 1)
    OBVIOUS
  <2>1. n + 1 \in 1 .. Len(t) /\ m + (n + 1) = (m + n) + 1 /\ m + n \in Nat /\ n <= Len(t)
    BY <1>1
  <2>2. w[(m + n) + 1] = t[n + 1]
    BY <1>1, <2>1
  <2>3. Quotes(w, 1, m + n) = Quotes(s, 1, m) + Quotes(t, 1, n)
    BY <1>3, <2>1
  <2>4. /\ Quotes(s, 1, m) \in Nat
        /\ Quotes(t, 1, n) \in Nat
        /\ Quotes(t, 1, n + 1) = Quotes(t, 1, n) + (IF t[n + 1] = "'" THEN 1 ELSE 0)
        /\ Quotes(w, 1, (m + n) + 1) = Quotes(w, 1, m + n) + (IF w[(m + n) + 1] = "'" THEN 1 ELSE 0)
    BY <1>1, <2>1, QuotesStep
  <2> QED
    BY <2>1, <2>2, <2>3, <2>4
<1>4. \A n \in Nat : n \in N
  <2> HIDE DEF N
  <2> QED
    BY <1>2, <1>3, NatClosure
<1> QED
  BY <1>4 DEF w

LEMMA RunAtIs ==
  ASSUME NEW v, NEW i \in Nat \ {0}, NEW c
  PROVE  /\ RunAt(v, i, c) \in Nat
         /\ i = 1 \/ v[i - 1] # c => RunAt(v, i, c) = 1
         /\ i # 1 /\ v[i - 1] = c => RunAt(v, i, c) = RunAt(v, i - 1, c) + 1
<1> DEFINE R(j) == {n \in 1 .. j : n = j \/ v[j - n] # c}
<1>1. \A j \in Nat \ {0} : RunAt(v, j, c) \in R(j) /\ \A n \in R(j) : RunAt(v, j, c) <= n
  <2> SUFFICES ASSUME NEW j \in Nat \ {0}
               PROVE  RunAt(v, j, c) \in R(j) /\ \A n \in R(j) : RunAt(v, j, c) <= n
    OBVIOUS
  <2>1. R(j) \subseteq Nat /\ j \in R(j) /\ RunAt(v, j, c) = Min(R(j))
    BY DEF RunAt
  <2> HIDE DEF R
  <2>2. \E n \in R(j) : \A m \in R(j) : n <= m
    BY <2>1, LeastMember
  <2> QED
    BY <2>1, <2>2 DEF Min
<1>2. RunAt(v, i, c) \in Nat
  BY <1>1
<1>3. ASSUME i = 1 \/ v[i - 1] # c PROVE RunAt(v, i, c) = 1
  <2>1. 1 \in R(i)
    BY <1>3
  <2>2. RunAt(v, i, c) \in 1 .. i /\ RunAt(v, i, c) <= 1
    BY <1>1, <2>1
  <2> QED
    BY <2>2
<1>4. ASSUME i # 1, v[i - 1] = c PROVE RunAt(v, i, c) = RunAt(v, i - 1, c) + 1
  <2> DEFINE a == RunAt(v, i, c)
             b == RunAt(v, i - 1, c)
  <2>1. i - 1 \in Nat \ {0}
    BY <1>4
  <2>2. a \in R(i) /\ b \in R(i - 1)
    BY <1>1, <2>1
  <2>3. a \in Int /\ b \in Int /\ a # 1
    BY <1>4, <2>2
  <2>4. a - 1 \in R(i - 1)
    <3>1. a - 1 \in 1 .. i - 1 /\ (i - 1) - (a - 1) = i - a
      BY <2>1, <2>2, <2>3
    <3> QED
      BY <2>2, <2>3, <3>1
  <2>5. b + 1 \in R(i)
    <3>1. b + 1 \in 1 .. i /\ (i - 1) - b = i - (b + 1)
      BY <2>1, <2>2, <2>3
    <3> QED
      BY <2>2, <2>3, <3>1
  <2>6. a <= b + 1 /\ b <= a - 1
    BY <1>1, <2>1, <2>4, <2>5
  <2> HIDE DEF a, b
  <2>7. a = b + 1
    BY <2>3, <2>6
  <2> QED
    BY <2>7 DEF a, b
<1> QED
  BY <1>2, <1>3, <1>4

LEMMA RunAtSame ==
  ASSUME NEW v, NEW w, NEW i \in Nat, NEW c, \A k \in 1 .. i - 1 : v[k] = w[k]
  PROVE  RunAt(v, i, c) = RunAt(w, i, c)
<1>1. \A n \in 1 .. i : n # i => i - n \in 1 .. i - 1
  OBVIOUS
<1>2. {n \in 1 .. i : n = i \/ v[i - n] # c} = {n \in 1 .. i : n = i \/ w[i - n] # c}
  BY <1>1
<1> QED
  BY <1>2 DEF RunAt

-----------------------------------------------------------------------------
(* A value is quoted and unquoted again. *)

Letter == Character

Doubling(v) == [i \in DOMAIN v |-> IF v[i] = "'" THEN <<"'", "'">> ELSE <<v[i]>>]

Doubled(v) == FlattenSeq(Doubling(v))

(* Of a run of quotes every second one goes. *)
Stays(v, i) == v[i] = "'" => RunAt(v, i, "'") % 2 = 1

Halving(v) == [i \in DOMAIN v |-> IF Stays(v, i) THEN <<v[i]>> ELSE <<>>]

LEMMA HalvedIs ==
  ASSUME NEW v
  PROVE  Halved(v, "'") = FlattenSeq(Halving(v))
BY Zenon DEF Halved, Halving, Stays, RunAt

LEMMA HalvedAppend ==
  ASSUME NEW v \in Seq(Letter), NEW c \in Letter
  PROVE  /\ Halving(v) \in Seq(Seq(Letter))
         /\ Halved(Append(v, c), "'") =
              Halved(v, "'") \o (IF Stays(Append(v, c), Len(v) + 1) THEN <<c>> ELSE << >>)
<1> DEFINE w == Append(v, c)
           n == Len(v)
           x == IF Stays(w, n + 1) THEN <<c>> ELSE << >>
<1>1. /\ w \in Seq(Letter) /\ Len(w) = n + 1 /\ n \in Nat /\ DOMAIN v = 1 .. n /\ DOMAIN w = 1 .. n + 1
      /\ w[n + 1] = c /\ \A i \in 1 .. n : w[i] = v[i]
  BY AppendProperties
<1>2. x \in Seq(Letter)
  OBVIOUS
<1>3. \A u \in Seq(Letter) : Halving(u) \in Seq(Seq(Letter)) /\ Len(Halving(u)) = Len(u)
                             /\ \A i \in 1 .. Len(u) : Halving(u)[i] = IF Stays(u, i) THEN <<u[i]>> ELSE << >>
  <2> SUFFICES ASSUME NEW u \in Seq(Letter)
               PROVE  Halving(u) \in Seq(Seq(Letter)) /\ Len(Halving(u)) = Len(u)
                      /\ \A i \in 1 .. Len(u) : Halving(u)[i] = IF Stays(u, i) THEN <<u[i]>> ELSE << >>
    OBVIOUS
  <2>1. DOMAIN u = 1 .. Len(u) /\ Len(u) \in Nat /\ \A i \in 1 .. Len(u) : u[i] \in Letter
    BY LenProperties, ElementOfSeq
  <2>2. \A i \in 1 .. Len(u) : (IF Stays(u, i) THEN <<u[i]>> ELSE << >>) \in Seq(Letter)
    BY <2>1
  <2> QED
    BY <2>1, <2>2 DEF Halving
<1> HIDE DEF w, x
<1>4. \A i \in 1 .. n : Stays(w, i) <=> Stays(v, i)
  <2> SUFFICES ASSUME NEW i \in 1 .. n PROVE Stays(w, i) <=> Stays(v, i)
    OBVIOUS
  <2>1. i \in Nat /\ \A k \in 1 .. i - 1 : w[k] = v[k]
    BY <1>1
  <2>2. RunAt(w, i, "'") = RunAt(v, i, "'")
    BY <2>1, RunAtSame
  <2> QED
    BY <1>1, <2>2 DEF Stays
<1>5. Halving(w) = Append(Halving(v), x)
  <2> DEFINE h == Halving(v)
             g == Halving(w)
  <2>1. /\ h \in Seq(Seq(Letter)) /\ g \in Seq(Seq(Letter)) /\ Len(h) = n /\ Len(g) = n + 1
        /\ \A i \in 1 .. n : h[i] = IF Stays(v, i) THEN <<v[i]>> ELSE << >>
        /\ \A i \in 1 .. n + 1 : g[i] = IF Stays(w, i) THEN <<w[i]>> ELSE << >>
    BY <1>1, <1>3
  <2> HIDE DEF h, g
  <2>2. /\ Append(h, x) \in Seq(Seq(Letter)) /\ Len(Append(h, x)) = n + 1
        /\ Append(h, x)[n + 1] = x /\ \A i \in 1 .. n : Append(h, x)[i] = h[i]
    BY <1>2, <2>1, AppendProperties
  <2>3. \A i \in 1 .. n : g[i] = h[i]
    <3>1. \A i \in 1 .. n : i \in 1 .. n + 1
      BY <1>1
    <3> QED
      BY <1>1, <1>4, <2>1, <3>1
  <2>4. g[n + 1] = x
    BY <1>1, <2>1 DEF x
  <2>5. \A i \in 1 .. n + 1 : g[i] = Append(h, x)[i]
    <3>1. \A i \in 1 .. n + 1 : i \in 1 .. n \/ i = n + 1
      BY <1>1
    <3> QED
      BY <2>2, <2>3, <2>4, <3>1
  <2>6. g = Append(h, x)
    BY <2>1, <2>2, <2>5, SeqEqual
  <2> QED
    BY <2>6 DEF g, h
<1>6. Halved(w, "'") = Halved(v, "'") \o x
  BY <1>2, <1>3, <1>5, FlattenAppend, HalvedIs, ZenonT(30)
<1> QED
  BY <1>3, <1>6 DEF w, x

LEMMA DoubledAppend ==
  ASSUME NEW v \in Seq(Letter), NEW c \in Letter
  PROVE  Doubled(Append(v, c)) = Doubled(v) \o (IF c = "'" THEN <<"'", "'">> ELSE <<c>>)
<1> DEFINE w == Append(v, c)
           n == Len(v)
           x == IF c = "'" THEN <<"'", "'">> ELSE <<c>>
<1>1. /\ w \in Seq(Letter) /\ Len(w) = n + 1 /\ n \in Nat /\ DOMAIN v = 1 .. n /\ DOMAIN w = 1 .. n + 1
      /\ w[n + 1] = c /\ \A i \in 1 .. n : w[i] = v[i] /\ v[i] \in Letter
  BY AppendProperties, ElementOfSeq
<1>2. \A d \in Letter : (IF d = "'" THEN <<"'", "'">> ELSE <<d>>) \in Seq(Letter)
  <2>1. "'" \in Letter
    BY DEF Letter, Character
  <2> QED
    BY <2>1
<1> HIDE DEF w
<1> DEFINE h == Doubling(v)
           g == Doubling(w)
<1>3. /\ h \in Seq(Seq(Letter)) /\ g \in Seq(Seq(Letter)) /\ Len(h) = n /\ Len(g) = n + 1
      /\ \A i \in 1 .. n : g[i] = h[i]
      /\ g[n + 1] = x
  <2>1. \A i \in 1 .. n + 1 : w[i] \in Letter
    BY <1>1, ElementOfSeq
  <2>2. \A i \in 1 .. n : i \in 1 .. n + 1
    BY <1>1
  <2> QED
    BY <1>1, <1>2, <2>1, <2>2 DEF Doubling
<1>4. x \in Seq(Letter)
  BY <1>2
<1> HIDE DEF h, g, x
<1>5. /\ Append(h, x) \in Seq(Seq(Letter)) /\ Len(Append(h, x)) = n + 1
      /\ Append(h, x)[n + 1] = x /\ \A i \in 1 .. n : Append(h, x)[i] = h[i]
  BY <1>3, <1>4, AppendProperties
<1>6. \A i \in 1 .. n + 1 : g[i] = Append(h, x)[i]
  <2>1. \A i \in 1 .. n + 1 : i \in 1 .. n \/ i = n + 1
    BY <1>1
  <2> QED
    BY <1>3, <1>5, <2>1
<1>7. g = Append(h, x)
  BY <1>3, <1>5, <1>6, SeqEqual
<1>8. FlattenSeq(g) = FlattenSeq(h) \o x
  BY <1>3, <1>4, <1>7, FlattenAppend
<1> QED
  BY <1>8 DEF Doubled, g, h, w, x

Space  == " "
Equals == "="

LEMMA Distinct == "'" # Space /\ "'" # Equals /\ Space # Equals
BY Zenon DEF Space, Equals

(* What is known of a value with doubled quotes, w: it gives the value back, has
   an even number of quotes before each space and in all, and a run of quotes at
   its end is of even length. *)
Recovers(v, w) ==
  /\ w \in Seq(Letter)
  /\ Halved(w, "'") = v
  /\ Quotes(w, 1, Len(w)) % 2 = 0
  /\ \A i \in 1 .. Len(w) : w[i] = Space => Quotes(w, 1, i) % 2 = 0
  /\ Len(w) # 0 /\ w[Len(w)] = "'" => RunAt(w, Len(w), "'") % 2 = 0

LEMMA AppendOther ==
  ASSUME NEW v \in Seq(Letter), NEW w, Recovers(v, w), NEW c \in Letter, c # "'"
  PROVE  Recovers(Append(v, c), Append(w, c))
<1> DEFINE x == Append(w, c)
           n == Len(w)
<1>1. /\ w \in Seq(Letter) /\ x \in Seq(Letter) /\ Len(x) = n + 1 /\ n \in Nat
      /\ x[n + 1] = c /\ \A i \in 1 .. n : x[i] = w[i]
  <2>1. w \in Seq(Letter)
    BY DEF Recovers
  <2> QED
    BY <2>1, AppendProperties
<1> HIDE DEF x
<1>2. Halved(x, "'") = Append(v, c)
  <2>1. Stays(x, n + 1)
    BY <1>1 DEF Stays
  <2>2. Halved(x, "'") = Halved(w, "'") \o <<c>>
    BY <1>1, <2>1, HalvedAppend DEF x
  <2>3. Append(v, c) = v \o <<c>>
    BY AppendIsConcat
  <2> QED
    BY <2>2, <2>3 DEF Recovers
<1>3. \A i \in 0 .. n : Quotes(x, 1, i) = Quotes(w, 1, i)
  <2> SUFFICES ASSUME NEW i \in 0 .. n PROVE Quotes(x, 1, i) = Quotes(w, 1, i)
    OBVIOUS
  <2>1. i \in Nat /\ \A k \in 1 .. i : x[k] = w[k]
    BY <1>1
  <2> QED
    BY <2>1, QuotesSame
<1>4. Quotes(x, 1, n + 1) = Quotes(w, 1, n)
  <2>1. Quotes(x, 1, n + 1) = Quotes(x, 1, n) + (IF x[n + 1] = "'" THEN 1 ELSE 0) /\ Quotes(x, 1, n) \in Nat
    BY <1>1, QuotesStep
  <2>2. n \in 0 .. n
    BY <1>1
  <2> QED
    BY <1>1, <1>3, <2>1, <2>2
<1>5. ASSUME NEW i \in 1 .. n + 1, x[i] = Space PROVE Quotes(x, 1, i) % 2 = 0
  <2>1. CASE i = n + 1
    BY <1>4, <2>1 DEF Recovers
  <2>2. CASE i # n + 1
    <3>1. i \in 1 .. n /\ i \in 0 .. n
      BY <1>1, <2>2
    <3> QED
      BY <1>1, <1>3, <1>5, <3>1 DEF Recovers
  <2> QED
    BY <2>1, <2>2
<1> QED
  BY <1>1, <1>2, <1>4, <1>5 DEF Recovers, x

LEMMA AppendQuotes ==
  ASSUME NEW v \in Seq(Letter), NEW w, Recovers(v, w)
  PROVE  Recovers(Append(v, "'"), Append(Append(w, "'"), "'"))
<1> DEFINE q == "'"
           x == Append(w, q)
           y == Append(x, q)
           n == Len(w)
<1>0. q \in Letter /\ q # Space
  BY DEF Letter, Character, Space
<1>1. /\ w \in Seq(Letter) /\ x \in Seq(Letter) /\ Len(x) = n + 1 /\ n \in Nat
      /\ x[n + 1] = q /\ \A i \in 1 .. n : x[i] = w[i]
  <2>1. w \in Seq(Letter)
    BY DEF Recovers
  <2> QED
    BY <1>0, <2>1, AppendProperties
<1> HIDE DEF x
<1>2. /\ y \in Seq(Letter) /\ Len(y) = n + 2
      /\ y[n + 1] = q /\ y[n + 2] = q /\ \A i \in 1 .. n : y[i] = w[i]
      /\ \A i \in 1 .. n + 1 : y[i] = x[i]
  <2>1. /\ y \in Seq(Letter) /\ Len(y) = (n + 1) + 1 /\ y[(n + 1) + 1] = q
        /\ \A i \in 1 .. n + 1 : y[i] = x[i]
    BY <1>0, <1>1, AppendProperties
  <2>2. n + 1 \in 1 .. n + 1 /\ (\A i \in 1 .. n : i \in 1 .. n + 1) /\ (n + 1) + 1 = n + 2
    BY <1>1
  <2> QED
    BY <1>1, <2>1, <2>2
<1> HIDE DEF y
(* The first of the two stays, the second goes. *)
<1>3. RunAt(x, n + 1, "'") \in Nat /\ RunAt(x, n + 1, "'") % 2 = 1
  <2>1. CASE n = 0 \/ (n # 0 /\ w[n] # q)
    <3>1. n + 1 \in Nat \ {0} /\ (n + 1) - 1 = n /\ (n # 0 => n \in 1 .. n)
      BY <1>1
    <3>2. n + 1 = 1 \/ x[(n + 1) - 1] # q
      BY <1>1, <2>1, <3>1
    <3>3. RunAt(x, n + 1, "'") = 1
      BY <3>1, <3>2, RunAtIs
    <3> QED
      BY <3>3
  <2>2. CASE n # 0 /\ w[n] = q
    <3>1. n + 1 \in Nat \ {0} /\ n + 1 # 1 /\ (n + 1) - 1 = n /\ n \in 1 .. n /\ n \in Nat \ {0}
      BY <1>1, <2>2
    <3>2. x[(n + 1) - 1] = q
      BY <1>1, <2>2, <3>1
    <3>3. RunAt(x, n + 1, "'") = RunAt(x, n, "'") + 1 /\ RunAt(x, n, "'") \in Nat
      BY <3>1, <3>2, RunAtIs
    <3>4. RunAt(x, n, "'") = RunAt(w, n, "'")
      <4>1. \A k \in 1 .. n - 1 : x[k] = w[k]
        BY <1>1
      <4> QED
        BY <1>1, <4>1, RunAtSame
    <3>5. RunAt(w, n, "'") % 2 = 0
      BY <2>2 DEF Recovers
    <3> QED
      BY <3>3, <3>4, <3>5
  <2> QED
    BY <2>1, <2>2
<1>4. RunAt(y, n + 1, "'") = RunAt(x, n + 1, "'")
  <2>1. n + 1 \in Nat /\ \A k \in 1 .. (n + 1) - 1 : y[k] = x[k]
    BY <1>1, <1>2
  <2>2. \A m \in Nat : (\A k \in 1 .. m - 1 : y[k] = x[k]) => RunAt(y, m, "'") = RunAt(x, m, "'")
    BY RunAtSame
  <2> QED
    BY <2>1, <2>2
<1>5. RunAt(y, n + 2, "'") % 2 = 0
  <2>1. n + 2 \in Nat \ {0} /\ n + 2 # 1 /\ (n + 2) - 1 = n + 1 /\ y[(n + 2) - 1] = q
    BY <1>1, <1>2
  <2>2. RunAt(y, n + 2, "'") = RunAt(y, n + 1, "'") + 1
    BY <2>1, RunAtIs
  <2> QED
    BY <1>3, <1>4, <2>2
<1>6. Halved(y, "'") = Append(v, q)
  <2>1. Stays(x, n + 1) /\ ~ Stays(y, n + 2)
    BY <1>1, <1>2, <1>3, <1>5 DEF Stays
  <2>2. Halved(x, "'") = Halved(w, "'") \o <<q>>
    BY <1>0, <1>1, <2>1, HalvedAppend DEF x
  <2>3. Halved(x, "'") = Append(v, q) /\ Append(v, q) \in Seq(Letter)
    BY <1>0, <2>2, AppendIsConcat, AppendProperties DEF Recovers
  <2>4. Halved(y, "'") = Halved(x, "'") \o << >>
    <3>1. (n + 1) + 1 = n + 2
      BY <1>1
    <3> QED
      BY <1>0, <1>1, <2>1, <3>1, HalvedAppend DEF y
  <2> QED
    BY <2>3, <2>4, ConcatEmptySeq
<1>7. \A i \in 0 .. n : Quotes(y, 1, i) = Quotes(w, 1, i)
  <2> SUFFICES ASSUME NEW i \in 0 .. n PROVE Quotes(y, 1, i) = Quotes(w, 1, i)
    OBVIOUS
  <2>1. i \in Nat /\ \A k \in 1 .. i : y[k] = w[k]
    BY <1>2
  <2> QED
    BY <2>1, QuotesSame
<1>8. Quotes(y, 1, n + 2) % 2 = 0
  <2>1. /\ Quotes(y, 1, n + 1) = Quotes(y, 1, n) + (IF y[n + 1] = q THEN 1 ELSE 0)
        /\ Quotes(y, 1, (n + 1) + 1) = Quotes(y, 1, n + 1) + (IF y[(n + 1) + 1] = q THEN 1 ELSE 0)
        /\ Quotes(y, 1, n) \in Nat
    <3>1. n \in Nat /\ n + 1 \in Nat
      BY <1>1
    <3> QED
      BY <3>1, QuotesStep
  <2>2. n \in 0 .. n /\ (n + 1) + 1 = n + 2
    BY <1>1
  <2>3. Quotes(y, 1, n + 2) = Quotes(w, 1, n) + 2 /\ Quotes(w, 1, n) \in Nat
    BY <1>2, <1>7, <2>1, <2>2
  <2>4. Quotes(w, 1, n) % 2 = 0
    BY DEF Recovers
  <2> QED
    BY <2>3, <2>4
<1>9. ASSUME NEW i \in 1 .. n + 2, y[i] = Space PROVE Quotes(y, 1, i) % 2 = 0
  <2>1. i \in 1 .. n
    <3>1. i = n + 1 \/ i = n + 2 \/ i \in 1 .. n
      BY <1>1
    <3>2. i # n + 1 /\ i # n + 2
      BY <1>0, <1>2, <1>9
    <3> QED
      BY <3>1, <3>2
  <2>2. i \in 0 .. n
    BY <2>1
  <2> QED
    BY <1>2, <1>7, <1>9, <2>1, <2>2 DEF Recovers
<1>10. Recovers(Append(v, q), y)
  BY <1>2, <1>5, <1>6, <1>8, <1>9 DEF Recovers
<1> QED
  BY <1>10 DEF x, y

LEMMA DoubledRecovers ==
  \A v \in Seq(Letter) : Recovers(v, Doubled(v))
<1> DEFINE C == {v \in Seq(Letter) : Recovers(v, Doubled(v))}
<1>1. << >> \in C
  <2>1. << >> \in Seq(Letter) /\ Len(<< >>) = 0 /\ DOMAIN << >> = {}
    BY EmptySeq
  <2>2. Doubling(<< >>) = << >> /\ Halving(<< >>) = << >>
    BY <2>1 DEF Doubling, Halving
  <2>3. Doubled(<< >>) = << >> /\ Halved(<< >>, "'") = << >>
    BY <2>2, FlattenEmpty, HalvedIs DEF Doubled
  <2>4. Quotes(<< >>, 1, 0) = 0
    BY QuotesStep
  <2>5. \A i \in 1 .. 0 : FALSE
    OBVIOUS
  <2>6. Recovers(<< >>, << >>)
    BY <2>1, <2>3, <2>4, <2>5 DEF Recovers
  <2> QED
    BY <2>1, <2>3, <2>6
<1>2. ASSUME NEW v \in Seq(Letter), NEW c \in Letter, v \in C
      PROVE  Append(v, c) \in C
  <2> DEFINE w == Doubled(v)
  <2>1. Recovers(v, w) /\ w \in Seq(Letter)
    BY <1>2 DEF Recovers
  <2>2. Append(v, c) \in Seq(Letter)
    BY AppendProperties
  <2>3. CASE c # "'"
    <3>1. Doubled(Append(v, c)) = w \o <<c>>
      BY <2>3, DoubledAppend
    <3>2. w \o <<c>> = Append(w, c)
      BY <2>1, AppendIsConcat
    <3> QED
      BY <2>1, <2>2, <2>3, <3>1, <3>2, AppendOther
  <2>4. CASE c = "'"
    <3>1. Doubled(Append(v, c)) = w \o <<"'", "'">>
      BY <2>4, DoubledAppend
    <3>2. w \o <<"'", "'">> = Append(Append(w, "'"), "'")
      <4> HIDE DEF w
      <4>1. Append(w, "'") \in Seq(Letter) /\ "'" \in Letter
        BY <2>1, <2>4, AppendProperties
      <4>2. Append(w, "'") = w \o <<"'">> /\ Append(Append(w, "'"), "'") = Append(w, "'") \o <<"'">>
        BY <2>1, <4>1, AppendIsConcat
      <4>3. (w \o <<"'">>) \o <<"'">> = w \o (<<"'">> \o <<"'">>)
        BY <2>1, <4>1, ConcatAssociative
      <4>4. <<"'">> \o <<"'">> = <<"'", "'">>
        <5> DEFINE a == <<"'">>
        <5>1. a \in Seq(Letter) /\ Len(a) = 1 /\ a[1] = "'"
          BY <4>1
        <5>2. /\ a \o a \in Seq(Letter) /\ Len(a \o a) = 2
              /\ (a \o a)[1] = "'" /\ (a \o a)[2] = "'"
          <6> HIDE DEF a
          <6>1. /\ a \o a \in Seq(Letter) /\ Len(a \o a) = Len(a) + Len(a)
                /\ \A i \in 1 .. Len(a) + Len(a) :
                     (a \o a)[i] = IF i <= Len(a) THEN a[i] ELSE a[i - Len(a)]
            BY <5>1, ConcatProperties
          <6>2. 1 \in 1 .. Len(a) + Len(a) /\ 2 \in 1 .. Len(a) + Len(a)
            BY <5>1
          <6>3. (a \o a)[1] = a[1] /\ (a \o a)[2] = a[1]
            BY <5>1, <6>1, <6>2
          <6> QED
            BY <5>1, <6>1, <6>3
        <5>3. <<"'", "'">> \in Seq(Letter) /\ Len(<<"'", "'">>) = 2
          BY <4>1
        <5> HIDE DEF a
        <5>4. \A i \in 1 .. 2 : (a \o a)[i] = <<"'", "'">>[i]
          BY <5>2
        <5>5. a \o a = <<"'", "'">>
          BY <5>2, <5>3, <5>4, SeqEqual
        <5> QED
          BY <5>5 DEF a
      <4> QED
        BY <4>2, <4>3, <4>4
    <3>3. Recovers(Append(v, "'"), Append(Append(w, "'"), "'"))
      BY <2>1, AppendQuotes
    <3> QED
      BY <2>2, <2>4, <3>1, <3>2, <3>3
  <2> QED
    BY <2>3, <2>4
<1>3. \A v \in Seq(Letter) : v \in C
  <2> HIDE DEF C
  <2> QED
    BY <1>1, <1>2, SeqClosure
<1> QED
  BY <1>3

Key    == {"dbname", "password"}
Symbol == Letter \cup Key \cup {"="}

(* The spaces of a field, and no quote at its end, are inside quotes. *)
Balanced(g) ==
  /\ g \in Seq(Symbol)
  /\ Quotes(g, 1, Len(g)) % 2 = 0
  /\ \A i \in 1 .. Len(g) : g[i] = Space => Quotes(g, 1, i) % 2 = 1

LEMMA NoQuotes ==
  ASSUME NEW t, NEW i \in Nat, \A k \in 1 .. i : t[k] # "'"
  PROVE  Quotes(t, 1, i) = 0
<1>1. {k \in 1 .. i : t[k] = "'"} = {}
  OBVIOUS
<1> QED
  BY <1>1, FS_EmptySet DEF Quotes

(* What needs no quotes. *)
IsPlain(v) == Range(v) \cap {" ", "'", "\\"} = {}

LEMMA PlainValue ==
  ASSUME NEW v \in Seq(Letter), IsPlain(v)
  PROVE  Quoted(v) = v /\ Unquoted(v) = v /\ Balanced(v)
<1>1. /\ Len(v) \in Nat /\ DOMAIN v = 1 .. Len(v) /\ v \in Seq(Symbol)
      /\ \A i \in 1 .. Len(v) : v[i] # "'" /\ v[i] # Space
  <2>1. Len(v) \in Nat /\ DOMAIN v = 1 .. Len(v)
    BY LenProperties
  <2>2. v \in Seq(Symbol)
    BY SeqMonotonic DEF Symbol
  <2>3. \A i \in 1 .. Len(v) : v[i] \in Range(v)
    BY <2>1 DEF Range
  <2>4. ASSUME NEW i \in 1 .. Len(v) PROVE v[i] # "'" /\ v[i] # Space
    BY <2>3, Zenon DEF IsPlain, Space
  <2> QED
    BY <2>1, <2>2, <2>4
<1>2. \A i \in 0 .. Len(v) : Quotes(v, 1, i) = 0
  <2> SUFFICES ASSUME NEW i \in 0 .. Len(v) PROVE Quotes(v, 1, i) = 0
    OBVIOUS
  <2>1. i \in Nat /\ \A k \in 1 .. i : v[k] # "'"
    BY <1>1
  <2> QED
    BY <2>1, NoQuotes
<1>3. Len(v) \in 0 .. Len(v)
  BY <1>1
<1>4. Unquoted(v) = v
  BY <1>1 DEF Unquoted
<1>5. Quoted(v) = v
  BY Zenon DEF Quoted, IsPlain
<1> QED
  BY <1>1, <1>2, <1>3, <1>4, <1>5 DEF Balanced

LEMMA QuotedValue ==
  ASSUME NEW v \in Seq(Letter), ~ IsPlain(v)
  PROVE  /\ Quoted(v) \in Seq(Letter)
         /\ Unquoted(Quoted(v)) = v /\ Balanced(Quoted(v))
<1> DEFINE w == Doubled(v)
           a == <<"'">>
           s == a \o w
           q == s \o a
           n == Len(w)
<1>0. /\ Recovers(v, w) /\ w \in Seq(Letter) /\ n \in Nat
      /\ a \in Seq(Letter) /\ Len(a) = 1 /\ a[1] = "'"
  <2>1. Recovers(v, w)
    BY DoubledRecovers
  <2>2. w \in Seq(Letter)
    BY <2>1 DEF Recovers
  <2>3. "'" \in Letter
    BY DEF Letter, Character
  <2> QED
    BY <2>1, <2>2, <2>3, LenProperties
<1>1. Quoted(v) = q
  BY Zenon DEF Quoted, Doubled, Doubling, IsPlain
<1> HIDE DEF w, a
<1>n. n \in Nat /\ Len(w) = n
  BY <1>0
<1>l. w \in Seq(Letter) /\ a \in Seq(Letter) /\ Len(a) = 1 /\ a[1] = "'"
  BY <1>0
<1>r. /\ Halved(w, "'") = v
      /\ Quotes(w, 1, n) % 2 = 0
      /\ \A i \in 1 .. n : w[i] = Space => Quotes(w, 1, i) % 2 = 0
  BY <1>0 DEF Recovers
<1>t. \A i \in 0 .. n : Quotes(w, 1, i) \in Nat
  <2>1. \A i \in 0 .. n : i \in Nat
    BY <1>n
  <2> QED
    BY <2>1, QuotesStep
<1> HIDE DEF n
<1>2. /\ s \in Seq(Letter) /\ Len(s) = n + 1 /\ s[1] = "'"
      /\ \A i \in 1 .. n : s[1 + i] = w[i]
  <2>1. /\ s \in Seq(Letter) /\ Len(s) = 1 + n
        /\ \A i \in 1 .. 1 : s[i] = a[i]
        /\ \A i \in 1 .. n : s[1 + i] = w[i]
    <3>1. \A x \in Seq(Letter), y \in Seq(Letter) :
            /\ x \o y \in Seq(Letter) /\ Len(x \o y) = Len(x) + Len(y)
            /\ \A i \in 1 .. Len(x) : (x \o y)[i] = x[i]
            /\ \A i \in 1 .. Len(y) : (x \o y)[Len(x) + i] = y[i]
      BY Concatenated
    <3>2. /\ s \in Seq(Letter) /\ Len(s) = Len(a) + Len(w)
          /\ \A i \in 1 .. Len(a) : s[i] = a[i]
          /\ \A i \in 1 .. Len(w) : s[Len(a) + i] = w[i]
      BY <1>l, <3>1
    <3> HIDE DEF s
    <3> QED
      BY <1>n, <1>l, <3>2
  <2> HIDE DEF s
  <2> QED
    BY <1>n, <1>l, <2>1
<1>3. /\ q \in Seq(Letter) /\ Len(q) = n + 2 /\ q[n + 2] = "'"
      /\ \A i \in 1 .. n + 1 : q[i] = s[i]
  <2> HIDE DEF s
  <2>1. n + 1 \in Nat /\ 1 \in Nat /\ (n + 1) + 1 = n + 2 /\ 1 \in 1 .. 1
    BY <1>n
  <2>2. /\ q \in Seq(Letter) /\ Len(q) = (n + 1) + 1
        /\ \A i \in 1 .. n + 1 : q[i] = s[i]
        /\ \A i \in 1 .. 1 : q[(n + 1) + i] = a[i]
    <3>1. \A x \in Seq(Letter), y \in Seq(Letter) :
            /\ x \o y \in Seq(Letter) /\ Len(x \o y) = Len(x) + Len(y)
            /\ \A i \in 1 .. Len(x) : (x \o y)[i] = x[i]
            /\ \A i \in 1 .. Len(y) : (x \o y)[Len(x) + i] = y[i]
      BY Concatenated
    <3>2. /\ q \in Seq(Letter) /\ Len(q) = Len(s) + Len(a)
          /\ \A i \in 1 .. Len(s) : q[i] = s[i]
          /\ \A i \in 1 .. Len(a) : q[Len(s) + i] = a[i]
      BY <1>l, <1>2, <3>1
    <3> HIDE DEF q
    <3> QED
      BY <1>l, <1>2, <2>1, <3>2
  <2> HIDE DEF q
  <2> QED
    BY <1>l, <2>1, <2>2
<1>4. \A i \in 0 .. n : Quotes(s, 1, 1 + i) = 1 + Quotes(w, 1, i)
  <2>1. /\ Quotes(a, 1, 0 + 1) = Quotes(a, 1, 0) + (IF a[0 + 1] = "'" THEN 1 ELSE 0)
        /\ Quotes(a, 1, 0) = 0
    BY QuotesStep
  <2>2. Quotes(a, 1, 1) = 1
    BY <1>0, <2>1
  <2>3. \A i \in 0 .. Len(w) : Quotes(s, 1, Len(a) + i) = Quotes(a, 1, Len(a)) + Quotes(w, 1, i)
    <3>1. \A x \in Seq(Letter), y \in Seq(Letter) : \A i \in 0 .. Len(y) :
            Quotes(x \o y, 1, Len(x) + i) = Quotes(x, 1, Len(x)) + Quotes(y, 1, i)
      BY QuotesConcat
    <3> QED
      BY <1>l, <3>1
  <2> HIDE DEF s
  <2> QED
    BY <1>n, <1>l, <2>2, <2>3
<1> HIDE DEF s, q
<1>5. \A i \in 0 .. n : Quotes(q, 1, 1 + i) = 1 + Quotes(w, 1, i)
  <2> SUFFICES ASSUME NEW i \in 0 .. n PROVE Quotes(q, 1, 1 + i) = 1 + Quotes(w, 1, i)
    OBVIOUS
  <2>1. 1 + i \in Nat /\ \A k \in 1 .. 1 + i : k \in 1 .. n + 1
    BY <1>n
  <2>2. Quotes(q, 1, 1 + i) = Quotes(s, 1, 1 + i)
    BY <1>3, <2>1, QuotesSame
  <2> QED
    BY <1>4, <2>2
<1>6. Quotes(w, 1, n) \in Nat /\ Quotes(w, 1, n) % 2 = 0 /\ Quotes(q, 1, n + 2) = Quotes(w, 1, n) + 2
  <2>1. Quotes(w, 1, n) \in Nat /\ Quotes(w, 1, n) % 2 = 0
    <3>1. n \in 0 .. n
      BY <1>n
    <3> QED
      BY <1>r, <1>t, <3>1
  <2>2. n \in 0 .. n /\ 1 + n = n + 1 /\ (n + 1) + 1 = n + 2 /\ n + 1 \in Nat
    BY <1>n
  <2>3. Quotes(q, 1, n + 1) = 1 + Quotes(w, 1, n)
    BY <1>5, <2>2
  <2>4. Quotes(q, 1, (n + 1) + 1) = Quotes(q, 1, n + 1) + (IF q[(n + 1) + 1] = "'" THEN 1 ELSE 0)
    BY <2>2, QuotesStep
  <2> QED
    BY <1>3, <2>1, <2>2, <2>3, <2>4
<1>7. ASSUME NEW i \in 1 .. n + 2, q[i] = Space PROVE Quotes(q, 1, i) % 2 = 1
  <2>1. i # 1 /\ i # n + 2
    <3>1. 1 \in 1 .. n + 1
      BY <1>n
    <3> QED
      BY <1>2, <1>3, <1>7, <3>1, Distinct
  <2>2. i - 1 \in 1 .. n /\ i - 1 \in 0 .. n /\ i \in 1 .. n + 1 /\ 1 + (i - 1) = i /\ i - 1 \in Nat
    BY <1>0, <2>1
  <2>3. w[i - 1] = Space
    BY <1>2, <1>3, <1>7, <2>2
  <2>4. Quotes(w, 1, i - 1) % 2 = 0 /\ Quotes(w, 1, i - 1) \in Nat
    BY <1>r, <1>t, <2>2, <2>3
  <2>5. Quotes(q, 1, i) = 1 + Quotes(w, 1, i - 1)
    BY <1>5, <2>2
  <2> QED
    BY <2>4, <2>5
<1>8. Balanced(q)
  <2>1. q \in Seq(Symbol)
    BY <1>3, SeqMonotonic DEF Symbol
  <2>2. Quotes(q, 1, n + 2) % 2 = 0
    BY <1>6
  <2> QED
    BY <1>3, <1>7, <2>1, <2>2 DEF Balanced
<1>9. Unquoted(q) = v
  <2>0. n \in Nat /\ w \in Seq(Letter) /\ Halved(w, "'") = v
    BY <1>n, <1>l, <1>r
  <2>00. Len(w) = n
    BY <1>n
  <2>01. q \in Seq(Letter) /\ Len(q) = n + 2 /\ q[n + 2] = "'" /\ \A i \in 1 .. n + 1 : q[i] = s[i]
    BY <1>3
  <2>02. s[1] = "'" /\ \A i \in 1 .. n : s[1 + i] = w[i]
    BY <1>2
  <2>1. Len(q) >= 2 /\ q[1] = "'" /\ q[Len(q)] = "'" /\ Len(q) - 1 = n + 1
    <3>1. 1 \in 1 .. n + 1 /\ n + 2 >= 2 /\ (n + 2) - 1 = n + 1
      BY <2>0
    <3> QED
      BY <2>01, <2>02, <3>1
  <2>2. SubSeq(q, 2, n + 1) = w
    <3>1. \A i \in 2 .. n + 1 : q[i] \in Letter
      <4>1. \A i \in 2 .. n + 1 : i \in 1 .. n + 2
        BY <2>0
      <4> QED
        BY <2>01, <4>1, ElementOfSeq
    <3>2. 2 \in Int /\ n + 1 \in Int
      BY <2>0
    <3>3. /\ SubSeq(q, 2, n + 1) \in Seq(Letter)
          /\ Len(SubSeq(q, 2, n + 1)) = IF 2 <= n + 1 THEN (n + 1) - 2 + 1 ELSE 0
          /\ \A i \in 1 .. (n + 1) - 2 + 1 : SubSeq(q, 2, n + 1)[i] = q[2 + i - 1]
      BY <3>1, <3>2, SubSeqProperties
    <3>4. (IF 2 <= n + 1 THEN (n + 1) - 2 + 1 ELSE 0) = n /\ (n + 1) - 2 + 1 = n
      BY <2>0
    <3>5. \A i \in 1 .. n : SubSeq(q, 2, n + 1)[i] = w[i]
      <4>1. \A i \in 1 .. n : 2 + i - 1 = 1 + i /\ 1 + i \in 1 .. n + 1
        BY <2>0
      <4> QED
        BY <2>01, <2>02, <3>3, <3>4, <4>1
    <3> QED
      BY <2>0, <2>00, <3>3, <3>4, <3>5, SeqEqual
  <2> QED
    BY <2>0, <2>1, <2>2 DEF Unquoted
<1> QED
  BY <1>1, <1>3, <1>8, <1>9

(* A field of the DSN. *)
Field(key, v) == <<key, "=">> \o Quoted(v)

LEMMA FieldIs ==
  ASSUME NEW key \in Key, NEW v \in Seq(Letter)
  PROVE  /\ Balanced(Field(key, v)) /\ Len(Field(key, v)) \in Nat \ {0}
         /\ Field(key, v)[1] = key
         /\ Unquoted(SubSeq(Field(key, v), 3, Len(Field(key, v)))) = v
<1> DEFINE k == <<key, Equals>>
           q == Quoted(v)
           n == Len(q)
           f == Field(key, v)
<1>0. Balanced(q) /\ Unquoted(q) = v
  BY PlainValue, QuotedValue
<1>1. q \in Seq(Symbol)
  BY <1>0 DEF Balanced
<1>n. n \in Nat
  BY <1>1, LenProperties
<1>k. /\ k \in Seq(Symbol) /\ Len(k) = 2 /\ k[1] = key /\ k[2] = Equals
      /\ key # "'" /\ key # Space
  <2>1. key \in Symbol /\ Equals \in Symbol
    BY DEF Symbol, Equals
  <2>2. key # "'"
    BY DEF Key
  <2>3. key # Space
    BY DEF Key, Space
  <2> QED
    BY <2>1, <2>2, <2>3
<1>2. f = k \o q
  BY DEF Field, Equals
<1>q. Len(q) = n
  OBVIOUS
<1> HIDE DEF k, q, f, n
<1>3. /\ f \in Seq(Symbol) /\ Len(f) = n + 2 /\ f[1] = key /\ f[2] = Equals
      /\ \A i \in 1 .. n : f[2 + i] = q[i]
  <2>1. \A u \in Seq(Symbol), y \in Seq(Symbol) :
          /\ u \o y \in Seq(Symbol) /\ Len(u \o y) = Len(u) + Len(y)
          /\ \A i \in 1 .. Len(u) : (u \o y)[i] = u[i]
          /\ \A i \in 1 .. Len(y) : (u \o y)[Len(u) + i] = y[i]
    BY Concatenated
  <2>2. /\ f \in Seq(Symbol) /\ Len(f) = Len(k) + Len(q)
        /\ \A i \in 1 .. Len(k) : f[i] = k[i]
        /\ \A i \in 1 .. Len(q) : f[Len(k) + i] = q[i]
    BY <1>1, <1>k, <1>2, <2>1
  <2>3. /\ f \in Seq(Symbol) /\ Len(f) = 2 + n
        /\ \A i \in 1 .. 2 : f[i] = k[i]
        /\ \A i \in 1 .. n : f[2 + i] = q[i]
    BY <1>k, <1>q, <2>2
  <2>4. 1 \in 1 .. 2 /\ 2 \in 1 .. 2 /\ 2 + n = n + 2
    BY <1>n
  <2> QED
    BY <1>k, <2>3, <2>4
<1>4. \A i \in 0 .. n : Quotes(f, 1, 2 + i) = Quotes(q, 1, i)
  <2>1. Quotes(k, 1, 2) = 0
    <3>1. \A i \in 1 .. 2 : k[i] # "'"
      <4>1. \A i \in 1 .. 2 : i = 1 \/ i = 2
        OBVIOUS
      <4> QED
        BY <1>k, <4>1, Distinct
    <3> QED
      BY <3>1, NoQuotes
  <2>2. \A i \in 0 .. n : Quotes(f, 1, 2 + i) = Quotes(k, 1, 2) + Quotes(q, 1, i)
    <3>1. \A i \in 0 .. Len(q) : Quotes(k \o q, 1, Len(k) + i) = Quotes(k, 1, Len(k)) + Quotes(q, 1, i)
      <4>1. \A x \in Seq(Symbol), y \in Seq(Symbol) : \A i \in 0 .. Len(y) :
              Quotes(x \o y, 1, Len(x) + i) = Quotes(x, 1, Len(x)) + Quotes(y, 1, i)
        BY QuotesConcat
      <4> QED
        BY <1>1, <1>k, <4>1
    <3> QED
      BY <1>k, <1>q, <1>2, <3>1
  <2>3. \A i \in 0 .. n : Quotes(q, 1, i) \in Nat
    <3>1. \A i \in 0 .. n : i \in Nat
      BY <1>n
    <3> QED
      BY <3>1, QuotesStep
  <2> QED
    BY <2>1, <2>2, <2>3
<1>5. Balanced(f)
  <2>b. Quotes(q, 1, n) % 2 = 0 /\ \A i \in 1 .. n : q[i] = Space => Quotes(q, 1, i) % 2 = 1
    BY <1>0, <1>q DEF Balanced
  <2>1. Quotes(f, 1, n + 2) % 2 = 0
    <3>1. n \in 0 .. n /\ 2 + n = n + 2
      BY <1>n
    <3> QED
      BY <2>b, <1>4, <3>1
  <2>2. ASSUME NEW i \in 1 .. n + 2, f[i] = Space PROVE Quotes(f, 1, i) % 2 = 1
    <3>1. i # 1 /\ i # 2
      BY <1>k, <1>3, <2>2, Distinct
    <3>2. i - 2 \in 1 .. n /\ i - 2 \in 0 .. n /\ 2 + (i - 2) = i
      BY <1>n, <3>1
    <3>3. q[i - 2] = Space
      BY <1>3, <2>2, <3>2
    <3> QED
      BY <2>b, <1>4, <3>2, <3>3
  <2> QED
    BY <1>3, <2>1, <2>2 DEF Balanced
<1>6. SubSeq(f, 3, n + 2) = q
  <2>1. \A i \in 3 .. n + 2 : f[i] \in Symbol
    <3>1. \A i \in 3 .. n + 2 : i \in 1 .. n + 2
      BY <1>n
    <3> QED
      BY <1>3, <3>1, ElementOfSeq
  <2>2. 3 \in Int /\ n + 2 \in Int
    BY <1>n
  <2>3. /\ SubSeq(f, 3, n + 2) \in Seq(Symbol)
        /\ Len(SubSeq(f, 3, n + 2)) = IF 3 <= n + 2 THEN (n + 2) - 3 + 1 ELSE 0
        /\ \A i \in 1 .. (n + 2) - 3 + 1 : SubSeq(f, 3, n + 2)[i] = f[3 + i - 1]
    BY <2>1, <2>2, SubSeqProperties
  <2>4. (IF 3 <= n + 2 THEN (n + 2) - 3 + 1 ELSE 0) = n /\ (n + 2) - 3 + 1 = n
    BY <1>n
  <2>5. \A i \in 1 .. n : SubSeq(f, 3, n + 2)[i] = q[i]
    <3>1. \A i \in 1 .. n : 3 + i - 1 = 2 + i
      BY <1>n
    <3> QED
      BY <1>3, <2>3, <2>4, <3>1
  <2> QED
    BY <1>1, <1>q, <2>3, <2>4, <2>5, SeqEqual
<1>7. Len(f) \in Nat \ {0}
  BY <1>n, <1>3
<1> QED
  BY <1>0, <1>3, <1>5, <1>6, <1>7 DEF f

-----------------------------------------------------------------------------
(* The DSN is its two fields, each with a space after it. *)

LEMMA TwoKeys ==
  /\ SetToSeq(Key) \in [1 .. 2 -> Key]
  /\ SetToSeq(Key)[1] # SetToSeq(Key)[2]
<1>1. Cardinality(Key) = 2
  <2>1. IsFiniteSet({"dbname"}) /\ Cardinality({"dbname"}) = 1
    BY FS_Singleton
  <2>2. "password" \notin {"dbname"} /\ Key = {"dbname"} \cup {"password"}
    BY DEF Key
  <2> QED
    BY <2>1, <2>2, FS_AddElement
<1> DEFINE f0 == [i \in 1 .. 2 |-> IF i = 1 THEN "dbname" ELSE "password"]
           F == [1 .. Cardinality(Key) -> Key]
<1>2. f0 \in F /\ IsInjective(f0)
  <2>1. f0 \in F
    BY <1>1 DEF Key
  <2>2. IsInjective(f0)
    BY DEF IsInjective
  <2> QED
    BY <2>1, <2>2
<1>3. SetToSeq(Key) = CHOOSE f \in F : IsInjective(f)
  BY DEF SetToSeq
<1>4. SetToSeq(Key) \in F /\ IsInjective(SetToSeq(Key))
  <2> HIDE DEF F, f0
  <2> QED
    BY <1>2, <1>3
<1>5. SetToSeq(Key) \in [1 .. 2 -> Key]
  BY <1>1, <1>4
<1>6. \A o \in [1 .. 2 -> Key] : IsInjective(o) => o[1] # o[2]
  BY DEF IsInjective
<1> QED
  BY <1>4, <1>5, <1>6

Piece(key, v) == Field(key, v) \o <<Space>>

LEMMA FormatIs ==
  ASSUME NEW kv \in [Key -> Seq(Letter)]
  PROVE  \E a \in Key, b \in Key : a # b /\ FormatKV(kv) = Piece(a, kv[a]) \o Piece(b, kv[b])
<1> DEFINE o == SetToSeq(Key)
           seqs == [i \in DOMAIN o |-> Piece(o[i], kv[o[i]])]
<1>1. DOMAIN kv = Key
  OBVIOUS
<1>2. FormatKV(kv) = FlattenSeq(seqs)
  <2>1. FormatKV(kv) = FlattenSeq([i \in DOMAIN SetToSeq(DOMAIN kv) |->
          Piece(SetToSeq(DOMAIN kv)[i], kv[SetToSeq(DOMAIN kv)[i]])])
    BY Zenon DEF FormatKV, Piece, Field, Space
  <2> QED
    BY <1>1, <2>1
<1>3. o \in [1 .. 2 -> Key] /\ o[1] # o[2]
  BY TwoKeys
<1> HIDE DEF o
<1>4. \A key \in Key, v \in Seq(Letter) : Piece(key, v) \in Seq(Symbol)
  <2> SUFFICES ASSUME NEW key \in Key, NEW v \in Seq(Letter) PROVE Piece(key, v) \in Seq(Symbol)
    OBVIOUS
  <2>1. Field(key, v) \in Seq(Symbol)
    BY FieldIs DEF Balanced
  <2>2. Space \in Symbol
    BY Zenon DEF Symbol, Letter, Character, Space
  <2>3. <<Space>> \in Seq(Symbol)
    BY <2>2
  <2> QED
    BY <2>1, <2>3, ConcatProperties DEF Piece
<1>5. /\ seqs \in Seq(Seq(Symbol)) /\ Len(seqs) = 2
      /\ seqs[1] = Piece(o[1], kv[o[1]]) /\ seqs[2] = Piece(o[2], kv[o[2]])
  <2>1. DOMAIN o = 1 .. 2 /\ \A i \in 1 .. 2 : o[i] \in Key /\ kv[o[i]] \in Seq(Letter)
    BY <1>3
  <2>2. \A i \in 1 .. 2 : Piece(o[i], kv[o[i]]) \in Seq(Symbol)
    BY <1>4, <2>1
  <2> QED
    BY <2>1, <2>2
<1> HIDE DEF seqs
<1>6. PICK h : Joins(h, seqs, 2) /\ FlattenSeq(seqs) = h[2]
  <2>1. Len(seqs) # 0
    BY <1>5
  <2>2. \E h : Joins(h, seqs, Len(seqs)) /\ FlattenSeq(seqs) = h[Len(seqs)]
    BY <1>5, <2>1, FlattenIs
  <2> QED
    BY <1>5, <2>2
<1>7. h[1] = seqs[1] /\ h[2] = h[1] \o seqs[2]
  <2>1. 1 \in 1 .. 2 /\ 2 \in 1 .. 2 /\ 2 # 1 /\ 2 - 1 = 1
    OBVIOUS
  <2> QED
    BY <1>6, <2>1 DEF Joins
<1>8. FormatKV(kv) = Piece(o[1], kv[o[1]]) \o Piece(o[2], kv[o[2]])
  BY <1>2, <1>5, <1>6, <1>7
<1>9. o[1] \in Key /\ o[2] \in Key
  BY <1>3
<1> QED
  BY <1>3, <1>8, <1>9

(* Where a piece is cut: behind its field only. *)
Splits(t, i) == t[i] = Space /\ Quotes(t, 1, i) % 2 = 0

LEMMA PieceIs ==
  ASSUME NEW f, Balanced(f), NEW n \in Nat, Len(f) = n
  PROVE  /\ f \o <<Space>> \in Seq(Symbol) /\ Len(f \o <<Space>>) = n + 1
         /\ \A i \in 1 .. n : (f \o <<Space>>)[i] = f[i]
         /\ Quotes(f \o <<Space>>, 1, n + 1) % 2 = 0
         /\ \A i \in 1 .. n + 1 : Splits(f \o <<Space>>, i) <=> i = n + 1
<1> DEFINE e == <<Space>>
           x == f \o e
<1>1. f \in Seq(Symbol) /\ Quotes(f, 1, n) % 2 = 0
      /\ \A i \in 1 .. n : f[i] = Space => Quotes(f, 1, i) % 2 = 1
  BY DEF Balanced
<1>2. e \in Seq(Symbol) /\ Len(e) = 1 /\ e[1] = Space
  <2>1. Space \in Symbol
    BY Zenon DEF Symbol, Letter, Character, Space
  <2> QED
    BY <2>1
<1> HIDE DEF e
<1>3. /\ x \in Seq(Symbol) /\ Len(x) = Len(f) + Len(e)
      /\ \A i \in 1 .. Len(f) : x[i] = f[i]
      /\ \A i \in 1 .. Len(e) : x[Len(f) + i] = e[i]
  <2>1. \A u \in Seq(Symbol), y \in Seq(Symbol) :
          /\ u \o y \in Seq(Symbol) /\ Len(u \o y) = Len(u) + Len(y)
          /\ \A i \in 1 .. Len(u) : (u \o y)[i] = u[i]
          /\ \A i \in 1 .. Len(y) : (u \o y)[Len(u) + i] = y[i]
    BY Concatenated
  <2> QED
    BY <1>1, <1>2, <2>1
<1> HIDE DEF x
<1>4. Len(x) = n + 1 /\ (\A i \in 1 .. n : x[i] = f[i]) /\ x[n + 1] = Space
  BY <1>2, <1>3
<1>5. \A i \in 0 .. n : Quotes(x, 1, i) = Quotes(f, 1, i)
  <2> SUFFICES ASSUME NEW i \in 0 .. n PROVE Quotes(x, 1, i) = Quotes(f, 1, i)
    OBVIOUS
  <2>1. i \in Nat /\ \A k \in 1 .. i : x[k] = f[k]
    BY <1>4
  <2> QED
    BY <2>1, QuotesSame
<1>6. Quotes(x, 1, n + 1) = Quotes(f, 1, n)
  <2>1. Quotes(x, 1, n + 1) = Quotes(x, 1, n) + (IF x[n + 1] = "'" THEN 1 ELSE 0) /\ Quotes(x, 1, n) \in Nat
    BY QuotesStep
  <2>2. n \in 0 .. n /\ x[n + 1] # "'"
    BY <1>4, Distinct
  <2>3. Quotes(x, 1, n) = Quotes(f, 1, n)
    BY <1>5, <2>2
  <2> QED
    BY <2>1, <2>2, <2>3
<1>7. ASSUME NEW i \in 1 .. n + 1 PROVE Splits(x, i) <=> i = n + 1
  <2>1. CASE i = n + 1
    BY <1>1, <1>4, <1>6, <2>1 DEF Splits
  <2>2. CASE i # n + 1
    <3>1. i \in 1 .. n /\ i \in 0 .. n
      BY <2>2
    <3>2. Quotes(x, 1, i) = Quotes(f, 1, i) /\ x[i] = f[i]
      BY <1>4, <1>5, <3>1
    <3>3. x[i] = Space => Quotes(x, 1, i) % 2 = 1
      BY <1>1, <3>1, <3>2
    <3> QED
      BY <2>2, <3>3 DEF Splits
  <2> QED
    BY <2>1, <2>2
<1>8. Quotes(x, 1, n + 1) % 2 = 0
  BY <1>1, <1>6
<1>9. /\ x \in Seq(Symbol) /\ Len(x) = n + 1
      /\ \A i \in 1 .. n : x[i] = f[i]
      /\ Quotes(x, 1, n + 1) % 2 = 0
      /\ \A i \in 1 .. n + 1 : Splits(x, i) <=> i = n + 1
  BY <1>3, <1>4, <1>7, <1>8
<1> QED
  BY <1>9 DEF x, e

(* Two pieces are cut into their two fields, and nothing else. *)
LEMMA TwoPieces ==
  ASSUME NEW f, Balanced(f), NEW n \in Nat \ {0}, Len(f) = n,
         NEW g, Balanced(g), NEW m \in Nat \ {0}, Len(g) = m
  PROVE  Fields((f \o <<Space>>) \o (g \o <<Space>>)) = {f, g}
<1> DEFINE x == f \o <<Space>>
           y == g \o <<Space>>
           t == x \o y
           N == n + m + 2
<1>1. /\ x \in Seq(Symbol) /\ Len(x) = n + 1
      /\ \A i \in 1 .. n : x[i] = f[i]
      /\ Quotes(x, 1, n + 1) % 2 = 0
      /\ \A i \in 1 .. n + 1 : Splits(x, i) <=> i = n + 1
  BY PieceIs
<1>2. /\ y \in Seq(Symbol) /\ Len(y) = m + 1
      /\ \A i \in 1 .. m : y[i] = g[i]
      /\ \A i \in 1 .. m + 1 : Splits(y, i) <=> i = m + 1
  BY PieceIs
<1> HIDE DEF x, y
<1>3. /\ t \in Seq(Symbol) /\ Len(t) = N
      /\ \A i \in 1 .. n + 1 : t[i] = x[i]
      /\ \A i \in 1 .. m + 1 : t[(n + 1) + i] = y[i]
  <2>1. \A u \in Seq(Symbol), v \in Seq(Symbol) :
          /\ u \o v \in Seq(Symbol) /\ Len(u \o v) = Len(u) + Len(v)
          /\ \A i \in 1 .. Len(u) : (u \o v)[i] = u[i]
          /\ \A i \in 1 .. Len(v) : (u \o v)[Len(u) + i] = v[i]
    BY Concatenated
  <2>2. /\ t \in Seq(Symbol) /\ Len(t) = Len(x) + Len(y)
        /\ \A i \in 1 .. Len(x) : t[i] = x[i]
        /\ \A i \in 1 .. Len(y) : t[Len(x) + i] = y[i]
    BY <1>1, <1>2, <2>1
  <2> HIDE DEF t
  <2>3. (n + 1) + (m + 1) = N
    OBVIOUS
  <2> QED
    BY <1>1, <1>2, <2>2, <2>3
<1>4. \A i \in 0 .. m + 1 : Quotes(t, 1, (n + 1) + i) = Quotes(x, 1, n + 1) + Quotes(y, 1, i)
  <2>1. \A u \in Seq(Symbol), v \in Seq(Symbol) : \A i \in 0 .. Len(v) :
          Quotes(u \o v, 1, Len(u) + i) = Quotes(u, 1, Len(u)) + Quotes(v, 1, i)
    BY QuotesConcat
  <2>2. \A i \in 0 .. Len(y) : Quotes(t, 1, Len(x) + i) = Quotes(x, 1, Len(x)) + Quotes(y, 1, i)
    BY <1>1, <1>2, <2>1
  <2> HIDE DEF t
  <2> QED
    BY <1>1, <1>2, <2>2
<1> HIDE DEF t
<1>5. \A i \in 0 .. n + 1 : Quotes(t, 1, i) = Quotes(x, 1, i)
  <2> SUFFICES ASSUME NEW i \in 0 .. n + 1 PROVE Quotes(t, 1, i) = Quotes(x, 1, i)
    OBVIOUS
  <2>1. i \in Nat /\ \A k \in 1 .. i : t[k] = x[k]
    BY <1>3
  <2> QED
    BY <2>1, QuotesSame
<1>6. \A i \in 1 .. n + 1 : Splits(t, i) <=> i = n + 1
  <2> SUFFICES ASSUME NEW i \in 1 .. n + 1 PROVE Splits(t, i) <=> i = n + 1
    OBVIOUS
  <2>1. i \in 0 .. n + 1
    OBVIOUS
  <2>2. t[i] = x[i] /\ Quotes(t, 1, i) = Quotes(x, 1, i)
    BY <1>3, <1>5, <2>1
  <2>3. Splits(t, i) <=> Splits(x, i)
    BY <2>2 DEF Splits
  <2> QED
    BY <1>1, <2>3
<1>7. \A i \in 1 .. m + 1 : Splits(t, (n + 1) + i) <=> i = m + 1
  <2> SUFFICES ASSUME NEW i \in 1 .. m + 1 PROVE Splits(t, (n + 1) + i) <=> i = m + 1
    OBVIOUS
  <2>1. i \in 0 .. m + 1 /\ i \in Nat /\ n + 1 \in Nat
    OBVIOUS
  <2>2. t[(n + 1) + i] = y[i] /\ Quotes(t, 1, (n + 1) + i) = Quotes(x, 1, n + 1) + Quotes(y, 1, i)
    BY <1>3, <1>4, <2>1
  <2>3. Quotes(x, 1, n + 1) \in Nat /\ Quotes(y, 1, i) \in Nat /\ Quotes(x, 1, n + 1) % 2 = 0
    BY <1>1, <2>1, QuotesStep
  <2>4. Quotes(t, 1, (n + 1) + i) % 2 = 0 <=> Quotes(y, 1, i) % 2 = 0
    BY <2>2, <2>3, SMTT(20)
  <2>5. Splits(t, (n + 1) + i) <=> Splits(y, i)
    BY <2>2, <2>4 DEF Splits
  <2> QED
    BY <1>2, <2>5
<1>8. \A i \in 1 .. N : Splits(t, i) <=> i = n + 1 \/ i = N
  <2> SUFFICES ASSUME NEW i \in 1 .. N PROVE Splits(t, i) <=> i = n + 1 \/ i = N
    OBVIOUS
  <2>1. CASE i <= n + 1
    <3>1. i \in 1 .. n + 1 /\ i # N
      BY <2>1
    <3> QED
      BY <1>6, <3>1
  <2>2. CASE ~ (i <= n + 1)
    <3>1. i - (n + 1) \in 1 .. m + 1 /\ (n + 1) + (i - (n + 1)) = i /\ i # n + 1
      BY <2>2
    <3>2. i - (n + 1) = m + 1 <=> i = N
      OBVIOUS
    <3> QED
      BY <1>7, <3>1, <3>2
  <2> QED
    BY <2>1, <2>2
<1> DEFINE Cut(i) == i \notin DOMAIN t \/ Splits(t, i)
           Run(i, j) == Cut(i - 1) /\ Cut(j + 1) /\ \A k \in i .. j : ~ Cut(k)
<1>9. \A i \in 0 .. N + 1 : Cut(i) <=> i = 0 \/ i = n + 1 \/ i = N \/ i = N + 1
  <2> SUFFICES ASSUME NEW i \in 0 .. N + 1
               PROVE  Cut(i) <=> i = 0 \/ i = n + 1 \/ i = N \/ i = N + 1
    OBVIOUS
  <2>1. DOMAIN t = 1 .. N
    BY <1>3
  <2>2. i \in 1 .. N \/ i = 0 \/ i = N + 1
    OBVIOUS
  <2>3. CASE i \in 1 .. N
    BY <1>8, <2>1, <2>3
  <2>4. CASE i = 0 \/ i = N + 1
    BY <2>1, <2>4
  <2> QED
    BY <2>2, <2>3, <2>4
<1> HIDE DEF Cut
<1>10. \A i \in 1 .. N : \A j \in i .. N :
         Run(i, j) <=> (i = 1 /\ j = n) \/ (i = n + 2 /\ j = n + m + 1)
  <2> SUFFICES ASSUME NEW i \in 1 .. N, NEW j \in i .. N
               PROVE  Run(i, j) <=> (i = 1 /\ j = n) \/ (i = n + 2 /\ j = n + m + 1)
    OBVIOUS
  <2>0. i - 1 \in 0 .. N + 1 /\ j + 1 \in 0 .. N + 1 /\ \A k \in i .. j : k \in 0 .. N + 1
    OBVIOUS
  <2>1. Cut(i - 1) <=> i = 1 \/ i = n + 2
    BY <1>9, <2>0
  <2>2. Cut(j + 1) <=> j = n \/ j = n + m + 1 \/ j = N
    BY <1>9, <2>0
  <2>3. (\A k \in i .. j : ~ Cut(k)) <=> \A k \in i .. j : k # n + 1 /\ k # N
    <3>1. \A k \in i .. j : k # 0 /\ k # N + 1
      OBVIOUS
    <3> QED
      BY <1>9, <2>0, <3>1
  <2>4. ASSUME Run(i, j) PROVE (i = 1 /\ j = n) \/ (i = n + 2 /\ j = n + m + 1)
    <3>1. j # N
      <4>1. j \in i .. j
        OBVIOUS
      <4> QED
        BY <2>3, <2>4, <4>1
    <3>2. n + 1 \notin i .. j
      BY <2>3, <2>4
    <3>3. i = 1 \/ i = n + 2
      BY <2>1, <2>4
    <3>4. j = n \/ j = n + m + 1
      BY <2>2, <2>4, <3>1
    <3> QED
      BY <3>2, <3>3, <3>4
  <2>5. ASSUME (i = 1 /\ j = n) \/ (i = n + 2 /\ j = n + m + 1) PROVE Run(i, j)
    <3>1. \A k \in i .. j : k # n + 1 /\ k # N
      BY <2>5
    <3> QED
      BY <2>1, <2>2, <2>3, <2>5, <3>1
  <2> QED
    BY <2>4, <2>5
<1>11. Fields(t) = UNION {{SubSeq(t, i, j) : j \in {k \in i .. Len(t) : Run(i, k)}} : i \in DOMAIN t}
  BY Zenon DEF Fields, Cut, Splits, Space
<1> HIDE DEF Run
<1>12. SubSeq(t, 1, n) = f
  <2>1. f \in Seq(Symbol)
    BY DEF Balanced
  <2>2. \A i \in 1 .. n : t[i] = f[i] /\ t[i] \in Symbol
    <3>1. \A i \in 1 .. n : i \in 1 .. n + 1 /\ i \in 1 .. N
      OBVIOUS
    <3> QED
      BY <1>1, <1>3, <3>1, ElementOfSeq
  <2>3. /\ SubSeq(t, 1, n) \in Seq(Symbol)
        /\ Len(SubSeq(t, 1, n)) = IF 1 <= n THEN n - 1 + 1 ELSE 0
        /\ \A i \in 1 .. n - 1 + 1 : SubSeq(t, 1, n)[i] = t[1 + i - 1]
    BY <2>2, SubSeqProperties
  <2>4. (IF 1 <= n THEN n - 1 + 1 ELSE 0) = n /\ n - 1 + 1 = n /\ \A i \in 1 .. n : 1 + i - 1 = i
    OBVIOUS
  <2>5. \A i \in 1 .. n : SubSeq(t, 1, n)[i] = f[i]
    BY <2>2, <2>3, <2>4
  <2> QED
    BY <2>1, <2>3, <2>4, <2>5, SeqEqual
<1>13. SubSeq(t, n + 2, n + m + 1) = g
  <2>1. g \in Seq(Symbol)
    BY DEF Balanced
  <2>2. \A i \in 1 .. m : t[(n + 1) + i] = g[i]
    <3>1. \A i \in 1 .. m : i \in 1 .. m + 1
      OBVIOUS
    <3> QED
      BY <1>2, <1>3, <3>1
  <2>3. \A i \in n + 2 .. n + m + 1 : t[i] \in Symbol
    <3>1. \A i \in n + 2 .. n + m + 1 : i \in 1 .. N
      OBVIOUS
    <3> QED
      BY <1>3, <3>1, ElementOfSeq
  <2> DEFINE u == SubSeq(t, n + 2, n + m + 1)
  <2>4. /\ u \in Seq(Symbol)
        /\ Len(u) = IF n + 2 <= n + m + 1 THEN (n + m + 1) - (n + 2) + 1 ELSE 0
        /\ \A i \in 1 .. (n + m + 1) - (n + 2) + 1 : u[i] = t[(n + 2) + i - 1]
    <3>1. n + 2 \in Int /\ n + m + 1 \in Int
      OBVIOUS
    <3>2. \A a \in Int, b \in Int : (\A i \in a .. b : t[i] \in Symbol) =>
            /\ SubSeq(t, a, b) \in Seq(Symbol)
            /\ Len(SubSeq(t, a, b)) = IF a <= b THEN b - a + 1 ELSE 0
            /\ \A i \in 1 .. b - a + 1 : SubSeq(t, a, b)[i] = t[a + i - 1]
      BY SubSeqProperties
    <3> QED
      BY <2>3, <3>1, <3>2
  <2> HIDE DEF u
  <2>5. /\ (IF n + 2 <= n + m + 1 THEN (n + m + 1) - (n + 2) + 1 ELSE 0) = m
        /\ (n + m + 1) - (n + 2) + 1 = m /\ \A i \in 1 .. m : (n + 2) + i - 1 = (n + 1) + i
    OBVIOUS
  <2>6. \A i \in 1 .. m : u[i] = g[i]
    BY <2>2, <2>4, <2>5
  <2>7. u = g
    BY <2>1, <2>4, <2>5, <2>6, SeqEqual
  <2> QED
    BY <2>7 DEF u
<1>14. DOMAIN t = 1 .. N /\ Len(t) = N
  BY <1>3
<1>15. \A z : z \in Fields(t) <=> \E i \in 1 .. N : \E j \in i .. N : Run(i, j) /\ z = SubSeq(t, i, j)
  <2> DEFINE R(i) == {SubSeq(t, i, j) : j \in {k \in i .. Len(t) : Run(i, k)}}
  <2>1. Fields(t) = UNION {R(i) : i \in DOMAIN t}
    BY <1>11
  <2>2. \A z : \A i \in 1 .. N : z \in R(i) <=> \E j \in i .. N : Run(i, j) /\ z = SubSeq(t, i, j)
    BY <1>14
  <2> HIDE DEF R
  <2>3. \A z : z \in Fields(t) <=> \E i \in 1 .. N : z \in R(i)
    BY <1>14, <2>1
  <2> QED
    BY <2>2, <2>3
<1>16. ASSUME NEW z \in Fields(t) PROVE z = f \/ z = g
  <2>0. PICK i \in 1 .. N : \E j \in i .. N : Run(i, j) /\ z = SubSeq(t, i, j)
    BY <1>15
  <2>1. PICK j \in i .. N : Run(i, j) /\ z = SubSeq(t, i, j)
    BY <2>0
  <2>2. (i = 1 /\ j = n) \/ (i = n + 2 /\ j = n + m + 1)
    BY <1>10, <2>1
  <2> QED
    BY <1>12, <1>13, <2>1, <2>2
<1>17. f \in Fields(t) /\ g \in Fields(t)
  <2>1. 1 \in 1 .. N /\ n \in 1 .. N /\ n + 2 \in 1 .. N /\ n + m + 1 \in n + 2 .. N
    OBVIOUS
  <2>2. Run(1, n) /\ Run(n + 2, n + m + 1)
    BY <1>10, <2>1
  <2> QED
    <3>1. f \in Fields(t)
      BY <1>12, <1>15, <2>1, <2>2
    <3>2. g \in Fields(t)
      BY <1>13, <1>15, <2>1, <2>2
    <3> QED
      BY <3>1, <3>2
<1>18. Fields(t) = {f, g}
  BY <1>16, <1>17
<1> QED
  BY <1>18 DEF t, x, y

LEMMA RoundTrip ==
  ASSUME NEW kv \in [Key -> Seq(Letter)]
  PROVE  ParseKV(FormatKV(kv)) = kv
<1>1. PICK a \in Key, b \in Key : a # b /\ FormatKV(kv) = Piece(a, kv[a]) \o Piece(b, kv[b])
  BY FormatIs
<1> DEFINE f == Field(a, kv[a])
           g == Field(b, kv[b])
           t == FormatKV(kv)
<1>2. kv[a] \in Seq(Letter) /\ kv[b] \in Seq(Letter)
  OBVIOUS
<1>3. Balanced(f) /\ Len(f) \in Nat \ {0} /\ f[1] = a /\ Unquoted(SubSeq(f, 3, Len(f))) = kv[a]
  BY <1>2, FieldIs
<1>4. Balanced(g) /\ Len(g) \in Nat \ {0} /\ g[1] = b /\ Unquoted(SubSeq(g, 3, Len(g))) = kv[b]
  BY <1>2, FieldIs
<1>5. t = (f \o <<Space>>) \o (g \o <<Space>>)
  BY <1>1 DEF Piece
<1> HIDE DEF f, g
<1>6. Fields(t) = {f, g}
  BY <1>3, <1>4, <1>5, TwoPieces
<1> HIDE DEF t
<1>7. Key = {a, b}
  BY <1>1 DEF Key
<1> DEFINE Of(key) == CHOOSE h \in Fields(t) : h[1] = key
<1>8. Of(a) = f /\ Of(b) = g
  BY <1>1, <1>3, <1>4, <1>6
<1>9. {h[1] : h \in Fields(t)} = Key
  BY <1>3, <1>4, <1>6, <1>7
<1>10. ParseKV(t) = [key \in Key |-> Unquoted(SubSeq(Of(key), 3, Len(Of(key))))]
  BY <1>9 DEF ParseKV
<1> HIDE DEF Of
<1>11. \A key \in Key : Unquoted(SubSeq(Of(key), 3, Len(Of(key)))) = kv[key]
  BY <1>3, <1>4, <1>7, <1>8
<1>12. ParseKV(t) = kv
  BY <1>10, <1>11
<1> QED
  BY <1>12 DEF t

(* The name of every database comes through quoting and parsing unharmed: CREATE
   DATABASE gets the configured name (pgDatabaseName).  A Readable password comes
   through that, through the quoting of pgAdminDSN and through the driver's reading
   of it, which is another one. *)
NamesAreKept ==
  \A c \in Configs : /\ PgDatabaseName[c] = c.dbname
                     /\ Readable(c.password) => AdminConnects[c]

LEMMA URLIs ==
  \A c \in Configs : URL(c) \in [Key -> Seq(Letter)]
<1> SUFFICES ASSUME NEW c \in Configs PROVE URL(c) \in [Key -> Seq(Letter)]
  OBVIOUS
<1>1. c.dbname \in Seq(Character) /\ c.password \in Seq(Character)
  BY ConfigsAssumption
<1>2. Character \subseteq Letter
  BY DEF Letter
<1>3. c.dbname \in Seq(Letter) /\ c.password \in Seq(Letter)
  BY <1>1, <1>2, SeqMonotonic
<1> QED
  BY <1>3 DEF URL, Key

LEMMA SinglesAreWhole ==
  ASSUME NEW v \in Seq(Letter)
  PROVE  FlattenSeq([i \in DOMAIN v |-> <<v[i]>>]) = v
<1> DEFINE Singles(u) == [i \in DOMAIN u |-> <<u[i]>>]
           C == {u \in Seq(Letter) : FlattenSeq(Singles(u)) = u}
<1>1. << >> \in C
  <2>1. << >> \in Seq(Letter) /\ DOMAIN << >> = {}
    BY EmptySeq
  <2>2. Singles(<< >>) = << >>
    BY <2>1
  <2> QED
    BY <2>1, <2>2, FlattenEmpty
<1>2. ASSUME NEW u \in Seq(Letter), NEW c \in Letter, u \in C
      PROVE  Append(u, c) \in C
  <2> DEFINE w == Append(u, c)
             n == Len(u)
             h == Singles(u)
             g == Singles(w)
  <2>1. /\ w \in Seq(Letter) /\ Len(w) = n + 1 /\ n \in Nat /\ DOMAIN u = 1 .. n /\ DOMAIN w = 1 .. n + 1
        /\ w[n + 1] = c /\ \A i \in 1 .. n : w[i] = u[i] /\ u[i] \in Letter
    BY AppendProperties, ElementOfSeq
  <2>2. FlattenSeq(h) = u
    BY <1>2
  <2> HIDE DEF w
  <2>3. /\ h \in Seq(Seq(Letter)) /\ g \in Seq(Seq(Letter)) /\ Len(h) = n /\ Len(g) = n + 1
        /\ \A i \in 1 .. n : g[i] = h[i]
        /\ g[n + 1] = <<c>>
    <3>1. \A i \in 1 .. n + 1 : w[i] \in Letter
      BY <2>1, ElementOfSeq
    <3>2. \A i \in 1 .. n : i \in 1 .. n + 1
      BY <2>1
    <3> QED
      BY <2>1, <3>1, <3>2
  <2> HIDE DEF h, g
  <2>4. /\ Append(h, <<c>>) \in Seq(Seq(Letter)) /\ Len(Append(h, <<c>>)) = n + 1
        /\ Append(h, <<c>>)[n + 1] = <<c>> /\ \A i \in 1 .. n : Append(h, <<c>>)[i] = h[i]
    <3>1. <<c>> \in Seq(Letter)
      OBVIOUS
    <3> QED
      BY <2>3, <3>1, AppendProperties
  <2>5. \A i \in 1 .. n + 1 : g[i] = Append(h, <<c>>)[i]
    <3>1. \A i \in 1 .. n + 1 : i \in 1 .. n \/ i = n + 1
      BY <2>1
    <3> QED
      BY <2>3, <2>4, <3>1
  <2>6. g = Append(h, <<c>>)
    BY <2>3, <2>4, <2>5, SeqEqual
  <2>7. FlattenSeq(g) = u \o <<c>>
    <3>1. <<c>> \in Seq(Letter)
      OBVIOUS
    <3> QED
      BY <2>2, <2>3, <2>6, <3>1, FlattenAppend
  <2>8. u \o <<c>> = w
    BY AppendIsConcat DEF w
  <2>9. FlattenSeq(Singles(w)) = w /\ w \in Seq(Letter)
    BY <2>1, <2>7, <2>8 DEF g
  <2> QED
    BY <2>9 DEF w
<1>3. v \in C
  <2> HIDE DEF C
  <2> QED
    BY <1>1, <1>2, SeqClosure
<1> QED
  BY <1>3

(* A value without quotes in which every backslash is alone is not changed by the
   driver's escapes. *)
LEMMA UnescapedIs ==
  ASSUME NEW v \in Seq(Letter),
         \A i \in DOMAIN v : v[i] # "'" /\ (v[i] = "\\" => i < Len(v) /\ v[i + 1] # "\\")
  PROVE  Unescaped(v) = v
<1> DEFINE b == "\\"
           q == "'"
<1>1. Len(v) \in Nat /\ DOMAIN v = 1 .. Len(v)
  BY LenProperties
<1>2. \A i \in DOMAIN v : v[i] = b => RunAt(v, i, b) % 2 = 1
  <2> SUFFICES ASSUME NEW i \in DOMAIN v, v[i] = b PROVE RunAt(v, i, b) % 2 = 1
    OBVIOUS
  <2>1. i \in Nat \ {0} /\ (i # 1 => i - 1 \in DOMAIN v /\ (i - 1) + 1 = i)
    BY <1>1
  <2>2. i = 1 \/ v[i - 1] # b
    BY <2>1
  <2> HIDE DEF b
  <2>3. RunAt(v, i, b) = 1
    BY <2>1, <2>2, RunAtIs
  <2> QED
    BY <2>3
<1>3. Halved(v, b) = v
  <2> HIDE DEF b
  <2>1. [i \in DOMAIN v |-> IF v[i] = b => RunAt(v, i, b) % 2 = 1 THEN <<v[i]>> ELSE << >>]
          = [i \in DOMAIN v |-> <<v[i]>>]
    BY <1>2, Zenon
  <2> QED
    BY <2>1, SinglesAreWhole, Zenon DEF Halved
<1>4. [i \in DOMAIN v |-> IF v[i] = b /\ i < Len(v) /\ v[i + 1] = q THEN << >> ELSE <<v[i]>>]
        = [i \in DOMAIN v |-> <<v[i]>>]
  <2>1. \A i \in DOMAIN v : ~ (v[i] = b /\ i < Len(v) /\ v[i + 1] = q)
    <3> SUFFICES ASSUME NEW i \in DOMAIN v, i < Len(v) PROVE v[i + 1] # q
      OBVIOUS
    <3>1. i + 1 \in DOMAIN v
      BY <1>1
    <3> QED
      BY <3>1
  <2> HIDE DEF b, q
  <2> QED
    BY <2>1, Zenon
<1> QED
  BY <1>3, <1>4, SinglesAreWhole, Zenon DEF Unescaped

(* In quotes, such a value ends at the last of them, and is read as it is. *)
LEMMA PgxReadsQuoted ==
  ASSUME NEW v \in Seq(Letter), Readable(v), ~ IsPlain(v)
  PROVE  PgxReads(Quoted(v)) = v
<1> DEFINE a == <<"'">>
           s == a \o v
           q == s \o a
           n == Len(v)
<1>1. /\ n \in Nat /\ DOMAIN v = 1 .. n /\ n # 0
      /\ a \in Seq(Letter) /\ Len(a) = 1 /\ a[1] = "'"
      /\ \A i \in 1 .. n : v[i] # "'"
      /\ v[n] # "\\"
  <2>1. n \in Nat /\ DOMAIN v = 1 .. n
    BY LenProperties
  <2>2. n # 0
    BY <2>1, EmptySeq DEF Readable
  <2>3. "'" \in Letter
    BY DEF Letter, Character
  <2>4. n \in DOMAIN v
    BY <2>1, <2>2
  <2>5. /\ \A i \in 1 .. n : v[i] # "'"
        /\ v[n] # "\\"
    <3>1. \A i \in DOMAIN v : v[i] # "'" /\ (v[i] = "\\" => i < n)
      BY DEF Readable
    <3>2. ~ (n < n)
      BY <2>1
    <3> HIDE DEF n
    <3> QED
      BY <2>1, <2>4, <3>1, <3>2
  <2>6. a \in Seq(Letter) /\ Len(a) = 1 /\ a[1] = "'"
    BY <2>3
  <2> HIDE DEF a, n
  <2> QED
    BY <2>1, <2>2, <2>5, <2>6
<1>2. Quoted(v) = q
  <2>1. Quoted(v) = (a \o Doubled(v)) \o a
    BY Zenon DEF Quoted, Doubled, Doubling, IsPlain
  <2>2. Doubling(v) = [i \in DOMAIN v |-> <<v[i]>>]
    BY <1>1, Zenon DEF Doubling
  <2> QED
    BY <2>1, <2>2, SinglesAreWhole DEF Doubled
<1> HIDE DEF a, n
<1>n. Len(v) = n
  BY DEF n
<1>c. \A x \in Seq(Letter), y \in Seq(Letter) :
        /\ x \o y \in Seq(Letter) /\ Len(x \o y) = Len(x) + Len(y)
        /\ \A i \in 1 .. Len(x) : (x \o y)[i] = x[i]
        /\ \A i \in 1 .. Len(y) : (x \o y)[Len(x) + i] = y[i]
  BY Concatenated
<1>3. /\ s \in Seq(Letter) /\ Len(s) = n + 1 /\ s[1] = "'" /\ \A i \in 1 .. n : s[1 + i] = v[i]
  <2>1. /\ s \in Seq(Letter) /\ Len(s) = Len(a) + Len(v)
        /\ \A i \in 1 .. Len(a) : s[i] = a[i]
        /\ \A i \in 1 .. Len(v) : s[Len(a) + i] = v[i]
    BY <1>1, <1>c
  <2>2. 1 \in 1 .. Len(a)
    BY <1>1
  <2> QED
    BY <1>1, <1>n, <2>1, <2>2
<1> HIDE DEF s
<1>4. /\ q \in Seq(Letter) /\ Len(q) = n + 2 /\ q[n + 2] = "'"
      /\ \A i \in 1 .. n + 1 : q[i] = s[i]
  <2>1. /\ q \in Seq(Letter) /\ Len(q) = Len(s) + Len(a)
        /\ \A i \in 1 .. Len(s) : q[i] = s[i]
        /\ \A i \in 1 .. Len(a) : q[Len(s) + i] = a[i]
    BY <1>1, <1>3, <1>c
  <2>2. 1 \in 1 .. Len(a) /\ (n + 1) + 1 = n + 2
    BY <1>1
  <2> QED
    BY <1>1, <1>3, <2>1, <2>2
<1> HIDE DEF q
<1>5. /\ q[1] = "'" /\ q # << >> /\ \A i \in 1 .. n : q[i + 1] = v[i]
  <2>1. 1 \in 1 .. n + 1 /\ \A i \in 1 .. n : i + 1 \in 1 .. n + 1 /\ i + 1 = 1 + i
    BY <1>1
  <2>2. q # << >>
    BY <1>1, <1>4, EmptySeq
  <2> QED
    BY <1>3, <1>4, <2>1, <2>2
<1>6. Ends(q) = {n + 2}
  <2>1. ASSUME NEW i \in 2 .. n + 2, i # n + 2 PROVE q[i] # "'"
    <3>1. i - 1 \in 1 .. n /\ (i - 1) + 1 = i
      BY <1>1, <2>1
    <3> QED
      BY <1>1, <1>5, <3>1
  <2>2. RunAt(q, n + 2, "\\") = 1
    <3>1. n + 2 \in Nat \ {0} /\ n \in 1 .. n /\ (n + 2) - 1 = n + 1
      BY <1>1
    <3>2. q[(n + 2) - 1] # "\\"
      BY <1>1, <1>5, <3>1
    <3> QED
      BY <3>1, <3>2, RunAtIs
  <2>3. n + 2 \in 2 .. n + 2 /\ 1 % 2 = 1
    BY <1>1
  <2>4. n + 2 \in Ends(q)
    BY <1>4, <2>2, <2>3 DEF Ends
  <2>5. \A i \in Ends(q) : i = n + 2
    BY <1>4, <2>1 DEF Ends
  <2> QED
    BY <2>4, <2>5
<1>7. Min(Ends(q)) = n + 2
  <2>1. n + 2 \in Nat
    BY <1>1
  <2> QED
    BY <1>6, <2>1 DEF Min
<1>8. SubSeq(q, 2, (n + 2) - 1) = v
  <2>1. (n + 2) - 1 = n + 1
    BY <1>1
  <2>2. /\ SubSeq(q, 2, n + 1) \in Seq(Letter) /\ Len(SubSeq(q, 2, n + 1)) = n
        /\ \A i \in 1 .. n : SubSeq(q, 2, n + 1)[i] = q[i + 1]
    <3>1. \A i \in 2 .. n + 1 : q[i] \in Letter
      BY <1>1, <1>4, ElementOfSeq
    <3>2. 2 \in Int /\ n + 1 \in Int /\ 2 <= (n + 1) + 1 /\ (n + 1) - 2 + 1 = n
      BY <1>1
    <3>3. \A i \in 1 .. n : 2 + i - 1 = i + 1
      BY <1>1
    <3> QED
      BY <1>1, <1>4, <3>1, <3>2, <3>3, SubSeqProperties
  <2>3. \A i \in 1 .. n : SubSeq(q, 2, n + 1)[i] = v[i]
    BY <1>5, <2>2
  <2> QED
    BY <1>n, <2>1, <2>2, <2>3, SeqEqual
<1>9. Ends(q) # {}
  BY <1>6
<1>10. PgxReads(q) = Unescaped(SubSeq(q, 2, Min(Ends(q)) - 1))
  BY <1>5, <1>9 DEF PgxReads
<1>11. PgxReads(q) = Unescaped(v)
  BY <1>7, <1>8, <1>10
<1>12. Unescaped(v) = v
  BY UnescapedIs DEF Readable
<1> QED
  BY <1>2, <1>11, <1>12

(* postgresURLToKV quotes so that parsePostgresKV and splitDSNFields give back
   what the URL says, for values of any length, whatever spaces, quotes and
   backslashes are in them; what pgAdminDSN writes the driver reads as it was if
   there are no quotes and no backslashes but single ones inside. *)
THEOREM NamesSurvive == NamesAreKept
<1> SUFFICES ASSUME NEW c \in Configs
             PROVE  PgDatabaseName[c] = c.dbname /\ (Readable(c.password) => AdminConnects[c])
  BY DEF NamesAreKept
<1> DEFINE kv == ParseKV(FormatKV(URL(c)))
           v  == c.password
<1>1. kv = URL(c) /\ URL(c) \in [Key -> Seq(Letter)]
  BY URLIs, RoundTrip
<1>2. PgDatabaseName[c] = c.dbname
  BY <1>1 DEF PgDatabaseName, URL
<1>3. PgAdminPassword[c] = Quoted(v) /\ v \in Seq(Letter)
  BY <1>1 DEF PgAdminPassword, URL, Key
<1>4. ASSUME Readable(v) PROVE PgxReads(Quoted(v)) = v
  <2>1. CASE IsPlain(v)
    <3>1. Quoted(v) = v /\ Unescaped(v) = v
      BY <1>3, <1>4, <2>1, PlainValue, UnescapedIs DEF Readable
    <3>2. v # << >> /\ v[1] # "'"
      <4>1. v # << >> /\ 1 \in DOMAIN v
        BY <1>3, <1>4, EmptySeq, LenProperties DEF Readable
      <4> QED
        BY <1>4, <4>1 DEF Readable
    <3> QED
      BY <3>1, <3>2 DEF PgxReads
  <2>2. CASE ~ IsPlain(v)
    BY <1>3, <1>4, <2>2, PgxReadsQuoted
  <2> QED
    BY <2>1, <2>2
<1>5. Readable(v) => AdminConnects[c]
  BY <1>3, <1>4 DEF AdminConnects
<1> QED
  BY <1>2, <1>5

-----------------------------------------------------------------------------
(* Several proxies start on one database. *)

Done(i) == <<Dialect(cfg.type), Statements[i]>> \in schema

(* Where a proxy is tells what it has made sure of. *)
Ensured(p) ==
  /\ pc[p] \in {"ddl", "normalize", "repair", "listen", "serving"} => cfg.dbname \in databases
  /\ pc[p] \in {"load", "open", "create", "connect"} => next[p] = 1
  /\ pc[p] = "ddl" => \A i \in 1 .. next[p] - 1 : Done(i)
  /\ pc[p] \in {"normalize", "repair", "listen", "serving"} => \A i \in 1 .. 4 : Done(i)

SchemaInv ==
  /\ cfg \in Configs
  /\ databases \subseteq {Maintenance, cfg.dbname}
  /\ pc \in [Proxies -> {"load", "open", "create", "connect", "ddl", "normalize", "repair",
                         "listen", "serving", "fatal"}]
  /\ next \in [Proxies -> 1 .. 4]
  /\ \A p \in Proxies : Ensured(p)

LEMMA StatementsLen == Len(Statements) = 4 /\ DOMAIN Statements = 1 .. 4
BY DEF Statements

LEMMA SchemaInit == Init => SchemaInv
BY DEF Init, SchemaInv, Ensured

(* What a proxy has ensured, no step of another one takes away. *)
LEMMA EnsuredStays ==
  ASSUME NEW q \in Proxies, Ensured(q), pc'[q] = pc[q], next'[q] = next[q],
         cfg' = cfg, databases \subseteq databases', schema \subseteq schema'
  PROVE  Ensured(q)'
BY DEF Ensured, Done

(* The statements before the next one have taken effect; after the last, all. *)
LEMMA InitDBEnsures ==
  ASSUME SchemaInv, NEW p \in Proxies, InitDB(p)
  PROVE  Ensured(p)'
<1>1. pc[p] = "ddl" /\ cfg' = cfg /\ databases' = databases /\ next[p] \in 1 .. 4
  BY DEF InitDB, SchemaInv
<1>2. schema' = schema \cup {<<Dialect(cfg.type), Statements[next[p]]>>}
  BY DEF InitDB
<1>3. \A i \in 1 .. next[p] : Done(i)'
  BY <1>1, <1>2 DEF SchemaInv, Ensured, Done
<1>4. CASE next[p] < 4 /\ next' = [next EXCEPT ![p] = @ + 1] /\ pc' = pc
  <2>1. next'[p] - 1 = next[p] /\ pc'[p] = "ddl"
    BY <1>1, <1>4 DEF SchemaInv
  <2> QED
    BY <1>1, <1>3, <2>1 DEF SchemaInv, Ensured
<1>5. CASE next[p] = 4 /\ pc' = [pc EXCEPT ![p] = "normalize"] /\ next' = next
  <2>1. pc'[p] = "normalize"
    BY <1>5 DEF SchemaInv
  <2> QED
    BY <1>1, <1>3, <1>5, <2>1 DEF SchemaInv, Ensured
<1> QED
  BY <1>4, <1>5, StatementsLen DEF InitDB, Goto

LEMMA StartStep ==
  ASSUME SchemaInv, NEW p \in Proxies, Start(p) \/ Fail(p)
  PROVE  SchemaInv'
<1>1. /\ cfg' = cfg /\ databases \subseteq databases' /\ schema \subseteq schema'
      /\ databases' \subseteq {Maintenance, cfg.dbname}
  BY NamesSurvive DEF Start, Load, NewDatabase, CreateDatabase, Connect, InitDB, Proceed,
     Restart, Fail, NamesAreKept, SchemaInv
<1>2. /\ pc' \in [Proxies -> {"load", "open", "create", "connect", "ddl", "normalize", "repair",
                              "listen", "serving", "fatal"}]
      /\ \A q \in Proxies : q # p => pc'[q] = pc[q]
  BY DEF Start, Load, NewDatabase, CreateDatabase, Connect, InitDB, Proceed, Restart, Fail,
     SchemaInv, Goto, After
<1>3. next' \in [Proxies -> 1 .. 4] /\ \A q \in Proxies : q # p => next'[q] = next[q]
  BY StatementsLen DEF Start, Load, NewDatabase, CreateDatabase, Connect, InitDB, Proceed,
     Restart, Fail, SchemaInv
<1>4. ASSUME NEW q \in Proxies, q # p PROVE Ensured(q)'
  BY <1>1, <1>2, <1>3, <1>4, EnsuredStays DEF SchemaInv
<1>5. Ensured(p)'
  <2>1. CASE Load(p) \/ Restart(p)
    BY <2>1 DEF Load, Restart, Goto, SchemaInv, Ensured
  <2>2. CASE NewDatabase(p)
    BY <2>2 DEF NewDatabase, Goto, SchemaInv, Ensured
  <2>3. CASE CreateDatabase(p)
    BY <2>3 DEF CreateDatabase, Goto, SchemaInv, Ensured
  <2>4. CASE Connect(p)
    BY <2>4 DEF Connect, Goto, SchemaInv, Ensured
  <2>5. CASE InitDB(p)
    BY <1>1, <2>5, InitDBEnsures
  <2>6. CASE Proceed(p)
    BY <2>6 DEF Proceed, After, Goto, SchemaInv, Ensured, Done
  <2>7. CASE Fail(p)
    BY <2>7 DEF Fail, Goto, SchemaInv, Ensured, Done
  <2> QED
    BY <2>1, <2>2, <2>3, <2>4, <2>5, <2>6, <2>7 DEF Start
<1> QED
  BY <1>1, <1>2, <1>3, <1>4, <1>5 DEF SchemaInv

LEMMA SchemaStep == SchemaInv /\ [Next]_vars => SchemaInv'
<1> SUFFICES ASSUME SchemaInv, [Next]_vars PROVE SchemaInv'
  OBVIOUS
<1>1. CASE UNCHANGED vars
  BY <1>1 DEF vars, SchemaInv, Ensured, Done
<1> QED
  BY <1>1, StartStep DEF Next

(* No database but the configured one is made, and whoever serves has all of the
   schema (NewDatabase, InitDB), for any number of proxies that start, fail and
   start again, in the database's dialect. *)
THEOREM ServingHasSchema == Spec => []ServesOnSchema
<1>1. SchemaInv => ServesOnSchema
  BY StatementsLen DEF SchemaInv, Ensured, Done, ServesOnSchema
<1> QED
  BY <1>1, SchemaInit, SchemaStep, PTL DEF Spec
=============================================================================
