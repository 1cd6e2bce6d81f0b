----------------------------- MODULE PanelProofs -----------------------------
(***************************************************************************)
(* Proofs about Panel and Queries: the order of times, the list and the    *)
(* figures of the API, for any number of requests that come in at any      *)
(* time, under either database.                                            *)
(***************************************************************************)
EXTENDS Panel, DataFacts

LEMMA MinOfInterval ==
  ASSUME NEW a \in Int, NEW b \in Int, a <= b
  PROVE  Min(a .. b) = a
<1>1. \A x \in a .. b : (\A y \in a .. b : x <= y) <=> x = a
  OBVIOUS
<1> QED
  BY <1>1 DEF Min

LEMMA MinOfTwo ==
  ASSUME NEW a \in Int, NEW b \in Int
  PROVE  Min({a, b}) = IF a <= b THEN a ELSE b
BY DEF Min

-----------------------------------------------------------------------------
(* Times and their order. *)

(* What a filter may name, and the midnights of the chart. *)
Moments == [sec: Int, frac: Seq(Int)]

LEMMA MomentsOf ==
  /\ Instants \subseteq Moments /\ NoTime \in Moments /\ NoTime \notin Instants
  /\ \A d \in Int : Midnight(d) \in Moments /\ Midnight(d) # NoTime
<1>1. Seq(0..9) \subseteq Seq(Int)
  OBVIOUS
<1>2. Instants \subseteq Moments
  BY <1>1 DEF Instants, Moments
<1>3. NoTime \in Moments /\ NoTime \notin Instants
  BY DEF NoTime, Moments, Instants
<1>4. ASSUME NEW d \in Int PROVE Midnight(d) \in Moments /\ Midnight(d) # NoTime
  <2>1. Midnight(d).sec \in Int /\ Midnight(d).sec # -1
    BY DEF Midnight, Day, Hour
  <2>2. \A n \in Int : [sec |-> n, frac |-> <<>>] \in Moments
    BY DEF Moments
  <2>3. d * Day - 8 * Hour \in Int
    BY DEF Day, Hour
  <2>4. Midnight(d) \in Moments
    BY <2>2, <2>3, Zenon DEF Midnight
  <2>5. NoTime.sec = -1
    BY DEF NoTime
  <2> QED
    BY <2>1, <2>4, <2>5
<1> QED
  BY <1>2, <1>3, <1>4

LEMMA TimeValueType ==
  ASSUME NEW t \in Moments
  PROVE  /\ TimeValue(t) \in Seq(Int) /\ Len(TimeValue(t)) >= 1
         /\ TimeValue(t)[1] = t.sec
<1>1. t.sec \in Int /\ t.frac \in Seq(Int)
  BY DEF Moments
<1>2. Text(t.frac) \in Seq(Int)
  <2>1. [i \in DOMAIN t.frac |-> 48 + t.frac[i]] \in Seq(Int)
    <3>1. Len(t.frac) \in Nat /\ DOMAIN t.frac = 1 .. Len(t.frac)
          /\ \A i \in 1 .. Len(t.frac) : t.frac[i] \in Int
      BY <1>1, LenProperties, ElementOfSeq
    <3>2. [i \in 1 .. Len(t.frac) |-> 48 + t.frac[i]] \in Seq(Int)
      BY <3>1
    <3> QED
      BY <3>1, <3>2
  <2>2. <<46>> \o [i \in DOMAIN t.frac |-> 48 + t.frac[i]] \in Seq(Int)
    BY <2>1
  <2>3. (IF t.frac = <<>> THEN <<>> ELSE <<46>> \o [i \in DOMAIN t.frac |-> 48 + t.frac[i]]) \in Seq(Int)
    BY <2>2
  <2> QED
    BY <2>3 DEF Text
<1> DEFINE rest == IF IsPostgres THEN t.frac ELSE Text(t.frac)
<1>3. rest \in Seq(Int)
  BY <1>1, <1>2
<1>4. TimeValue(t) = <<t.sec>> \o rest
  BY DEF TimeValue
<1> HIDE DEF rest
<1> QED
  BY <1>1, <1>3, <1>4

(* a is the smaller one at the place i. *)
LessAt(a, b, i) ==
  /\ \A j \in 1 .. i - 1 : j <= Len(a) /\ a[j] = b[j]
  /\ i <= Len(a) => a[i] < b[i]

LEMMA LessSomewhere ==
  ASSUME NEW a, NEW b \in Seq(Int)
  PROVE  Less(a, b) <=> \E i \in 1 .. Len(b) : LessAt(a, b, i)
<1>1. DOMAIN b = 1 .. Len(b)
  OBVIOUS
<1>2. Less(a, b) <=> \E i \in DOMAIN b : LessAt(a, b, i)
  BY Zenon DEF Less, LessAt
<1> QED
  BY <1>1, <1>2, Zenon

(* The seconds decide, whatever follows. *)
LEMMA SecondsDecide ==
  ASSUME NEW a \in Seq(Int), NEW b \in Seq(Int), Len(a) >= 1, Len(b) >= 1
  PROVE  /\ a[1] < b[1] => Less(a, b)
         /\ b[1] < a[1] => ~ Less(a, b)
<1>1. 1 \in DOMAIN a /\ 1 \in DOMAIN b /\ DOMAIN b = 1 .. Len(b) /\ Len(b) \in Nat
  OBVIOUS
<1>2. ASSUME a[1] < b[1] PROVE Less(a, b)
  <2>1. \A j \in 1 .. 1 - 1 : j <= Len(a) /\ a[j] = b[j]
    OBVIOUS
  <2> QED
    BY <1>1, <1>2, <2>1 DEF Less
<1>3. ASSUME b[1] < a[1], Less(a, b) PROVE FALSE
  <2>1. a[1] \in Int /\ b[1] \in Int
    BY <1>1
  <2>2. PICK i \in DOMAIN b : /\ \A j \in 1 .. i - 1 : j <= Len(a) /\ a[j] = b[j]
                              /\ i <= Len(a) => a[i] < b[i]
    BY <1>3 DEF Less
  <2>3. CASE i = 1
    BY <1>3, <2>1, <2>2, <2>3
  <2>4. CASE i # 1
    <3>1. 1 \in 1 .. i - 1
      BY <1>1, <2>4
    <3> QED
      BY <1>3, <2>1, <2>2, <3>1
  <2> QED
    BY <2>3, <2>4
<1> QED
  BY <1>2, <1>3

LEMMA LessIrreflexive ==
  ASSUME NEW a \in Seq(Int)
  PROVE  ~ Less(a, a)
BY DEF Less

LEMMA LessTransitive ==
  ASSUME NEW a \in Seq(Int), NEW b \in Seq(Int), NEW c \in Seq(Int), Less(a, b), Less(b, c)
  PROVE  Less(a, c)
<1>1. PICK i \in 1 .. Len(b) : LessAt(a, b, i)
  BY LessSomewhere
<1>2. PICK k \in 1 .. Len(c) : LessAt(b, c, k)
  BY LessSomewhere
<1>3. /\ i \in Int /\ k \in Int
      /\ Len(a) \in Nat /\ Len(b) \in Nat /\ Len(c) \in Nat
      /\ DOMAIN b = 1 .. Len(b) /\ DOMAIN c = 1 .. Len(c)
      /\ \A j \in 1 .. Len(a) : a[j] \in Int
      /\ \A j \in 1 .. Len(b) : b[j] \in Int
      /\ \A j \in 1 .. Len(c) : c[j] \in Int
  OBVIOUS
<1> USE <1>1, <1>2 DEF LessAt
<1> SUFFICES \E n \in 1 .. Len(c) : LessAt(a, c, n)
  BY LessSomewhere
<1>4. CASE i < k
  <2>1. i \in 1 .. Len(c) /\ i \in 1 .. k - 1
    BY <1>3, <1>4
  <2>2. \A j \in 1 .. i - 1 : j <= Len(a) /\ a[j] = c[j]
    BY <1>1, <1>2, <1>3, <1>4
  <2>3. b[i] = c[i]
    BY <1>2, <2>1
  <2> QED
    BY <1>3, <2>1, <2>2, <2>3
<1>5. CASE k <= i
  <2>1. \A j \in 1 .. k - 1 : j <= Len(a) /\ a[j] = c[j]
    <3> SUFFICES ASSUME NEW j \in 1 .. k - 1 PROVE j <= Len(a) /\ a[j] = c[j]
      OBVIOUS
    <3>1. j \in 1 .. i - 1
      BY <1>3, <1>5
    <3> QED
      BY <1>1, <1>2, <3>1
  <2>2. k <= Len(b) /\ b[k] < c[k]
    BY <1>2, <1>3, <1>5
  <2>3. k <= Len(a) => a[k] < c[k]
    <3>1. CASE k = i
      BY <1>1, <1>3, <2>2, <3>1
    <3>2. CASE k < i
      <4>1. k \in 1 .. i - 1
        BY <1>3, <3>2
      <4> QED
        BY <1>1, <2>2, <4>1
    <3> QED
      BY <1>3, <1>5, <3>1, <3>2
  <2> QED
    BY <1>3, <2>1, <2>3
<1> QED
  BY <1>3, <1>4, <1>5

LEMMA LessTotal ==
  ASSUME NEW a \in Seq(Int), NEW b \in Seq(Int), a # b
  PROVE  Less(a, b) \/ Less(b, a)
<1> DEFINE D == {i \in Nat \ {0} : ~ (i <= Len(a) /\ i <= Len(b) /\ a[i] = b[i])}
<1>1. Len(a) \in Nat /\ Len(b) \in Nat /\ DOMAIN a = 1 .. Len(a) /\ DOMAIN b = 1 .. Len(b)
  OBVIOUS
<1>2. D \subseteq Nat /\ Len(a) + 1 \in D
  BY <1>1
<1>3. PICK m \in D : \A n \in D : ~ (n < m)
  <2> HIDE DEF D
  <2>1. \E m \in D : \A n \in D : <<n, m>> \notin OpToRel(<, Nat)
    BY <1>2, NatLessThanWellFounded, WFMin
  <2> QED
    BY <1>2, <2>1 DEF OpToRel
<1>4. \A j \in 1 .. m - 1 : j <= Len(a) /\ j <= Len(b) /\ a[j] = b[j]
  BY <1>3
<1>5. m \in Nat \ {0}
  OBVIOUS
<1>6. CASE m <= Len(a) /\ m <= Len(b)
  <2>1. a[m] # b[m] /\ a[m] \in Int /\ b[m] \in Int
    BY <1>1, <1>6
  <2>2. LessAt(a, b, m) \/ LessAt(b, a, m)
    BY <1>4, <2>1 DEF LessAt
  <2> QED
    BY <1>5, <1>6, <2>2, LessSomewhere
<1>7. CASE m <= Len(b) /\ ~ (m <= Len(a))
  <2>1. LessAt(a, b, m)
    BY <1>4, <1>7 DEF LessAt
  <2> QED
    BY <1>5, <1>7, <2>1, LessSomewhere
<1>8. CASE m <= Len(a) /\ ~ (m <= Len(b))
  <2>1. LessAt(b, a, m)
    BY <1>4, <1>8 DEF LessAt
  <2> QED
    BY <1>5, <1>8, <2>1, LessSomewhere
<1>9. CASE ~ (m <= Len(a)) /\ ~ (m <= Len(b))
  <2>1. Len(a) = m - 1 /\ Len(b) = m - 1
    <3>1. Len(a) >= m - 1 /\ Len(b) >= m - 1
      BY <1>1, <1>4, <1>5
    <3> QED
      BY <1>1, <1>5, <1>9, <3>1
  <2>2. a \in [1 .. m - 1 -> Int] /\ b \in [1 .. m - 1 -> Int]
    BY <2>1
  <2>3. a = b
    BY <1>4, <2>2
  <2> QED
    BY <2>3
<1> QED
  BY <1>1, <1>5, <1>6, <1>7, <1>8, <1>9

-----------------------------------------------------------------------------
(* Queries over a table of requests. *)

LEMMA RequestsAre ==
  /\ Requests = 1 .. Len(CreatedAt) /\ Len(CreatedAt) \in Nat \ {0} /\ IsFiniteSet(Requests)
  /\ \A r \in Requests : /\ CreatedAt[r] \in Instants /\ CreatedAt[r] \in Moments
                         /\ CreatedAt[r].sec \in Nat
<1>1. Requests = 1 .. Len(CreatedAt) /\ Len(CreatedAt) \in Nat
  BY RequestsAssumption DEF Requests
<1>2. Len(CreatedAt) # 0
  BY RequestsAssumption
<1>3. \A r \in Requests : CreatedAt[r] \in Instants
  BY RequestsAssumption DEF Requests
<1>4. \A t \in Instants : t.sec \in Nat
  BY DEF Instants
<1>5. IsFiniteSet(Requests)
  BY <1>1, FS_Interval
<1>6. \A r \in Requests : CreatedAt[r] \in Moments /\ CreatedAt[r].sec \in Nat
  BY <1>3, <1>4, MomentsOf
<1> QED
  BY <1>1, <1>2, <1>3, <1>5, <1>6

(* Newer is a strict order of all requests. *)
LEMMA NewerIsOrder ==
  ASSUME NEW r \in Requests, NEW s \in Requests
  PROVE  /\ ~ Newer(r, r)
         /\ r # s => Newer(r, s) \/ Newer(s, r)
         /\ \A t \in Requests : Newer(r, s) /\ Newer(s, t) => Newer(r, t)
<1> DEFINE v(q) == TimeValue(CreatedAt[q])
<1>1. \A q \in Requests : v(q) \in Seq(Int) /\ q \in Int
  BY RequestsAre, TimeValueType
<1>2. \A p, q \in Requests : Newer(p, q) <=> Less(v(q), v(p)) \/ (v(p) = v(q) /\ p > q)
  BY DEF Newer, CreatedAtValue
<1> HIDE DEF v
<1>3. ~ Newer(r, r)
  BY <1>1, <1>2, LessIrreflexive
<1>4. r # s => Newer(r, s) \/ Newer(s, r)
  BY <1>1, <1>2, LessTotal
<1>5. ASSUME NEW t \in Requests, Newer(r, s), Newer(s, t) PROVE Newer(r, t)
  <2>1. CASE v(r) = v(s)
    BY <1>1, <1>2, <1>5, <2>1, LessIrreflexive
  <2>2. CASE v(s) = v(t)
    BY <1>1, <1>2, <1>5, <2>2, LessIrreflexive
  <2>3. CASE v(r) # v(s) /\ v(s) # v(t)
    BY <1>1, <1>2, <1>5, <2>3, LessTransitive
  <2> QED
    BY <2>1, <2>2, <2>3
<1> QED
  BY <1>3, <1>4, <1>5

(* How many of M are newer than r. *)
Rank(M, r) == Cardinality({s \in M : Newer(s, r)})

(* Each place of the list is taken, by one request. *)
LEMMA PlacesAreTaken ==
  ASSUME NEW M \in SUBSET Requests
  PROVE  /\ IsFiniteSet(M) /\ Cardinality(M) \in Nat
         /\ \A r, s \in M : Rank(M, r) = Rank(M, s) => r = s
         /\ \A i \in 1 .. Cardinality(M) : \E r \in M : Rank(M, r) = i - 1
<1> DEFINE n == Cardinality(M)
           Those(r) == {s \in M : Newer(s, r)}
           T == 0 .. n - 1
           rank == [r \in M |-> Rank(M, r)]
<1>1. IsFiniteSet(M) /\ n \in Nat
  BY RequestsAre, FS_Subset, FS_CardinalityType
<1>2. ASSUME NEW r \in M
      PROVE  /\ IsFiniteSet(Those(r)) /\ Cardinality(Those(r)) \in Nat
             /\ Cardinality(Those(r)) < n /\ Rank(M, r) = Cardinality(Those(r))
  <2>1. Those(r) \in SUBSET (M \ {r})
    BY NewerIsOrder
  <2>2. IsFiniteSet(M \ {r}) /\ Cardinality(M \ {r}) = n - 1
    BY <1>1, FS_RemoveElement
  <2>3. IsFiniteSet(Those(r)) /\ Cardinality(Those(r)) <= n - 1
    BY <2>1, <2>2, FS_Subset
  <2>4. Cardinality(Those(r)) \in Nat
    BY <2>3, FS_CardinalityType
  <2> QED
    BY <1>1, <2>3, <2>4 DEF Rank
<1>3. ASSUME NEW r \in M, NEW s \in M, Newer(r, s) PROVE Rank(M, r) # Rank(M, s)
  <2>1. Those(r) \in SUBSET (Those(s) \ {r}) /\ r \in Those(s)
    BY <1>3, NewerIsOrder
  <2>2. IsFiniteSet(Those(s) \ {r}) /\ Cardinality(Those(s) \ {r}) = Cardinality(Those(s)) - 1
    BY <1>2, <2>1, FS_RemoveElement
  <2>3. Cardinality(Those(r)) <= Cardinality(Those(s)) - 1
    BY <2>1, <2>2, FS_Subset
  <2> HIDE DEF Those
  <2> QED
    BY <1>2, <2>3
<1>4. \A r, s \in M : Rank(M, r) = Rank(M, s) => r = s
  BY <1>3, NewerIsOrder
<1>5. rank \in [M -> T]
  <2> HIDE DEF n, Those
  <2>1. \A r \in M : Rank(M, r) \in T
    BY <1>1, <1>2
  <2> QED
    BY <2>1
<1>6. T \subseteq Range(rank)
  <2> DEFINE R == {rank[r] : r \in M}
  <2>1. rank \in Injection(M, R)
    BY <1>4 DEF Injection, IsInjective
  <2>2. rank \in Surjection(M, R)
    BY <2>1 DEF Surjection, Injection
  <2>3. ExistsBijection(M, R)
    BY <2>1, <2>2 DEF ExistsBijection, Bijection
  <2>4. IsFiniteSet(R) /\ Cardinality(R) = n
    BY <1>1, <2>3, FS_Bijection
  <2>5. R \subseteq T
    BY <1>5
  <2>6. IsFiniteSet(T) /\ Cardinality(T) = n
    <3>1. \A k \in Nat : IsFiniteSet(0 .. k - 1) /\ Cardinality(0 .. k - 1) = k
      BY FS_Interval
    <3> HIDE DEF n
    <3> QED
      BY <1>1, <3>1
  <2>7. R = T
    BY <2>4, <2>5, <2>6, FS_Subset
  <2> QED
    BY <2>7 DEF Range
<1>7. ASSUME NEW i \in 1 .. n PROVE \E r \in M : Rank(M, r) = i - 1
  <2>1. i - 1 \in T
    BY <1>1
  <2> QED
    BY <1>6, <2>1 DEF Range
<1> QED
  BY <1>1, <1>4, <1>7

LEMMA MatchingType ==
  ASSUME NEW t, DOMAIN t \subseteq Requests, NEW f
  PROVE  Matching(t, f) \in SUBSET Requests /\ Matching(t, f) \subseteq DOMAIN t
BY DEF Matching

LEMMA NewestType ==
  ASSUME NEW t, DOMAIN t \subseteq Requests, NEW f
  PROVE  /\ Newest(t, f) \in Seq(Requests)
         /\ Len(Newest(t, f)) = Cardinality(Matching(t, f))
<1> DEFINE M == Matching(t, f)
           n == Cardinality(M)
           at == [i \in 1 .. n |-> CHOOSE r \in M : Rank(M, r) = i - 1]
<1>1. M \in SUBSET Requests
  BY MatchingType
<1>2. Newest(t, f) = at
  BY DEF Newest, Rank
<1> HIDE DEF M
<1>3. n \in Nat
  BY <1>1, PlacesAreTaken
<1>4. at \in [1 .. n -> M]
  BY <1>1, PlacesAreTaken
<1> HIDE DEF n, at
<1>5. at \in Seq(M) /\ Len(at) = n
  BY <1>3, <1>4
<1> QED
  BY <1>1, <1>2, <1>5 DEF n, M

LEMMA GetRequestsType ==
  ASSUME NEW t, DOMAIN t \subseteq Requests, NEW f, NEW limit \in Int, NEW offset \in Nat
  PROVE  GetRequests(t, limit, offset, f) \in Seq(Requests)
<1> DEFINE all  == Newest(t, f)
           last == Min({offset + PageLimit(limit), Len(all)})
<1>1. all \in Seq(Requests) /\ Len(all) \in Nat
  BY NewestType
<1>2. GetRequests(t, limit, offset, f) = SubSeq(all, offset + 1, last)
  <2>1. (IF offset < 0 THEN 0 ELSE offset) = offset
    OBVIOUS
  <2> QED
    BY <2>1, Zenon DEF GetRequests
<1>3. PageLimit(limit) \in Nat
  BY DEF PageLimit
<1> HIDE DEF all
<1>4. last \in Int /\ last <= Len(all) /\ last >= 0
  BY <1>1, <1>3, MinOfTwo
<1> HIDE DEF last
<1>5. SubSeq(all, offset + 1, last) \in Seq(Requests)
  BY <1>1, <1>4
<1> QED
  BY <1>2, <1>5

(* A filter lets through what is inside its times and nothing that is outside;
   of what is in the same second it may do either. *)
LEMMA Window ==
  ASSUME NEW t, DOMAIN t \subseteq Requests, NEW f, f.from \in Moments, f.to \in Moments,
         f.errorsOnly = FALSE, NEW r \in DOMAIN t
  PROVE  /\ /\ f.from = NoTime \/ f.from.sec < CreatedAt[r].sec
            /\ f.to = NoTime \/ CreatedAt[r].sec < f.to.sec
            => r \in Matching(t, f)
         /\ r \in Matching(t, f) =>
              /\ f.from.sec <= CreatedAt[r].sec
              /\ f.to = NoTime \/ CreatedAt[r].sec <= f.to.sec
<1> DEFINE at == TimeValue(CreatedAt[r])
           from == TimeValue(f.from)
           to == TimeValue(f.to)
<1>1. /\ at \in Seq(Int) /\ Len(at) >= 1 /\ at[1] = CreatedAt[r].sec
      /\ from \in Seq(Int) /\ Len(from) >= 1 /\ from[1] = f.from.sec
      /\ to \in Seq(Int) /\ Len(to) >= 1 /\ to[1] = f.to.sec
  BY RequestsAre, TimeValueType
<1>2. CreatedAt[r].sec \in Nat /\ f.from.sec \in Int /\ f.to.sec \in Int
  BY RequestsAre DEF Moments
<1>3. r \in Matching(t, f) <=> /\ f.from # NoTime => ~ Less(at, from)
                               /\ f.to # NoTime => ~ Less(to, at)
  BY DEF Matching, CreatedAtValue, FilterTimeArg
<1> HIDE DEF at, from, to
<1>4. /\ CreatedAt[r].sec < f.from.sec => Less(at, from)
      /\ f.from.sec < CreatedAt[r].sec => ~ Less(at, from)
      /\ f.to.sec < CreatedAt[r].sec => Less(to, at)
      /\ CreatedAt[r].sec < f.to.sec => ~ Less(to, at)
  BY <1>1, SecondsDecide
<1>5. f.from = NoTime => f.from.sec = -1
  BY DEF NoTime
<1> QED
  BY <1>2, <1>3, <1>4, <1>5

-----------------------------------------------------------------------------
(* The inductive invariant: the type of every variable. *)

TableInv ==
  /\ now \in Requests /\ pending \subseteq 1..now
  /\ DOMAIN table \subseteq (1..now) \ pending
  /\ \A r \in DOMAIN table : table[r] \in {Running, Outcome[r]}

CallType == [what: {"page", "more"}, limit: {PageSize}, offset: Nat, filter: Filters,
             answer: {NoAnswer} \cup Seq(Requests)]

PanelInv ==
  /\ filter \in Filters
  /\ items \in Seq(Requests)
  /\ hasMore \in BOOLEAN /\ loadingMore \in BOOLEAN
  /\ calls \in Seq(CallType) /\ Len(calls) <= MaxCalls

LEMMA RowsAreRequests ==
  ASSUME TableInv
  PROVE  DOMAIN table \subseteq Requests /\ now \in 1 .. Len(CreatedAt)
<1>1. 1 .. now \subseteq Requests
  BY RequestsAre DEF TableInv
<1> QED
  BY <1>1, RequestsAre DEF TableInv

LEMMA TableInit == Init => TableInv
<1>1. Requests = 1 .. Len(CreatedAt) /\ Len(CreatedAt) \in Nat \ {0}
  BY RequestsAre
<1>2. DOMAIN << >> = {}
  OBVIOUS
<1> QED
  BY <1>1, <1>2 DEF Init, TableInv

LEMMA TableNext == TableInv /\ [Next]_vars => TableInv'
<1> SUFFICES ASSUME TableInv, [Next]_vars PROVE TableInv'
  OBVIOUS
<1> USE DEF TableInv
<1>1. now \in Nat /\ 1 .. now \subseteq Requests
  BY RequestsAre, RowsAreRequests
<1>2. CASE Arrive
  <2>1. 1 .. now \subseteq 1 .. now + 1 /\ now + 1 \notin 1 .. now /\ now + 1 \in 1 .. now + 1
    BY <1>1
  <2> QED
    BY <1>2, <2>1 DEF Arrive
<1>3. ASSUME NEW r \in Requests, Insert(r) PROVE TableInv'
  BY <1>3 DEF Insert
<1>4. ASSUME NEW r \in Requests, Finish(r) PROVE TableInv'
  BY <1>4 DEF Finish
<1>5. ASSUME NEW r \in Requests, Drop(r) PROVE TableInv'
  BY <1>5 DEF Drop
<1>6. CASE UNCHANGED tableVars
  BY <1>6 DEF tableVars
<1> QED
  BY <1>2, <1>3, <1>4, <1>5, <1>6
  DEF Next, Proxy, Refresh, Apply, LoadMore, Answer, Use, Fail, vars

LEMMA CallIsTyped ==
  ASSUME PanelInv, NEW what \in {"page", "more"}, NEW offset \in Nat, NEW f \in Filters,
         Call(what, PageSize, offset, f)
  PROVE  calls' \in Seq(CallType) /\ Len(calls') <= MaxCalls
<1> DEFINE c == [what |-> what, limit |-> PageSize, offset |-> offset, filter |-> f,
                 answer |-> NoAnswer]
<1>1. c \in CallType
  BY DEF CallType
<1>2. calls' = Append(calls, c) /\ Len(calls) < MaxCalls
  BY DEF Call
<1> HIDE DEF c
<1>3. calls \in Seq(CallType) /\ MaxCalls \in Nat
  BY PanelAssumption DEF PanelInv
<1> HIDE DEF CallType
<1> QED
  BY <1>1, <1>2, <1>3

LEMMA CallIsRemoved ==
  ASSUME PanelInv, NEW i \in DOMAIN calls, calls' = RemoveAt(calls, i)
  PROVE  calls' \in Seq(CallType) /\ Len(calls') <= MaxCalls
<1>1. calls \in Seq(CallType) /\ MaxCalls \in Nat /\ Len(calls) <= MaxCalls
  BY PanelAssumption DEF PanelInv
<1>2. calls' = SubSeq(calls, 1, i - 1) \o SubSeq(calls, i + 1, Len(calls))
  BY DEF RemoveAt
<1>3. i \in 1 .. Len(calls) /\ Len(calls) \in Nat
  BY <1>1
<1> HIDE DEF CallType
<1>e. \A k \in 1 .. Len(calls) : calls[k] \in CallType
  BY <1>1, ElementOfSeq
<1>4. SubSeq(calls, 1, i - 1) \in Seq(CallType) /\ Len(SubSeq(calls, 1, i - 1)) = i - 1
  <2>1. \A k \in 1 .. i - 1 : calls[k] \in CallType
    BY <1>3, <1>e
  <2> QED
    BY <1>3, <2>1, SubSeqProperties
<1>5. /\ SubSeq(calls, i + 1, Len(calls)) \in Seq(CallType)
      /\ Len(SubSeq(calls, i + 1, Len(calls))) = Len(calls) - i
  <2>1. \A k \in i + 1 .. Len(calls) : calls[k] \in CallType
    BY <1>3, <1>e
  <2>2. i + 1 \in Int /\ Len(calls) \in Int
    BY <1>3
  <2>3. /\ SubSeq(calls, i + 1, Len(calls)) \in Seq(CallType)
        /\ Len(SubSeq(calls, i + 1, Len(calls))) = IF i + 1 <= Len(calls) THEN Len(calls) - (i + 1) + 1 ELSE 0
    BY <2>1, <2>2, SubSeqProperties
  <2> QED
    BY <1>3, <2>3
<1>6. \A s, t \in Seq(CallType) : s \o t \in Seq(CallType) /\ Len(s \o t) = Len(s) + Len(t)
  OBVIOUS
<1>7. calls' \in Seq(CallType) /\ Len(calls') = (i - 1) + (Len(calls) - i)
  BY <1>2, <1>4, <1>5, <1>6, Zenon
<1> QED
  BY <1>1, <1>3, <1>7

LEMMA PanelNext == TableInv /\ PanelInv /\ [Next]_vars => PanelInv'
<1> SUFFICES ASSUME TableInv, PanelInv, [Next]_vars PROVE PanelInv'
  OBVIOUS
<1>1. CASE Refresh
  <2>1. calls' \in Seq(CallType) /\ Len(calls') <= MaxCalls
    BY <1>1, CallIsTyped DEF Refresh, PanelInv
  <2> QED
    BY <1>1, <2>1 DEF Refresh, PanelInv
<1>2. ASSUME NEW f \in Filters, Apply(f) PROVE PanelInv'
  <2>1. calls' \in Seq(CallType) /\ Len(calls') <= MaxCalls
    BY <1>2, CallIsTyped DEF Apply, PanelInv
  <2> QED
    BY <1>2, <2>1 DEF Apply, PanelInv
<1>3. CASE LoadMore
  <2>1. Len(items) \in Nat
    BY DEF PanelInv
  <2>2. calls' \in Seq(CallType) /\ Len(calls') <= MaxCalls
    BY <1>3, <2>1, CallIsTyped DEF LoadMore, PanelInv
  <2> QED
    BY <1>3, <2>2 DEF LoadMore, PanelInv
<1>4. ASSUME NEW i \in DOMAIN calls
      PROVE  /\ calls[i] \in CallType
             /\ calls[i].answer = NoAnswer \/ calls[i].answer \in Seq(Requests)
  <2>1. calls[i] \in CallType
    <3> HIDE DEF CallType
    <3> QED
      BY <1>4 DEF PanelInv
  <2> QED
    BY <2>1 DEF CallType
<1>5. ASSUME NEW i \in DOMAIN calls, Answer(i) PROVE PanelInv'
  <2> DEFINE a == GetRequests(table, calls[i].limit, calls[i].offset, calls[i].filter)
  <2>1. a \in Seq(Requests)
    <3>1. calls[i].limit \in Int /\ calls[i].offset \in Nat
      BY <1>4, PanelAssumption DEF CallType
    <3> QED
      BY <3>1, RowsAreRequests, GetRequestsType
  <2>2. calls' = [calls EXCEPT ![i].answer = a]
    BY <1>5 DEF Answer
  <2> HIDE DEF a
  <2>3. [calls[i] EXCEPT !.answer = a] \in CallType
    BY <1>4, <2>1 DEF CallType
  <2>4. calls \in Seq(CallType) /\ calls' = [calls EXCEPT ![i] = [calls[i] EXCEPT !.answer = a]]
    BY <2>2 DEF PanelInv
  <2>5. calls' \in Seq(CallType) /\ Len(calls') = Len(calls)
    <3> HIDE DEF CallType
    <3> QED
      BY <2>3, <2>4
  <2> QED
    BY <1>5, <2>5 DEF Answer, PanelInv
<1>6. ASSUME NEW i \in DOMAIN calls, Use(i) PROVE PanelInv'
  <2>1. calls[i].answer \in Seq(Requests) /\ items \in Seq(Requests)
    BY <1>4, <1>6 DEF Use, PanelInv
  <2>2. items' \in Seq(Requests)
    BY <1>6, <2>1 DEF Use
  <2>3. calls' \in Seq(CallType) /\ Len(calls') <= MaxCalls
    BY <1>6, CallIsRemoved DEF Use
  <2>4. hasMore' \in BOOLEAN /\ loadingMore' \in BOOLEAN /\ filter' = filter
    BY <1>6 DEF Use
  <2> QED
    BY <2>2, <2>3, <2>4 DEF PanelInv
<1>7. ASSUME NEW i \in DOMAIN calls, Fail(i) PROVE PanelInv'
  <2>1. calls' \in Seq(CallType) /\ Len(calls') <= MaxCalls
    BY <1>7, CallIsRemoved DEF Fail
  <2>2. loadingMore' \in BOOLEAN /\ UNCHANGED <<filter, items, hasMore>>
    BY <1>7 DEF Fail
  <2> QED
    BY <2>1, <2>2 DEF PanelInv
<1>8. CASE UNCHANGED panelVars
  BY <1>8 DEF panelVars, PanelInv
<1> QED
  BY <1>1, <1>2, <1>3, <1>5, <1>6, <1>7, <1>8
  DEF Next, Proxy, Arrive, Insert, Finish, Drop, vars

LEMMA Invariance == Spec => [](TableInv /\ PanelInv)
<1>1. Init => PanelInv
  <2>1. << >> \in Seq(Requests) /\ Len(<< >>) = 0
    OBVIOUS
  <2>2. << >> \in Seq(CallType)
    <3> HIDE DEF CallType
    <3> QED
      OBVIOUS
  <2>3. Init => /\ filter = Today /\ items = <<>> /\ hasMore = FALSE /\ loadingMore = FALSE
                /\ calls = <<>>
    BY DEF Init
  <2>4. Today \in Filters /\ 0 <= MaxCalls
    BY PanelAssumption
  <2> HIDE DEF CallType
  <2> QED
    BY <2>1, <2>2, <2>3, <2>4 DEF PanelInv
<1> QED
  BY <1>1, TableInit, TableNext, PanelNext, PTL DEF Spec

(* Every variable of the table and the panel keeps its type: what the panel shows
   are requests, and no more calls are under way than it may have. *)
THEOREM TypeCorrect == Spec => []TypeOK
<1>1. ASSUME TableInv, PanelInv PROVE TypeOK
  <2>1. ASSUME NEW i \in DOMAIN calls PROVE calls[i] \in CallType
    <3> HIDE DEF CallType
    <3> QED
      BY <1>1, <2>1 DEF PanelInv
  <2>2. \A i \in DOMAIN calls :
          /\ calls[i].what \in {"page", "more"}
          /\ calls[i].answer = NoAnswer \/ calls[i].answer \in Seq(Requests)
    BY <2>1 DEF CallType
  <2> QED
    BY <1>1, <2>2, Zenon DEF TableInv, PanelInv, TypeOK
<1> QED
  BY <1>1, Invariance, PTL

-----------------------------------------------------------------------------
(* The times of a filter are inclusive but for the seconds they are in, for every
   filter and row (appendRequestFilterSQL with the texts of filterTimeArg). *)
THEOREM WindowsAreRight == Spec => []WindowWithinSecond
<1>1. ASSUME TableInv, NEW f \in Filters, NEW r \in DOMAIN table
      PROVE  LET at == CreatedAt[r].sec
                 through == r \in Matching(table, [f EXCEPT !.errorsOnly = FALSE])
             IN  /\ (f.from = NoTime \/ f.from.sec < at) /\ (f.to = NoTime \/ at < f.to.sec) => through
                 /\ through => f.from.sec <= at /\ (f.to = NoTime \/ at <= f.to.sec)
  <2> DEFINE g == [f EXCEPT !.errorsOnly = FALSE]
  <2>1. f \in [from: Instants \cup {NoTime}, to: Instants \cup {NoTime}, errorsOnly: BOOLEAN]
    BY FiltersAssumption
  <2>2. g.from = f.from /\ g.to = f.to /\ g.errorsOnly = FALSE
    BY <2>1
  <2>3. g.from \in Moments /\ g.to \in Moments
    BY <2>1, <2>2, MomentsOf
  <2> HIDE DEF g
  <2>4. DOMAIN table \subseteq Requests
    BY <1>1, RowsAreRequests
  <2>5. /\ /\ f.from = NoTime \/ f.from.sec < CreatedAt[r].sec
           /\ f.to = NoTime \/ CreatedAt[r].sec < f.to.sec
           => r \in Matching(table, g)
        /\ r \in Matching(table, g) =>
             /\ f.from.sec <= CreatedAt[r].sec
             /\ f.to = NoTime \/ CreatedAt[r].sec <= f.to.sec
    BY <1>1, <2>2, <2>3, <2>4, Window
  <2> QED
    BY <2>5 DEF g
<1>2. TableInv => WindowWithinSecond
  BY <1>1, Zenon DEF WindowWithinSecond
<1> QED
  BY <1>2, Invariance, PTL

-----------------------------------------------------------------------------
(* The days of the chart. *)

FirstDay == LocalDay(CreatedAt[now]) - (DaysShown(Days) - 1)

LEMMA DaysAre ==
  ASSUME TableInv
  PROVE  /\ DaysBack = FirstDay .. LocalDay(CreatedAt[now]) /\ FirstDay \in Int
         /\ LocalDay(CreatedAt[now]) \in Int /\ Min(DaysBack) = FirstDay
         /\ AllDays.from = Midnight(FirstDay) /\ AllDays.to = CreatedAt[now]
         /\ AllDays.errorsOnly = FALSE
         /\ AllDays.from \in Moments /\ AllDays.from # NoTime
         /\ AllDays.to \in Moments /\ AllDays.to # NoTime
<1>1. CreatedAt[now] \in Instants /\ CreatedAt[now] \in Moments /\ CreatedAt[now].sec \in Nat
  BY RequestsAre DEF TableInv
<1>2. LocalDay(CreatedAt[now]) \in Int
  BY <1>1 DEF LocalDay, Day, Hour
<1>3. DaysShown(Days) \in 1 .. 365
  <2>1. Days \in Int
    BY PanelAssumption
  <2>2. Min({Days, 365}) = IF Days <= 365 THEN Days ELSE 365
    BY <2>1, MinOfTwo
  <2> QED
    BY <2>1, <2>2 DEF DaysShown
<1>4. FirstDay \in Int /\ FirstDay <= LocalDay(CreatedAt[now])
  BY <1>2, <1>3 DEF FirstDay
<1>5. DaysBack = FirstDay .. LocalDay(CreatedAt[now])
  BY DEF DaysBack, FirstDay
<1>6. Min(DaysBack) = FirstDay
  BY <1>2, <1>4, <1>5, MinOfInterval
<1>7. /\ AllDays.from = Midnight(FirstDay) /\ AllDays.to = CreatedAt[now]
      /\ AllDays.errorsOnly = FALSE
  BY <1>6 DEF AllDays, NoFilter
<1>8. Midnight(FirstDay) \in Moments /\ Midnight(FirstDay) # NoTime /\ CreatedAt[now] # NoTime
  BY <1>1, <1>4, MomentsOf
<1> QED
  BY <1>1, <1>2, <1>4, <1>5, <1>6, <1>7, <1>8

LEMMA SameWindow ==
  ASSUME NEW t, NEW f, NEW g, f.from = g.from, f.to = g.to, f.errorsOnly = g.errorsOnly
  PROVE  Matching(t, f) = Matching(t, g)
BY DEF Matching

(* The requests that the chart counts: those of a window of time, or the errors
   of them. *)
OfDay(R, d) == {r \in R : LocalDay(CreatedAt[r]) = d}

Asked == [from: {NoTime}, to: {NoTime}, errorsOnly: BOOLEAN]

Chosen(R, f) == IF f.errorsOnly THEN Errors(table, R) ELSE R

ChartWindow(days) ==
  [from |-> Midnight(LocalDay(CreatedAt[now]) - (DaysShown(days) - 1)), to |-> CreatedAt[now],
   errorsOnly |-> FALSE]

LEMMA ErrorsChosen ==
  ASSUME NEW f, NEW g, f.from = g.from, f.to = g.to, f.errorsOnly \in BOOLEAN,
         g.errorsOnly = FALSE
  PROVE  Matching(table, f) = Chosen(Matching(table, g), f)
BY DEF Matching, Chosen, Errors

LEMMA ChartIs ==
  ASSUME NEW f \in Asked, NEW days
  PROVE  LET chart == GetDailyStats(table, days, f, CreatedAt[now])
             R     == Chosen(Matching(table, ChartWindow(days)), f)
         IN  /\ DOMAIN chart = {LocalDay(CreatedAt[r]) : r \in R}
             /\ \A d \in DOMAIN chart :
                  /\ chart[d].total = Cardinality(OfDay(R, d))
                  /\ chart[d].err4xx = Cardinality({r \in OfDay(R, d) : Is4xx(table[r])})
                  /\ chart[d].err5xx = Cardinality({r \in OfDay(R, d) : Is5xx(table[r])})
<1> DEFINE window == [f EXCEPT
                        !.from = IF @ = NoTime
                                   THEN Midnight(LocalDay(CreatedAt[now]) - (DaysShown(days) - 1))
                                   ELSE @,
                        !.to = IF @ = NoTime THEN CreatedAt[now] ELSE @]
           R == Matching(table, window)
<1>1. R = Chosen(Matching(table, ChartWindow(days)), f)
  <2>1. /\ window.from = ChartWindow(days).from /\ window.to = ChartWindow(days).to
        /\ window.errorsOnly = f.errorsOnly /\ f.errorsOnly \in BOOLEAN
        /\ ChartWindow(days).errorsOnly = FALSE
    BY DEF Asked, ChartWindow
  <2> HIDE DEF window
  <2>2. Matching(table, window) = Chosen(Matching(table, ChartWindow(days)), window)
    BY <2>1, ErrorsChosen
  <2> QED
    BY <2>1, <2>2 DEF Chosen
<1>2. GetDailyStats(table, days, f, CreatedAt[now]) =
        [d \in {LocalDay(CreatedAt[r]) : r \in R} |->
           [total  |-> Cardinality(OfDay(R, d)),
            ok     |-> Cardinality({r \in OfDay(R, d) : table[r].status = 200}),
            err4xx |-> Cardinality({r \in OfDay(R, d) : Is4xx(table[r])}),
            err5xx |-> Cardinality({r \in OfDay(R, d) : Is5xx(table[r])})]]
  BY Zenon DEF GetDailyStats, OfDay
<1> HIDE DEF window, R
<1> QED
  BY <1>1, <1>2

(* The chart has every row of every day it shows, the earliest day included, on
   the day it was in UTC+8 (GetDailyStats and apiDailyStats agree on the midnight
   they count from), but for the first second of all and the last. *)
THEOREM ChartIsWhole == Spec => []DaysAreWhole
<1>1. ASSUME TableInv PROVE DaysAreWhole
  <2> DEFINE chart == GetDailyStats(table, Days, NoFilter, CreatedAt[now])
             Of(d) == {r \in DOMAIN table : LocalDay(CreatedAt[r]) = d}
             Blurred(r) == CreatedAt[r].sec \in {AllDays.from.sec, AllDays.to.sec}
             R == Matching(table, AllDays)
  <2> SUFFICES ASSUME NEW d \in DaysBack, \A r \in Of(d) : ~ Blurred(r), Of(d) # {}
               PROVE  d \in DOMAIN chart /\ chart[d].total = Cardinality(Of(d))
    BY Zenon DEF DaysAreWhole
  <2>1. d \in Int /\ d >= FirstDay
    BY <1>1, DaysAre
  <2>2. ASSUME NEW r \in Of(d) PROVE r \in R
    <3>1. r \in Requests /\ r <= now /\ now \in Requests
      BY <1>1, RowsAreRequests DEF TableInv
    <3>2. CreatedAt[r].sec <= CreatedAt[now].sec
      BY <3>1, RequestsAssumption
    <3>3. CreatedAt[r].sec \in Nat /\ CreatedAt[now].sec \in Nat
      BY <3>1, RequestsAre
    <3>4. CreatedAt[r].sec >= d * Day - 8 * Hour
      BY <2>1, <3>3 DEF LocalDay, Day, Hour
    <3>5. AllDays.from.sec = FirstDay * Day - 8 * Hour
      BY <1>1, DaysAre DEF Midnight
    <3>6. AllDays.from.sec <= CreatedAt[r].sec
      BY <1>1, <2>1, <3>3, <3>4, <3>5, DaysAre DEF Day, Hour
    <3>7. AllDays.to.sec = CreatedAt[now].sec
      BY <1>1, DaysAre
    <3>8. AllDays.from.sec < CreatedAt[r].sec /\ CreatedAt[r].sec < AllDays.to.sec
      BY <1>1, <3>2, <3>3, <3>5, <3>6, <3>7, DaysAre DEF Day, Hour
    <3> QED
      BY <1>1, <3>8, DaysAre, RowsAreRequests, Window
  <2>3. OfDay(R, d) = Of(d)
    BY <2>2 DEF OfDay, Matching
  <2>4. d \in {LocalDay(CreatedAt[r]) : r \in R}
    BY <2>2
  <2>5. NoFilter \in Asked /\ NoFilter.errorsOnly = FALSE
    BY DEF NoFilter, Asked
  <2>6. Chosen(Matching(table, ChartWindow(Days)), NoFilter) = R
    <3>1. /\ ChartWindow(Days).from = AllDays.from /\ ChartWindow(Days).to = AllDays.to
          /\ ChartWindow(Days).errorsOnly = AllDays.errorsOnly
      BY <1>1, DaysAre DEF ChartWindow, FirstDay
    <3>2. Matching(table, ChartWindow(Days)) = R
      BY <3>1, SameWindow
    <3> QED
      BY <2>5, <3>2 DEF Chosen
  <2>7. /\ DOMAIN chart = {LocalDay(CreatedAt[r]) : r \in R}
        /\ \A e \in DOMAIN chart : chart[e].total = Cardinality(OfDay(R, e))
    <3> DEFINE S == Chosen(Matching(table, ChartWindow(Days)), NoFilter)
    <3> HIDE DEF chart, R
    <3>1. /\ DOMAIN chart = {LocalDay(CreatedAt[r]) : r \in S}
          /\ \A e \in DOMAIN chart : chart[e].total = Cardinality(OfDay(S, e))
      BY <2>5, ChartIs, ZenonT(30) DEF chart
    <3> HIDE DEF S
    <3>2. S = R
      BY <2>6 DEF S
    <3> QED
      BY <3>1, <3>2
  <2> HIDE DEF chart, R, Of
  <2> QED
    BY <2>3, <2>4, <2>7
<1> QED
  BY <1>1, Invariance, PTL

-----------------------------------------------------------------------------
(* The figures. *)

LEMMA ErrorsAre ==
  ASSUME TableInv, NEW r \in DOMAIN table
  PROVE  /\ IsError(table[r]) <=> Is4xx(table[r]) \/ Is5xx(table[r])
         /\ ~ (Is4xx(table[r]) /\ Is5xx(table[r]))
<1>1. table[r] = Running \/ (table[r] = Outcome[r] /\ r \in Requests)
  BY RowsAreRequests DEF TableInv
<1>2. table[r].status \in Nat /\ (table[r].errorText => table[r].status >= 400)
  BY <1>1, RequestsAssumption DEF Running
<1> QED
  BY <1>2 DEF IsError, Is4xx, Is5xx

(* The two halves of the errors of a day. *)
LEMMA ErrorsOfDay ==
  ASSUME TableInv, NEW R \in SUBSET DOMAIN table, NEW d
  PROVE  Cardinality({r \in OfDay(R, d) : Is4xx(table[r])})
           + Cardinality({r \in OfDay(R, d) : Is5xx(table[r])})
         = Cardinality(OfDay(Errors(table, R), d))
<1> DEFINE A == {r \in OfDay(R, d) : Is4xx(table[r])}
           B == {r \in OfDay(R, d) : Is5xx(table[r])}
<1>1. A \cup B = OfDay(Errors(table, R), d) /\ A \cap B = {}
  BY ErrorsAre DEF OfDay, Errors
<1>2. A \in SUBSET Requests /\ B \in SUBSET Requests
  BY RowsAreRequests DEF OfDay
<1> HIDE DEF A, B
<1>3. IsFiniteSet(A) /\ IsFiniteSet(B) /\ Cardinality(A) \in Nat /\ Cardinality(B) \in Nat
  BY <1>2, RequestsAre, FS_Subset, FS_CardinalityType
<1>4. Cardinality(A \cup B) = Cardinality(A) + Cardinality(B) - Cardinality(A \cap B)
  BY <1>3, FS_Union
<1>5. Cardinality(A \cap B) = 0
  BY <1>1, FS_EmptySet
<1>6. Cardinality(A \cup B) = Cardinality(A) + Cardinality(B)
  BY <1>3, <1>4, <1>5
<1>7. Cardinality(A) + Cardinality(B) = Cardinality(OfDay(Errors(table, R), d))
  BY <1>1, <1>6
<1> QED
  BY <1>7 DEF A, B

(* What the cards and the backends are taken from. *)
LastDay == [from |-> [CreatedAt[now] EXCEPT !.sec = @ - 24 * Hour], to |-> CreatedAt[now],
            errorsOnly |-> FALSE]

LEMMA CardsAre ==
  ASSUME NEW f \in Asked
  PROVE  LET B     == Matching(table, LastDay)
             R     == Chosen(B, f)
             stats == GetStats(table, f, CreatedAt[now], 24)
             by    == GetStatsByBackend(table, f, CreatedAt[now], 24)
         IN  /\ stats.total = Cardinality(R) /\ stats.errors = Cardinality(Errors(table, R))
             /\ DOMAIN by = {Backend[r] : r \in B}
             /\ \A b \in DOMAIN by :
                  /\ by[b].total = Cardinality(OfKind(B, Backend, b))
                  /\ by[b].errors = Cardinality(OfKind(Errors(table, B), Backend, b))
<1> DEFINE window == EffectiveWindow(f, CreatedAt[now], 24)
           always == [window EXCEPT !.errorsOnly = FALSE]
           B      == Matching(table, LastDay)
           R      == Chosen(B, f)
<1>1. /\ window.from = LastDay.from /\ window.to = LastDay.to
      /\ window.errorsOnly = f.errorsOnly /\ f.errorsOnly \in BOOLEAN
      /\ LastDay.errorsOnly = FALSE
  BY DEF EffectiveWindow, LastDay, Asked
<1>2. always.from = LastDay.from /\ always.to = LastDay.to /\ always.errorsOnly = FALSE
  BY DEF EffectiveWindow, LastDay, Asked
<1> HIDE DEF window, always
<1>3. Matching(table, window) = R
  <2>1. Matching(table, window) = Chosen(B, window)
    BY <1>1, ErrorsChosen
  <2> QED
    BY <1>1, <2>1 DEF Chosen
<1>4. Matching(table, always) = B
  BY <1>1, <1>2, SameWindow
<1>5. GetStats(table, f, CreatedAt[now], 24) =
        [total |-> Cardinality(Matching(table, window)),
         errors |-> Cardinality(Errors(table, Matching(table, window))),
         lifetime |-> Cardinality(DOMAIN table)]
  BY Zenon DEF GetStats, window
<1>6. GetStatsByBackend(table, f, CreatedAt[now], 24) =
        [b \in {Backend[r] : r \in B} |->
           [total |-> Cardinality({r \in B : Backend[r] = b}),
            errors |-> Cardinality(Errors(table, {r \in B : Backend[r] = b}))]]
  BY <1>4, Zenon DEF GetStatsByBackend, window, always
<1>7. \A b : /\ {r \in B : Backend[r] = b} = OfKind(B, Backend, b)
             /\ Errors(table, {r \in B : Backend[r] = b}) = OfKind(Errors(table, B), Backend, b)
  BY DEF Errors, OfKind
<1> HIDE DEF B, R
<1>8. /\ GetStats(table, f, CreatedAt[now], 24).total = Cardinality(R)
      /\ GetStats(table, f, CreatedAt[now], 24).errors = Cardinality(Errors(table, R))
  BY <1>3, <1>5
<1> DEFINE by == GetStatsByBackend(table, f, CreatedAt[now], 24)
<1>9. /\ DOMAIN by = {Backend[r] : r \in B}
      /\ \A b \in DOMAIN by :
           /\ by[b].total = Cardinality(OfKind(B, Backend, b))
           /\ by[b].errors = Cardinality(OfKind(Errors(table, B), Backend, b))
  <2>1. by = [b \in {Backend[r] : r \in B} |->
                [total |-> Cardinality(OfKind(B, Backend, b)),
                 errors |-> Cardinality(OfKind(Errors(table, B), Backend, b))]]
    BY <1>6, <1>7, Zenon
  <2> HIDE DEF by
  <2> QED
    BY <2>1
<1> QED
  BY <1>8, <1>9, Zenon DEF B, R

(* The last 24 hours are a part of the 30 days; they have all of today, and
   nothing of the days before yesterday. *)
Spans(R, C) ==
  LET today == LocalDay(CreatedAt[now])
  IN  /\ R \subseteq C /\ C \subseteq DOMAIN table
      /\ OfDay(C, today) \subseteq R
      /\ \A r \in R : LocalDay(CreatedAt[r]) \in {today - 1, today}

LEMMA WindowsNest ==
  ASSUME TableInv
  PROVE  Spans(Matching(table, LastDay), Matching(table, ChartWindow(30)))
<1> DEFINE today == LocalDay(CreatedAt[now])
           chart == ChartWindow(30)
           at(r) == TimeValue(CreatedAt[r])
<1>1. DOMAIN table \subseteq Requests /\ now \in Requests /\ CreatedAt[now] \in Moments
  BY RowsAreRequests, RequestsAre DEF TableInv
<1>2. CreatedAt[now].sec \in Nat /\ today \in Int
  BY <1>1, RequestsAre DEF LocalDay, Day, Hour
<1>3. DaysShown(30) = 30
  BY MinOfTwo DEF DaysShown
<1>4. /\ chart.from = Midnight(today - 29) /\ chart.from \in Moments /\ chart.from # NoTime
      /\ chart.from.sec = (today - 29) * Day - 8 * Hour
  <2>1. chart.from = Midnight(today - 29)
    BY <1>2, <1>3 DEF ChartWindow
  <2>2. today - 29 \in Int
    BY <1>2
  <2>3. Midnight(today - 29).sec = (today - 29) * Day - 8 * Hour
    BY DEF Midnight
  <2> HIDE DEF chart, today
  <2> QED
    BY <2>1, <2>2, <2>3, MomentsOf
<1>5. LastDay.from \in Moments /\ LastDay.from.sec = CreatedAt[now].sec - Day
  BY <1>1, <1>2 DEF LastDay, Moments, Day, Hour
<1>6. chart.to = CreatedAt[now] /\ LastDay.to = CreatedAt[now]
      /\ chart.errorsOnly = FALSE /\ LastDay.errorsOnly = FALSE
  BY DEF ChartWindow, LastDay
<1> HIDE DEF chart
<1>7. ASSUME NEW r \in DOMAIN table
      PROVE  /\ CreatedAt[r].sec \in Nat /\ CreatedAt[r].sec <= CreatedAt[now].sec
             /\ LocalDay(CreatedAt[r]) \in Int
             /\ LocalDay(CreatedAt[r]) <= today
             /\ CreatedAt[r].sec >= CreatedAt[now].sec - Day => LocalDay(CreatedAt[r]) >= today - 1
             /\ LocalDay(CreatedAt[r]) = today => CreatedAt[r].sec > CreatedAt[now].sec - Day
             /\ CreatedAt[r].sec >= CreatedAt[now].sec - Day => CreatedAt[r].sec > chart.from.sec
  <2>1. r \in Requests /\ r <= now
    BY <1>1 DEF TableInv
  <2>2. CreatedAt[r].sec \in Nat /\ CreatedAt[r].sec <= CreatedAt[now].sec
    BY <1>1, <2>1, RequestsAre, RequestsAssumption
  <2> QED
    BY <1>2, <1>4, <2>2 DEF LocalDay, Day, Hour
<1>8. ASSUME NEW r \in DOMAIN table
      PROVE  /\ r \in Matching(table, LastDay) <=>
                  /\ LastDay.from # NoTime => ~ Less(at(r), TimeValue(LastDay.from))
                  /\ ~ Less(TimeValue(CreatedAt[now]), at(r))
             /\ r \in Matching(table, chart) <=>
                  /\ ~ Less(at(r), TimeValue(chart.from))
                  /\ ~ Less(TimeValue(CreatedAt[now]), at(r))
  <2>1. CreatedAt[now] # NoTime
    BY <1>2 DEF NoTime
  <2> QED
    BY <1>4, <1>6, <1>8, <2>1 DEF Matching, CreatedAtValue, FilterTimeArg
<1>9. ASSUME NEW r \in DOMAIN table, NEW m \in Moments
      PROVE  /\ m.sec \in Int
             /\ CreatedAt[r].sec < m.sec => Less(at(r), TimeValue(m))
             /\ m.sec < CreatedAt[r].sec => ~ Less(at(r), TimeValue(m))
  <2>1. /\ at(r) \in Seq(Int) /\ Len(at(r)) >= 1 /\ at(r)[1] = CreatedAt[r].sec
        /\ TimeValue(m) \in Seq(Int) /\ Len(TimeValue(m)) >= 1 /\ TimeValue(m)[1] = m.sec
    BY <1>1, <1>9, RequestsAre, TimeValueType
  <2>2. m.sec \in Int
    BY DEF Moments
  <2> HIDE DEF at
  <2> QED
    BY <2>1, <2>2, SecondsDecide
<1> HIDE DEF at
<1>10. NoTime.sec = -1
  BY DEF NoTime
<1>11. ASSUME NEW r \in Matching(table, LastDay)
       PROVE  /\ r \in DOMAIN table /\ CreatedAt[r].sec >= CreatedAt[now].sec - Day
              /\ r \in Matching(table, chart)
  <2>1. r \in DOMAIN table
    BY <1>11 DEF Matching
  <2>2. LastDay.from = NoTime \/ ~ CreatedAt[r].sec < LastDay.from.sec
    BY <1>5, <1>8, <1>9, <1>11, <2>1
  <2>3. CreatedAt[r].sec >= CreatedAt[now].sec - Day
    BY <1>2, <1>5, <1>7, <1>10, <2>1, <2>2 DEF Day, Hour
  <2>4. ~ Less(at(r), TimeValue(chart.from))
    BY <1>4, <1>7, <1>9, <2>1, <2>3
  <2> QED
    BY <1>8, <1>11, <2>1, <2>3, <2>4
<1>12. ASSUME NEW r \in Matching(table, chart), LocalDay(CreatedAt[r]) = today
       PROVE  r \in Matching(table, LastDay)
  <2>1. r \in DOMAIN table
    BY <1>12 DEF Matching
  <2>2. ~ Less(at(r), TimeValue(LastDay.from))
    BY <1>5, <1>7, <1>9, <1>12, <2>1
  <2> QED
    BY <1>8, <1>12, <2>1, <2>2
<1>13. \A r \in Matching(table, LastDay) : LocalDay(CreatedAt[r]) \in {today - 1, today}
  BY <1>2, <1>7, <1>11
<1>14. OfDay(Matching(table, chart), today) \subseteq Matching(table, LastDay)
  BY <1>12 DEF OfDay
<1>15. Matching(table, chart) \subseteq DOMAIN table
  BY DEF Matching
<1> QED
  BY <1>11, <1>13, <1>14, <1>15 DEF Spans, chart

(* The same of the errors in them. *)
LEMMA ErrorsSpan ==
  ASSUME NEW R, NEW C, Spans(R, C)
  PROVE  Spans(Errors(table, R), Errors(table, C))
BY DEF Spans, Errors, OfDay

LEMMA SpanCount ==
  ASSUME TableInv, NEW R, NEW C, Spans(R, C)
  PROVE  LET today == LocalDay(CreatedAt[now])
         IN  Cardinality(R) \in Cardinality(OfDay(C, today))
                .. Cardinality(OfDay(C, today)) + Cardinality(OfDay(C, today - 1))
<1> DEFINE today == LocalDay(CreatedAt[now])
           A == OfDay(C, today)
           B == OfDay(C, today - 1)
<1>1. A \subseteq R /\ R \subseteq A \cup B
  BY DEF Spans, OfDay
<1>2. IsFiniteSet(A) /\ IsFiniteSet(B) /\ IsFiniteSet(A \cup B)
  <2>1. A \cup B \in SUBSET Requests /\ A \in SUBSET Requests /\ B \in SUBSET Requests
    BY RowsAreRequests DEF Spans, OfDay
  <2> HIDE DEF A, B
  <2> QED
    BY <2>1, RequestsAre, FS_Subset
<1> HIDE DEF A, B
<1>3. IsFiniteSet(R) /\ IsFiniteSet(A \cap B)
  BY <1>1, <1>2, FS_Subset
<1>4. /\ Cardinality(A) \in Nat /\ Cardinality(B) \in Nat /\ Cardinality(R) \in Nat
      /\ Cardinality(A \cap B) \in Nat
  BY <1>2, <1>3, FS_CardinalityType
<1>5. Cardinality(A) <= Cardinality(R) /\ Cardinality(R) <= Cardinality(A \cup B)
  BY <1>1, <1>2, <1>3, FS_Subset
<1>6. Cardinality(A \cup B) = Cardinality(A) + Cardinality(B) - Cardinality(A \cap B)
  BY <1>2, FS_Union
<1>7. Cardinality(R) \in Cardinality(A) .. Cardinality(A) + Cardinality(B)
  <2>1. Cardinality(A \cup B) <= Cardinality(A) + Cardinality(B)
    BY <1>4, <1>6
  <2>2. Cardinality(A \cup B) \in Int
    BY <1>4, <1>6
  <2> QED
    BY <1>4, <1>5, <2>1, <2>2
<1> QED
  BY <1>7 DEF A, B

(* What the chart has on a day, of requests and of errors. *)
LEMMA DayOfChart ==
  ASSUME TableInv, NEW f \in Asked, NEW d
  PROVE  LET chart == GetDailyStats(table, 30, f, CreatedAt[now])
             C     == Chosen(Matching(table, ChartWindow(30)), f)
         IN  /\ Total(chart, d) = Cardinality(OfDay(C, d))
             /\ Failed(chart, d) = Cardinality(OfDay(Errors(table, C), d))
<1> DEFINE chart == GetDailyStats(table, 30, f, CreatedAt[now])
           C     == Chosen(Matching(table, ChartWindow(30)), f)
<1>1. /\ DOMAIN chart = {LocalDay(CreatedAt[r]) : r \in C}
      /\ \A e \in DOMAIN chart :
           /\ chart[e].total = Cardinality(OfDay(C, e))
           /\ chart[e].err4xx = Cardinality({r \in OfDay(C, e) : Is4xx(table[r])})
           /\ chart[e].err5xx = Cardinality({r \in OfDay(C, e) : Is5xx(table[r])})
  BY ChartIs
<1>2. C \in SUBSET DOMAIN table
  BY DEF Chosen, Errors, Matching
<1> HIDE DEF chart, C
<1>3. CASE d \in DOMAIN chart
  <2>1. chart[d].err4xx + chart[d].err5xx = Cardinality(OfDay(Errors(table, C), d))
    BY <1>1, <1>2, <1>3, ErrorsOfDay
  <2> QED
    BY <1>1, <1>3, <2>1 DEF Total, Failed, chart, C
<1>4. CASE d \notin DOMAIN chart
  <2>1. OfDay(C, d) = {} /\ OfDay(Errors(table, C), d) = {}
    BY <1>1, <1>4 DEF OfDay, Errors
  <2>2. Cardinality(OfDay(C, d)) = 0 /\ Cardinality(OfDay(Errors(table, C), d)) = 0
    BY <2>1, FS_EmptySet
  <2> QED
    BY <1>4, <2>2 DEF Total, Failed, chart, C
<1> QED
  BY <1>3, <1>4

(* The overview fits together under every filter: the cards of the last 24 hours
   (GetStats) count what the chart of the days of UTC+8 (GetDailyStats) has today
   and a part of yesterday, and the backends (GetStatsByBackend) have the errors
   of the cards, and their requests when there is no condition but times. *)
THEOREM FiguresDoAgree == Spec => []FiguresAgree
<1>1. ASSUME TableInv, NEW f \in Filters
      PROVE  LET cards == Cards(f)
                 chart == Chart(f)
                 by    == ByBackend(f)
                 today == LocalDay(CreatedAt[now])
             IN  /\ cards.total \in Total(chart, today)
                                      .. Total(chart, today) + Total(chart, today - 1)
                 /\ cards.errors \in Failed(chart, today)
                                       .. Failed(chart, today) + Failed(chart, today - 1)
                 /\ cards.errors = SumFunction([b \in DOMAIN by |-> by[b].errors])
                 /\ f.errorsOnly \/ cards.total = SumFunction([b \in DOMAIN by |-> by[b].total])
  <2> DEFINE g     == overviewFilters(f)
             cards == Cards(f)
             chart == Chart(f)
             by    == ByBackend(f)
             today == LocalDay(CreatedAt[now])
             B     == Matching(table, LastDay)
             R     == Chosen(B, g)
             C     == Chosen(Matching(table, ChartWindow(30)), g)
  <2>1. g \in Asked /\ g.errorsOnly = f.errorsOnly
    BY FiltersAssumption DEF overviewFilters, Asked
  <2> HIDE DEF g
  <2>2. /\ cards.total = Cardinality(R) /\ cards.errors = Cardinality(Errors(table, R))
        /\ DOMAIN by = {Backend[r] : r \in B}
        /\ \A b \in DOMAIN by :
             /\ by[b].total = Cardinality(OfKind(B, Backend, b))
             /\ by[b].errors = Cardinality(OfKind(Errors(table, B), Backend, b))
    BY <2>1, CardsAre DEF Cards, ByBackend, g
  <2>3. \A d : /\ Total(chart, d) = Cardinality(OfDay(C, d))
               /\ Failed(chart, d) = Cardinality(OfDay(Errors(table, C), d))
    BY <1>1, <2>1, DayOfChart DEF Chart, g
  <2>4. Spans(R, C)
    BY <1>1, WindowsNest, ErrorsSpan DEF Chosen
  <2>5. IsFiniteSet(B) /\ B \in SUBSET B /\ Errors(table, B) \in SUBSET B
    <3>1. B \in SUBSET Requests
      BY <1>1, RowsAreRequests DEF Matching
    <3> QED
      BY <3>1, RequestsAre, FS_Subset DEF Errors
  <2>6. Errors(table, R) = Errors(table, B) /\ (f.errorsOnly \/ R = B)
    BY <2>1 DEF Chosen, Errors
  <2> HIDE DEF cards, chart, by, B, R, C
  <2>7. cards.total \in Total(chart, today) .. Total(chart, today) + Total(chart, today - 1)
    BY <1>1, <2>2, <2>3, <2>4, SpanCount
  <2>8. cards.errors \in Failed(chart, today) .. Failed(chart, today) + Failed(chart, today - 1)
    BY <1>1, <2>2, <2>3, <2>4, ErrorsSpan, SpanCount
  <2>9. SumFunction([b \in DOMAIN by |-> by[b].total]) = Cardinality(B)
    <3> DEFINE n == [b \in DOMAIN by |-> by[b].total]
    <3>1. DOMAIN n = {Backend[r] : r \in B} /\ \A b \in DOMAIN n : n[b] = Cardinality(OfKind(B, Backend, b))
      BY <2>2
    <3> HIDE DEF n
    <3>2. SumFunction(n) = Cardinality(B)
      BY <2>5, <3>1, SumOfAllKinds
    <3> QED
      BY <3>2 DEF n
  <2>10. SumFunction([b \in DOMAIN by |-> by[b].errors]) = Cardinality(Errors(table, B))
    <3> DEFINE n == [b \in DOMAIN by |-> by[b].errors]
    <3>1. DOMAIN n = {Backend[r] : r \in B}
          /\ \A b \in DOMAIN n : n[b] = Cardinality(OfKind(Errors(table, B), Backend, b))
      BY <2>2
    <3> HIDE DEF n
    <3>2. SumFunction(n) = Cardinality(Errors(table, B))
      BY <2>5, <3>1, SumOfAllKinds
    <3> QED
      BY <3>2 DEF n
  <2>11. /\ cards.errors = SumFunction([b \in DOMAIN by |-> by[b].errors])
         /\ f.errorsOnly \/ cards.total = SumFunction([b \in DOMAIN by |-> by[b].total])
    BY <2>2, <2>6, <2>9, <2>10
  <2> QED
    BY <2>7, <2>8, <2>11 DEF cards, chart, by
<1>2. TableInv => FiguresAgree
  BY <1>1, Zenon DEF FiguresAgree
<1> QED
  BY <1>2, Invariance, PTL
=============================================================================
