------------------------------- MODULE DataFacts ------------------------------
(***************************************************************************)
(* Facts about finite sets, sequences, and SumFunctionOnSet and FlattenSeq *)
(* of the community modules, with which the models add up weights and      *)
(* counts and put texts together.                                          *)
(*                                                                         *)
(* Induction is used in the form of a set that is closed: the set of the   *)
(* n, or of the subsets, of which a formula holds is everything.           *)
(***************************************************************************)
EXTENDS Integers, SequencesExt, FiniteSetTheorems, SequenceTheorems, WellFoundedInduction, TLAPS

LEMMA NatClosure ==
  ASSUME NEW C, 0 \in C, \A n \in Nat : n \in C => n + 1 \in C
  PROVE  \A n \in Nat : n \in C
<1> SUFFICES ASSUME Nat \ C # {} PROVE FALSE
  OBVIOUS
<1>1. \E n \in Nat \ C : \A m \in Nat \ C : <<m, n>> \notin OpToRel(<, Nat)
  BY NatLessThanWellFounded, WFMin
<1>2. PICK n \in Nat \ C : \A m \in Nat \ C : ~ (m < n)
  BY <1>1 DEF OpToRel
<1>3. n # 0 /\ n - 1 \in Nat
  BY <1>2
<1>4. n - 1 \in C
  BY <1>2, <1>3
<1> QED
  BY <1>2, <1>3, <1>4

LEMMA LeastMember ==
  ASSUME NEW S, S \subseteq Nat, S # {}
  PROVE  \E x \in S : \A y \in S : x <= y
<1>1. \E n \in S : \A m \in S : ~ (<<m, n>> \in OpToRel(<, Nat))
  BY NatLessThanWellFounded, WFMin
<1>2. \A m, n \in Nat : ~ (<<m, n>> \in OpToRel(<, Nat)) => n <= m
  BY DEF OpToRel
<1> QED
  BY <1>1, <1>2

(* A collection of subsets of S that has {} and, with all that are one element
   smaller, every other one, has them all. *)
LEMMA SubsetClosure ==
  ASSUME NEW S, IsFiniteSet(S), NEW C, {} \in C,
         \A U \in SUBSET S : U # {} /\ (\A x \in U : U \ {x} \in C) => U \in C
  PROVE  \A U \in SUBSET S : U \in C
<1> DEFINE N == {n \in Nat : \A U \in SUBSET S : Cardinality(U) = n => U \in C}
<1>1. \A U \in SUBSET S : IsFiniteSet(U) /\ Cardinality(U) \in Nat
  BY FS_Subset, FS_CardinalityType
<1>2. 0 \in N
  BY <1>1, FS_EmptySet
<1>3. ASSUME NEW n \in Nat, n \in N PROVE n + 1 \in N
  <2> SUFFICES ASSUME NEW U \in SUBSET S, Cardinality(U) = n + 1 PROVE U \in C
    OBVIOUS
  <2>1. U # {}
    BY FS_EmptySet
  <2>2. ASSUME NEW x \in U PROVE U \ {x} \in C
    <3>1. Cardinality(U \ {x}) = n /\ U \ {x} \in SUBSET S
      BY <1>1, FS_RemoveElement
    <3> QED
      BY <1>3, <3>1
  <2> QED
    BY <2>1, <2>2
<1>4. \A n \in Nat : n \in N
  <2> HIDE DEF N
  <2> QED
    BY <1>2, <1>3, NatClosure
<1> QED
  BY <1>1, <1>4

-----------------------------------------------------------------------------
(* The equation that SumFunctionOnSet stands for: it adds the elements in the
   order in which CHOOSE takes them from what is left. *)
Taken(U) == CHOOSE x \in U : TRUE

SumStep(f, g, U) == IF U = {} THEN 0 ELSE f[Taken(U)] + g[U \ {Taken(U)}]

Solves(g, f, S) == \A U \in SUBSET S : g[U] = SumStep(f, g, U)

Summable(f, S) == IsFiniteSet(S) /\ \A x \in S : f[x] \in Int

LEMMA TakenIsMember ==
  ASSUME NEW U, U # {}
  PROVE  Taken(U) \in U
BY DEF Taken

LEMMA SumExists ==
  ASSUME NEW S, NEW f, Summable(f, S)
  PROVE  \E g \in [SUBSET S -> Int] : Solves(g, f, S)
<1> USE DEF Summable
<1> DEFINE Upto(n, g) == \A U \in SUBSET S : Cardinality(U) <= n => g[U] = SumStep(f, g, U)
           N == {n \in Nat : \E g \in [SUBSET S -> Int] : Upto(n, g)}
<1>1. \A U \in SUBSET S : IsFiniteSet(U) /\ Cardinality(U) \in Nat
  BY FS_Subset, FS_CardinalityType
<1>2. \A U \in SUBSET S : U # {} =>
        /\ Taken(U) \in U /\ U \ {Taken(U)} \in SUBSET S
        /\ Cardinality(U \ {Taken(U)}) = Cardinality(U) - 1
  BY <1>1, FS_RemoveElement, TakenIsMember
<1>3. 0 \in N
  <2> DEFINE g == [U \in SUBSET S |-> 0]
  <2>1. g \in [SUBSET S -> Int]
    OBVIOUS
  <2>2. Upto(0, g)
    <3> SUFFICES ASSUME NEW U \in SUBSET S, Cardinality(U) <= 0 PROVE g[U] = SumStep(f, g, U)
      OBVIOUS
    <3>1. U = {}
      BY <1>1, FS_EmptySet
    <3> QED
      BY <3>1 DEF SumStep
  <2> QED
    BY <2>1, <2>2
<1>4. ASSUME NEW n \in Nat, n \in N PROVE n + 1 \in N
  <2>1. PICK g \in [SUBSET S -> Int] : Upto(n, g)
    BY <1>4
  <2> DEFINE h == [U \in SUBSET S |-> SumStep(f, g, U)]
  <2>2. h \in [SUBSET S -> Int]
    <3> SUFFICES ASSUME NEW U \in SUBSET S PROVE SumStep(f, g, U) \in Int
      OBVIOUS
    <3>1. CASE U = {}
      BY <3>1 DEF SumStep
    <3>2. CASE U # {}
      <4>1. f[Taken(U)] \in Int /\ g[U \ {Taken(U)}] \in Int
        BY <1>2, <3>2
      <4>2. SumStep(f, g, U) = f[Taken(U)] + g[U \ {Taken(U)}]
        BY <3>2 DEF SumStep
      <4> QED
        BY <4>1, <4>2
    <3> QED
      BY <3>1, <3>2
  <2>3. \A U \in SUBSET S : Cardinality(U) <= n => h[U] = g[U]
    BY <2>1
  <2>4. Upto(n + 1, h)
    <3> SUFFICES ASSUME NEW U \in SUBSET S, Cardinality(U) <= n + 1 PROVE h[U] = SumStep(f, h, U)
      OBVIOUS
    <3>1. CASE U = {}
      BY <3>1 DEF SumStep
    <3>2. CASE U # {}
      <4>1. Cardinality(U \ {Taken(U)}) <= n /\ U \ {Taken(U)} \in SUBSET S
        BY <1>1, <1>2, <3>2
      <4>2. h[U \ {Taken(U)}] = g[U \ {Taken(U)}]
        BY <2>3, <4>1
      <4> QED
        BY <3>2, <4>2 DEF SumStep
    <3> QED
      BY <3>1, <3>2
  <2> HIDE DEF h
  <2>5. \E k \in [SUBSET S -> Int] : Upto(n + 1, k)
    BY <2>2, <2>4
  <2>6. n + 1 \in Nat
    OBVIOUS
  <2> QED
    BY <2>5, <2>6
<1>5. Cardinality(S) \in N
  <2> HIDE DEF N
  <2> QED
    BY <1>1, <1>3, <1>4, NatClosure
<1>6. PICK g \in [SUBSET S -> Int] : Upto(Cardinality(S), g)
  BY <1>5
<1>7. \A U \in SUBSET S : Cardinality(U) <= Cardinality(S)
  BY FS_Subset
<1> QED
  BY <1>6, <1>7 DEF Solves

(* SumFunctionOnSet is the value of a solution of its equation. *)
LEMMA SumDef ==
  ASSUME NEW S, NEW f, Summable(f, S)
  PROVE  \E g : /\ \A U \in SUBSET S : g[U] \in Int
                /\ Solves(g, f, S)
                /\ SumFunctionOnSet(f, S) = g[S]
<1> DEFINE Fits(g) == g = [U \in SUBSET S |-> IF U = {} THEN 0
                             ELSE f[CHOOSE x \in U : TRUE] + g[U \ {CHOOSE x \in U : TRUE}]]
           h == CHOOSE g : Fits(g)
<1>1. SumFunctionOnSet(f, S) = h[S]
  BY DEF SumFunctionOnSet, FoldFunctionOnSet, MapThenFoldSet
<1>2. \E g : Fits(g)
  <2>1. PICK g \in [SUBSET S -> Int] : \A U \in SUBSET S : g[U] = SumStep(f, g, U)
    BY SumExists DEF Solves
  <2>2. g = [U \in SUBSET S |-> SumStep(f, g, U)]
    BY <2>1
  <2> QED
    BY <2>2 DEF SumStep, Taken
<1>3. Fits(h)
  <2> HIDE DEF Fits
  <2> QED
    BY <1>2
<1>4. h = [U \in SUBSET S |-> SumStep(f, h, U)]
  <2> HIDE DEF h
  <2> QED
    BY <1>3 DEF SumStep, Taken
<1> HIDE DEF h, Fits
<1>5. \A U \in SUBSET S : h[U] = SumStep(f, h, U)
  BY <1>4, Zenon
<1>6. \A U \in SUBSET S : h[U] \in Int
  <2> DEFINE C == {U \in SUBSET S : h[U] \in Int}
  <2>1. {} \in C
    BY <1>5 DEF SumStep
  <2>2. ASSUME NEW U \in SUBSET S, U # {}, \A x \in U : U \ {x} \in C PROVE U \in C
    <3>1. Taken(U) \in U
      BY <2>2, TakenIsMember
    <3>2. h[U] = f[Taken(U)] + h[U \ {Taken(U)}]
      BY <1>5, <2>2 DEF SumStep
    <3>3. f[Taken(U)] \in Int /\ h[U \ {Taken(U)}] \in Int
      BY <2>2, <3>1 DEF Summable
    <3> QED
      BY <3>2, <3>3
  <2>3. \A U \in SUBSET S : U \in C
    <3> HIDE DEF C
    <3> QED
      BY <2>1, <2>2, SubsetClosure DEF Summable
  <2> QED
    BY <2>3
<1> QED
  BY <1>1, <1>5, <1>6 DEF Solves

(* Two solutions of the equation, on S and on a part of it, agree there. *)
LEMMA SumUnique ==
  ASSUME NEW S, IsFiniteSet(S), NEW f, NEW g, NEW h, Solves(g, f, S), Solves(h, f, S)
  PROVE  \A U \in SUBSET S : g[U] = h[U]
<1> USE DEF Solves
<1> DEFINE C == {U \in SUBSET S : g[U] = h[U]}
<1>1. {} \in C
  BY DEF SumStep
<1>2. ASSUME NEW U \in SUBSET S, U # {}, \A x \in U : U \ {x} \in C PROVE U \in C
  BY <1>2, TakenIsMember DEF SumStep
<1>3. \A U \in SUBSET S : U \in C
  <2> HIDE DEF C
  <2> QED
    BY <1>1, <1>2, SubsetClosure
<1> QED
  BY <1>3

(* What it does on every part of S. *)
LEMMA SumOfParts ==
  ASSUME NEW S, NEW f, Summable(f, S), NEW U \in SUBSET S
  PROVE  /\ SumFunctionOnSet(f, U) \in Int
         /\ U = {} => SumFunctionOnSet(f, U) = 0
         /\ U # {} => SumFunctionOnSet(f, U) = f[Taken(U)] + SumFunctionOnSet(f, U \ {Taken(U)})
<1>1. Summable(f, U)
  BY FS_Subset DEF Summable
<1>2. PICK g : /\ \A V \in SUBSET U : g[V] \in Int
               /\ Solves(g, f, U)
               /\ SumFunctionOnSet(f, U) = g[U]
  BY <1>1, SumDef
<1>3. U \in SUBSET U
  OBVIOUS
<1>4. CASE U = {}
  BY <1>2, <1>3, <1>4 DEF Solves, SumStep
<1>5. CASE U # {}
  <2> DEFINE V == U \ {Taken(U)}
  <2>1. V \in SUBSET U /\ SUBSET V \subseteq SUBSET U
    OBVIOUS
  <2>2. Summable(f, V)
    BY <1>1, <2>1, FS_Subset DEF Summable
  <2>3. g[U] = f[Taken(U)] + g[V]
    BY <1>2, <1>3, <1>5 DEF Solves, SumStep
  <2> HIDE DEF V
  <2>4. PICK h : Solves(h, f, V) /\ SumFunctionOnSet(f, V) = h[V]
    BY <2>2, SumDef
  <2>5. Solves(g, f, V) /\ IsFiniteSet(V)
    BY <1>2, <2>1, <2>2 DEF Solves, Summable
  <2>6. \A W \in SUBSET V : g[W] = h[W]
    BY <2>4, <2>5, SumUnique
  <2>7. V \in SUBSET V
    OBVIOUS
  <2>8. SumFunctionOnSet(f, V) = g[V]
    BY <2>4, <2>6, <2>7
  <2> QED
    BY <1>2, <1>3, <1>5, <2>3, <2>8 DEF V
<1> QED
  BY <1>4, <1>5

LEMMA SumType ==
  ASSUME NEW S, NEW f, Summable(f, S)
  PROVE  SumFunctionOnSet(f, S) \in Int
BY SumOfParts

LEMMA SumEmpty ==
  ASSUME NEW f
  PROVE  SumFunctionOnSet(f, {}) = 0
<1>1. Summable(f, {}) /\ {} \in SUBSET {}
  BY FS_EmptySet DEF Summable
<1> QED
  BY <1>1, SumOfParts

(* Any element may be taken out first: the order does not matter. *)
LEMMA SumRemove ==
  ASSUME NEW S, NEW f, Summable(f, S), NEW x \in S
  PROVE  SumFunctionOnSet(f, S) = f[x] + SumFunctionOnSet(f, S \ {x})
<1>1. ASSUME NEW U \in SUBSET S
      PROVE  /\ SumFunctionOnSet(f, U) \in Int
             /\ U # {} => SumFunctionOnSet(f, U) = f[Taken(U)] + SumFunctionOnSet(f, U \ {Taken(U)})
  <2>1. SumFunctionOnSet(f, U) \in Int
    BY SumOfParts, Zenon
  <2>2. CASE U # {}
    BY <2>2, SumOfParts, SMT
  <2> QED
    BY <2>1, <2>2
<1> DEFINE sum(U) == SumFunctionOnSet(f, U)
           C == {U \in SUBSET S : \A y \in U : sum(U) = f[y] + sum(U \ {y})}
<1> HIDE DEF sum
<1>2. {} \in C
  OBVIOUS
<1>3. ASSUME NEW U \in SUBSET S, U # {}, \A y \in U : U \ {y} \in C PROVE U \in C
  <2> SUFFICES ASSUME NEW y \in U PROVE sum(U) = f[y] + sum(U \ {y})
    OBVIOUS
  <2> DEFINE z == Taken(U)
  <2>1. z \in U /\ sum(U) = f[z] + sum(U \ {z})
    BY <1>1, <1>3, TakenIsMember DEF sum
  <2> HIDE DEF z
  <2>2. CASE y = z
    BY <2>1, <2>2
  <2>3. CASE y # z
    <3>1. sum(U \ {z}) = f[y] + sum((U \ {z}) \ {y})
      BY <1>3, <2>1, <2>3
    <3>2. sum(U \ {y}) = f[z] + sum((U \ {y}) \ {z})
      BY <1>3, <2>1, <2>3
    <3> DEFINE W == (U \ {y}) \ {z}
    <3>3. (U \ {z}) \ {y} = W /\ W \in SUBSET S
      OBVIOUS
    <3>4. f[y] \in Int /\ f[z] \in Int /\ sum(W) \in Int
      BY <1>1, <2>1, <3>3 DEF Summable, sum
    <3>5. sum(U) = f[z] + (f[y] + sum(W)) /\ sum(U \ {y}) = f[z] + sum(W)
      BY <2>1, <3>1, <3>2, <3>3
    <3> HIDE DEF W
    <3> QED
      BY <3>4, <3>5
  <2> QED
    BY <2>2, <2>3
<1>4. \A U \in SUBSET S : U \in C
  <2> HIDE DEF C
  <2> QED
    BY <1>2, <1>3, SubsetClosure DEF Summable
<1>5. S \in SUBSET S
  OBVIOUS
<1> QED
  BY <1>4, <1>5 DEF sum

-----------------------------------------------------------------------------
(* Sums and counts. *)

LEMMA SumBound ==
  ASSUME NEW S, NEW f, NEW g, Summable(f, S), Summable(g, S), \A x \in S : f[x] <= g[x]
  PROVE  SumFunctionOnSet(f, S) <= SumFunctionOnSet(g, S)
<1> DEFINE C == {U \in SUBSET S : SumFunctionOnSet(f, U) <= SumFunctionOnSet(g, U)}
<1>1. {} \in C
  BY SumEmpty
<1>2. ASSUME NEW U \in SUBSET S, U # {}, \A x \in U : U \ {x} \in C PROVE U \in C
  <2>1. PICK x : x \in U
    BY <1>2
  <2> DEFINE V == U \ {x}
  <2>2. Summable(f, U) /\ Summable(g, U) /\ Summable(f, V) /\ Summable(g, V)
    BY FS_Subset DEF Summable
  <2>3. /\ SumFunctionOnSet(f, U) = f[x] + SumFunctionOnSet(f, V)
        /\ SumFunctionOnSet(g, U) = g[x] + SumFunctionOnSet(g, V)
    BY <2>1, <2>2, SumRemove
  <2>4. SumFunctionOnSet(f, V) \in Int /\ SumFunctionOnSet(g, V) \in Int
    BY <2>2, SumType
  <2>5. SumFunctionOnSet(f, V) <= SumFunctionOnSet(g, V)
    BY <1>2, <2>1
  <2>6. f[x] \in Int /\ g[x] \in Int /\ f[x] <= g[x]
    BY <2>1 DEF Summable
  <2> HIDE DEF V
  <2> QED
    BY <2>3, <2>4, <2>5, <2>6
<1>3. \A U \in SUBSET S : U \in C
  <2> HIDE DEF C
  <2> QED
    BY <1>1, <1>2, SubsetClosure DEF Summable
<1> QED
  BY <1>3

LEMMA SumNat ==
  ASSUME NEW S, IsFiniteSet(S), NEW f, \A x \in S : f[x] \in Nat
  PROVE  SumFunctionOnSet(f, S) \in Nat
<1> DEFINE z == [x \in S |-> 0]
           C == {U \in SUBSET S : SumFunctionOnSet(z, U) = 0}
<1>1. Summable(z, S) /\ Summable(f, S)
  BY DEF Summable
<1>2. \A x \in S : z[x] <= f[x]
  OBVIOUS
<1>3. \A x \in S : z[x] = 0
  OBVIOUS
<1> HIDE DEF z
<1>4. {} \in C
  BY SumEmpty
<1>5. ASSUME NEW U \in SUBSET S, U # {}, \A x \in U : U \ {x} \in C PROVE U \in C
  <2>1. PICK x : x \in U
    BY <1>5
  <2>2. Summable(z, U)
    BY <1>1, FS_Subset DEF Summable
  <2>3. SumFunctionOnSet(z, U) = z[x] + SumFunctionOnSet(z, U \ {x})
    BY <2>1, <2>2, SumRemove
  <2>4. z[x] = 0 /\ SumFunctionOnSet(z, U \ {x}) = 0
    BY <1>3, <1>5, <2>1
  <2> QED
    BY <2>3, <2>4
<1>6. \A U \in SUBSET S : U \in C
  <2> HIDE DEF C
  <2> QED
    BY <1>4, <1>5, SubsetClosure
<1>7. SumFunctionOnSet(z, S) = 0 /\ SumFunctionOnSet(f, S) \in Int
  BY <1>1, <1>6, SumType
<1> QED
  BY <1>1, <1>2, <1>7, SumBound

(* What is counted by kinds is counted once: the sum over a set of kinds of the
   elements of each is the number of all that are of one of them. *)
OfKind(P, kind, k) == {i \in P : kind[i] = k}

LEMMA SumOfKinds ==
  ASSUME NEW P, IsFiniteSet(P), NEW kind, NEW K, IsFiniteSet(K), NEW n,
         \A k \in K : n[k] = Cardinality(OfKind(P, kind, k))
  PROVE  SumFunctionOnSet(n, K) = Cardinality({i \in P : kind[i] \in K})
<1> DEFINE Those(U) == {i \in P : kind[i] \in U}
           C == {U \in SUBSET K : SumFunctionOnSet(n, U) = Cardinality(Those(U))}
<1>1. \A U : IsFiniteSet(Those(U)) /\ Cardinality(Those(U)) \in Nat
  BY FS_Subset, FS_CardinalityType
<1>2. ASSUME NEW k \in K
      PROVE  /\ IsFiniteSet(OfKind(P, kind, k)) /\ Cardinality(OfKind(P, kind, k)) \in Nat
             /\ n[k] \in Nat
  <2>1. OfKind(P, kind, k) \in SUBSET P
    BY DEF OfKind
  <2> QED
    BY <2>1, FS_Subset, FS_CardinalityType
<1>3. {} \in C
  <2>1. Those({}) = {}
    OBVIOUS
  <2> QED
    BY <2>1, SumEmpty, FS_EmptySet
<1>4. ASSUME NEW U \in SUBSET K, U # {}, \A x \in U : U \ {x} \in C PROVE U \in C
  <2>1. PICK k : k \in U
    BY <1>4
  <2> DEFINE V == U \ {k}
  <2>2. Summable(n, U)
    BY <1>2, FS_Subset DEF Summable
  <2>3. SumFunctionOnSet(n, U) = n[k] + SumFunctionOnSet(n, V)
    BY <2>1, <2>2, SumRemove
  <2>4. SumFunctionOnSet(n, V) = Cardinality(Those(V))
    BY <1>4, <2>1
  <2>5. /\ Those(U) = OfKind(P, kind, k) \cup Those(V)
        /\ OfKind(P, kind, k) \cap Those(V) = {}
    BY <2>1 DEF OfKind
  <2> HIDE DEF Those
  <2>6. Cardinality(Those(U)) = Cardinality(OfKind(P, kind, k)) + Cardinality(Those(V))
    <3> DEFINE A == OfKind(P, kind, k)
               B == Those(V)
    <3>1. IsFiniteSet(A) /\ IsFiniteSet(B) /\ Cardinality(A) \in Nat /\ Cardinality(B) \in Nat
      BY <1>1, <1>2, <2>1
    <3> HIDE DEF A, B
    <3>2. Cardinality(A \cup B) = Cardinality(A) + Cardinality(B) - Cardinality(A \cap B)
      BY <3>1, FS_Union
    <3>3. Cardinality(A \cap B) = 0
      BY <2>5, FS_EmptySet DEF A, B
    <3>4. Cardinality(Those(U)) = Cardinality(A) + Cardinality(B)
      BY <2>5, <3>1, <3>2, <3>3 DEF A, B
    <3> QED
      BY <3>4 DEF A, B
  <2> QED
    BY <2>1, <2>3, <2>4, <2>6
<1>5. \A U \in SUBSET K : U \in C
  <2> HIDE DEF C
  <2> QED
    BY <1>3, <1>4, SubsetClosure
<1> QED
  BY <1>5

(* The kinds of all elements of P split each part of it. *)
LEMMA SumOfAllKinds ==
  ASSUME NEW P, IsFiniteSet(P), NEW Q \in SUBSET P, NEW kind, NEW n,
         DOMAIN n = {kind[i] : i \in P},
         \A k \in DOMAIN n : n[k] = Cardinality(OfKind(Q, kind, k))
  PROVE  SumFunction(n) = Cardinality(Q)
<1> DEFINE K == {kind[i] : i \in P}
           f == [i \in P |-> kind[i]]
<1>1. IsFiniteSet(K)
  <2>1. f \in Surjection(P, K)
    BY DEF Surjection
  <2> QED
    BY <2>1, FS_Surjection
<1>2. IsFiniteSet(Q)
  BY FS_Subset
<1>3. \A k \in K : n[k] = Cardinality(OfKind(Q, kind, k))
  OBVIOUS
<1>4. {i \in Q : kind[i] \in K} = Q
  OBVIOUS
<1> HIDE DEF K
<1>5. SumFunctionOnSet(n, K) = Cardinality(Q)
  BY <1>1, <1>2, <1>3, <1>4, SumOfKinds
<1> QED
  BY <1>5 DEF SumFunction, K

-----------------------------------------------------------------------------
(* A collection that has <<>> and, with every sequence, that with one more
   element has them all. *)
LEMMA SeqClosure ==
  ASSUME NEW S, NEW C, <<>> \in C, \A u \in Seq(S), c \in S : u \in C => Append(u, c) \in C
  PROVE  \A v \in Seq(S) : v \in C
<1> DEFINE N == {n \in Nat : \A v \in Seq(S) : Len(v) = n => v \in C}
<1>1. 0 \in N
  BY EmptySeq
<1>2. ASSUME NEW n \in Nat, n \in N PROVE n + 1 \in N
  <2> SUFFICES ASSUME NEW v \in Seq(S), Len(v) = n + 1 PROVE v \in C
    OBVIOUS
  <2> DEFINE u == SubSeq(v, 1, n)
             c == v[n + 1]
  <2>1. c \in S /\ \A i \in 1 .. n : v[i] \in S
    BY ElementOfSeq
  <2>2. u \in Seq(S) /\ Len(u) = n /\ \A i \in 1 .. n : u[i] = v[i]
    BY <2>1, SubSeqProperties
  <2> HIDE DEF u
  <2>3. Append(u, c) \in Seq(S) /\ Len(Append(u, c)) = n + 1
        /\ \A i \in 1 .. n + 1 : Append(u, c)[i] = v[i]
    BY <2>1, <2>2, AppendProperties
  <2>4. v = Append(u, c)
    BY <2>3, SeqEqual
  <2>5. u \in C
    BY <1>2, <2>2
  <2> QED
    BY <2>1, <2>2, <2>4, <2>5
<1>3. \A n \in Nat : n \in N
  <2> HIDE DEF N
  <2> QED
    BY <1>1, <1>2, NatClosure
<1> QED
  BY <1>3

(* FlattenSeq. *)
Joins(h, seqs, m) ==
  \A i \in 1 .. m : h[i] = IF i = 1 THEN seqs[i] ELSE h[i - 1] \o seqs[i]

LEMMA JoinsExist ==
  ASSUME NEW S, NEW seqs \in Seq(Seq(S)), NEW m \in 0 .. Len(seqs)
  PROVE  \E h \in [1 .. m -> Seq(S)] : Joins(h, seqs, m)
<1> DEFINE N == {n \in Nat : n <= Len(seqs) => \E h \in [1 .. n -> Seq(S)] : Joins(h, seqs, n)}
<1>1. 0 \in N
  <2> DEFINE h == [i \in 1 .. 0 |-> <<>>]
  <2>1. h \in [1 .. 0 -> Seq(S)] /\ Joins(h, seqs, 0)
    BY DEF Joins
  <2> QED
    BY <2>1
<1>2. ASSUME NEW n \in Nat, n \in N PROVE n + 1 \in N
  <2> SUFFICES ASSUME n + 1 <= Len(seqs)
               PROVE  \E h \in [1 .. n + 1 -> Seq(S)] : Joins(h, seqs, n + 1)
    OBVIOUS
  <2>0. Len(seqs) \in Nat /\ n <= Len(seqs) /\ n + 1 \in 1 .. Len(seqs)
    OBVIOUS
  <2>1. PICK h \in [1 .. n -> Seq(S)] : Joins(h, seqs, n)
    BY <1>2, <2>0
  <2>2. seqs[n + 1] \in Seq(S)
    BY <2>0
  <2> DEFINE x == IF n = 0 THEN seqs[n + 1] ELSE h[n] \o seqs[n + 1]
             k == [i \in 1 .. n + 1 |-> IF i = n + 1 THEN x ELSE h[i]]
  <2>3. x \in Seq(S)
    BY <2>2, ConcatProperties
  <2> HIDE DEF x
  <2>4. k \in [1 .. n + 1 -> Seq(S)]
    BY <2>3
  <2>5. k[n + 1] = x /\ \A i \in 1 .. n : k[i] = h[i]
    OBVIOUS
  <2> HIDE DEF k
  <2>6. ASSUME NEW i \in 1 .. n + 1
        PROVE  k[i] = IF i = 1 THEN seqs[i] ELSE k[i - 1] \o seqs[i]
    <3>1. CASE i = n + 1
      <4>1. n # 0 => n \in 1 .. n /\ i - 1 = n
        BY <3>1
      <4> QED
        BY <2>5, <3>1, <4>1 DEF x
    <3>2. CASE i # n + 1
      <4>1. i \in 1 .. n /\ (i # 1 => i - 1 \in 1 .. n)
        BY <3>2
      <4> QED
        BY <2>1, <2>5, <4>1 DEF Joins
    <3> QED
      BY <3>1, <3>2
  <2>7. Joins(k, seqs, n + 1)
    BY <2>6 DEF Joins
  <2> QED
    BY <2>4, <2>7
<1>3. \A n \in Nat : n \in N
  <2> HIDE DEF N
  <2> QED
    BY <1>1, <1>2, NatClosure
<1> QED
  BY <1>3

LEMMA JoinsAgree ==
  ASSUME NEW s, NEW t, NEW h, NEW k, NEW m \in Nat, Joins(h, s, m), Joins(k, t, m),
         \A i \in 1 .. m : s[i] = t[i]
  PROVE  \A i \in 1 .. m : h[i] = k[i]
<1> DEFINE N == {n \in Nat : n \in 1 .. m => h[n] = k[n]}
<1>1. 0 \in N
  OBVIOUS
<1>2. ASSUME NEW n \in Nat, n \in N PROVE n + 1 \in N
  <2> SUFFICES ASSUME n + 1 \in 1 .. m PROVE h[n + 1] = k[n + 1]
    OBVIOUS
  <2>1. n # 0 => n \in 1 .. m /\ n + 1 # 1
    OBVIOUS
  <2>2. (n + 1) - 1 = n
    OBVIOUS
  <2> QED
    BY <1>2, <2>1, <2>2 DEF Joins
<1>3. \A n \in Nat : n \in N
  <2> HIDE DEF N
  <2> QED
    BY <1>1, <1>2, NatClosure
<1> QED
  BY <1>3

LEMMA FlattenIs ==
  ASSUME NEW S, NEW seqs \in Seq(Seq(S)), Len(seqs) # 0
  PROVE  \E h : Joins(h, seqs, Len(seqs)) /\ FlattenSeq(seqs) = h[Len(seqs)]
<1> DEFINE n == Len(seqs)
           Solves1(h) == h = [i \in 1 .. Len(seqs) |-> IF i = 1 THEN seqs[i] ELSE h[i - 1] \o seqs[i]]
           g == CHOOSE h : Solves1(h)
<1>1. n \in Nat /\ n \in 0 .. Len(seqs)
  OBVIOUS
<1>2. PICK h \in [1 .. n -> Seq(S)] : Joins(h, seqs, n)
  BY <1>1, JoinsExist
<1>3. Solves1(h)
  BY <1>2 DEF Joins
<1>4. Solves1(g)
  <2> HIDE DEF Solves1
  <2> QED
    BY <1>3
<1>5. FlattenSeq(seqs) = g[n]
  BY Zenon DEF FlattenSeq
<1> HIDE DEF g
<1>6. Joins(g, seqs, n)
  BY <1>4 DEF Joins
<1> QED
  BY <1>5, <1>6

LEMMA FlattenEmpty == FlattenSeq(<< >>) = << >>
BY DEF FlattenSeq

LEMMA FlattenAppend ==
  ASSUME NEW S, NEW s \in Seq(Seq(S)), NEW x \in Seq(S)
  PROVE  FlattenSeq(Append(s, x)) = FlattenSeq(s) \o x
<1> DEFINE t == Append(s, x)
           n == Len(s)
<1>1. /\ t \in Seq(Seq(S)) /\ Len(t) = n + 1 /\ n \in Nat
      /\ t[n + 1] = x /\ \A i \in 1 .. n : t[i] = s[i]
  BY AppendProperties
<1> HIDE DEF t
<1>2. PICK k : Joins(k, t, n + 1) /\ FlattenSeq(t) = k[n + 1]
  BY <1>1, FlattenIs
<1>3. CASE n = 0
  <2>1. FlattenSeq(s) = << >>
    BY <1>3, FlattenEmpty, EmptySeq
  <2>2. k[1] = t[1]
    BY <1>2, <1>3 DEF Joins
  <2>3. << >> \o x = x
    BY ConcatEmptySeq
  <2> QED
    BY <1>1, <1>2, <1>3, <2>1, <2>2, <2>3 DEF t
<1>4. CASE n # 0
  <2>1. PICK h : Joins(h, s, n) /\ FlattenSeq(s) = h[n]
    BY <1>4, FlattenIs
  <2>2. Joins(k, t, n)
    BY <1>1, <1>2 DEF Joins
  <2>3. h[n] = k[n]
    <3>0. n \in Nat /\ Joins(h, s, n) /\ Joins(k, t, n) /\ \A i \in 1 .. n : s[i] = t[i]
      BY <1>1, <2>1, <2>2
    <3> HIDE DEF n
    <3>j. \A m \in Nat : Joins(h, s, m) /\ Joins(k, t, m) /\ (\A i \in 1 .. m : s[i] = t[i]) => \A i \in 1 .. m : h[i] = k[i]
      BY JoinsAgree
    <3>1. \A i \in 1 .. n : h[i] = k[i]
      BY <3>0, <3>j
    <3>2. n \in 1 .. n
      BY <1>1, <1>4
    <3> QED
      BY <3>1, <3>2
  <2>4. k[n + 1] = k[n] \o t[n + 1]
    <3>1. n + 1 \in 1 .. n + 1 /\ n + 1 # 1 /\ (n + 1) - 1 = n
      BY <1>1, <1>4
    <3> QED
      BY <1>2, <3>1 DEF Joins
  <2> QED
    BY <1>1, <1>2, <2>1, <2>3, <2>4 DEF t
<1> QED
  BY <1>3, <1>4

(* What a concatenation holds. *)
LEMMA Concatenated ==
  ASSUME NEW S, NEW a \in Seq(S), NEW b \in Seq(S)
  PROVE  /\ a \o b \in Seq(S) /\ Len(a \o b) = Len(a) + Len(b)
         /\ \A i \in 1 .. Len(a) : (a \o b)[i] = a[i]
         /\ \A i \in 1 .. Len(b) : (a \o b)[Len(a) + i] = b[i]
<1> DEFINE w == a \o b
           m == Len(a)
           n == Len(b)
<1>0. m \in Nat /\ n \in Nat
  BY LenProperties
<1>1. /\ w \in Seq(S) /\ Len(w) = m + n
      /\ \A i \in 1 .. m + n : w[i] = IF i <= m THEN a[i] ELSE b[i - m]
  BY ConcatProperties
<1> HIDE DEF w, m, n
<1>2. \A i \in 1 .. m : i \in 1 .. m + n /\ i <= m
  BY <1>0
<1>3. \A i \in 1 .. n : m + i \in 1 .. m + n /\ ~ (m + i <= m) /\ (m + i) - m = i
  BY <1>0
<1>4. w \in Seq(S) /\ Len(w) = m + n /\ (\A i \in 1 .. m : w[i] = a[i]) /\ \A i \in 1 .. n : w[m + i] = b[i]
  BY <1>1, <1>2, <1>3
<1> QED
  BY <1>4 DEF w, m, n
=============================================================================
