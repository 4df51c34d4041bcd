----------------------------- MODULE FoldLemmas -----------------------------
EXTENDS Integers, SequencesExt, FiniteSetsExt, FiniteSetTheorems, SequenceTheorems,
        WellFoundedInduction, TLAPS
(***************************************************************************)
(* Induction, and what the sums and folds of the community modules         *)
(* compute.  What is proved by induction is a set of numbers, or of sets,  *)
(* rather than a formula with a hole in it; that a fold is defined at all  *)
(* is proved on ever larger subsets of what it folds over.                 *)
(***************************************************************************)

-----------------------------------------------------------------------------
(* Induction.                                                              *)

\* Every set of naturals has a least element.
LEMMA LeastNatural ==
  ASSUME NEW T, T \subseteq Nat, T # {}
  PROVE  \E n \in T : \A m \in T : n <= m
<1> DEFINE Less == {ss \in Nat \X Nat : ss[1] < ss[2]}
<1>1. IsWellFoundedOn(Less, Nat)
  BY NatLessThanWellFounded, Zenon DEF OpToRel
<1>2. \A m, n \in Nat : m < n => <<m, n>> \in Less
  <2> SUFFICES ASSUME NEW m \in Nat, NEW n \in Nat, m < n PROVE <<m, n>> \in Less
    OBVIOUS
  <2> DEFINE pair == <<m, n>>
  <2>1. pair \in Nat \X Nat /\ pair[1] < pair[2]
    OBVIOUS
  <2> QED
    BY <2>1, Zenon
<1>3. PICK n \in T : \A m \in T : <<m, n>> \notin Less
  <2> HIDE DEF Less
  <2> QED
    BY <1>1, WFMin, Zenon
<1>4. \A m \in T : n <= m
  <2> SUFFICES ASSUME NEW m \in T PROVE n <= m
    OBVIOUS
  <2>1. ~ (m < n)
    <3> HIDE DEF Less
    <3> QED
      BY <1>2, <1>3, Zenon
  <2>2. m \in Nat /\ n \in Nat
    OBVIOUS
  <2> HIDE DEF Less
  <2> QED
    BY <2>1, <2>2
<1> QED
  BY <1>4

\* A set that holds zero and the successor of what it holds is all of Nat.
LEMMA NatSetInduction ==
  ASSUME NEW T, 0 \in T, \A n \in Nat : n \in T => n + 1 \in T
  PROVE  Nat \subseteq T
<1> SUFFICES ASSUME Nat \ T # {} PROVE FALSE
  OBVIOUS
<1>1. PICK n \in Nat \ T : \A m \in Nat \ T : n <= m
  BY LeastNatural
<1>2. n # 0 /\ n - 1 \in Nat /\ n - 1 \in T
  BY <1>1
<1>3. (n - 1) + 1 \in T
  BY <1>2
<1> QED
  BY <1>1, <1>3

\* What is said of zero, and of the next number up to a bound, holds up to the bound.
LEMMA BoundedInduction ==
  ASSUME NEW k \in Nat, NEW T, 0 \in T, \A n \in 0..(k - 1) : n \in T => n + 1 \in T
  PROVE  0..k \subseteq T
<1> DEFINE U == {n \in Nat : n <= k => n \in T}
<1>1. 0 \in U
  OBVIOUS
<1>2. ASSUME NEW n \in Nat, n \in U PROVE n + 1 \in U
  <2>1. n <= k => n \in T
    BY <1>2
  <2>2. n + 1 <= k => n \in 0..(k - 1) /\ n <= k
    OBVIOUS
  <2>3. n + 1 <= k => n + 1 \in T
    BY <2>1, <2>2
  <2> QED
    BY <2>3
<1>3. Nat \subseteq U
  <2> HIDE DEF U
  <2> QED
    BY <1>1, <1>2, NatSetInduction
<1> QED
  BY <1>3

\* A family that holds {} and every set all of whose one-smaller subsets it holds
\* is all the subsets of a finite set.
LEMMA SubsetInduction ==
  ASSUME NEW S, IsFiniteSet(S), NEW P, {} \in P,
         \A s \in SUBSET S : s # {} /\ (\A x \in s : s \ {x} \in P) => s \in P
  PROVE  SUBSET S \subseteq P
<1> SUFFICES ASSUME (SUBSET S) \ P # {} PROVE FALSE
  OBVIOUS
<1>1. \A s \in SUBSET S : /\ IsFiniteSet(s) /\ Cardinality(s) \in Nat
                          /\ \A x \in s : Cardinality(s \ {x}) = Cardinality(s) - 1
  BY FS_Subset, FS_CardinalityType, FS_RemoveElement
<1> DEFINE T == {Cardinality(s) : s \in (SUBSET S) \ P}
<1>2. T \subseteq Nat /\ T # {}
  BY <1>1
<1>3. PICK n \in T : \A m \in T : n <= m
  <2> HIDE DEF T
  <2> QED
    BY <1>2, LeastNatural
<1>4. PICK s \in (SUBSET S) \ P : n = Cardinality(s)
  BY <1>3
<1>5. ASSUME NEW x \in s, s \ {x} \notin P PROVE FALSE
  <2>1. s \ {x} \in (SUBSET S) \ P
    BY <1>5
  <2>2. Cardinality(s \ {x}) \in T
    BY <2>1
  <2>3. n <= Cardinality(s) - 1
    BY <1>1, <1>3, <1>4, <2>2
  <2> QED
    BY <1>1, <1>4, <2>3
<1> QED
  BY <1>4, <1>5

-----------------------------------------------------------------------------
(* Folds.                                                                  *)

FoldsOver(iter, S, base, pick, step) ==
  iter = [s \in SUBSET S |-> IF s = {} THEN base ELSE step[<<pick[s], iter[s \ {pick[s]}]>>]]

\* A fold over a finite set is defined: there is a function that meets its equation.
LEMMA FoldExists ==
  ASSUME NEW S, IsFiniteSet(S), NEW base, NEW pick, NEW step,
         \A s \in SUBSET S : s # {} => pick[s] \in s
  PROVE  \E iter : FoldsOver(iter, S, base, pick, step)
<1> DEFINE Small(n) == {s \in SUBSET S : Cardinality(s) <= n}
           Meets(f, n) == f = [s \in Small(n) |-> IF s = {} THEN base
                                                  ELSE step[<<pick[s], f[s \ {pick[s]}]>>]]
           T == {n \in Nat : \E f : Meets(f, n)}
<1>0. \A s \in SUBSET S : /\ IsFiniteSet(s) /\ Cardinality(s) \in Nat
                          /\ Cardinality(s) <= Cardinality(S)
                          /\ s # {} => Cardinality(s \ {pick[s]}) = Cardinality(s) - 1
                          /\ s = {} <=> Cardinality(s) = 0
  BY FS_Subset, FS_CardinalityType, FS_RemoveElement, FS_EmptySet
<1>1. 0 \in T
  <2>1. Small(0) = {{}}
    <3>1. ASSUME NEW s \in SUBSET S, Cardinality(s) <= 0 PROVE s = {}
      <4>1. Cardinality(s) \in Nat
        BY <1>0, Zenon
      <4>2. Cardinality(s) = 0
        BY <3>1, <4>1
      <4> QED
        BY <1>0, <4>2, Zenon
    <3>2. {} \in Small(0)
      BY FS_EmptySet
    <3>3. \A s \in Small(0) : s = {}
      BY <3>1
    <3> QED
      <4> HIDE DEF Small
      <4> QED
        BY <3>2, <3>3
  <2>2. Meets([s \in Small(0) |-> base], 0)
    BY <2>1
  <2> QED
    BY <2>2
<1>2. ASSUME NEW n \in Nat, n \in T PROVE n + 1 \in T
  <2>1. PICK f : Meets(f, n)
    BY <1>2
  <2> DEFINE h == [s \in Small(n + 1) |-> IF s = {} THEN base ELSE step[<<pick[s], f[s \ {pick[s]}]>>]]
  <2>2. \A s \in Small(n + 1) : s # {} => s \ {pick[s]} \in Small(n) /\ s \ {pick[s]} \in Small(n + 1)
    <3> SUFFICES ASSUME NEW s \in Small(n + 1), s # {}
                 PROVE  s \ {pick[s]} \in Small(n) /\ s \ {pick[s]} \in Small(n + 1)
      OBVIOUS
    <3>1. Cardinality(s) <= n + 1 /\ Cardinality(s) \in Nat /\ Cardinality(s \ {pick[s]}) = Cardinality(s) - 1
      BY <1>0
    <3> QED
      BY <3>1
  <2>3. \A s \in Small(n) : s \in Small(n + 1) /\ h[s] = f[s]
    <3>1. \A s \in Small(n) : s \in Small(n + 1)
      <4> SUFFICES ASSUME NEW s \in SUBSET S, Cardinality(s) <= n PROVE Cardinality(s) <= n + 1
        OBVIOUS
      <4>1. Cardinality(s) \in Nat
        BY <1>0
      <4> QED
        BY <4>1
    <3>2. \A s \in Small(n) : f[s] = IF s = {} THEN base ELSE step[<<pick[s], f[s \ {pick[s]}]>>]
      <4> HIDE DEF Small
      <4> QED
        BY <2>1, Zenon
    <3> QED
      BY <3>1, <3>2
  <2>4. Meets(h, n + 1)
    <3> HIDE DEF Small
    <3>1. \A s \in Small(n + 1) : s # {} => h[s \ {pick[s]}] = f[s \ {pick[s]}]
      BY <2>2, <2>3
    <3> QED
      BY <3>1
  <2>5. \E g : Meets(g, n + 1)
    <3> HIDE DEF Meets
    <3> QED
      BY <2>4, Zenon
  <2>6. n + 1 \in Nat
    OBVIOUS
  <2> QED
    <3> HIDE DEF Meets
    <3> QED
      BY <2>5, <2>6, Zenon
<1>3. Cardinality(S) \in T
  <2> HIDE DEF T
  <2> QED
    BY <1>1, <1>2, NatSetInduction, FS_CardinalityType
<1>4. Small(Cardinality(S)) = SUBSET S
  BY <1>0
<1> QED
  <2>1. PICK f : Meets(f, Cardinality(S))
    BY <1>3
  <2> HIDE DEF Small
  <2> QED
    BY <1>4, <2>1 DEF FoldsOver

\* And it stays in a set that the base is in and that a step does not leave.
LEMMA TypedFold ==
  ASSUME NEW S, IsFiniteSet(S), NEW V, NEW base \in V, NEW pick, NEW step \in [S \X V -> V],
         \A s \in SUBSET S : s # {} => pick[s] \in s
  PROVE  \E iter \in [SUBSET S -> V] : FoldsOver(iter, S, base, pick, step)
<1>1. PICK iter : FoldsOver(iter, S, base, pick, step)
  BY FoldExists
<1> DEFINE P == {s \in SUBSET S : iter[s] \in V}
<1>2. {} \in P
  BY <1>1 DEF FoldsOver
<1>3. ASSUME NEW s \in SUBSET S, s # {}, \A x \in s : s \ {x} \in P PROVE s \in P
  <2>1. iter[s] = step[<<pick[s], iter[s \ {pick[s]}]>>]
    BY <1>1, <1>3, Zenon DEF FoldsOver
  <2>2. pick[s] \in S /\ iter[s \ {pick[s]}] \in V
    BY <1>3
  <2>3. step[<<pick[s], iter[s \ {pick[s]}]>>] \in V
    BY <2>2
  <2> QED
    BY <2>1, <2>3
<1>4. SUBSET S \subseteq P
  <2> HIDE DEF P
  <2> QED
    BY <1>2, <1>3, SubsetInduction
<1>5. iter = [s \in SUBSET S |-> iter[s]]
  BY <1>1, Zenon DEF FoldsOver
<1>6. iter \in [SUBSET S -> V]
  BY <1>4, <1>5
<1> QED
  BY <1>1, <1>6

\* The greatest of a set of numbers of a sequence's domain is one of them.
LEMMA MaxIsIn ==
  ASSUME NEW n \in Nat, NEW s \in SUBSET (1..n), s # {}
  PROVE  Max(s) \in s /\ \A y \in s : y <= Max(s)
<1> DEFINE T == {n - x : x \in s}
<1>1. T \subseteq Nat /\ T # {}
  <2>1. ASSUME NEW x \in s PROVE n - x \in Nat
    <3>1. x \in 1..n
      OBVIOUS
    <3> QED
      BY <3>1
  <2>2. T \subseteq Nat
    BY <2>1
  <2>3. PICK x \in s : TRUE
    OBVIOUS
  <2>4. n - x \in T
    OBVIOUS
  <2> QED
    BY <2>2, <2>4
<1>2. PICK low \in T : \A m \in T : low <= m
  <2> HIDE DEF T
  <2> QED
    BY <1>1, LeastNatural
<1>3. PICK x \in s : low = n - x
  BY <1>2
<1>4. \A y \in s : x >= y
  <2> SUFFICES ASSUME NEW y \in s PROVE x >= y
    OBVIOUS
  <2>1. n - y \in T
    OBVIOUS
  <2>2. low <= n - y
    BY <1>2, <2>1
  <2> QED
    BY <1>3, <2>2
<1>5. Max(s) \in s /\ \A y \in s : Max(s) >= y
  BY <1>4, Zenon DEF Max
<1> QED
  BY <1>5

LEMMA MaxOfPrefix == ASSUME NEW k \in Nat \ {0} PROVE Max(1..k) = k /\ (1..k) \ {k} = 1..(k - 1)
<1>1. 1..k # {} /\ k \in 1..k /\ (1..k) \ {k} = 1..(k - 1)
  OBVIOUS
<1>2. Max(1..k) \in 1..k /\ \A y \in 1..k : y <= Max(1..k)
  BY <1>1, MaxIsIn
<1> QED
  BY <1>1, <1>2

-----------------------------------------------------------------------------
(* Sums.                                                                   *)

SumOver(f, S) == MapThenSumSet(LAMBDA a : f[a], S)

IsFold(iter, f, S) ==
  iter = [s \in SUBSET S |->
            IF s = {} THEN 0
            ELSE f[CHOOSE x \in s : TRUE] + iter[s \ {CHOOSE x \in s : TRUE}]]

\* Two functions that meet the equation of a sum agree wherever both are defined.
LEMMA FoldsAgree ==
  ASSUME NEW S, IsFiniteSet(S), NEW T \in SUBSET S, NEW f, NEW g, NEW h,
         IsFold(g, f, S), IsFold(h, f, T)
  PROVE  \A s \in SUBSET T : g[s] = h[s]
<1> DEFINE P == {s \in SUBSET T : g[s] = h[s]}
<1>1. {} \in P
  BY DEF IsFold
<1>2. ASSUME NEW s \in SUBSET T, s # {}, \A x \in s : s \ {x} \in P PROVE s \in P
  <2>1. PICK x \in s : x = CHOOSE y \in s : TRUE
    BY <1>2
  <2>2. g[s] = f[x] + g[s \ {x}] /\ h[s] = f[x] + h[s \ {x}]
    <3>1. s \in SUBSET S
      BY <1>2, Zenon
    <3>2. g[s] = f[x] + g[s \ {x}]
      BY <1>2, <2>1, <3>1 DEF IsFold
    <3>3. h[s] = f[x] + h[s \ {x}]
      BY <1>2, <2>1 DEF IsFold
    <3> QED
      BY <3>2, <3>3
  <2>3. g[s \ {x}] = h[s \ {x}]
    BY <1>2, <2>1
  <2> QED
    BY <2>2, <2>3
<1>3. SUBSET T \subseteq P
  <2>1. IsFiniteSet(T)
    BY FS_Subset
  <2> HIDE DEF P
  <2> QED
    BY <1>1, <1>2, <2>1, SubsetInduction
<1> QED
  BY <1>3

\* A sum of naturals is a natural, and the value of a function that meets its equation.
LEMMA SumIsFold ==
  ASSUME NEW S, IsFiniteSet(S), NEW f, \A x \in S : f[x] \in Nat
  PROVE  \E iter \in [SUBSET S -> Nat] : IsFold(iter, f, S) /\ SumOver(f, S) = iter[S]
<1> DEFINE pick == [s \in SUBSET S |-> CHOOSE x \in s : TRUE]
           step == [p \in S \X Nat |-> f[p[1]] + p[2]]
<1>1. \A s \in SUBSET S : s # {} => pick[s] \in s
  OBVIOUS
<1>2. step \in [S \X Nat -> Nat] /\ \A x \in S, v \in Nat : step[<<x, v>>] = f[x] + v
  OBVIOUS
<1>3. PICK iter \in [SUBSET S -> Nat] : FoldsOver(iter, S, 0, pick, step)
  <2> HIDE DEF pick, step
  <2> QED
    BY <1>1, <1>2, TypedFold
<1>4. IsFold(iter, f, S)
  <2>1. ASSUME NEW s \in SUBSET S, s # {}
        PROVE  iter[s] = f[CHOOSE x \in s : TRUE] + iter[s \ {CHOOSE x \in s : TRUE}]
    <3> HIDE DEF pick, step
    <3>1. iter[s] = step[<<pick[s], iter[s \ {pick[s]}]>>]
      BY <1>3, <2>1, Zenon DEF FoldsOver
    <3>2. pick[s] \in S /\ iter[s \ {pick[s]}] \in Nat
      BY <1>1, <2>1
    <3>3. iter[s] = f[pick[s]] + iter[s \ {pick[s]}]
      BY <1>2, <3>1, <3>2
    <3> QED
      BY <3>3 DEF pick
  <2> HIDE DEF pick, step
  <2>2. iter[{}] = 0 /\ iter = [s \in SUBSET S |-> iter[s]]
    BY <1>3 DEF FoldsOver
  <2> QED
    BY <2>1, <2>2, Zenon DEF IsFold
<1>5. SumOver(f, S) = iter[S]
  <2> HIDE DEF pick, step
  <2>1. SumOver(f, S) = (CHOOSE g : IsFold(g, f, S))[S]
    BY DEF SumOver, MapThenSumSet, MapThenFoldSet, IsFold
  <2>2. PICK g : g = (CHOOSE h : IsFold(h, f, S))
    OBVIOUS
  <2>3. IsFold(g, f, S)
    BY <1>4, <2>2, Zenon
  <2>4. g[S] = iter[S]
    BY <1>4, <2>3, FoldsAgree
  <2> QED
    BY <2>1, <2>2, <2>4, Zenon
<1> HIDE DEF pick, step
<1> QED
  BY <1>4, <1>5

\* The sum over nothing.
LEMMA SumEmpty == ASSUME NEW f PROVE SumOver(f, {}) = 0
<1>1. IsFiniteSet({}) /\ {} \in SUBSET {}
  BY FS_EmptySet
<1>2. PICK iter \in [SUBSET {} -> Nat] : IsFold(iter, f, {}) /\ SumOver(f, {}) = iter[{}]
  BY <1>1, SumIsFold
<1> QED
  BY <1>1, <1>2, Zenon DEF IsFold

\* A sum of naturals is a natural.
LEMMA SumType ==
  ASSUME NEW S, IsFiniteSet(S), NEW f, \A x \in S : f[x] \in Nat
  PROVE  SumOver(f, S) \in Nat
<1>1. PICK iter \in [SUBSET S -> Nat] : SumOver(f, S) = iter[S]
  BY SumIsFold
<1>2. S \in SUBSET S
  OBVIOUS
<1> QED
  BY <1>1, <1>2

\* One element of a sum, the one it chooses first, can be taken out of it.
LEMMA SumChosen ==
  ASSUME NEW S, IsFiniteSet(S), S # {}, NEW f, \A x \in S : f[x] \in Nat
  PROVE  \E x \in S : SumOver(f, S) = f[x] + SumOver(f, S \ {x})
<1>1. PICK iter \in [SUBSET S -> Nat] : IsFold(iter, f, S) /\ SumOver(f, S) = iter[S]
  BY SumIsFold
<1>2. PICK x \in S : x = CHOOSE y \in S : TRUE
  OBVIOUS
<1>3. S \in SUBSET S /\ S \ {x} \in SUBSET S
  OBVIOUS
<1>4. iter[S] = f[x] + iter[S \ {x}]
  BY <1>1, <1>2, <1>3, Zenon DEF IsFold
<1>5. PICK part \in [SUBSET (S \ {x}) -> Nat] :
        IsFold(part, f, S \ {x}) /\ SumOver(f, S \ {x}) = part[S \ {x}]
  <2>1. IsFiniteSet(S \ {x}) /\ \A y \in S \ {x} : f[y] \in Nat
    BY FS_RemoveElement
  <2> QED
    BY <2>1, SumIsFold
<1>6. iter[S \ {x}] = part[S \ {x}]
  BY <1>1, <1>3, <1>5, FoldsAgree
<1> QED
  BY <1>1, <1>4, <1>5, <1>6, Zenon

\* A sum does not depend on the order it is taken in.
LEMMA SumRemove ==
  ASSUME NEW S, IsFiniteSet(S), NEW f, \A x \in S : f[x] \in Nat, NEW x \in S
  PROVE  /\ SumOver(f, S \ {x}) \in Nat
         /\ SumOver(f, S) = f[x] + SumOver(f, S \ {x})
<1> DEFINE P == {s \in SUBSET S : \A y \in s : SumOver(f, s) = f[y] + SumOver(f, s \ {y})}
<1>0. \A s \in SUBSET S : SumOver(f, s) \in Nat
  <2> SUFFICES ASSUME NEW s \in SUBSET S PROVE SumOver(f, s) \in Nat
    OBVIOUS
  <2>1. IsFiniteSet(s)
    BY FS_Subset
  <2> QED
    BY <2>1, SumType
<1>1. {} \in P
  OBVIOUS
<1>2. ASSUME NEW s \in SUBSET S, s # {}, \A y \in s : s \ {y} \in P PROVE s \in P
  <2>1. IsFiniteSet(s) /\ \A y \in s : f[y] \in Nat
    BY FS_Subset
  <2>3. PICK c \in s : SumOver(f, s) = f[c] + SumOver(f, s \ {c})
    BY <1>2, <2>1, SumChosen
  <2>4. ASSUME NEW y \in s, y # c PROVE SumOver(f, s) = f[y] + SumOver(f, s \ {y})
    <3>1. s \ {c} \in P /\ s \ {y} \in P /\ y \in s \ {c} /\ c \in s \ {y}
      BY <1>2, <2>4
    <3>2. (s \ {c}) \ {y} = (s \ {y}) \ {c}
      OBVIOUS
    <3>3. SumOver(f, s \ {c}) = f[y] + SumOver(f, (s \ {c}) \ {y})
      BY <3>1, Zenon
    <3>4. SumOver(f, s \ {y}) = f[c] + SumOver(f, (s \ {y}) \ {c})
      BY <3>1, Zenon
    <3>5. SumOver(f, (s \ {c}) \ {y}) \in Nat
      BY <1>0, Zenon
    <3>6. f[c] \in Nat /\ f[y] \in Nat
      BY <2>1, <2>4
    <3>7. SumOver(f, s) = f[c] + (f[y] + SumOver(f, (s \ {c}) \ {y}))
      BY <2>3, <3>3, Zenon
    <3>8. SumOver(f, s \ {y}) = f[c] + SumOver(f, (s \ {c}) \ {y})
      BY <3>2, <3>4, Zenon
    <3> HIDE DEF P
    <3> QED
      BY <3>5, <3>6, <3>7, <3>8
  <2> QED
    BY <2>3, <2>4
<1>3. SUBSET S \subseteq P
  <2> HIDE DEF P
  <2> QED
    BY <1>1, <1>2, SubsetInduction
<1>4. S \in P /\ S \ {x} \in SUBSET S
  BY <1>3
<1> QED
  BY <1>0, <1>4

Upto(f, n) == SumOver(f, 0..(n - 1))

\* The sums over the first n of a sequence of naturals.
LEMMA UptoStep ==
  ASSUME NEW w \in Nat, NEW f \in [0..(w - 1) -> Nat]
  PROVE  /\ Upto(f, 0) = 0
         /\ \A n \in 0..(w - 1) : /\ Upto(f, n) \in Nat /\ f[n] \in Nat
                                  /\ Upto(f, n + 1) = Upto(f, n) + f[n]
<1>1. Upto(f, 0) = 0
  <2>1. 0..(0 - 1) = {}
    OBVIOUS
  <2> QED
    BY <2>1, SumEmpty, Zenon DEF Upto
<1>2. ASSUME NEW n \in 0..(w - 1)
      PROVE  Upto(f, n) \in Nat /\ f[n] \in Nat /\ Upto(f, n + 1) = Upto(f, n) + f[n]
  <2>1. 0..((n + 1) - 1) = 0..n /\ (0..n) \ {n} = 0..(n - 1) /\ n \in 0..n
    OBVIOUS
  <2>2. IsFiniteSet(0..n) /\ f[n] \in Nat
    BY FS_Interval
  <2>3. \A i \in 0..n : f[i] \in Nat
    OBVIOUS
  <2>4. SumOver(f, (0..n) \ {n}) \in Nat /\ SumOver(f, 0..n) = f[n] + SumOver(f, (0..n) \ {n})
    BY <2>1, <2>2, <2>3, SumRemove
  <2>5. Upto(f, n) = SumOver(f, (0..n) \ {n}) /\ Upto(f, n + 1) = SumOver(f, 0..n)
    BY <2>1, Zenon DEF Upto
  <2> QED
    BY <2>2, <2>4, <2>5
<1> QED
  BY <1>1, <1>2

\* They never fall.
LEMMA UptoGrows ==
  ASSUME NEW w \in Nat, NEW f \in [0..(w - 1) -> Nat], NEW n \in 0..w, NEW m \in n..w
  PROVE  Upto(f, n) \in Nat /\ Upto(f, m) \in Nat /\ Upto(f, n) <= Upto(f, m)
<1> DEFINE T == {i \in Nat : Upto(f, i) \in Nat /\ (n <= i => Upto(f, n) <= Upto(f, i))}
<1>1. 0 \in T
  BY UptoStep
<1>2. ASSUME NEW i \in 0..(w - 1), i \in T PROVE i + 1 \in T
  <2>1. Upto(f, i) \in Nat /\ f[i] \in Nat /\ Upto(f, i + 1) = Upto(f, i) + f[i]
    BY UptoStep
  <2>2. n <= i => Upto(f, n) <= Upto(f, i)
    BY <1>2
  <2>3. n = i + 1 \/ n <= i \/ ~ (n <= i + 1)
    OBVIOUS
  <2>4. n <= i + 1 => Upto(f, n) <= Upto(f, i + 1)
    <3>1. CASE n <= i
      <4>1. Upto(f, n) \in Nat
        <5>1. n \in 0..(w - 1)
          BY <3>1
        <5> QED
          BY <5>1, UptoStep
      <4> QED
        BY <2>1, <2>2, <3>1, <4>1
    <3>2. CASE n = i + 1
      BY <2>1, <3>2
    <3> QED
      BY <2>3, <3>1, <3>2
  <2>5. i + 1 \in Nat /\ Upto(f, i + 1) \in Nat
    BY <2>1
  <2> QED
    BY <2>4, <2>5
<1>3. 0..w \subseteq T
  <2> HIDE DEF T
  <2> QED
    BY <1>1, <1>2, BoundedInduction
<1>4. n \in T /\ m \in T /\ n <= m
  <2>1. n \in 0..w /\ m \in 0..w /\ n <= m
    OBVIOUS
  <2> HIDE DEF T
  <2> QED
    BY <1>3, <2>1
<1> QED
  BY <1>4

\* They are raised by one when the first of the sequence is.
LEMMA UptoRaised ==
  ASSUME NEW w \in Nat, NEW f \in [0..(w - 1) -> Nat],
         NEW g \in [0..(w - 1) -> Nat], g = [f EXCEPT ![0] = @ + 1], NEW n \in 1..w
  PROVE  Upto(g, n) = Upto(f, n) + 1
<1> DEFINE T == {i \in Nat : i > 0 => Upto(g, i) = Upto(f, i) + 1}
<1>1. 0 \in T
  OBVIOUS
<1>2. ASSUME NEW i \in 0..(w - 1), i \in T PROVE i + 1 \in T
  <2>1. /\ Upto(f, i) \in Nat /\ f[i] \in Nat /\ Upto(f, i + 1) = Upto(f, i) + f[i]
        /\ Upto(g, i + 1) = Upto(g, i) + g[i]
    <3>1. \A k \in 0..(w - 1) : /\ Upto(f, k) \in Nat /\ f[k] \in Nat
                                /\ Upto(f, k + 1) = Upto(f, k) + f[k]
      BY UptoStep, Zenon
    <3>2. \A k \in 0..(w - 1) : /\ Upto(g, k) \in Nat /\ g[k] \in Nat
                                /\ Upto(g, k + 1) = Upto(g, k) + g[k]
      BY UptoStep, Zenon
    <3> QED
      BY <3>1, <3>2, Zenon
  <2>2. i + 1 \in Nat /\ (i > 0 => Upto(g, i) = Upto(f, i) + 1)
    BY <1>2
  <2>3. CASE i = 0
    <3>1. Upto(f, 0) = 0 /\ Upto(g, 0) = 0
      BY UptoStep
    <3>2. g[i] = f[i] + 1
      BY <2>3
    <3> QED
      BY <2>1, <2>2, <2>3, <3>1, <3>2
  <2>4. CASE i # 0
    <3>1. g[i] = f[i] /\ i > 0
      BY <2>4
    <3> QED
      BY <2>1, <2>2, <3>1
  <2> QED
    BY <2>3, <2>4
<1>3. 0..w \subseteq T
  <2> HIDE DEF T
  <2> QED
    BY <1>1, <1>2, BoundedInduction
<1>4. n \in T /\ n > 0
  <2>1. n \in 0..w /\ n > 0
    OBVIOUS
  <2> HIDE DEF T
  <2> QED
    BY <1>3, <2>1
<1> QED
  BY <1>4

\* They move on by one when the sequence does and a zero takes the first place.
LEMMA UptoShifted ==
  ASSUME NEW w \in Nat, NEW f \in [0..(w - 1) -> Nat], NEW g \in [0..(w - 1) -> Nat],
         \A i \in 0..(w - 1) : g[i] = IF i = 0 THEN 0 ELSE f[i - 1],
         NEW n \in 0..(w - 1)
  PROVE  Upto(g, n + 1) = Upto(f, n)
<1> DEFINE T == {i \in Nat : Upto(g, i + 1) = Upto(f, i)}
<1>1. 0 \in T
  <2>1. 0 \in 0..(w - 1)
    OBVIOUS
  <2>2. g[0] = 0
    BY <2>1
  <2>3. Upto(g, 0) = 0 /\ Upto(f, 0) = 0 /\ Upto(g, 0 + 1) = Upto(g, 0) + g[0]
    BY <2>1, UptoStep
  <2> QED
    BY <2>2, <2>3
<1>2. ASSUME NEW i \in 0..((w - 1) - 1), i \in T PROVE i + 1 \in T
  <2>1. i \in 0..(w - 1) /\ i + 1 \in 0..(w - 1) /\ i + 1 # 0 /\ (i + 1) - 1 = i
    OBVIOUS
  <2>2. /\ Upto(f, i) \in Nat /\ Upto(f, i + 1) = Upto(f, i) + f[i]
        /\ Upto(g, (i + 1) + 1) = Upto(g, i + 1) + g[i + 1]
    BY <2>1, UptoStep
  <2>3. g[i + 1] = f[i]
    BY <2>1, Zenon
  <2>4. Upto(g, i + 1) = Upto(f, i)
    BY <1>2
  <2>5. Upto(g, (i + 1) + 1) = Upto(f, i + 1)
    BY <2>2, <2>3, <2>4, Zenon
  <2> QED
    BY <2>5
<1>3. 0..(w - 1) \subseteq T
  <2>1. w - 1 \in Nat
    OBVIOUS
  <2> HIDE DEF T
  <2> QED
    BY <1>1, <1>2, <2>1, BoundedInduction
<1> QED
  BY <1>3
\* They are zero when the sequence is.
LEMMA UptoNothing ==
  ASSUME NEW w \in Nat, NEW f, f = [i \in 0..(w - 1) |-> 0]
  PROVE  Upto(f, w) = 0
<1> DEFINE T == {i \in Nat : Upto(f, i) = 0}
<1>1. f \in [0..(w - 1) -> Nat] /\ \A i \in 0..(w - 1) : f[i] = 0
  OBVIOUS
<1>2. 0 \in T
  BY <1>1, UptoStep
<1>3. ASSUME NEW i \in 0..(w - 1), i \in T PROVE i + 1 \in T
  <2>1. f[i] = 0 /\ Upto(f, i) = 0 /\ Upto(f, i + 1) = Upto(f, i) + f[i]
    BY <1>1, <1>3, UptoStep
  <2>2. Upto(f, i + 1) = 0
    BY <2>1
  <2> QED
    BY <2>2
<1>4. 0..w \subseteq T
  <2> HIDE DEF T
  <2> QED
    BY <1>2, <1>3, BoundedInduction
<1>5. w \in T
  <2> HIDE DEF T
  <2> QED
    BY <1>4
<1> QED
  BY <1>5
-----------------------------------------------------------------------------
(* A sequence of sequences, flattened.                                     *)

\* The parts joined so far, and the last of them is what FlattenSeq returns.
LEMMA FlattenedInTurn ==
  ASSUME NEW S, NEW seqs \in Seq(Seq(S)), seqs # << >>
  PROVE  \E f \in [1..Len(seqs) -> Seq(S)] :
            /\ FlattenSeq(seqs) = f[Len(seqs)]
            /\ f[1] = seqs[1]
            /\ \A i \in 1..(Len(seqs) - 1) : f[i + 1] = f[i] \o seqs[i + 1]
<1> SUFFICES ASSUME NEW n \in Nat \ {0}, Len(seqs) = n
             PROVE  \E f \in [1..n -> Seq(S)] :
                       /\ FlattenSeq(seqs) = f[n]
                       /\ f[1] = seqs[1]
                       /\ \A i \in 1..(n - 1) : f[i + 1] = f[i] \o seqs[i + 1]
  <2>1. Len(seqs) \in Nat \ {0}
    OBVIOUS
  <2> QED
    BY <2>1, Zenon
<1> DEFINE Meets(f, m) == f = [i \in 1..m |-> IF i = 1 THEN seqs[i] ELSE f[i - 1] \o seqs[i]]
           T == {m \in Nat : \E f : Meets(f, m)}
<1>1. 0 \in T
  <2> DEFINE none == [i \in {} |-> 0]
  <2>1. 1..0 = {}
    OBVIOUS
  <2>2. Meets(none, 0)
    BY <2>1, Zenon
  <2> QED
    BY <2>2
<1>2. ASSUME NEW m \in Nat, m \in T PROVE m + 1 \in T
  <2>1. PICK f : Meets(f, m)
    BY <1>2
  <2> DEFINE g == [i \in 1..(m + 1) |-> IF i = 1 THEN seqs[i] ELSE f[i - 1] \o seqs[i]]
  <2>2. ASSUME NEW i \in 1..m PROVE g[i] = f[i]
    <3>1. f[i] = IF i = 1 THEN seqs[i] ELSE f[i - 1] \o seqs[i]
      BY <2>1, Zenon
    <3>2. i \in 1..(m + 1)
      OBVIOUS
    <3> QED
      BY <3>1, <3>2, Zenon
  <2>3. \A i \in 1..(m + 1) : i = 1 \/ i - 1 \in 1..m
    OBVIOUS
  <2>4. \A i \in 1..(m + 1) : g[i] = IF i = 1 THEN seqs[i] ELSE g[i - 1] \o seqs[i]
    <3> SUFFICES ASSUME NEW i \in 1..(m + 1)
                 PROVE  g[i] = IF i = 1 THEN seqs[i] ELSE g[i - 1] \o seqs[i]
      OBVIOUS
    <3>1. g[i] = IF i = 1 THEN seqs[i] ELSE f[i - 1] \o seqs[i]
      BY Zenon
    <3>2. i # 1 => g[i - 1] = f[i - 1]
      BY <2>2, <2>3, Zenon
    <3> HIDE DEF g
    <3> QED
      BY <3>1, <3>2, Zenon
  <2>5. Meets(g, m + 1)
    <3>1. g = [i \in 1..(m + 1) |-> g[i]]
      BY Zenon
    <3> HIDE DEF g
    <3>2. [i \in 1..(m + 1) |-> g[i]]
            = [i \in 1..(m + 1) |-> IF i = 1 THEN seqs[i] ELSE g[i - 1] \o seqs[i]]
      BY <2>4, Zenon
    <3> QED
      BY <3>1, <3>2, Zenon
  <2>6. \E h : Meets(h, m + 1)
    <3> HIDE DEF g, Meets
    <3> QED
      BY <2>5, Zenon
  <2>7. m + 1 \in Nat
    OBVIOUS
  <2> HIDE DEF Meets
  <2> QED
    BY <2>6, <2>7, Zenon
<1>3. n \in T
  <2> HIDE DEF T
  <2> QED
    BY <1>1, <1>2, NatSetInduction
<1>4. PICK f : f = (CHOOSE g : Meets(g, n)) /\ Meets(f, n)
  <2>1. \E g : Meets(g, n)
    BY <1>3
  <2> HIDE DEF Meets
  <2> QED
    BY <2>1, Zenon
<1>5. FlattenSeq(seqs) = f[n]
  <2>1. Len(seqs) # 0
    OBVIOUS
  <2> QED
    BY <1>4, <2>1, Zenon DEF FlattenSeq
<1>6. /\ f = [i \in 1..n |-> f[i]]
      /\ f[1] = seqs[1]
      /\ \A i \in 1..(n - 1) : f[i + 1] = f[i] \o seqs[i + 1]
  <2>1. f = [i \in 1..n |-> f[i]]
    BY <1>4, Zenon
  <2>2. \A i \in 1..n : f[i] = IF i = 1 THEN seqs[i] ELSE f[i - 1] \o seqs[i]
    BY <1>4, Zenon
  <2>3. 1 \in 1..n /\ \A i \in 1..(n - 1) : i + 1 \in 1..n /\ i + 1 # 1 /\ (i + 1) - 1 = i
    OBVIOUS
  <2> QED
    BY <2>1, <2>2, <2>3, Zenon
<1> DEFINE U == {i \in Nat : i \in 1..n => f[i] \in Seq(S)}
<1>7. 0 \in U
  OBVIOUS
<1>8. ASSUME NEW i \in Nat, i \in U PROVE i + 1 \in U
  <2>1. CASE i = 0
    <3>1. seqs[1] \in Seq(S)
      OBVIOUS
    <3> QED
      BY <1>6, <2>1, <3>1
  <2>2. CASE i \in 1..(n - 1)
    <3>1. f[i] \in Seq(S) /\ seqs[i + 1] \in Seq(S)
      BY <1>8, <2>2
    <3>2. f[i] \o seqs[i + 1] \in Seq(S)
      BY <3>1, ConcatProperties, Zenon
    <3>3. f[i + 1] \in Seq(S)
      BY <1>6, <2>2, <3>2, Zenon
    <3> QED
      BY <3>3
  <2>3. i = 0 \/ i \in 1..(n - 1) \/ i + 1 \notin 1..n
    OBVIOUS
  <2> QED
    BY <2>1, <2>2, <2>3
<1>9. Nat \subseteq U
  <2> HIDE DEF U
  <2> QED
    BY <1>7, <1>8, NatSetInduction
<1>10. \A i \in 1..n : f[i] \in Seq(S)
  BY <1>9
<1>11. f \in [1..n -> Seq(S)]
  BY <1>6, <1>10, Zenon
<1> QED
  BY <1>5, <1>6, <1>11, Zenon

=============================================================================
