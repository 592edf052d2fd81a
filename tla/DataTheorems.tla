----------------------------- MODULE DataTheorems -----------------------------
(***************************************************************************)
(* Facts several proof modules rest on.  Sets of numbers have a least and, *)
(* if finite, a greatest; an element appended to a sequence disturbs no    *)
(* other; and a sum over a finite set, as the modules that count entries   *)
(* take it with MapThenSumSet or SumFunction, adds the elements in the     *)
(* order CHOOSE picks them, on which its total does not depend.            *)
(*                                                                         *)
(* An induction over a set is written as a smallest counterexample.        *)
(***************************************************************************)
EXTENDS Integers, Sequences, FiniteSetsExt, FiniteSetTheorems, SequenceTheorems,
        WellFoundedInduction, TLAPS

(* A set of numbers has a least one. *)
LEMMA LeastExists ==
  ASSUME NEW Bad \in SUBSET Nat, Bad # {}
  PROVE  \E n \in Bad : \A m \in Bad : n <= m
  <1> DEFINE Segments == {0..t : t \in Bad}
  <1>1. Segments \subseteq FiniteSubsetsOf(Nat) /\ Segments # {}
    <2>1. \A t \in Bad : 0..t \in SUBSET Nat /\ IsFiniteSet(0..t)
      BY FS_Interval
    <2> QED BY <2>1 DEF FiniteSubsetsOf
  <1>2. IsWellFoundedOn(StrictSubsetOrdering(Nat), FiniteSubsetsOf(Nat))
    BY FS_StrictSubsetOrderingWellFounded
  <1> HIDE DEF Segments
  <1>3. PICK seg \in Segments :
          \A other \in Segments : <<other, seg>> \notin StrictSubsetOrdering(Nat)
    BY <1>1, <1>2, WFMin, Zenon
  <1>4. PICK t \in Bad : seg = 0..t
    BY <1>3 DEF Segments
  <1>5. ASSUME NEW u \in Bad PROVE t <= u
    <2> SUFFICES ASSUME u < t PROVE FALSE
      OBVIOUS
    <2>1. 0..u \in Segments /\ 0..u \in SUBSET Nat /\ 0..t \in SUBSET Nat
      BY DEF Segments
    <2>2. 0..u \subseteq 0..t /\ 0..u # 0..t
      OBVIOUS
    <2>3. <<0..u, seg>> \in StrictSubsetOrdering(Nat)
      BY <1>4, <2>1, <2>2 DEF StrictSubsetOrdering
    <2> QED BY <1>3, <2>1, <2>3
  <1> QED BY <1>5

(* A set of numbers has a least.                                           *)
LEMMA MinIsIn ==
  ASSUME NEW S \in SUBSET Nat, S # {}
  PROVE  Min(S) \in S /\ \A y \in S : Min(S) <= y
  BY LeastExists DEF Min

(* A bounded set of numbers has a greatest.                                *)
LEMMA MaxIsIn ==
  ASSUME NEW n \in Nat, NEW S \in SUBSET (1..n), S # {}
  PROVE  Max(S) \in S /\ \A y \in S : Max(S) >= y
  <1> DEFINE D == {n - y : y \in S}
  <1>0. \A y \in S : y \in 1..n /\ y \in Nat /\ n - y \in Nat
    OBVIOUS
  <1>1. D \in SUBSET Nat /\ D # {}
    BY <1>0
  <1>2. PICK d \in D : \A e \in D : d <= e
    <2> HIDE DEF D
    <2> QED BY <1>1, LeastExists
  <1>3. PICK x \in S : d = n - x
    BY <1>2
  <1>4. ASSUME NEW y \in S PROVE x >= y
    <2>1. n - y \in D
      OBVIOUS
    <2>2. n - x <= n - y
      BY <1>2, <1>3, <2>1
    <2> QED BY <1>0, <2>2
  <1> QED
    BY <1>4 DEF Max

-----------------------------------------------------------------------------
(* Sequences, whatever they are of.                                        *)

(* A sequence over its own elements: a typing that fixes no type.          *)
IsSequence(s) == s \in Seq(Range(s))

(* A sequence over a set is a sequence.                                    *)
LEMMA TypedIsSequence ==
  ASSUME NEW T, NEW s \in Seq(T)
  PROVE  IsSequence(s)
  BY DEF IsSequence, Range

(* A sequence's places run from one to its length.                         *)
LEMMA SequenceLen ==
  ASSUME NEW s, IsSequence(s)
  PROVE  Len(s) \in Nat /\ DOMAIN s = 1..Len(s)
  BY LenProperties DEF IsSequence

(* A sequence over a set is one over any larger set.                       *)
LEMMA WiderSeq ==
  ASSUME NEW T, NEW s \in Seq(T), NEW U, T \subseteq U
  PROVE  s \in Seq(U)
  OBVIOUS

(* An element appended is the last, and disturbs no other.                 *)
LEMMA AppendIsSequence ==
  ASSUME NEW s, IsSequence(s), NEW e
  PROVE  /\ IsSequence(Append(s, e))
         /\ DOMAIN Append(s, e) = 1..(Len(s) + 1)
         /\ \A i \in DOMAIN Append(s, e) :
               \/ i \in DOMAIN s /\ Append(s, e)[i] = s[i]
               \/ i = Len(s) + 1 /\ Append(s, e)[i] = e
  <1> DEFINE U == Range(s) \cup {e}
  <1>1. s \in Seq(U) /\ e \in U
    BY WiderSeq DEF IsSequence
  <1>2. Len(s) \in Nat /\ DOMAIN s = 1..Len(s)
    BY SequenceLen
  <1> HIDE DEF U
  <1>3. /\ Append(s, e) \in Seq(U)
        /\ Len(Append(s, e)) = Len(s) + 1
        /\ \A i \in 1..Len(s) : Append(s, e)[i] = s[i]
        /\ Append(s, e)[Len(s) + 1] = e
    BY <1>1, AppendProperties
  <1>4. DOMAIN Append(s, e) = 1..(Len(s) + 1)
    BY <1>3, LenProperties
  <1>5. IsSequence(Append(s, e))
    BY <1>3, TypedIsSequence
  <1> DEFINE q == Append(s, e)
  <1>6. \A i \in 1..(Len(s) + 1) : i \in 1..Len(s) \/ i = Len(s) + 1
    BY <1>2
  <1>7. (\A i \in 1..Len(s) : q[i] = s[i]) /\ q[Len(s) + 1] = e
    BY <1>3
  <1>8. DOMAIN q = 1..(Len(s) + 1)
    BY <1>4
  <1> HIDE DEF q
  <1>9. \A i \in DOMAIN q :
           \/ i \in DOMAIN s /\ q[i] = s[i]
           \/ i = Len(s) + 1 /\ q[i] = e
    BY <1>2, <1>6, <1>7, <1>8
  <1> QED
    BY <1>4, <1>5, <1>9 DEF q

-----------------------------------------------------------------------------
(* Sums.                                                                   *)

SumOf(f, S) == MapThenSumSet(LAMBDA x : f[x], S)

First(s) == CHOOSE x \in s : TRUE

(* g adds f up over every subset of S. *)
Adds(g, f, S) ==
    g = [s \in SUBSET S |-> IF s = {} THEN 0 ELSE f[First(s)] + g[s \ {First(s)}]]

(* The element taken first is one of the set.                              *)
LEMMA FirstIsIn ==
  ASSUME NEW s, s # {}
  PROVE  First(s) \in s
  BY DEF First

(* A sum is the value of the function its definition chooses.              *)
LEMMA SumIsChosen ==
  ASSUME NEW f, NEW S
  PROVE  SumOf(f, S) = (CHOOSE g : Adds(g, f, S))[S]
  BY DEF SumOf, MapThenSumSet, MapThenFoldSet, Adds, First

(* Among sets of subsets of a finite set, one contains no other. *)
LEMMA SmallestExists ==
  ASSUME NEW S, IsFiniteSet(S), NEW Bad \in SUBSET (SUBSET S), Bad # {}
  PROVE  \E s \in Bad : \A t \in Bad : t \subseteq s => t = s
  <1>1. Bad \subseteq FiniteSubsetsOf(S)
    BY FS_Subset DEF FiniteSubsetsOf
  <1>2. IsWellFoundedOn(StrictSubsetOrdering(S), FiniteSubsetsOf(S))
    BY FS_StrictSubsetOrderingWellFounded
  <1>3. PICK s \in Bad : \A t \in Bad : <<t, s>> \notin StrictSubsetOrdering(S)
    BY <1>1, <1>2, WFMin, Zenon
  <1>4. \A t \in Bad : t \subseteq s => t = s
    BY <1>3 DEF StrictSubsetOrdering
  <1> QED
    BY <1>4

(* Two functions that add f up agree on the subsets both know.              *)
LEMMA AddsAgree ==
  ASSUME NEW f, NEW S, NEW T, IsFiniteSet(T), T \subseteq S,
         NEW g, Adds(g, f, S), NEW h, Adds(h, f, T)
  PROVE  \A s \in SUBSET T : g[s] = h[s]
  <1> DEFINE Bad == {s \in SUBSET T : g[s] # h[s]}
  <1> SUFFICES ASSUME Bad # {} PROVE FALSE
    OBVIOUS
  <1>0. Bad \in SUBSET (SUBSET T)
    OBVIOUS
  <1>1. PICK s \in Bad : \A t \in Bad : t \subseteq s => t = s
    <2> HIDE DEF Bad
    <2> QED BY <1>0, SmallestExists
  <1>2. /\ g[s] = IF s = {} THEN 0 ELSE f[First(s)] + g[s \ {First(s)}]
        /\ h[s] = IF s = {} THEN 0 ELSE f[First(s)] + h[s \ {First(s)}]
    BY DEF Adds
  <1>3. s # {}
    BY <1>2
  <1>4. First(s) \in s
    BY <1>3, FirstIsIn
  <1>5. s \ {First(s)} \notin Bad
    BY <1>1, <1>4
  <1> QED
    BY <1>2, <1>3, <1>5

(* Any function that satisfies the recursion gives the sum: it has one     *)
(* solution.                                                               *)
LEMMA SumIsSolution ==
  ASSUME NEW f, NEW S, NEW g, Adds(g, f, S), IsFiniteSet(S)
  PROVE  SumOf(f, S) = g[S]
  <1> DEFINE h == CHOOSE k : Adds(k, f, S)
  <1>1. Adds(h, f, S)
    OBVIOUS
  <1>2. SumOf(f, S) = h[S]
    BY SumIsChosen
  <1> HIDE DEF h
  <1>3. h[S] = g[S]
    BY <1>1, AddsAgree
  <1> QED
    BY <1>2, <1>3

(* One step of the sum, where there are functions to read it off.           *)
LEMMA SumStep ==
  ASSUME NEW f, NEW S, IsFiniteSet(S), NEW g, Adds(g, f, S),
         S # {} => \E h : Adds(h, f, S \ {First(S)})
  PROVE  SumOf(f, S) = IF S = {} THEN 0 ELSE f[First(S)] + SumOf(f, S \ {First(S)})
  <1>1. SumOf(f, S) = g[S]
    BY SumIsSolution
  <1>2. g[S] = IF S = {} THEN 0 ELSE f[First(S)] + g[S \ {First(S)}]
    BY DEF Adds
  <1>3. CASE S = {}
    BY <1>1, <1>2, <1>3
  <1>4. CASE S # {}
    <2> DEFINE T == S \ {First(S)}
    <2>1. IsFiniteSet(T) /\ T \subseteq S /\ T \in SUBSET T
      BY FS_Subset
    <2>2. PICK h : Adds(h, f, T)
      BY <1>4
    <2> HIDE DEF T
    <2>3. SumOf(f, T) = h[T]
      BY <2>1, <2>2, SumIsSolution
    <2>4. g[T] = h[T]
      BY <2>1, <2>2, AddsAgree
    <2> QED
      BY <1>1, <1>2, <1>4, <2>3, <2>4 DEF T
  <1> QED
    BY <1>3, <1>4

(* The recursion has a solution over every finite set.                     *)
LEMMA AddsExists ==
  ASSUME NEW f, NEW S, IsFiniteSet(S)
  PROVE  \E g : Adds(g, f, S)
  <1> DEFINE Bad == {s \in SUBSET S : ~ \E g : Adds(g, f, s)}
  <1>0. Bad \in SUBSET (SUBSET S)
    OBVIOUS
  <1> SUFFICES ASSUME Bad # {} PROVE FALSE
    OBVIOUS
  <1>1. PICK T \in Bad : \A t \in Bad : t \subseteq T => t = T
    <2> HIDE DEF Bad
    <2> QED BY <1>0, SmallestExists
  <1>2. T \in SUBSET S /\ ~ \E g : Adds(g, f, T)
    BY <1>1
  <1>3. \A s \in SUBSET T : s # T => \E g : Adds(g, f, s)
    BY <1>1, <1>2
  <1> HIDE DEF Bad
  <1>4. \A s \in SUBSET T : IsFiniteSet(s)
    BY <1>2, FS_Subset
  <1>5. ASSUME NEW s \in SUBSET T, s # T
        PROVE  SumOf(f, s) = IF s = {} THEN 0 ELSE f[First(s)] + SumOf(f, s \ {First(s)})
    <2>1. PICK g : Adds(g, f, s)
      BY <1>3, <1>5
    <2>2. s # {} => \E h : Adds(h, f, s \ {First(s)})
      BY <1>3, <1>5
    <2> QED
      BY <1>4, <2>1, <2>2, SumStep
  <1> DEFINE g == [s \in SUBSET T |->
                     IF s = {} THEN 0 ELSE f[First(s)] + SumOf(f, s \ {First(s)})]
  <1>6. ASSUME NEW s \in SUBSET T, s # {}
        PROVE  g[s] = f[First(s)] + g[s \ {First(s)}]
    <2> DEFINE u == s \ {First(s)}
    <2>1. u \in SUBSET T /\ u # T
      BY <1>6, FirstIsIn
    <2>2. g[u] = SumOf(f, u)
      BY <1>5, <2>1
    <2> QED
      BY <1>6, <2>2
  <1>7. \A s \in SUBSET T :
           g[s] = IF s = {} THEN 0 ELSE f[First(s)] + g[s \ {First(s)}]
    BY <1>6
  <1>8. g = [s \in SUBSET T |-> g[s]]
    OBVIOUS
  <1> HIDE DEF g
  <1>9. Adds(g, f, T)
    BY <1>7, <1>8 DEF Adds
  <1> QED
    BY <1>2, <1>9

(* The sum of nothing is nothing, and one element can be set aside.         *)
LEMMA SumUnfolds ==
  ASSUME NEW f, NEW S, IsFiniteSet(S)
  PROVE  SumOf(f, S) = IF S = {} THEN 0 ELSE f[First(S)] + SumOf(f, S \ {First(S)})
  <1>1. PICK g : Adds(g, f, S)
    BY AddsExists
  <1>2. \E h : Adds(h, f, S \ {First(S)})
    BY AddsExists, FS_Subset
  <1> QED
    BY <1>1, <1>2, SumStep

(* The empty sum is zero.                                                  *)
LEMMA SumEmpty ==
  ASSUME NEW f
  PROVE  SumOf(f, {}) = 0
  BY SumUnfolds, FS_EmptySet

(* A sum of integers is an integer.                                        *)
LEMMA SumIsInt ==
  ASSUME NEW S, IsFiniteSet(S), NEW f, \A x \in S : f[x] \in Int
  PROVE  SumOf(f, S) \in Int
  <1> DEFINE Bad == {s \in SUBSET S : SumOf(f, s) \notin Int}
  <1>0. Bad \in SUBSET (SUBSET S)
    OBVIOUS
  <1> SUFFICES ASSUME Bad # {} PROVE FALSE
    OBVIOUS
  <1>1. PICK T \in Bad : \A t \in Bad : t \subseteq T => t = T
    <2> HIDE DEF Bad
    <2> QED BY <1>0, SmallestExists
  <1>2. IsFiniteSet(T) /\ SumOf(f, T) \notin Int
    BY <1>1, FS_Subset
  <1>3. SumOf(f, T) = IF T = {} THEN 0 ELSE f[First(T)] + SumOf(f, T \ {First(T)})
    BY <1>2, SumUnfolds
  <1>4. T # {} /\ First(T) \in T
    BY <1>2, <1>3, FirstIsIn
  <1>5. SumOf(f, T \ {First(T)}) \in Int
    BY <1>1, <1>4
  <1>6. f[First(T)] \in Int
    BY <1>1, <1>4
  <1> QED
    BY <1>2, <1>3, <1>4, <1>5, <1>6

(* Natural terms, a natural sum. *)
LEMMA SumIsNat ==
  ASSUME NEW S, IsFiniteSet(S), NEW f, \A x \in S : f[x] \in Nat
  PROVE  SumOf(f, S) \in Nat
  <1> DEFINE Bad == {s \in SUBSET S : SumOf(f, s) \notin Nat}
  <1>0. Bad \in SUBSET (SUBSET S)
    OBVIOUS
  <1> SUFFICES ASSUME Bad # {} PROVE FALSE
    OBVIOUS
  <1>1. PICK s \in Bad : \A t \in Bad : t \subseteq s => t = s
    <2> HIDE DEF Bad
    <2> QED BY <1>0, SmallestExists
  <1>2. IsFiniteSet(s)
    BY FS_Subset
  <1>3. SumOf(f, s) = IF s = {} THEN 0 ELSE f[First(s)] + SumOf(f, s \ {First(s)})
    BY <1>2, SumUnfolds
  <1>4. s # {}
    BY <1>3
  <1>5. First(s) \in s
    BY <1>4, FirstIsIn
  <1>6. SumOf(f, s \ {First(s)}) \in Nat
    BY <1>1, <1>5
  <1> QED
    BY <1>3, <1>4, <1>5, <1>6

(* The order does not matter: any element can be the one set aside.         *)
LEMMA SumRemove ==
  ASSUME NEW S, IsFiniteSet(S), NEW f, \A x \in S : f[x] \in Int, NEW e \in S
  PROVE  SumOf(f, S) = f[e] + SumOf(f, S \ {e})
  <1> DEFINE Bad == {s \in SUBSET S : \E x \in s : SumOf(f, s) # f[x] + SumOf(f, s \ {x})}
  <1>0. Bad \in SUBSET (SUBSET S)
    OBVIOUS
  <1> SUFFICES ASSUME Bad # {} PROVE FALSE
    OBVIOUS
  <1>1. PICK T \in Bad : \A t \in Bad : t \subseteq T => t = T
    <2> HIDE DEF Bad
    <2> QED BY <1>0, SmallestExists
  <1>2. PICK x \in T : SumOf(f, T) # f[x] + SumOf(f, T \ {x})
    BY <1>1
  <1>3. \A s \in SUBSET T : s # T =>
           \A y \in s : SumOf(f, s) = f[y] + SumOf(f, s \ {y})
    BY <1>1
  <1>4. T \in SUBSET S
    BY <1>1
  <1> HIDE DEF Bad
  <1> DEFINE c == First(T)
  <1>5. c \in T /\ c # x /\ SumOf(f, T) = f[c] + SumOf(f, T \ {c})
    BY <1>2, <1>4, FirstIsIn, FS_Subset, SumUnfolds
  <1> HIDE DEF c
  <1>6. SumOf(f, T \ {c}) = f[x] + SumOf(f, (T \ {c}) \ {x})
    BY <1>2, <1>3, <1>5
  <1>7. SumOf(f, T \ {x}) = f[c] + SumOf(f, (T \ {x}) \ {c})
    BY <1>2, <1>3, <1>5
  <1>8. (T \ {c}) \ {x} = (T \ {x}) \ {c}
    OBVIOUS
  <1>9. SumOf(f, (T \ {x}) \ {c}) \in Int
    <2>1. (T \ {x}) \ {c} \in SUBSET S
      BY <1>4
    <2>2. IsFiniteSet((T \ {x}) \ {c})
      BY <2>1, FS_Subset
    <2> QED
      BY <2>1, <2>2, SumIsInt
  <1>10. f[x] \in Int /\ f[c] \in Int
    BY <1>2, <1>4, <1>5
  <1>11. \A a, b, k \in Int : a + (b + k) = b + (a + k)
    OBVIOUS
  <1>12. /\ SumOf(f, T) = f[c] + (f[x] + SumOf(f, (T \ {x}) \ {c}))
         /\ SumOf(f, T \ {x}) = f[c] + SumOf(f, (T \ {x}) \ {c})
    BY <1>5, <1>6, <1>7, <1>8, Zenon
  <1>13. f[c] + (f[x] + SumOf(f, (T \ {x}) \ {c}))
           = f[x] + (f[c] + SumOf(f, (T \ {x}) \ {c}))
    BY <1>9, <1>10, <1>11, Zenon
  <1> QED
    BY <1>2, <1>12, <1>13, Zenon

(* Equal terms, equal sums. *)
LEMMA SumEqual ==
  ASSUME NEW S, IsFiniteSet(S), NEW f, NEW g, \A x \in S : f[x] = g[x]
  PROVE  SumOf(f, S) = SumOf(g, S)
  <1> DEFINE Bad == {s \in SUBSET S : SumOf(f, s) # SumOf(g, s)}
  <1>0. Bad \in SUBSET (SUBSET S)
    OBVIOUS
  <1> SUFFICES ASSUME Bad # {} PROVE FALSE
    OBVIOUS
  <1>1. PICK T \in Bad : \A t \in Bad : t \subseteq T => t = T
    <2> HIDE DEF Bad
    <2> QED BY <1>0, SmallestExists
  <1>2. IsFiniteSet(T) /\ SumOf(f, T) # SumOf(g, T)
    BY <1>1, FS_Subset
  <1>3. /\ SumOf(f, T) = IF T = {} THEN 0 ELSE f[First(T)] + SumOf(f, T \ {First(T)})
        /\ SumOf(g, T) = IF T = {} THEN 0 ELSE g[First(T)] + SumOf(g, T \ {First(T)})
    BY <1>2, SumUnfolds
  <1>4. T # {} /\ First(T) \in T
    BY <1>2, <1>3, FirstIsIn
  <1>5. SumOf(f, T \ {First(T)}) = SumOf(g, T \ {First(T)})
    BY <1>1, <1>4
  <1>6. f[First(T)] = g[First(T)]
    BY <1>1, <1>4
  <1> QED
    BY <1>2, <1>3, <1>4, <1>5, <1>6, Zenon

(* A sum over two sets that have nothing in common.                         *)
LEMMA SumDisjoint ==
  ASSUME NEW S, IsFiniteSet(S), NEW T, IsFiniteSet(T), S \cap T = {},
         NEW f, \A x \in S \cup T : f[x] \in Int
  PROVE  SumOf(f, S \cup T) = SumOf(f, S) + SumOf(f, T)
  <1> DEFINE Bad == {t \in SUBSET T : SumOf(f, S \cup t) # SumOf(f, S) + SumOf(f, t)}
  <1>0. Bad \in SUBSET (SUBSET T)
    OBVIOUS
  <1> SUFFICES ASSUME Bad # {} PROVE FALSE
    OBVIOUS
  <1>1. PICK t \in Bad : \A u \in Bad : u \subseteq t => u = t
    <2> HIDE DEF Bad
    <2> QED BY <1>0, SmallestExists
  <1>2. t \in SUBSET T /\ SumOf(f, S \cup t) # SumOf(f, S) + SumOf(f, t)
    BY <1>1
  <1>3. SumOf(f, S) \in Int
    BY SumIsInt
  <1>4. t # {}
    BY <1>2, <1>3, SumEmpty
  <1>5. PICK x : x \in t
    BY <1>4
  <1>6. t \ {x} \notin Bad
    BY <1>1, <1>5
  <1>7. SumOf(f, S \cup (t \ {x})) = SumOf(f, S) + SumOf(f, t \ {x})
    BY <1>2, <1>6
  <1> HIDE DEF Bad
  <1>8. IsFiniteSet(t) /\ IsFiniteSet(S \cup t) /\ IsFiniteSet(t \ {x})
    <2>1. IsFiniteSet(t) /\ IsFiniteSet(t \ {x})
      BY <1>2, FS_Subset
    <2> QED
      BY <2>1, FS_Union
  <1>9. SumOf(f, t) = f[x] + SumOf(f, t \ {x})
    BY <1>2, <1>5, <1>8, SumRemove
  <1>10. SumOf(f, S \cup t) = f[x] + SumOf(f, (S \cup t) \ {x})
    <2>1. \A y \in S \cup t : f[y] \in Int
      BY <1>2
    <2> QED
      BY <1>5, <1>8, <2>1, SumRemove
  <1>11. (S \cup t) \ {x} = S \cup (t \ {x})
    BY <1>2, <1>5
  <1>12. f[x] \in Int /\ SumOf(f, t \ {x}) \in Int
    <2>1. \A y \in t \ {x} : f[y] \in Int
      BY <1>2
    <2> QED
      BY <1>2, <1>5, <1>8, <2>1, SumIsInt
  <1>13. \A a, b, k \in Int : a + (b + k) = b + (a + k)
    OBVIOUS
  <1>14. /\ SumOf(f, S \cup t) = f[x] + (SumOf(f, S) + SumOf(f, t \ {x}))
         /\ SumOf(f, S) + SumOf(f, t) = SumOf(f, S) + (f[x] + SumOf(f, t \ {x}))
    BY <1>7, <1>9, <1>10, <1>11, Zenon
  <1> QED
    BY <1>2, <1>3, <1>12, <1>13, <1>14, Zenon

(* The sum of differences is the difference of the sums.                    *)
LEMMA SumMinus ==
  ASSUME NEW S, IsFiniteSet(S), NEW f, NEW g, NEW d,
         \A x \in S : f[x] \in Int /\ g[x] \in Int /\ d[x] = f[x] - g[x]
  PROVE  SumOf(d, S) = SumOf(f, S) - SumOf(g, S)
  <1> DEFINE Bad == {s \in SUBSET S : SumOf(d, s) # SumOf(f, s) - SumOf(g, s)}
  <1>0. Bad \in SUBSET (SUBSET S)
    OBVIOUS
  <1> SUFFICES ASSUME Bad # {} PROVE FALSE
    OBVIOUS
  <1>1. PICK T \in Bad : \A t \in Bad : t \subseteq T => t = T
    <2> HIDE DEF Bad
    <2> QED BY <1>0, SmallestExists
  <1>2. T \in SUBSET S /\ SumOf(d, T) # SumOf(f, T) - SumOf(g, T)
    BY <1>1
  <1>3. T # {}
    <2>1. 0 = 0 - 0
      OBVIOUS
    <2> QED
      BY <1>2, <2>1, SumEmpty, Zenon
  <1>4. PICK x : x \in T
    BY <1>3
  <1>5. T \ {x} \notin Bad
    BY <1>1, <1>4
  <1>6. SumOf(d, T \ {x}) = SumOf(f, T \ {x}) - SumOf(g, T \ {x})
    BY <1>2, <1>5
  <1> HIDE DEF Bad
  <1>7. IsFiniteSet(T) /\ IsFiniteSet(T \ {x})
    BY <1>2, FS_Subset
  <1>8. /\ \A y \in T : f[y] \in Int /\ g[y] \in Int /\ d[y] \in Int
        /\ \A y \in T \ {x} : f[y] \in Int /\ g[y] \in Int
    BY <1>2
  <1>9. /\ SumOf(f, T) = f[x] + SumOf(f, T \ {x})
        /\ SumOf(g, T) = g[x] + SumOf(g, T \ {x})
        /\ SumOf(d, T) = d[x] + SumOf(d, T \ {x})
    BY <1>4, <1>7, <1>8, SumRemove
  <1>10. SumOf(f, T \ {x}) \in Int /\ SumOf(g, T \ {x}) \in Int
    BY <1>7, <1>8, SumIsInt
  <1>11. f[x] \in Int /\ g[x] \in Int /\ d[x] = f[x] - g[x]
    BY <1>2, <1>4
  <1>13. SumOf(d, T) = (f[x] - g[x]) + (SumOf(f, T \ {x}) - SumOf(g, T \ {x}))
    BY <1>6, <1>9, <1>11, Zenon
  <1>14. (f[x] - g[x]) + (SumOf(f, T \ {x}) - SumOf(g, T \ {x}))
           = (f[x] + SumOf(f, T \ {x})) - (g[x] + SumOf(g, T \ {x}))
    BY <1>10, <1>11
  <1> QED
    BY <1>2, <1>9, <1>13, <1>14, Zenon

(* Larger terms, a larger sum. *)
LEMMA SumMonotone ==
  ASSUME NEW S, IsFiniteSet(S), NEW f, NEW g,
         \A x \in S : f[x] \in Int /\ g[x] \in Int /\ f[x] <= g[x]
  PROVE  SumOf(f, S) <= SumOf(g, S)
  <1> DEFINE Bad == {s \in SUBSET S : ~(SumOf(f, s) <= SumOf(g, s))}
  <1>0. Bad \in SUBSET (SUBSET S)
    OBVIOUS
  <1> SUFFICES ASSUME Bad # {} PROVE FALSE
    OBVIOUS
  <1>1. PICK T \in Bad : \A t \in Bad : t \subseteq T => t = T
    <2> HIDE DEF Bad
    <2> QED BY <1>0, SmallestExists
  <1>2. T \in SUBSET S /\ ~(SumOf(f, T) <= SumOf(g, T))
    BY <1>1
  <1>3. T # {}
    BY <1>2, SumEmpty
  <1>4. PICK x : x \in T
    BY <1>3
  <1>5. T \ {x} \notin Bad
    BY <1>1, <1>4
  <1>6. SumOf(f, T \ {x}) <= SumOf(g, T \ {x})
    BY <1>2, <1>5
  <1> HIDE DEF Bad
  <1>7. IsFiniteSet(T) /\ IsFiniteSet(T \ {x})
    BY <1>2, FS_Subset
  <1>8. /\ \A y \in T : f[y] \in Int /\ g[y] \in Int
        /\ \A y \in T \ {x} : f[y] \in Int /\ g[y] \in Int
    BY <1>2
  <1>9. /\ SumOf(f, T) = f[x] + SumOf(f, T \ {x})
        /\ SumOf(g, T) = g[x] + SumOf(g, T \ {x})
    BY <1>4, <1>7, <1>8, SumRemove
  <1>10. SumOf(f, T \ {x}) \in Int /\ SumOf(g, T \ {x}) \in Int
    BY <1>7, <1>8, SumIsInt
  <1>11. f[x] \in Int /\ g[x] \in Int /\ f[x] <= g[x]
    BY <1>2, <1>4
  <1>12. \A a, b, k, l \in Int : a <= b /\ k <= l => a + k <= b + l
    OBVIOUS
  <1>13. f[x] + SumOf(f, T \ {x}) <= g[x] + SumOf(g, T \ {x})
    BY <1>6, <1>10, <1>11, <1>12, Zenon
  <1> QED
    BY <1>2, <1>9, <1>13, Zenon

(* A sum taken over other names for the same elements.                      *)
LEMMA SumRenamed ==
  ASSUME NEW S, IsFiniteSet(S), NEW T, IsFiniteSet(T), NEW h \in [S -> T],
         \A x, y \in S : h[x] = h[y] => x = y, \A y \in T : \E x \in S : h[x] = y,
         NEW f, NEW g, \A x \in S : f[x] = g[h[x]], \A y \in T : g[y] \in Int
  PROVE  SumOf(f, S) = SumOf(g, T)
  <1> DEFINE Image(s) == {h[x] : x \in s}
             Bad == {s \in SUBSET S : SumOf(f, s) # SumOf(g, Image(s))}
  <1>0. Bad \in SUBSET (SUBSET S)
    OBVIOUS
  <1>1. ASSUME Bad # {} PROVE FALSE
    <2>1. PICK s \in Bad : \A t \in Bad : t \subseteq s => t = s
      <3> HIDE DEF Bad
      <3> QED BY <1>0, <1>1, SmallestExists
    <2>2. s \in SUBSET S /\ SumOf(f, s) # SumOf(g, Image(s))
      BY <2>1
    <2>3. s # {}
      <3>1. SUFFICES ASSUME s = {} PROVE FALSE
        OBVIOUS
      <3>2. Image(s) = {}
        BY <3>1
      <3> QED
        BY <2>2, <3>1, <3>2, SumEmpty
    <2>4. PICK x : x \in s
      BY <2>3
    <2>5. s \ {x} \notin Bad
      BY <2>1, <2>4
    <2>6. SumOf(f, s \ {x}) = SumOf(g, Image(s \ {x}))
      BY <2>2, <2>5
    <2> HIDE DEF Bad
    <2>7. Image(s \ {x}) = Image(s) \ {h[x]}
      BY <2>2, <2>4
    <2>8. Image(s) \in SUBSET T /\ h[x] \in Image(s)
      BY <2>2, <2>4
    <2>9. IsFiniteSet(s) /\ IsFiniteSet(Image(s))
      BY <2>2, <2>8, FS_Subset
    <2>10. SumOf(g, Image(s)) = g[h[x]] + SumOf(g, Image(s) \ {h[x]})
      BY <2>8, <2>9, SumRemove
    <2>11. SumOf(f, s) = f[x] + SumOf(f, s \ {x})
      <3>1. \A y \in s : f[y] \in Int
        BY <2>2
      <3> QED
        BY <2>4, <2>9, <3>1, SumRemove
    <2>12. f[x] = g[h[x]]
      BY <2>2, <2>4
    <2> QED
      BY <2>2, <2>6, <2>7, <2>10, <2>11, <2>12, Zenon
  <1>2. S \notin Bad
    BY <1>1
  <1>3. Image(S) = T
    OBVIOUS
  <1> QED
    BY <1>2, <1>3
(* One term changes by so much, and the sum with it.                        *)
LEMMA SumChange ==
  ASSUME NEW S, IsFiniteSet(S), NEW f, NEW g, NEW e \in S,
         \A x \in S : f[x] \in Int /\ g[x] \in Int,
         \A x \in S : x # e => g[x] = f[x]
  PROVE  SumOf(g, S) - g[e] = SumOf(f, S) - f[e]
  <1>1. IsFiniteSet(S \ {e})
    BY FS_Subset
  <1>2. SumOf(g, S \ {e}) = SumOf(f, S \ {e})
    BY <1>1, SumEqual
  <1>3. SumOf(f, S) = f[e] + SumOf(f, S \ {e}) /\ SumOf(g, S) = g[e] + SumOf(g, S \ {e})
    BY SumRemove
  <1>4. SumOf(f, S \ {e}) \in Int
    <2>1. \A x \in S \ {e} : f[x] \in Int
      OBVIOUS
    <2> QED
      BY <1>1, <2>1, SumIsInt
  <1>5. f[e] \in Int /\ g[e] \in Int
    OBVIOUS
  <1>6. \A a, b, k \in Int : (b + k) - b = (a + k) - a
    OBVIOUS
  <1>7. (g[e] + SumOf(f, S \ {e})) - g[e] = (f[e] + SumOf(f, S \ {e})) - f[e]
    BY <1>4, <1>5, <1>6, Zenon
  <1> QED
    BY <1>2, <1>3, <1>7, Zenon

(* The sum of sums is the sum of the terms' sums.                          *)
LEMMA SumPlus ==
  ASSUME NEW S, IsFiniteSet(S), NEW f, NEW g, NEW d,
         \A x \in S : f[x] \in Int /\ g[x] \in Int /\ d[x] = f[x] + g[x]
  PROVE  SumOf(d, S) = SumOf(f, S) + SumOf(g, S)
  <1>1. \A x \in S : d[x] \in Int /\ g[x] \in Int /\ f[x] = d[x] - g[x]
    OBVIOUS
  <1>2. SumOf(f, S) = SumOf(d, S) - SumOf(g, S)
    BY <1>1, SumMinus
  <1>3. SumOf(d, S) \in Int /\ SumOf(g, S) \in Int
    BY <1>1, SumIsInt
  <1> QED
    BY <1>2, <1>3

(* No term of a natural sum exceeds it.                                    *)
LEMMA SumAtLeast ==
  ASSUME NEW S, IsFiniteSet(S), NEW f, \A x \in S : f[x] \in Nat, NEW e \in S
  PROVE  f[e] <= SumOf(f, S)
  <1>1. SumOf(f, S) = f[e] + SumOf(f, S \ {e})
    BY SumRemove
  <1>2. SumOf(f, S \ {e}) \in Nat
    BY FS_Subset, SumIsNat
  <1> QED
    BY <1>1, <1>2

(* Of finitely many numbers one is the greatest.                           *)
LEMMA TopExists ==
  ASSUME NEW S, IsFiniteSet(S), S # {}, NEW f, \A x \in S : f[x] \in Nat
  PROVE  \E x \in S : \A y \in S : f[y] <= f[x]
  <1> DEFINE n == SumOf(f, S)
             D == {n - f[x] : x \in S}
  <1>1. n \in Nat /\ \A x \in S : f[x] <= n
    BY SumIsNat, SumAtLeast
  <1> HIDE DEF n
  <1>2. D \in SUBSET Nat /\ D # {}
    BY <1>1
  <1>3. PICK d \in D : \A e \in D : d <= e
    <2> HIDE DEF D
    <2> QED BY <1>2, LeastExists
  <1>4. PICK x \in S : d = n - f[x]
    BY <1>3
  <1>5. \A y \in S : n - f[x] <= n - f[y]
    BY <1>3, <1>4
  <1> QED BY <1>1, <1>5

(* However high a rank, up to the size of the sample, some value of it     *)
(* has as many values up to it.                                            *)
LEMMA RankIsTaken ==
  ASSUME NEW D, IsFiniteSet(D), D # {}, NEW f, \A x \in D : f[x] \in Nat,
         NEW k \in Int, k <= Cardinality(D)
  PROVE  \E x \in D : Cardinality({y \in D : f[y] <= f[x]}) >= k
  <1>1. PICK x \in D : \A y \in D : f[y] <= f[x]
    BY TopExists
  <1>2. {y \in D : f[y] <= f[x]} = D
    BY <1>1
  <1>3. Cardinality(D) \in Nat
    BY FS_CardinalityType
  <1> QED BY <1>2, <1>3

(* A sum taken group by group.                                             *)
LEMMA SumByGroup ==
  ASSUME NEW S, IsFiniteSet(S), NEW I, IsFiniteSet(I), NEW h, \A x \in S : h[x] \in I,
         NEW f, \A x \in S : f[x] \in Int
  PROVE  SumOf(f, S) = SumOf([i \in I |-> SumOf(f, {x \in S : h[x] = i})], I)
  <1> DEFINE Group(i) == {x \in S : h[x] = i}
             Of(J) == {x \in S : h[x] \in J}
             g == [i \in I |-> SumOf(f, Group(i))]
             Bad == {J \in SUBSET I : SumOf(f, Of(J)) # SumOf(g, J)}
  <1>0. Bad \in SUBSET (SUBSET I)
    OBVIOUS
  <1>1. ASSUME Bad # {} PROVE FALSE
    <2>1. PICK J \in Bad : \A k \in Bad : k \subseteq J => k = J
      <3> HIDE DEF Bad
      <3> QED BY <1>0, <1>1, SmallestExists
    <2>2. J \in SUBSET I /\ SumOf(f, Of(J)) # SumOf(g, J)
      BY <2>1
    <2>3. J # {}
      <3>1. SUFFICES ASSUME J = {} PROVE FALSE
        OBVIOUS
      <3>2. Of(J) = {}
        BY <3>1
      <3> QED
        BY <2>2, <3>1, <3>2, SumEmpty
    <2>4. PICK i : i \in J
      BY <2>3
    <2>5. J \ {i} \notin Bad
      BY <2>1, <2>4
    <2>6. SumOf(f, Of(J \ {i})) = SumOf(g, J \ {i})
      BY <2>2, <2>5
    <2> HIDE DEF Bad
    <2>7. /\ Of(J) = Group(i) \cup Of(J \ {i})
          /\ Group(i) \cap Of(J \ {i}) = {}
          /\ Group(i) \in SUBSET S /\ Of(J \ {i}) \in SUBSET S
      BY <2>4
    <2>8. \A k \in I : SumOf(f, Group(k)) \in Int
      <3> TAKE k \in I
      <3>1. IsFiniteSet(Group(k))
        BY FS_Subset
      <3>2. \A x \in Group(k) : f[x] \in Int
        OBVIOUS
      <3> HIDE DEF Group
      <3> QED BY <3>1, <3>2, SumIsInt
    <2>9. SumOf(f, Of(J)) = SumOf(f, Group(i)) + SumOf(f, Of(J \ {i}))
      <3>1. IsFiniteSet(Group(i)) /\ IsFiniteSet(Of(J \ {i}))
        BY <2>7, FS_Subset
      <3>2. \A x \in Group(i) \cup Of(J \ {i}) : f[x] \in Int
        BY <2>7
      <3>3. Group(i) \cap Of(J \ {i}) = {} /\ Of(J) = Group(i) \cup Of(J \ {i})
        BY <2>7
      <3>4. SumOf(f, Group(i) \cup Of(J \ {i})) = SumOf(f, Group(i)) + SumOf(f, Of(J \ {i}))
        <4> HIDE DEF Group, Of
        <4> QED BY <3>1, <3>2, <3>3, SumDisjoint
      <3> QED BY <3>3, <3>4, Zenon
    <2>10. SumOf(g, J) = g[i] + SumOf(g, J \ {i})
      <3>1. IsFiniteSet(J) /\ \A k \in J : g[k] \in Int
        BY <2>2, <2>8, FS_Subset
      <3> HIDE DEF g
      <3> QED BY <2>4, <3>1, SumRemove
    <2>11. g[i] = SumOf(f, Group(i))
      BY <2>2, <2>4
    <2> QED
      BY <2>2, <2>6, <2>9, <2>10, <2>11, Zenon
  <1>2. I \notin Bad
    BY <1>1
  <1>3. Of(I) = S
    OBVIOUS
  <1>4. SumOf(f, S) = SumOf(g, I)
    <2> HIDE DEF g, Of
    <2> QED BY <1>2, <1>3
  <1> QED
    BY <1>4

(* The sum the library takes of a whole function is the same one.          *)
LEMMA SumOfFunction ==
  ASSUME NEW f
  PROVE  SumFunction(f) = SumOf(f, DOMAIN f)
  BY DEF SumOf, MapThenSumSet, MapThenFoldSet, SumFunction, SumFunctionOnSet, FoldFunctionOnSet

=============================================================================
