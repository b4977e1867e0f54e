----------------------------- MODULE BoundedSets -----------------------------
(***************************************************************************)
(* Facts about sets of natural numbers and about finite sets: the CHOOSE   *)
(* of a least or a greatest element in the specifications has a value, and *)
(* so has a fold over a finite set; sums do not depend on their order; a   *)
(* recursion over the first numbers has a function.                        *)
(***************************************************************************)
EXTENDS Integers, FiniteSetsExt, WellFoundedInduction, FiniteSetTheorems, FunctionTheorems, TLAPS

(* A set of natural numbers that is not empty has a least element.         *)
LEMMA LeastExists ==
    ASSUME NEW T, T \subseteq Nat, T # {}
    PROVE  \E x \in T : \A y \in T : x <= y
<1> DEFINE R == OpToRel(<, Nat)
<1>1. IsWellFoundedOn(R, Nat)
    BY NatLessThanWellFounded
<1>2. PICK x \in T : \A y \in T : ~(<<y, x>> \in R)
    BY <1>1, WFMin
<1>3. ASSUME NEW y \in T PROVE x <= y
  <2>1. x \in Nat /\ y \in Nat
    OBVIOUS
  <2>2. y < x => <<y, x>> \in R
    BY <2>1 DEF OpToRel
  <2>3. ~(y < x)
    <3> HIDE DEF R
    <3> QED BY <1>2, <2>2
  <2> QED BY <2>1, <2>3
<1> QED BY <1>3

(* A bounded one has a greatest element: its least upper bound.            *)
LEMMA GreatestExists ==
    ASSUME NEW n \in Nat, NEW S, S \subseteq 0..n, S # {}
    PROVE  \E x \in S : \A y \in S : y <= x
<1> DEFINE U == {u \in Nat : \A y \in S : y <= u}
<1>1. n \in U
    OBVIOUS
<1>2. PICK u \in U : \A v \in U : u <= v
    BY <1>1, LeastExists
<1>3. u \in S
  <2> SUFFICES ASSUME u \notin S PROVE FALSE
    OBVIOUS
  <2>1. \A y \in S : y \in Nat /\ y <= u /\ y # u
    OBVIOUS
  <2>2. \A y \in S : y <= u - 1
    BY <2>1
  <2>3. PICK y \in S : TRUE
    OBVIOUS
  <2>4. u \in Nat /\ y \in Nat /\ y <= u - 1
    BY <2>1, <2>2
  <2>5. u - 1 \in Nat
    BY <2>4
  <2>6. u - 1 \in U
    BY <2>2, <2>5
  <2>7. u <= u - 1
    BY <2>6, <1>2
  <2> QED BY <2>4, <2>7
<1> QED BY <1>3

(* Max of a bounded set of numbers is its greatest element.                *)
LEMMA MaxOf ==
    ASSUME NEW n \in Nat, NEW S, S \subseteq 0 .. n, S # {}
    PROVE  Max(S) \in S /\ \A y \in S : y <= Max(S)
<1>1. \E x \in S : \A y \in S : y <= x
  BY GreatestExists
<1>2. S \subseteq Int
  OBVIOUS
<1>3. \E x \in S : \A y \in S : x >= y
  BY <1>1, <1>2
<1>4. Max(S) \in S /\ \A y \in S : Max(S) >= y
  BY <1>3 DEF Max
<1> QED BY <1>2, <1>4

(* Of finite sets, some has the least number of elements.                  *)
LEMMA SmallestSet ==
    ASSUME NEW C, C # {}, \A s \in C : IsFiniteSet(s)
    PROVE  \E s \in C : \A u \in C : Cardinality(s) <= Cardinality(u)
<1> DEFINE T == {Cardinality(s) : s \in C}
<1>1. T \subseteq Nat /\ T # {}
    BY FS_CardinalityType
<1>2. PICK n \in T : \A m \in T : n <= m
    BY <1>1, LeastExists
<1> QED BY <1>2

(* One step of a fold: the function F of a set's subsets is given by its   *)
(* values for smaller ones.                                                *)
FoldStep(S, F, b, pick, op) ==
    F = [s \in SUBSET S |-> IF s = {} THEN b ELSE op[<<pick[s], F[s \ {pick[s]}]>>]]
Picks(S, pick) == \A s \in SUBSET S : s # {} => pick[s] \in s

(* A fold over a finite set exists.                                        *)
LEMMA FoldExists ==
    ASSUME NEW S, IsFiniteSet(S), NEW D, NEW b \in D, NEW pick, Picks(S, pick),
           NEW op \in [S \X D -> D]
    PROVE  \E F \in [SUBSET S -> D] : FoldStep(S, F, b, pick, op)
<1> DEFINE Upto(n)   == {s \in SUBSET S : Cardinality(s) <= n}
           Value(g, s) == IF s = {} THEN b ELSE op[<<pick[s], g[s \ {pick[s]}]>>]
           Good(n, g) == g \in [Upto(n) -> D] /\ \A s \in Upto(n) : g[s] = Value(g, s)
           Bad        == {n \in Nat : ~ \E g : Good(n, g)}
<1>1. \A s \in SUBSET S : /\ IsFiniteSet(s) /\ Cardinality(s) \in Nat
                          /\ Cardinality(s) <= Cardinality(S)
                          /\ Cardinality(s) = 0 <=> s = {}
    BY FS_Subset, FS_CardinalityType, FS_EmptySet
<1>2. ASSUME NEW s \in SUBSET S, s # {}
      PROVE  /\ pick[s] \in S /\ s \ {pick[s]} \in SUBSET S
             /\ Cardinality(s \ {pick[s]}) = Cardinality(s) - 1
  <2>1. pick[s] \in s
    BY <1>2 DEF Picks
  <2> QED BY <2>1, <1>1, FS_RemoveElement
<1>3. Bad = {}
  <2> SUFFICES ASSUME Bad # {} PROVE FALSE
    OBVIOUS
  <2>1. PICK m \in Bad : \A n \in Bad : m <= n
    BY LeastExists
  <2>2. m # 0
    <3>2. Upto(0) = {{}}
      BY <1>1, FS_EmptySet
    <3>3. Good(0, [s \in Upto(0) |-> b])
      BY <3>2
    <3>4. 0 \notin Bad
      <4> HIDE DEF Good
      <4> QED BY <3>3
    <3> QED BY <3>4
  <2>3. m - 1 \in Nat /\ m - 1 \notin Bad
    <3>1. m \in Nat
      OBVIOUS
    <3> HIDE DEF Bad
    <3> QED BY <3>1, <2>1, <2>2
  <2>4. PICK g : Good(m - 1, g)
    BY <2>3
  <2> DEFINE h == [s \in Upto(m) |-> Value(g, s)]
  <2>5. \A s \in Upto(m) : s # {} => pick[s] \in S /\ s \ {pick[s]} \in Upto(m - 1)
    BY <1>1, <1>2, <2>3
  <2>6. h \in [Upto(m) -> D]
    <3> SUFFICES ASSUME NEW s \in Upto(m) PROVE Value(g, s) \in D
      OBVIOUS
    <3>1. CASE s = {}
      BY <3>1
    <3>2. CASE s # {}
      <4>1. g[s \ {pick[s]}] \in D
        BY <3>2, <2>4, <2>5
      <4>2. <<pick[s], g[s \ {pick[s]}]>> \in S \X D
        BY <4>1, <2>5, <3>2
      <4> QED BY <4>2, <3>2
    <3> QED BY <3>1, <3>2
  <2>7. \A s \in Upto(m - 1) : s \in Upto(m) /\ g[s] = h[s]
    BY <1>1, <2>3, <2>4
  <2>8. ASSUME NEW s \in Upto(m) PROVE h[s] = Value(h, s)
    <3>1. CASE s = {}
      BY <3>1
    <3>2. CASE s # {}
      BY <3>2, <2>5, <2>7
    <3> QED BY <3>1, <3>2
  <2>9. Good(m, h)
    <3> HIDE DEF h, Value
    <3> QED BY <2>6, <2>8
  <2> QED BY <2>9, <2>1
<1>4. PICK g : Good(Cardinality(S), g)
    BY <1>1, <1>3
<1>5. Upto(Cardinality(S)) = SUBSET S
    BY <1>1
<1>6. g \in [SUBSET S -> D] /\ \A s \in SUBSET S : g[s] = Value(g, s)
    BY <1>4, <1>5
<1> QED BY <1>6 DEF FoldStep

(* The sum of a function over a finite set.                                *)
SumOver(f, S) == MapThenSumSet(LAMBDA v : f[v], S)
Some(s) == CHOOSE x \in s : TRUE
IsSum(F, V, f) ==
    /\ F \in [SUBSET V -> Nat]
    /\ F[{}] = 0
    /\ \A s \in SUBSET V : s # {} => F[s] = f[Some(s)] + F[s \ {Some(s)}]
    /\ \A s \in SUBSET V : SumOver(f, s) = F[s]

(* It is a fold that takes the elements in the order of CHOOSE.            *)
LEMMA SumIsFold ==
    ASSUME NEW V, IsFiniteSet(V), NEW f \in [V -> Nat]
    PROVE  \E F : IsSum(F, V, f)
<1> DEFINE pick == [s \in SUBSET V |-> Some(s)]
           op == [p \in V \X Nat |-> f[p[1]] + p[2]]
<1>1. Picks(V, pick)
    BY DEF Picks, Some
<1>2. op \in [V \X Nat -> Nat]
    OBVIOUS
<1>3. PICK F \in [SUBSET V -> Nat] : FoldStep(V, F, 0, pick, op)
  <2> HIDE DEF pick, op
  <2> QED BY <1>1, <1>2, FoldExists
<1>4. ASSUME NEW s \in SUBSET V, s # {}
      PROVE  /\ Some(s) \in s /\ Some(s) \in V /\ pick[s] = Some(s)
             /\ \A n \in Nat : op[<<pick[s], n>>] = f[Some(s)] + n
  <2>1. Some(s) \in s
    BY <1>4 DEF Some
  <2> QED BY <2>1
<1>5. ASSUME NEW s \in SUBSET V, s # {}
      PROVE  F[s] = f[Some(s)] + F[s \ {Some(s)}]
  <2>1. F[s] = op[<<pick[s], F[s \ {pick[s]}]>>]
    BY <1>3, <1>5 DEF FoldStep
  <2> QED BY <2>1, <1>4, <1>5
<1>6. F[{}] = 0
    BY <1>3 DEF FoldStep
<1>7. ASSUME NEW S \in SUBSET V PROVE SumOver(f, S) = F[S]
  <2> DEFINE Sums(G) == G = [s \in SUBSET S |-> IF s = {} THEN 0
                                 ELSE LET x == CHOOSE x \in s : TRUE IN f[x] + G[s \ {x}]]
             G == CHOOSE G : Sums(G)
  <2>1. SumOver(f, S) = G[S]
    BY DEF SumOver, MapThenSumSet, MapThenFoldSet
  <2>2. Sums([s \in SUBSET S |-> F[s]])
    <3> DEFINE H == [s \in SUBSET S |-> F[s]]
    <3>1. ASSUME NEW s \in SUBSET S, s # {}
          PROVE  H[s] = f[Some(s)] + H[s \ {Some(s)}]
      BY <3>1, <1>5
    <3>2. H[{}] = 0
      BY <1>6
    <3>3. H = [s \in SUBSET S |-> H[s]]
      OBVIOUS
    <3> HIDE DEF H
    <3>4. H = [s \in SUBSET S |-> IF s = {} THEN 0
                                 ELSE LET x == CHOOSE x \in s : TRUE IN f[x] + H[s \ {x}]]
      BY <3>1, <3>2, <3>3 DEF Some
    <3> QED BY <3>4 DEF H
  <2>3. Sums(G)
    <3> HIDE DEF Sums
    <3> QED BY <2>2
  <2>4. \A s \in SUBSET S : G[s] = IF s = {} THEN 0 ELSE f[Some(s)] + G[s \ {Some(s)}]
    <3> HIDE DEF G
    <3> QED BY <2>3 DEF Some
  <2> HIDE DEF G, Sums
  <2> DEFINE C == {s \in SUBSET S : F[s] # G[s]}
  <2> SUFFICES ASSUME C # {} PROVE FALSE
    BY <2>1
  <2>5. \A s \in SUBSET S : IsFiniteSet(s) /\ Cardinality(s) \in Nat
    BY FS_Subset, FS_CardinalityType
  <2>6. PICK s \in C : \A u \in C : Cardinality(s) <= Cardinality(u)
    BY <2>5, SmallestSet
  <2>7. s # {}
    BY <2>4, <1>6
  <2>8. Some(s) \in s /\ s \ {Some(s)} \in SUBSET S
    BY <2>7, <1>4
  <2>9. Cardinality(s \ {Some(s)}) = Cardinality(s) - 1
    BY <2>5, <2>8, FS_RemoveElement
  <2>10. s \ {Some(s)} \notin C
    <3>1. Cardinality(s) \in Nat
      BY <2>5
    <3> HIDE DEF C
    <3> QED BY <3>1, <2>6, <2>9
  <2> QED BY <2>4, <2>7, <2>8, <2>10, <1>5
<1> QED BY <1>5, <1>6, <1>7 DEF IsSum

(* The sum without an element, and without any.                            *)
LEMMA SumAdds ==
    ASSUME NEW V, IsFiniteSet(V), NEW f \in [V -> Nat], NEW S \in SUBSET V
    PROVE  /\ SumOver(f, S) \in Nat
           /\ SumOver(f, {}) = 0
           /\ \A v \in V \ S : SumOver(f, S \cup {v}) = SumOver(f, S) + f[v]
<1>0. PICK F : IsSum(F, V, f)
    BY SumIsFold
<1>1. /\ F \in [SUBSET V -> Nat]
      /\ F[{}] = 0
      /\ \A s \in SUBSET V : s # {} => F[s] = f[Some(s)] + F[s \ {Some(s)}]
      /\ \A s \in SUBSET V : SumOver(f, s) = F[s]
    BY <1>0 DEF IsSum
<1> DEFINE Adds(s) == \A v \in V \ s : F[s \cup {v}] = F[s] + f[v]
           C == {s \in SUBSET V : ~Adds(s)}
<1> SUFFICES ASSUME C # {} PROVE FALSE
  <2> SUFFICES ASSUME Adds(S), NEW v \in V \ S
               PROVE SumOver(f, S \cup {v}) = SumOver(f, S) + f[v]
    BY <1>1
  <2> QED BY <1>1
<1>2. \A s \in SUBSET V : IsFiniteSet(s) /\ Cardinality(s) \in Nat
    BY FS_Subset, FS_CardinalityType
<1>3. PICK s \in C : \A u \in C : Cardinality(s) <= Cardinality(u)
    BY <1>2, SmallestSet
<1> PICK v \in V \ s : F[s \cup {v}] # F[s] + f[v]
    OBVIOUS
<1> DEFINE A == s \cup {v}
           x == Some(A)
           rest == s \ {x}
<1>4. A \in SUBSET V /\ s \in SUBSET V /\ v \notin s
    OBVIOUS
<1>5. x \in A
    BY DEF Some
<1>6. F[A] = f[x] + F[A \ {x}] /\ F[A \ {x}] \in Nat /\ F[s] \in Nat /\ F[A] \in Nat
    BY <1>1, <1>4
<1>7. f[x] \in Nat /\ f[v] \in Nat
    BY <1>4, <1>5
<1>8. x # v
  <2> SUFFICES ASSUME x = v PROVE FALSE
    OBVIOUS
  <2>1. A \ {x} = s
    BY <1>4
  <2> HIDE DEF A, x
  <2>2. F[A] = f[v] + F[s]
    BY <1>6, <2>1
  <2> QED BY <1>6, <1>7, <2>2 DEF A
<1>9. x \in s /\ rest \in SUBSET V /\ Cardinality(rest) = Cardinality(s) - 1
  <2>1. x \in s
    BY <1>5, <1>8
  <2>2. IsFiniteSet(s)
    BY <1>2, <1>4
  <2> HIDE DEF x
  <2>3. Cardinality(rest) = Cardinality(s) - 1
    BY <2>1, <2>2, FS_RemoveElement
  <2> QED BY <2>1, <2>3, <1>4
<1>10. Adds(rest)
  <2>1. Cardinality(s) \in Nat
    BY <1>2
  <2>2. rest \notin C
    <3> HIDE DEF C, rest
    <3> QED BY <2>1, <1>3, <1>9
  <2> HIDE DEF rest, Adds
  <2> QED BY <2>2, <1>9
<1>11. A \ {x} = rest \cup {v} /\ s = rest \cup {x} /\ x \notin rest /\ v \notin rest
  <2> HIDE DEF x
  <2> QED BY <1>8, <1>9, <1>4
<1>12. F[A \ {x}] = F[rest] + f[v] /\ F[s] = F[rest] + f[x]
  <2>1. x \in V \ rest /\ v \in V \ rest
    BY <1>4, <1>9, <1>11
  <2> HIDE DEF rest, x, A
  <2> QED BY <2>1, <1>10, <1>11
<1>13. F[rest] \in Nat
  <2> HIDE DEF rest
  <2> QED BY <1>1, <1>9
<1> QED BY <1>6, <1>7, <1>12, <1>13

(* Disjoint sets add up, and no set exceeds the whole.                     *)
LEMMA SumDisjoint ==
    ASSUME NEW V, IsFiniteSet(V), NEW f \in [V -> Nat],
           NEW S \in SUBSET V, NEW T \in SUBSET V, S \cap T = {}
    PROVE  /\ SumOver(f, S) \in Nat /\ SumOver(f, T) \in Nat /\ SumOver(f, V) \in Nat
           /\ SumOver(f, S) + SumOver(f, T) <= SumOver(f, V)
<1> DEFINE C == {s \in SUBSET V : \E t \in SUBSET V : s \cap t = {}
                     /\ ~(SumOver(f, t) <= SumOver(f, t \cup s))}
           D == {t \in SUBSET V : t \cap S = {} /\ SumOver(f, S \cup t) # SumOver(f, S) + SumOver(f, t)}
<1>0. \A s \in SUBSET V : IsFiniteSet(s) /\ Cardinality(s) \in Nat
    BY FS_Subset, FS_CardinalityType
<1>1. \A s \in SUBSET V : SumOver(f, s) \in Nat
    BY SumAdds
<1>2. ASSUME NEW s \in SUBSET V, NEW v \in V \ s
      PROVE  SumOver(f, s \cup {v}) = SumOver(f, s) + f[v] /\ f[v] \in Nat
  <2>1. \A u \in V \ s : SumOver(f, s \cup {u}) = SumOver(f, s) + f[u]
    BY SumAdds
  <2> QED BY <2>1
<1>3. SumOver(f, {}) = 0
    BY SumAdds
<1>4. ASSUME NEW s \in SUBSET V, s # {}
      PROVE  \E v \in s : \E r \in SUBSET V : v \notin r /\ s = r \cup {v} /\ r \subseteq s
                             /\ Cardinality(r) < Cardinality(s)
  <2>1. PICK v \in s : TRUE
    BY <1>4
  <2>2. Cardinality(s \ {v}) = Cardinality(s) - 1
    BY <1>0, <2>1, FS_RemoveElement
  <2>3. Cardinality(s \ {v}) < Cardinality(s)
    BY <1>0, <2>2
  <2>4. s = (s \ {v}) \cup {v} /\ v \notin s \ {v} /\ s \ {v} \in SUBSET V
    BY <2>1
  <2> QED BY <2>1, <2>3, <2>4
<1>5. D = {}
  <2> SUFFICES ASSUME D # {} PROVE FALSE
    OBVIOUS
  <2>1. PICK t \in D : \A u \in D : Cardinality(t) <= Cardinality(u)
    BY <1>0, SmallestSet
  <2>2. t # {}
  <3> SUFFICES ASSUME t = {} PROVE FALSE
    OBVIOUS
    <3>1. S \cup t = S
      OBVIOUS
    <3> QED BY <3>1, <1>1, <1>3
  <2>3. PICK v \in t, r \in SUBSET V : v \notin r /\ t = r \cup {v} /\ r \subseteq t
                                         /\ Cardinality(r) < Cardinality(t)
    BY <1>4, <2>2
  <2>4. r \notin D
    <3>1. Cardinality(r) \in Nat /\ Cardinality(t) \in Nat
      BY <1>0
    <3> HIDE DEF D
    <3> QED BY <3>1, <2>1, <2>3
  <2>5. SumOver(f, S \cup r) = SumOver(f, S) + SumOver(f, r)
    BY <2>3, <2>4
  <2>6. SumOver(f, r \cup {v}) = SumOver(f, r) + f[v]
    BY <1>2, <2>3
  <2>7. SumOver(f, (S \cup r) \cup {v}) = SumOver(f, S \cup r) + f[v] /\ f[v] \in Nat
    <3>1. S \cup r \in SUBSET V /\ v \in V \ (S \cup r)
      BY <2>3
    <3> QED BY <3>1, <1>2
  <2>8. S \cup t = (S \cup r) \cup {v}
    BY <2>3
  <2>9. SumOver(f, S) \in Nat /\ SumOver(f, r) \in Nat
    BY <1>1
  <2>10. SumOver(f, S \cup t) = SumOver(f, S) + SumOver(f, t)
    <3>1. SumOver(f, S \cup t) = (SumOver(f, S) + SumOver(f, r)) + f[v]
      BY <2>5, <2>7, <2>8
    <3>2. SumOver(f, t) = SumOver(f, r) + f[v]
      BY <2>3, <2>6
    <3> QED BY <3>1, <3>2, <2>7, <2>9
  <2> QED BY <2>10
<1>6. C = {}
  <2> SUFFICES ASSUME C # {} PROVE FALSE
    OBVIOUS
  <2>1. PICK s \in C : \A u \in C : Cardinality(s) <= Cardinality(u)
    BY <1>0, SmallestSet
  <2>2. PICK t \in SUBSET V : s \cap t = {} /\ ~(SumOver(f, t) <= SumOver(f, t \cup s))
    OBVIOUS
  <2>3. s # {}
    <3> SUFFICES ASSUME s = {} PROVE FALSE
      OBVIOUS
    <3>1. t \cup s = t
      OBVIOUS
    <3> QED BY <3>1, <2>2, <1>1
  <2>4. PICK v \in s, r \in SUBSET V : v \notin r /\ s = r \cup {v} /\ r \subseteq s
                                         /\ Cardinality(r) < Cardinality(s)
    BY <1>4, <2>3
  <2>5. r \notin C
    <3>1. Cardinality(r) \in Nat /\ Cardinality(s) \in Nat
      BY <1>0
    <3> HIDE DEF C
    <3> QED BY <3>1, <2>1, <2>4
  <2>6. SumOver(f, t) <= SumOver(f, t \cup r)
    BY <2>2, <2>4, <2>5
  <2>7. SumOver(f, (t \cup r) \cup {v}) = SumOver(f, t \cup r) + f[v] /\ f[v] \in Nat
    <3>1. t \cup r \in SUBSET V /\ v \in V \ (t \cup r)
      BY <2>2, <2>4
    <3> QED BY <3>1, <1>2
  <2>8. t \cup s = (t \cup r) \cup {v}
    BY <2>4
  <2>9. SumOver(f, t) \in Nat /\ SumOver(f, t \cup r) \in Nat
    BY <1>1
  <2>10. SumOver(f, t \cup s) = SumOver(f, t \cup r) + f[v]
    BY <2>7, <2>8
  <2>11. SumOver(f, t) <= SumOver(f, t \cup r) + f[v]
    <3> HIDE DEF SumOver
    <3> QED BY ONLY <2>6, <2>7, <2>9
  <2> QED BY <2>2, <2>10, <2>11
<1>7. SumOver(f, S \cup T) = SumOver(f, S) + SumOver(f, T)
    BY <1>5
<1>8. SumOver(f, S \cup T) <= SumOver(f, V)
  <2>1. V \ (S \cup T) \in SUBSET V /\ (S \cup T) \cup (V \ (S \cup T)) = V
    OBVIOUS
  <2>2. V \ (S \cup T) \notin C
    BY <1>6
  <2> QED BY <2>1, <2>2
<1> QED BY <1>1, <1>7, <1>8
-----------------------------------------------------------------------------
(* The elements of a finite set of numbers by their ranks.                 *)
ByRank(S) == [j \in 1..Cardinality(S) |-> CHOOSE h \in S : Cardinality({k \in S : k <= h}) = j]

(* f lists the elements of S in ascending order, each of them once.        *)
Enumerates(f, S) ==
    /\ f \in [1..Cardinality(S) -> S]
    /\ \A h \in S : \E j \in 1..Cardinality(S) : f[j] = h
    /\ \A j, k \in 1..Cardinality(S) : j < k => f[j] < f[k]

\* Every rank is that of one element: ranks are different, and there are as many.
LEMMA RanksEnumerate ==
    ASSUME NEW S, IsFiniteSet(S), S \subseteq Int
    PROVE  Cardinality(S) \in Nat /\ Enumerates(ByRank(S), S)
<1> DEFINE Upto(i) == {x \in S : x <= i}
           Rank(i) == Cardinality(Upto(i))
           N == Cardinality(S)
           g == [i \in S |-> Rank(i)]
<1>1. N \in Nat
  BY FS_CardinalityType
<1>2. \A i \in S : IsFiniteSet(Upto(i)) /\ Rank(i) \in Nat /\ Rank(i) <= N
  <2> SUFFICES ASSUME NEW i \in S
               PROVE  IsFiniteSet(Upto(i)) /\ Rank(i) \in Nat /\ Rank(i) <= N
    OBVIOUS
  <2>1. Upto(i) \in SUBSET S
    OBVIOUS
  <2> HIDE DEF Upto
  <2> QED BY <1>1, <2>1, FS_Subset, FS_CardinalityType
<1>3. \A i \in S : Rank(i) \in 1..N
  <2> SUFFICES ASSUME NEW i \in S PROVE Rank(i) \in 1..N
    OBVIOUS
  <2>1. i \in Upto(i)
    OBVIOUS
  <2> HIDE DEF Upto, N
  <2>2. Rank(i) # 0
    BY <1>2, <2>1, FS_EmptySet
  <2> HIDE DEF Rank
  <2> QED BY <1>1, <1>2, <2>2
<1>4. \A i, k \in S : i < k => Rank(i) < Rank(k)
  <2> SUFFICES ASSUME NEW i \in S, NEW k \in S, i < k
               PROVE  Rank(i) < Rank(k)
    OBVIOUS
  <2>1. Upto(i) \in SUBSET Upto(k) /\ k \in Upto(k) /\ k \notin Upto(i)
    <3>1. \A x \in S : x <= i => x <= k
      OBVIOUS
    <3>2. ~(k <= i) /\ k <= k
      OBVIOUS
    <3> QED BY <3>1, <3>2
  <2> HIDE DEF Upto, N
  <2>2. Rank(i) <= Rank(k) /\ Rank(i) # Rank(k)
    BY <1>2, <2>1, FS_Subset
  <2> QED BY <1>2, <2>2
<1> HIDE DEF Upto, Rank, N
<1>5. \A i, k \in S : i # k => Rank(i) # Rank(k)
  <2> SUFFICES ASSUME NEW i \in S, NEW k \in S, i # k
               PROVE  Rank(i) # Rank(k)
    OBVIOUS
  <2>1. i < k \/ k < i
    OBVIOUS
  <2> QED BY <1>2, <1>4, <2>1
<1>6. g \in Injection(S, 1..N)
  <2>1. g \in [S -> 1..N]
    BY <1>3
  <2>2. \A a, b \in S : g[a] = g[b] => a = b
    BY <1>5
  <2> HIDE DEF g
  <2> QED BY <2>1, <2>2, Fun_IsInj
<1>7. g \in Surjection(S, 1..N)
  <2>1. IsFiniteSet(1..N) /\ Cardinality(1..N) = Cardinality(S)
    BY <1>1, FS_Interval DEF N
  <2> HIDE DEF g
  <2> QED BY <1>1, <1>6, <2>1, FS_Injection
<1>8. \A j \in 1..N : \E i \in S : Rank(i) = j
  <2>1. \A j \in 1..N : \E i \in S : g[i] = j
    <3> HIDE DEF g
    <3> QED BY <1>7, Fun_SurjectionProperties
  <2> QED BY <2>1
<1> DEFINE f == [j \in 1..N |-> CHOOSE i \in S : Rank(i) = j]
<1>9. \A j \in 1..N : f[j] \in S /\ Rank(f[j]) = j
  BY <1>8
<1>10. f \in [1..N -> S]
  BY <1>9
<1>11. \A i \in S : \E j \in 1..N : f[j] = i
  <2> SUFFICES ASSUME NEW i \in S PROVE f[Rank(i)] = i
    BY <1>3
  <2>1. Rank(i) \in 1..N
    BY <1>3
  <2> HIDE DEF f
  <2> QED BY <1>5, <1>9, <2>1
<1>12. \A j, k \in 1..N : j < k => f[j] < f[k]
  <2>1. ASSUME NEW x \in S, NEW y \in S, Rank(x) < Rank(y) PROVE x < y
    <3>1. CASE x = y
      BY <1>2, <2>1, <3>1
    <3>2. CASE y < x
      <4>1. Rank(y) < Rank(x) /\ Rank(x) \in Nat /\ Rank(y) \in Nat
        BY <1>2, <1>4, <3>2
      <4> QED BY <2>1, <4>1
    <3>3. x \in Int /\ y \in Int
      OBVIOUS
    <3> QED BY <3>1, <3>2, <3>3
  <2> HIDE DEF f
  <2>2. ASSUME NEW j \in 1..N, NEW k \in 1..N, j < k PROVE f[j] < f[k]
    <3>1. f[j] \in S /\ f[k] \in S /\ Rank(f[j]) = j /\ Rank(f[k]) = k
      BY <1>9
    <3>2. Rank(f[j]) < Rank(f[k])
      BY <2>2, <3>1
    <3> QED BY <2>1, <3>1, <3>2
  <2> QED BY <2>2
<1>13. ByRank(S) = f
  BY DEF ByRank, Rank, Upto, N
<1> HIDE DEF f
<1> QED BY <1>1, <1>10, <1>11, <1>12, <1>13 DEF Enumerates, N

(* A step from a row to the next one, of one type, and its two recursions. *)
RowStep(n, T, g) == \A i \in 1 .. n : \A t \in T : g[<<i, t>>] \in T
FromFirst(n, T, a, g, w) == /\ w \in [0 .. n -> T] /\ w[0] = a
                            /\ \A i \in 1 .. n : w[i] = g[<<i, w[i - 1]>>]
FromLast(n, T, a, g, w) == /\ w \in [0 .. n -> T] /\ w[n] = a
                           /\ \A i \in 1 .. n : w[i - 1] = g[<<i, w[i]>>]

\* A recursion over the rows from the first on has a function, of one type.
LEMMA RowsUp ==
    ASSUME NEW n, NEW T, NEW a, NEW g, n \in Nat, a \in T, RowStep(n, T, g)
    PROVE  \E w : FromFirst(n, T, a, g, w)
<1> USE DEF RowStep
<1> DEFINE Upto(m, w) == /\ w \in [0 .. m -> T] /\ w[0] = a
                         /\ \A i \in 1 .. m : w[i] = g[<<i, w[i - 1]>>]
           Bad == {m \in 0 .. n : ~ \E w : Upto(m, w)}
<1>1. Bad = {}
  <2> SUFFICES ASSUME Bad # {} PROVE FALSE
    OBVIOUS
  <2>1. PICK m \in Bad : \A k \in Bad : m <= k
    <3>1. Bad \subseteq Nat
      OBVIOUS
    <3> HIDE DEF Bad
    <3> QED BY <3>1, LeastExists
  <2>2. m # 0
    <3> DEFINE w == [i \in 0 .. 0 |-> a]
    <3>1. Upto(0, w)
      OBVIOUS
    <3> HIDE DEF Upto
    <3> QED BY <3>1
  <2>3. m \in 1 .. n /\ m - 1 \in 0 .. n /\ m - 1 \notin Bad
    <3>1. m \in 0 .. n
      OBVIOUS
    <3> HIDE DEF Bad
    <3> QED BY <2>1, <2>2, <3>1
  <2>4. PICK u : Upto(m - 1, u)
    BY <2>3
  <2> DEFINE v == [i \in 0 .. m |-> IF i = m THEN g[<<m, u[m - 1]>>] ELSE u[i]]
  <2>5. u[m - 1] \in T /\ g[<<m, u[m - 1]>>] \in T
    <3>1. m - 1 \in 0 .. m - 1
      BY <2>3
    <3>2. u[m - 1] \in T
      BY <2>4, <3>1
    <3> QED BY <2>3, <3>2
  <2>6. v \in [0 .. m -> T]
    <3>1. ASSUME NEW i \in 0 .. m PROVE (IF i = m THEN g[<<m, u[m - 1]>>] ELSE u[i]) \in T
      <4>1. i # m => i \in 0 .. m - 1
        BY <2>3
      <4>2. i # m => u[i] \in T
        BY <2>4, <4>1
      <4> QED BY <2>5, <4>2
    <3> QED BY <3>1
  <2>7. v[0] = a
    BY <2>3, <2>4
  <2>8. ASSUME NEW i \in 1 .. m PROVE v[i] = g[<<i, v[i - 1]>>]
    <3>1. i - 1 \in 0 .. m /\ i - 1 # m /\ i \in 0 .. m
      BY <2>3
    <3>2. v[i - 1] = u[i - 1]
      BY <3>1
    <3>3. CASE i = m
      BY <3>1, <3>2, <3>3
    <3>4. CASE i # m
      <4>1. i \in 1 .. m - 1 /\ v[i] = u[i]
        BY <2>3, <3>1, <3>4
      <4>2. u[i] = g[<<i, u[i - 1]>>]
        BY <2>4, <4>1
      <4> HIDE DEF v
      <4> QED BY <3>2, <4>1, <4>2
    <3> QED BY <3>3, <3>4
  <2>9. Upto(m, v)
    <3> HIDE DEF v
    <3> QED BY <2>6, <2>7, <2>8
  <2> HIDE DEF Upto
  <2> QED BY <2>1, <2>9
<1>2. n \in 0 .. n
  OBVIOUS
<1>3. \E w : Upto(n, w)
  BY <1>1, <1>2
<1> QED BY <1>3 DEF FromFirst

\* A recursion over the rows from the last on has a function, of one type.
LEMMA RowsDown ==
    ASSUME NEW n, NEW T, NEW a, NEW g, n \in Nat, a \in T, RowStep(n, T, g)
    PROVE  \E w : FromLast(n, T, a, g, w)
<1> DEFINE h == [x \in (1 .. n) \X T |-> g[<<n + 1 - x[1], x[2]>>]]
<1>1. ASSUME NEW i \in 1 .. n, NEW t \in T
      PROVE  h[<<i, t>>] = g[<<n + 1 - i, t>>] /\ h[<<i, t>>] \in T
  <2>1. n + 1 - i \in 1 .. n /\ <<i, t>> \in (1 .. n) \X T
    OBVIOUS
  <2>2. h[<<i, t>>] = g[<<n + 1 - i, t>>]
    BY <2>1
  <2> QED BY <2>1, <2>2 DEF RowStep
<1> HIDE DEF h
<1>2. PICK u \in [0 .. n -> T] : u[0] = a /\ \A i \in 1 .. n : u[i] = h[<<i, u[i - 1]>>]
  <2>1. RowStep(n, T, h)
    BY <1>1 DEF RowStep
  <2>2. \E w : FromFirst(n, T, a, h, w)
    BY <2>1, RowsUp
  <2> QED BY <2>2 DEF FromFirst
<1> DEFINE w == [i \in 0 .. n |-> u[n - i]]
<1>3. w \in [0 .. n -> T] /\ w[n] = a
  BY <1>2
<1>4. ASSUME NEW i \in 1 .. n PROVE w[i - 1] = g[<<i, w[i]>>]
  <2> DEFINE k == n + 1 - i
  <2>1. k \in 1 .. n /\ n + 1 - k = i /\ n - i = k - 1 /\ n - (i - 1) = k /\ i \in 0 .. n /\ i - 1 \in 0 .. n
    OBVIOUS
  <2> HIDE DEF k
  <2>2. w[i - 1] = u[k] /\ w[i] = u[k - 1]
    BY <2>1
  <2>3. u[k - 1] \in T
    BY <2>1
  <2>4. u[k] = h[<<k, u[k - 1]>>] /\ h[<<k, u[k - 1]>>] = g[<<i, u[k - 1]>>]
    BY <1>1, <1>2, <2>1, <2>3
  <2> HIDE DEF w
  <2> QED BY <2>2, <2>4
<1> HIDE DEF w
<1> QED BY <1>3, <1>4 DEF FromLast
=============================================================================
