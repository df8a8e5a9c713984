--------------------------- MODULE TotalsTheorems ---------------------------
(***************************************************************************)
(* Facts about the sum of a ledger: its type, the sum of an empty ledger,  *)
(* what changing one entry does to it, and that no entry exceeds it.       *)
(***************************************************************************)
EXTENDS Totals, Integers, Sequences, FiniteSetTheorems, SequenceTheorems, TLAPS

(* The units of a single holder: finitely many, as many as it holds. *)
LEMMA HolderUnits ==
  ASSUME NEW x, NEW n \in Nat
  PROVE  /\ IsFiniteSet({x} \X (1..n))
         /\ Cardinality({x} \X (1..n)) = n
<1>1. IsFiniteSet({x}) /\ Cardinality({x}) = 1
  BY FS_Singleton
<1>2. IsFiniteSet(1..n) /\ Cardinality(1..n) = n
  <2>1. IsFiniteSet(1..n) /\ Cardinality(1..n) = IF 1 > n THEN 0 ELSE n - 1 + 1
    BY FS_Interval
  <2>2. QED  BY <2>1
<1>3. /\ IsFiniteSet({x} \X (1..n))
      /\ Cardinality({x} \X (1..n)) = Cardinality({x}) * Cardinality(1..n)
  BY <1>1, <1>2, FS_Product
<1>4. QED  BY <1>1, <1>2, <1>3

(* The units of finitely many holders are finitely many. *)
LEMMA UnitsFinite ==
  ASSUME NEW S, IsFiniteSet(S), NEW f \in [S -> Nat]
  PROVE  IsFiniteSet(Units(f, S))
<1> DEFINE Of(x) == {x} \X (1..f[x])
           image == {Of(x) : x \in S}
           g == [x \in S |-> Of(x)]
<1>1. g \in Surjection(S, image)
  BY DEF Surjection
<1>2. IsFiniteSet(image)
  BY <1>1, FS_Surjection
<1>3. ASSUME NEW T \in image
      PROVE  IsFiniteSet(T)
  <2>1. PICK x \in S : T = Of(x)
    OBVIOUS
  <2>2. f[x] \in Nat
    OBVIOUS
  <2>3. QED  BY <2>1, <2>2, HolderUnits
<1>4. IsFiniteSet(UNION image)
  BY <1>2, <1>3, FS_UNION
<1>5. QED  BY <1>4 DEF Units

(* A total is a natural number. *)
LEMMA TotalType ==
  ASSUME NEW S, IsFiniteSet(S), NEW f \in [S -> Nat]
  PROVE  Total(f, S) \in Nat
BY UnitsFinite, FS_CardinalityType DEF Total

(* Nobody holding anything makes a total of zero. *)
LEMMA TotalZero ==
  ASSUME NEW S, NEW f, \A x \in S : f[x] = 0
  PROVE  Total(f, S) = 0
<1>1. Units(f, S) = {}
  BY DEF Units
<1>2. QED  BY <1>1, FS_EmptySet DEF Total

(* The units of one holder and those of the others are disjoint. *)
LEMMA TotalSplit ==
  ASSUME NEW S, IsFiniteSet(S), NEW f \in [S -> Nat], NEW x \in S
  PROVE  Total(f, S) = f[x] + Total(f, S \ {x})
<1> DEFINE mine == {x} \X (1..f[x])
           others == Units(f, S \ {x})
<1>1. Units(f, S) = mine \cup others
  BY DEF Units
<1>2. mine \cap others = {}
  BY DEF Units
<1>3. IsFiniteSet(mine) /\ Cardinality(mine) = f[x]
  BY HolderUnits
<1>4. IsFiniteSet(others) /\ others \subseteq Units(f, S)
  BY <1>1, UnitsFinite, FS_Subset
<1>5. Cardinality(mine \cup others)
        = Cardinality(mine) + Cardinality(others) - Cardinality(mine \cap others)
  BY <1>3, <1>4, FS_Union
<1>6. Cardinality(mine \cap others) = 0
  BY <1>2, FS_EmptySet
<1>7. Cardinality(others) \in Nat
  BY <1>4, FS_CardinalityType
<1>8. QED
  BY <1>1, <1>3, <1>5, <1>6, <1>7 DEF Total

(* Two ledgers that agree on S have the same total over S. *)
LEMMA TotalAgree ==
  ASSUME NEW S, NEW f, NEW g, \A x \in S : f[x] = g[x]
  PROVE  Total(f, S) = Total(g, S)
<1>1. Units(f, S) = Units(g, S)
  BY DEF Units
<1>2. QED  BY <1>1 DEF Total

(* Changing one entry changes the total by as much. *)
LEMMA TotalChange ==
  ASSUME NEW S, IsFiniteSet(S), NEW f \in [S -> Nat], NEW g \in [S -> Nat],
         NEW x \in S, \A y \in S \ {x} : g[y] = f[y]
  PROVE  Total(g, S) = Total(f, S) - f[x] + g[x]
<1> DEFINE rest == S \ {x}
<1>1. Total(f, S) = f[x] + Total(f, rest)
  BY TotalSplit
<1>2. Total(g, S) = g[x] + Total(g, rest)
  BY TotalSplit
<1>3. Total(g, rest) = Total(f, rest)
  BY TotalAgree
<1>4. Total(f, S) \in Nat /\ Total(g, S) \in Nat
  BY TotalType
<1>5. Total(f, rest) \in Nat
  <2>1. IsFiniteSet(rest)
    BY FS_Subset
  <2>2. Units(f, rest) = Units([y \in rest |-> f[y]], rest)
    BY DEF Units
  <2>3. [y \in rest |-> f[y]] \in [rest -> Nat]
    OBVIOUS
  <2>4. QED
    BY <2>1, <2>2, <2>3, TotalType DEF Total
<1>6. f[x] \in Nat /\ g[x] \in Nat
  OBVIOUS
<1> HIDE DEF rest
<1>7. QED  BY <1>1, <1>2, <1>3, <1>4, <1>5, <1>6

(* Moving an amount from one holder to another leaves the total unchanged. *)
LEMMA TotalMove ==
  ASSUME NEW S, IsFiniteSet(S), NEW f \in [S -> Nat], NEW g \in [S -> Nat],
         NEW x \in S, NEW y \in S, x # y, g[x] + g[y] = f[x] + f[y],
         \A z \in S \ {x, y} : g[z] = f[z]
  PROVE  Total(g, S) = Total(f, S)
<1> DEFINE h == [z \in S |-> IF z = x THEN g[x] ELSE f[z]]
<1>1. h \in [S -> Nat] /\ h[x] = g[x] /\ h[y] = f[y]
  OBVIOUS
<1>2. (\A z \in S \ {x} : h[z] = f[z]) /\ (\A z \in S \ {y} : g[z] = h[z])
  OBVIOUS
<1> HIDE DEF h
<1>3. Total(h, S) = Total(f, S) - f[x] + h[x]
  BY <1>1, <1>2, TotalChange
<1>4. Total(g, S) = Total(h, S) - h[y] + g[y]
  BY <1>1, <1>2, TotalChange
<1>5. Total(f, S) \in Nat /\ Total(h, S) \in Nat
  BY <1>1, TotalType
<1>6. /\ f[x] \in Nat /\ f[y] \in Nat /\ g[x] \in Nat /\ g[y] \in Nat
  OBVIOUS
<1>7. QED  BY <1>1, <1>3, <1>4, <1>5, <1>6

(* Nobody holds more than the total. *)
LEMMA TotalBound ==
  ASSUME NEW S, IsFiniteSet(S), NEW f \in [S -> Nat], NEW x \in S
  PROVE  f[x] <= Total(f, S)
<1> DEFINE mine == {x} \X (1..f[x])
<1>1. mine \in SUBSET Units(f, S)
  BY DEF Units
<1>2. Cardinality(mine) <= Cardinality(Units(f, S))
  BY <1>1, UnitsFinite, FS_Subset
<1>3. Cardinality(mine) = f[x]
  BY HolderUnits
<1>4. QED  BY <1>2, <1>3 DEF Total
-----------------------------------------------------------------------------
(* The same when the ledger has more entries than those that are added up. *)

(* A total over a part of a ledger is a natural number. *)
LEMMA TotalNat ==
  ASSUME NEW S, IsFiniteSet(S), NEW f, \A x \in S : f[x] \in Nat
  PROVE  IsFiniteSet(Units(f, S)) /\ Total(f, S) \in Nat
<1> DEFINE g == [x \in S |-> f[x]]
<1>1. g \in [S -> Nat] /\ \A x \in S : g[x] = f[x]
  OBVIOUS
<1>2. Units(f, S) = Units(g, S)
  BY DEF Units
<1> HIDE DEF g
<1>3. IsFiniteSet(Units(g, S)) /\ Total(g, S) \in Nat
  BY <1>1, UnitsFinite, TotalType
<1>4. QED  BY <1>2, <1>3 DEF Total

(* Totals over disjoint sets add up. *)
LEMMA TotalUnion ==
  ASSUME NEW S, IsFiniteSet(S), NEW R, IsFiniteSet(R), S \cap R = {},
         NEW f, \A x \in S \cup R : f[x] \in Nat
  PROVE  /\ Total(f, S \cup R) = Total(f, S) + Total(f, R)
         /\ Total(f, S) \in Nat /\ Total(f, R) \in Nat
<1>1. /\ IsFiniteSet(Units(f, S)) /\ Total(f, S) \in Nat
      /\ IsFiniteSet(Units(f, R)) /\ Total(f, R) \in Nat
  BY TotalNat
<1>2. Units(f, S \cup R) = Units(f, S) \cup Units(f, R)
  BY DEF Units
<1>3. Units(f, S) \cap Units(f, R) = {}
  BY DEF Units
<1>4. Cardinality(Units(f, S) \cap Units(f, R)) = 0
  BY <1>3, FS_EmptySet
<1>5. Cardinality(Units(f, S) \cup Units(f, R))
        = Cardinality(Units(f, S)) + Cardinality(Units(f, R))
          - Cardinality(Units(f, S) \cap Units(f, R))
  BY <1>1, FS_Union
<1>6. /\ Total(f, S \cup R) = Cardinality(Units(f, S) \cup Units(f, R))
      /\ Total(f, S) = Cardinality(Units(f, S))
      /\ Total(f, R) = Cardinality(Units(f, R))
  BY <1>2 DEF Total
<1>7. QED  BY <1>1, <1>4, <1>5, <1>6

(* The total over one holder is what it holds. *)
LEMMA TotalOne ==
  ASSUME NEW x, NEW f, f[x] \in Nat
  PROVE  Total(f, {x}) = f[x]
<1>1. Units(f, {x}) = {x} \X (1..f[x])
  BY DEF Units
<1>2. QED  BY <1>1, HolderUnits DEF Total

(* One holder more. *)
LEMMA TotalAdd ==
  ASSUME NEW S, IsFiniteSet(S), NEW x, x \notin S,
         NEW f, \A y \in S \cup {x} : f[y] \in Nat
  PROVE  /\ Total(f, S \cup {x}) = Total(f, S) + f[x]
         /\ Total(f, S) \in Nat
<1>1. IsFiniteSet({x}) /\ S \cap {x} = {}
  BY FS_Singleton
<1>2. /\ Total(f, S \cup {x}) = Total(f, S) + Total(f, {x})
      /\ Total(f, S) \in Nat
  BY <1>1, TotalUnion
<1>3. QED  BY <1>2, TotalOne

(* A part holds no more than the whole. *)
LEMMA TotalPart ==
  ASSUME NEW R, IsFiniteSet(R), NEW S \in SUBSET R,
         NEW f, \A x \in R : f[x] \in Nat
  PROVE  Total(f, S) <= Total(f, R) /\ Total(f, S) \in Nat /\ Total(f, R) \in Nat
<1>1. IsFiniteSet(S) /\ IsFiniteSet(R \ S) /\ S \cap (R \ S) = {}
  BY FS_Subset
<1>2. S \cup (R \ S) = R
  OBVIOUS
<1>3. /\ Total(f, S \cup (R \ S)) = Total(f, S) + Total(f, R \ S)
      /\ Total(f, S) \in Nat /\ Total(f, R \ S) \in Nat
  BY <1>1, <1>2, TotalUnion
<1>4. Total(f, R) = Total(f, S) + Total(f, R \ S)
  BY <1>2, <1>3
<1>5. QED  BY <1>3, <1>4

(* Holding nothing outside a part, the whole holds what the part does. *)
LEMMA TotalOfPart ==
  ASSUME NEW R, NEW S \in SUBSET R, NEW f, \A x \in R \ S : f[x] = 0
  PROVE  Total(f, R) = Total(f, S)
<1>1. Units(f, R) = Units(f, S)
  BY DEF Units
<1>2. QED  BY <1>1 DEF Total

(* The totals of two ledgers whose entries correspond are equal. *)
LEMMA TotalRename ==
  ASSUME NEW S, IsFiniteSet(S), NEW R, NEW b \in Bijection(S, R),
         NEW f, \A x \in S : f[x] \in Nat,
         NEW g, \A x \in S : g[b[x]] = f[x]
  PROVE  Total(g, R) = Total(f, S)
<1> DEFINE m == [u \in Units(f, S) |-> <<b[u[1]], u[2]>>]
<1>1. /\ b \in [S -> R]
      /\ \A x, y \in S : b[x] = b[y] => x = y
      /\ \A z \in R : \E x \in S : b[x] = z
  BY DEF Bijection, Injection, Surjection, IsInjective
<1>2. \A u \in Units(f, S) : u = <<u[1], u[2]>> /\ u[1] \in S /\ u[2] \in 1..f[u[1]]
  BY DEF Units
<1>3. \A u \in Units(g, R) : u = <<u[1], u[2]>> /\ u[1] \in R /\ u[2] \in 1..g[u[1]]
  BY DEF Units
<1>4. m \in [Units(f, S) -> Units(g, R)]
  <2> SUFFICES ASSUME NEW u \in Units(f, S)
               PROVE  <<b[u[1]], u[2]>> \in Units(g, R)
    OBVIOUS
  <2>1. b[u[1]] \in R /\ u[2] \in 1..g[b[u[1]]]
    BY <1>1, <1>2
  <2>2. QED  BY <2>1 DEF Units
<1>5. \A u, v \in Units(f, S) : m[u] = m[v] => u = v
  <2> SUFFICES ASSUME NEW u \in Units(f, S), NEW v \in Units(f, S), m[u] = m[v]
               PROVE  u = v
    OBVIOUS
  <2>1. b[u[1]] = b[v[1]] /\ u[2] = v[2]
    OBVIOUS
  <2>2. u[1] = v[1]
    BY <1>1, <1>2, <2>1
  <2>3. QED  BY <1>2, <2>1, <2>2
<1>6. \A w \in Units(g, R) : \E u \in Units(f, S) : m[u] = w
  <2> SUFFICES ASSUME NEW w \in Units(g, R)
               PROVE  \E u \in Units(f, S) : m[u] = w
    OBVIOUS
  <2>1. PICK x \in S : b[x] = w[1]
    BY <1>1, <1>3
  <2>2. <<x, w[2]>> \in Units(f, S)
    BY <1>3, <2>1 DEF Units
  <2>3. m[<<x, w[2]>>] = w
    BY <1>3, <2>1, <2>2
  <2>4. QED  BY <2>2, <2>3
<1>7. m \in Bijection(Units(f, S), Units(g, R))
  BY <1>4, <1>5, <1>6 DEF Bijection, Injection, Surjection, IsInjective
<1>8. IsFiniteSet(Units(f, S))
  BY TotalNat
<1>9. QED  BY <1>7, <1>8, FS_Bijection DEF Total, ExistsBijection

(* The sum of smaller entries is smaller. *)
LEMMA TotalLeq ==
  ASSUME NEW S, IsFiniteSet(S), NEW f, NEW g,
         \A x \in S : f[x] \in Nat /\ g[x] \in Nat /\ f[x] <= g[x]
  PROVE  Total(f, S) <= Total(g, S)
<1>1. Units(f, S) \subseteq Units(g, S)
  BY DEF Units
<1>2. IsFiniteSet(Units(g, S))
  BY TotalNat
<1>3. QED  BY <1>1, <1>2, FS_Subset DEF Total

(* The totals of two ledgers add up to the total of their sum. *)
LEMMA TotalSum ==
  ASSUME NEW S, IsFiniteSet(S), NEW f, NEW g, NEW h,
         \A x \in S : f[x] \in Nat /\ g[x] \in Nat /\ h[x] = f[x] + g[x]
  PROVE  /\ Total(h, S) = Total(f, S) + Total(g, S)
         /\ Total(f, S) \in Nat /\ Total(g, S) \in Nat
<1> DEFINE A == Units(f, S)
           B == Units(g, S)
           C == Units(h, S) \ A
           m == [u \in B |-> <<u[1], f[u[1]] + u[2]>>]
<1>1. \A x \in S : h[x] \in Nat
  OBVIOUS
<1>2. /\ IsFiniteSet(A) /\ IsFiniteSet(B) /\ IsFiniteSet(Units(h, S))
      /\ Total(f, S) \in Nat /\ Total(g, S) \in Nat /\ Total(h, S) \in Nat
  BY <1>1, TotalNat
<1>3. \A x, k : <<x, k>> \in A <=> x \in S /\ k \in 1..f[x]
  BY DEF Units
<1>4. \A x, k : <<x, k>> \in B <=> x \in S /\ k \in 1..g[x]
  BY DEF Units
<1>5. \A x, k : <<x, k>> \in Units(h, S) <=> x \in S /\ k \in 1..h[x]
  BY DEF Units
<1>6. \A u \in A \cup B \cup Units(h, S) : u = <<u[1], u[2]>>
  BY DEF Units
<1> HIDE DEF A, B
<1>7. A \subseteq Units(h, S)
  <2> SUFFICES ASSUME NEW u \in A
               PROVE  u \in Units(h, S)
    OBVIOUS
  <2>1. u = <<u[1], u[2]>> /\ u[1] \in S /\ u[2] \in 1..f[u[1]]
    BY <1>3, <1>6
  <2>2. u[2] \in 1..h[u[1]]
    BY <2>1
  <2>3. QED  BY <1>5, <2>1, <2>2
<1>8. m \in [B -> C]
  <2> SUFFICES ASSUME NEW u \in B
               PROVE  <<u[1], f[u[1]] + u[2]>> \in C
    OBVIOUS
  <2>1. u[1] \in S /\ u[2] \in 1..g[u[1]]
    BY <1>4, <1>6
  <2>2. f[u[1]] + u[2] \in 1..h[u[1]] /\ f[u[1]] + u[2] \notin 1..f[u[1]]
    BY <2>1
  <2>3. QED  BY <1>3, <1>5, <2>1, <2>2
<1>9. \A u, v \in B : m[u] = m[v] => u = v
  <2> SUFFICES ASSUME NEW u \in B, NEW v \in B, m[u] = m[v]
               PROVE  u = v
    OBVIOUS
  <2>1. u[1] = v[1] /\ f[u[1]] + u[2] = f[v[1]] + v[2]
    OBVIOUS
  <2>2. /\ u = <<u[1], u[2]>> /\ u[1] \in S /\ u[2] \in 1..g[u[1]]
        /\ v = <<v[1], v[2]>> /\ v[1] \in S /\ v[2] \in 1..g[v[1]]
    BY <1>4, <1>6
  <2>3. u[2] = v[2]
    BY <2>1, <2>2
  <2>4. QED  BY <2>1, <2>2, <2>3
<1>10. \A w \in C : \E u \in B : m[u] = w
  <2> SUFFICES ASSUME NEW w \in C
               PROVE  \E u \in B : m[u] = w
    OBVIOUS
  <2>1. w = <<w[1], w[2]>> /\ w[1] \in S /\ w[2] \in 1..h[w[1]]
    BY <1>5, <1>6
  <2>2. w[2] \notin 1..f[w[1]]
    BY <1>3, <2>1
  <2>3. w[2] - f[w[1]] \in 1..g[w[1]] /\ f[w[1]] + (w[2] - f[w[1]]) = w[2]
    BY <2>1, <2>2
  <2>4. <<w[1], w[2] - f[w[1]]>> \in B
    BY <1>4, <2>1, <2>3
  <2>5. m[<<w[1], w[2] - f[w[1]]>>] = w
    BY <2>1, <2>3, <2>4
  <2>6. QED  BY <2>4, <2>5
<1>11. m \in Bijection(B, C)
  BY <1>8, <1>9, <1>10 DEF Bijection, Injection, Surjection, IsInjective
<1>12. IsFiniteSet(C) /\ Cardinality(C) = Cardinality(B)
  BY <1>2, <1>11, FS_Bijection DEF ExistsBijection
<1>13. Units(h, S) = A \cup C /\ A \cap C = {}
  BY <1>7
<1> HIDE DEF C, m
<1>14. Cardinality(A \cup C) = Cardinality(A) + Cardinality(C) - Cardinality(A \cap C)
  BY <1>2, <1>12, FS_Union
<1>15. Cardinality(A \cap C) = 0
  BY <1>13, FS_EmptySet
<1>16. /\ Total(h, S) = Cardinality(A \cup C)
       /\ Total(f, S) = Cardinality(A) /\ Total(g, S) = Cardinality(B)
  BY <1>13 DEF Total, A, B
<1>17. QED  BY <1>2, <1>12, <1>14, <1>15, <1>16

-----------------------------------------------------------------------------
(* Sums of sequences. *)

\* The sum of the elements of a sequence.
Sum(s) == Total(s, DOMAIN s)

(* A sequence has finitely many places, numbered from 1. *)
LEMMA Places ==
  ASSUME NEW s \in Seq(Nat)
  PROVE  /\ DOMAIN s = 1..Len(s) /\ Len(s) \in Nat /\ IsFiniteSet(DOMAIN s)
         /\ \A i \in DOMAIN s : s[i] \in Nat
<1>1. DOMAIN s = 1..Len(s) /\ Len(s) \in Nat /\ \A i \in DOMAIN s : s[i] \in Nat
  OBVIOUS
<1>2. IsFiniteSet(1..Len(s))
  BY <1>1, FS_Interval
<1>3. QED  BY <1>1, <1>2

(* A sum is a natural number. *)
LEMMA SumType ==
  ASSUME NEW s \in Seq(Nat)
  PROVE  Sum(s) \in Nat
BY Places, TotalNat DEF Sum

(* The sum of a sequence of zeros. *)
LEMMA SumZero ==
  ASSUME NEW s, \A i \in DOMAIN s : s[i] = 0
  PROVE  Sum(s) = 0
BY TotalZero DEF Sum

(* The sum of a concatenation. *)
LEMMA SumConcat ==
  ASSUME NEW s \in Seq(Nat), NEW t \in Seq(Nat)
  PROVE  Sum(s \o t) = Sum(s) + Sum(t)
<1> DEFINE first == 1..Len(s)
           second == (Len(s) + 1)..(Len(s) + Len(t))
           b == [i \in 1..Len(t) |-> Len(s) + i]
<1>1. /\ s \o t \in Seq(Nat) /\ Len(s \o t) = Len(s) + Len(t)
      /\ \A i \in 1..(Len(s) + Len(t)) :
           (s \o t)[i] = IF i <= Len(s) THEN s[i] ELSE t[i - Len(s)]
  BY ConcatProperties
<1>2. Len(s) \in Nat /\ Len(t) \in Nat
  OBVIOUS
<1>3. IsFiniteSet(first) /\ IsFiniteSet(second) /\ first \cap second = {}
  <2>1. /\ 1 \in Int /\ Len(s) \in Int /\ Len(s) + 1 \in Int
        /\ Len(s) + Len(t) \in Int
    BY <1>2
  <2>2. IsFiniteSet(first) /\ IsFiniteSet(second)
    BY <2>1, FS_Interval
  <2>3. QED  BY <1>2, <2>2
<1>4. DOMAIN (s \o t) = first \cup second
  BY <1>1, <1>2
<1>5. \A i \in first \cup second : (s \o t)[i] \in Nat
  BY <1>1, <1>4
<1> HIDE DEF first, second, b
<1>6. Sum(s \o t) = Total(s \o t, first) + Total(s \o t, second)
  <2>1. Total(s \o t, first \cup second)
          = Total(s \o t, first) + Total(s \o t, second)
    BY <1>3, <1>5, TotalUnion
  <2>2. QED  BY <1>4, <2>1 DEF Sum
<1>7. Total(s \o t, first) = Sum(s)
  <2>1. \A i \in first : (s \o t)[i] = s[i]
    BY <1>1, <1>2 DEF first
  <2>2. DOMAIN s = first
    BY Places DEF first
  <2>3. QED  BY <2>1, <2>2, TotalAgree DEF Sum
<1>8. Total(s \o t, second) = Sum(t)
  <2> USE DEF b, second
  <2>1. b \in Bijection(1..Len(t), second)
    <3>1. b \in [1..Len(t) -> second]
      BY <1>2
    <3>2. \A i, j \in 1..Len(t) : b[i] = b[j] => i = j
      BY <1>2
    <3>3. \A k \in second : \E i \in 1..Len(t) : b[i] = k
      <4> SUFFICES ASSUME NEW k \in second
                   PROVE  \E i \in 1..Len(t) : b[i] = k
        OBVIOUS
      <4>1. k - Len(s) \in 1..Len(t) /\ b[k - Len(s)] = k
        BY <1>2
      <4>2. QED  BY <4>1
    <3>4. QED  BY <3>1, <3>2, <3>3 DEF Bijection, Injection, Surjection, IsInjective
  <2>2. \A i \in 1..Len(t) : t[i] \in Nat /\ (s \o t)[b[i]] = t[i]
    BY <1>1, <1>2
  <2>3. DOMAIN t = 1..Len(t) /\ IsFiniteSet(1..Len(t))
    BY Places
  <2> HIDE DEF b, second
  <2> DEFINE D == 1..Len(t)
             c == s \o t
  <2>4. b \in Bijection(D, second) /\ IsFiniteSet(D)
    BY <2>1, <2>3
  <2>5. \A i \in D : t[i] \in Nat
    BY <2>2
  <2>6. \A i \in D : c[b[i]] = t[i]
    BY <2>2
  <2>7. D = DOMAIN t
    BY <2>3
  <2> HIDE DEF D, c
  <2>8. Total(c, second) = Total(t, D)
    BY <2>4, <2>5, <2>6, TotalRename, SMT
  <2>9. QED  BY <2>7, <2>8 DEF Sum, c
<1>9. QED  BY <1>6, <1>7, <1>8

(* The sum of a sequence is its head and the sum of its tail. *)
LEMMA SumTail ==
  ASSUME NEW s \in Seq(Nat), s # <<>>
  PROVE  Sum(s) = Head(s) + Sum(Tail(s))
<1>1. Tail(s) \in Seq(Nat) /\ Head(s) \in Nat /\ s = <<Head(s)>> \o Tail(s)
  OBVIOUS
<1>2. Sum(<<Head(s)>>) = Head(s)
  <2>1. DOMAIN <<Head(s)>> = {1}
    OBVIOUS
  <2>2. QED  BY <1>1, <2>1, TotalOne DEF Sum
<1>3. <<Head(s)>> \in Seq(Nat)
  BY <1>1
<1>4. Sum(<<Head(s)>> \o Tail(s)) = Sum(<<Head(s)>>) + Sum(Tail(s))
  BY <1>1, <1>3, SumConcat
<1>5. QED  BY <1>1, <1>2, <1>4
=============================================================================
