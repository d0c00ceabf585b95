--------------------------- MODULE LibraryProofs ----------------------------
(***************************************************************************)
(* What the operators of Totals and Lists are good for.  Total is a natural *)
(* number, changes by as much as a summand does, and bounds every summand. *)
(* Append, \o, Tail and Keep have the members and the order one expects.   *)
(***************************************************************************)
EXTENDS Totals, Lists, FiniteSetTheorems, WellFoundedInduction, TLAPS

(***************************************************************************)
(* The pairs of one x.                                                     *)
(***************************************************************************)
LEMMA UnitsCount ==
  ASSUME NEW f, NEW x, f[x] \in Nat
  PROVE  IsFiniteSet(Units(f, x)) /\ Cardinality(Units(f, x)) = f[x]
<1>1. IsFiniteSet({x}) /\ Cardinality({x}) = 1
  BY FS_Singleton
<1>2. IsFiniteSet(1 .. f[x]) /\ Cardinality(1 .. f[x]) = f[x]
  BY FS_Interval, SMTT(60)
<1>3. IsFiniteSet({x} \X (1 .. f[x])) /\ Cardinality({x} \X (1 .. f[x])) = 1 * f[x]
  BY <1>1, <1>2, FS_Product, ZenonT(60)
<1> QED BY <1>3 DEF Units

(***************************************************************************)
(* The pairs of all of S are finitely many.                                *)
(***************************************************************************)
LEMMA UnitsFinite ==
  ASSUME NEW S, IsFiniteSet(S), NEW f, \A x \in S : f[x] \in Nat
  PROVE  IsFiniteSet(UNION {Units(f, x) : x \in S})
<1> DEFINE T == {Units(f, x) : x \in S}
           g == [x \in S |-> Units(f, x)]
<1>1. g \in Surjection(S, T)
  BY DEF Surjection
<1>2. IsFiniteSet(T)
  BY <1>1, FS_Surjection
<1>3. \A U \in T : IsFiniteSet(U)
  BY UnitsCount
<1> QED BY <1>2, <1>3, FS_UNION

(***************************************************************************)
(* Nothing is counted where every summand is zero.                         *)
(***************************************************************************)
LEMMA TotalZero ==
  ASSUME NEW S, NEW f, \A x \in S : f[x] = 0
  PROVE  Total(f, S) = 0
<1>1. \A x \in S : Units(f, x) = {}
  BY DEF Units
<1>2. UNION {Units(f, x) : x \in S} = {}
  BY <1>1
<1> QED BY <1>2, FS_EmptySet DEF Total

(***************************************************************************)
(* One summand split off.                                                  *)
(***************************************************************************)
LEMMA TotalSplit ==
  ASSUME NEW S, IsFiniteSet(S), NEW f, \A x \in S : f[x] \in Nat, NEW y \in S
  PROVE  /\ Total(f, S) \in Nat
         /\ Total(f, S \ {y}) \in Nat
         /\ Total(f, S) = Total(f, S \ {y}) + f[y]
<1> DEFINE R == UNION {Units(f, x) : x \in S \ {y}}
           Y == Units(f, y)
<1>1. IsFiniteSet(S \ {y})
  BY FS_RemoveElement
<1>2. IsFiniteSet(R)
  BY <1>1, UnitsFinite
<1>3. IsFiniteSet(Y) /\ Cardinality(Y) = f[y]
  BY UnitsCount
<1>4. R \cap Y = {}
  BY DEF Units
<1>5. UNION {Units(f, x) : x \in S} = R \cup Y
  OBVIOUS
<1>6. Cardinality(R \cap Y) = 0
  BY <1>4, FS_EmptySet
<1>7. Cardinality(R \cup Y) = Cardinality(R) + Cardinality(Y) - Cardinality(R \cap Y)
  BY <1>2, <1>3, FS_Union
<1>8. Cardinality(R) \in Nat
  BY <1>2, FS_CardinalityType
<1>9. Total(f, S) = Cardinality(R \cup Y) /\ Total(f, S \ {y}) = Cardinality(R)
  BY <1>5 DEF Total
<1> HIDE DEF R, Y
<1> QED BY <1>3, <1>6, <1>7, <1>8, <1>9

(***************************************************************************)
(* Equal summands have equal totals.                                       *)
(***************************************************************************)
LEMMA TotalSame ==
  ASSUME NEW S, NEW f, NEW g, \A x \in S : f[x] = g[x]
  PROVE  Total(f, S) = Total(g, S)
<1>1. \A x \in S : Units(f, x) = Units(g, x)
  BY DEF Units
<1>2. UNION {Units(f, x) : x \in S} = UNION {Units(g, x) : x \in S}
  BY <1>1
<1> QED BY <1>2 DEF Total

(***************************************************************************)
(* The total moves with the one summand that changes.                      *)
(***************************************************************************)
LEMMA TotalUpdate ==
  ASSUME NEW S, IsFiniteSet(S), NEW f, NEW g, NEW y \in S,
         \A x \in S : f[x] \in Nat, g[y] \in Nat,
         \A x \in S \ {y} : g[x] = f[x]
  PROVE  /\ Total(f, S) \in Nat /\ Total(g, S) \in Nat
         /\ f[y] <= Total(f, S)
         /\ Total(g, S) = Total(f, S) - f[y] + g[y]
<1>1. \A x \in S : g[x] \in Nat
  OBVIOUS
<1>2. /\ Total(f, S) \in Nat /\ Total(f, S \ {y}) \in Nat
      /\ Total(f, S) = Total(f, S \ {y}) + f[y]
  BY TotalSplit
<1>3. /\ Total(g, S) \in Nat /\ Total(g, S \ {y}) \in Nat
      /\ Total(g, S) = Total(g, S \ {y}) + g[y]
  BY <1>1, TotalSplit
<1>4. Total(f, S \ {y}) = Total(g, S \ {y})
  BY TotalSame
<1>5. f[y] \in Nat
  OBVIOUS
<1> QED BY <1>2, <1>3, <1>4, <1>5

(***************************************************************************)
(* Two summands are not more than the total.                               *)
(***************************************************************************)
LEMMA TotalTwo ==
  ASSUME NEW S, IsFiniteSet(S), NEW f, \A x \in S : f[x] \in Nat,
         NEW x \in S, NEW y \in S, x # y
  PROVE  f[x] + f[y] <= Total(f, S)
<1>1. Total(f, S \ {y}) \in Nat /\ Total(f, S) = Total(f, S \ {y}) + f[y]
  BY TotalSplit
<1>2. IsFiniteSet(S \ {y})
  BY FS_RemoveElement
<1>3. x \in S \ {y} /\ \A z \in S \ {y} : f[z] \in Nat
  OBVIOUS
<1>4. Total(f, (S \ {y}) \ {x}) \in Nat /\ Total(f, S \ {y}) = Total(f, (S \ {y}) \ {x}) + f[x]
  BY <1>2, <1>3, TotalSplit
<1>5. f[x] \in Nat /\ f[y] \in Nat
  OBVIOUS
<1> QED BY <1>1, <1>4, <1>5

----------------------------------------------------------------------------
(***************************************************************************)
(* A set of natural numbers that is not empty has a least member.          *)
(***************************************************************************)
LEMMA LeastNumber ==
  ASSUME NEW T, T \subseteq Nat, T # {}
  PROVE  \E x \in T : \A y \in T : x <= y
<1> DEFINE R == {ss \in Nat \X Nat : ss[1] < ss[2]}
<1>1. IsWellFoundedOn(R, Nat)
  BY NatLessThanWellFounded DEF OpToRel
<1>2. \E x \in T : \A y \in T : ~ (<<y, x>> \in R)
  <2> HIDE DEF R
  <2> QED BY <1>1, WFMin
<1>3. PICK x \in T : \A y \in T : ~ (<<y, x>> \in R)
  BY <1>2
<1>4. ASSUME NEW y \in T PROVE x <= y
  <2>1. x \in Nat /\ y \in Nat /\ <<y, x>> \notin R
    BY <1>3
  <2>2. ~(y < x)
    BY <2>1
  <2> QED BY <2>1, <2>2
<1> QED BY <1>4

(***************************************************************************)
(* Induction on the natural numbers, for a set of them.                    *)
(***************************************************************************)
LEMMA SetInduction ==
  ASSUME NEW T, 0 \in T, \A n \in Nat : n \in T => n + 1 \in T
  PROVE  Nat \subseteq T
<1> SUFFICES ASSUME Nat \ T # {} PROVE FALSE
  OBVIOUS
<1>1. PICK x \in Nat \ T : \A y \in Nat \ T : x <= y
  BY LeastNumber
<1>2. x # 0
  OBVIOUS
<1>3. x - 1 \in Nat /\ (x - 1) + 1 = x /\ ~(x <= x - 1)
  BY <1>2
<1>4. x - 1 \in T
  BY <1>1, <1>3
<1> QED BY <1>3, <1>4

(***************************************************************************)
(* The recursion of Keep has a solution, and kept is one.                  *)
(***************************************************************************)
KeptOf(s, S, n, f) ==
  f = [i \in 0 .. n |-> IF i = 0 THEN <<>>
                        ELSE IF s[i] \in S THEN Append(f[i - 1], s[i])
                        ELSE f[i - 1]]

(* There is a function that meets the recursive definition in Keep. *)
LEMMA KeptExists ==
  ASSUME NEW s, NEW S, NEW n \in Nat
  PROVE  \E f : KeptOf(s, S, n, f)
<1> DEFINE T == {k \in Nat : \E f : KeptOf(s, S, k, f)}
<1>1. 0 \in T
  <2> DEFINE f == [i \in 0 .. 0 |-> <<>>]
  <2>1. KeptOf(s, S, 0, f)
    BY DEF KeptOf
  <2> QED BY <2>1
<1>2. ASSUME NEW k \in Nat, k \in T PROVE k + 1 \in T
  <2>1. PICK f : KeptOf(s, S, k, f)
    BY <1>2
  <2> DEFINE g == [i \in 0 .. k + 1 |-> IF i <= k THEN f[i]
                                        ELSE IF s[k + 1] \in S THEN Append(f[k], s[k + 1])
                                        ELSE f[k]]
             h == [i \in 0 .. k + 1 |-> IF i = 0 THEN <<>>
                        ELSE IF s[i] \in S THEN Append(g[i - 1], s[i])
                        ELSE g[i - 1]]
  <2>2. ASSUME NEW i \in 0 .. k + 1 PROVE g[i] = h[i]
    <3>1. CASE i = 0
      <4>1. f[0] = <<>>
        BY <2>1 DEF KeptOf
      <4> QED BY <3>1, <4>1
    <3>2. CASE i = k + 1
      <4>1. i # 0 /\ i - 1 = k /\ k \in 0 .. k + 1 /\ k <= k /\ ~(k + 1 <= k)
        BY <3>2
      <4> QED BY <3>2, <4>1
    <3>3. CASE i # 0 /\ i # k + 1
      <4>1. i \in 0 .. k /\ i - 1 \in 0 .. k /\ i - 1 \in 0 .. k + 1 /\ i <= k /\ i - 1 <= k
        BY <3>3
      <4>2. f[i] = IF s[i] \in S THEN Append(f[i - 1], s[i]) ELSE f[i - 1]
        BY <2>1, <3>3, <4>1 DEF KeptOf
      <4>3. g[i] = f[i] /\ g[i - 1] = f[i - 1]
        BY <4>1
      <4> QED BY <3>3, <4>2, <4>3
    <3> QED BY <3>1, <3>2, <3>3
  <2>3. g = h
    BY <2>2
  <2>4. KeptOf(s, S, k + 1, g)
    BY <2>3 DEF KeptOf
  <2> QED BY <2>4
<1>3. Nat \subseteq T
  <2> HIDE DEF T
  <2> QED BY <1>1, <1>2, SetInduction
<1> QED BY <1>3

(* So what Keep returns obeys that definition, step by step along the list. *)
LEMMA KeepIsKept ==
  ASSUME NEW s, NEW S, Len(s) \in Nat
  PROVE  \E f : KeptOf(s, S, Len(s), f) /\ Keep(s, S) = f[Len(s)]
<1>1. \E f : KeptOf(s, S, Len(s), f)
  BY KeptExists
<1> DEFINE g == CHOOSE f : KeptOf(s, S, Len(s), f)
<1>2. KeptOf(s, S, Len(s), g)
  BY <1>1
<1>3. Keep(s, S) = g[Len(s)]
  BY DEF Keep, KeptOf
<1> QED BY <1>2, <1>3

(***************************************************************************)
(* Lists: members and order.                                               *)
(***************************************************************************)
LEMMA AppendFacts ==
  ASSUME NEW X, NEW s \in Seq(X), NEW x \in X
  PROVE  /\ Append(s, x) \in Seq(X)
         /\ Range(Append(s, x)) = Range(s) \cup {x}
         /\ (IsInjective(s) /\ x \notin Range(s)) => IsInjective(Append(s, x))
<1> DEFINE t == Append(s, x)
<1>1. /\ t \in Seq(X) /\ Len(s) \in Nat /\ Len(t) = Len(s) + 1
      /\ DOMAIN s = 1 .. Len(s) /\ DOMAIN t = 1 .. Len(s) + 1
      /\ \A i \in 1 .. Len(s) : t[i] = s[i]
      /\ t[Len(s) + 1] = x
  OBVIOUS
<1> HIDE DEF t
<1>2. \A i \in 1 .. Len(s) + 1 : i \in 1 .. Len(s) \/ i = Len(s) + 1
  BY <1>1
<1>3. Range(t) = Range(s) \cup {x}
  <2>1. \A y \in Range(t) : y \in Range(s) \cup {x}
    BY <1>1, <1>2 DEF Range
  <2>2. \A y \in Range(s) : y \in Range(t)
    <3> TAKE y \in Range(s)
    <3>1. PICK i \in 1 .. Len(s) : y = s[i]
      BY <1>1 DEF Range
    <3>2. i \in 1 .. Len(s) + 1
      BY <1>1
    <3> QED BY <1>1, <3>1, <3>2 DEF Range
  <2>3. x \in Range(t)
    <3>1. Len(s) + 1 \in 1 .. Len(s) + 1
      BY <1>1
    <3> QED BY <1>1, <3>1 DEF Range
  <2> QED BY <2>1, <2>2, <2>3
<1>4. ASSUME IsInjective(s), x \notin Range(s) PROVE IsInjective(t)
  <2> SUFFICES ASSUME NEW a \in 1 .. Len(s) + 1, NEW b \in 1 .. Len(s) + 1, t[a] = t[b]
               PROVE  a = b
    BY <1>1 DEF IsInjective
  <2>1. \A i \in 1 .. Len(s) : s[i] # x
    BY <1>1, <1>4 DEF Range
  <2>2. \A i, j \in 1 .. Len(s) : s[i] = s[j] => i = j
    BY <1>1, <1>4 DEF IsInjective
  <2> QED BY <1>1, <1>2, <2>1, <2>2
<1> QED BY <1>1, <1>3, <1>4 DEF t

(* Joining two lists: the members, and no duplicates if the two share none. *)
LEMMA ConcatFacts ==
  ASSUME NEW X, NEW s \in Seq(X), NEW t \in Seq(X)
  PROVE  /\ s \o t \in Seq(X)
         /\ Range(s \o t) = Range(s) \cup Range(t)
         /\ (IsInjective(s) /\ IsInjective(t) /\ Range(s) \cap Range(t) = {})
              => IsInjective(s \o t)
<1> DEFINE u == s \o t
<1>1. /\ u \in Seq(X) /\ Len(s) \in Nat /\ Len(t) \in Nat
      /\ DOMAIN s = 1 .. Len(s) /\ DOMAIN t = 1 .. Len(t) /\ DOMAIN u = 1 .. Len(s) + Len(t)
      /\ \A i \in 1 .. Len(s) : u[i] = s[i]
      /\ \A i \in 1 .. Len(s) + Len(t) : i > Len(s) => u[i] = t[i - Len(s)]
  OBVIOUS
<1> HIDE DEF u
<1>2. \A i \in 1 .. Len(s) + Len(t) : \/ i \in 1 .. Len(s) /\ u[i] = s[i]
                                      \/ i > Len(s) /\ i - Len(s) \in 1 .. Len(t) /\ u[i] = t[i - Len(s)]
  BY <1>1
<1>3. Range(u) = Range(s) \cup Range(t)
  <2>1. ASSUME NEW y \in Range(u) PROVE y \in Range(s) \cup Range(t)
    <3>1. PICK i \in 1 .. Len(s) + Len(t) : y = u[i]
      BY <1>1 DEF Range
    <3> QED BY <1>1, <1>2, <3>1 DEF Range
  <2>2. ASSUME NEW y \in Range(s) PROVE y \in Range(u)
    <3>1. PICK i \in 1 .. Len(s) : y = s[i]
      BY <1>1 DEF Range
    <3>2. i \in 1 .. Len(s) + Len(t)
      BY <1>1
    <3> QED BY <1>1, <3>1, <3>2 DEF Range
  <2>3. ASSUME NEW y \in Range(t) PROVE y \in Range(u)
    <3>1. PICK i \in 1 .. Len(t) : y = t[i]
      BY <1>1 DEF Range
    <3>2. i + Len(s) \in 1 .. Len(s) + Len(t) /\ i + Len(s) > Len(s) /\ (i + Len(s)) - Len(s) = i
      BY <1>1
    <3>3. u[i + Len(s)] = t[i]
      BY <1>1, <3>2
    <3> QED BY <1>1, <3>1, <3>2, <3>3 DEF Range
  <2> QED BY <2>1, <2>2, <2>3
<1>4. ASSUME IsInjective(s), IsInjective(t), Range(s) \cap Range(t) = {} PROVE IsInjective(u)
  <2> SUFFICES ASSUME NEW a \in 1 .. Len(s) + Len(t), NEW b \in 1 .. Len(s) + Len(t), u[a] = u[b]
               PROVE  a = b
    BY <1>1 DEF IsInjective
  <2>1. \A i \in 1 .. Len(s), j \in 1 .. Len(t) : s[i] # t[j]
    BY <1>1, <1>4 DEF Range
  <2>2. \A i, j \in 1 .. Len(s) : s[i] = s[j] => i = j
    BY <1>1, <1>4 DEF IsInjective
  <2>3. \A i, j \in 1 .. Len(t) : t[i] = t[j] => i = j
    BY <1>1, <1>4 DEF IsInjective
  <2>4. CASE a \in 1 .. Len(s)
    BY <1>1, <1>2, <2>1, <2>2, <2>4
  <2>5. CASE a > Len(s)
    <3>1. a - Len(s) \in 1 .. Len(t) /\ u[a] = t[a - Len(s)]
      BY <1>1, <2>5
    <3>2. CASE b \in 1 .. Len(s)
      BY <1>1, <2>1, <3>1, <3>2
    <3>3. CASE b > Len(s)
      <4>1. b - Len(s) \in 1 .. Len(t) /\ u[b] = t[b - Len(s)]
        BY <1>1, <3>3
      <4>2. a - Len(s) = b - Len(s)
        BY <2>3, <3>1, <4>1
      <4> QED BY <1>1, <4>2
    <3> QED BY <1>1, <3>2, <3>3
  <2> QED BY <1>1, <2>4, <2>5
<1> QED BY <1>1, <1>3, <1>4 DEF u

(* Taking the first off a list: the members, and no duplicates. *)
LEMMA HeadTailFacts ==
  ASSUME NEW X, NEW s \in Seq(X), s # <<>>
  PROVE  /\ Head(s) \in X /\ Head(s) \in Range(s)
         /\ Tail(s) \in Seq(X)
         /\ Range(s) = Range(Tail(s)) \cup {Head(s)}
         /\ IsInjective(s) => /\ IsInjective(Tail(s))
                              /\ Range(Tail(s)) = Range(s) \ {Head(s)}
<1> DEFINE t == Tail(s)
<1>1. /\ t \in Seq(X) /\ Len(s) \in Nat /\ Len(s) >= 1 /\ Len(t) = Len(s) - 1
      /\ DOMAIN s = 1 .. Len(s) /\ DOMAIN t = 1 .. Len(s) - 1
      /\ \A i \in 1 .. Len(s) - 1 : t[i] = s[i + 1]
      /\ Head(s) = s[1] /\ Head(s) \in X
  OBVIOUS
<1> HIDE DEF t
<1>2. 1 \in 1 .. Len(s) /\ \A i \in 1 .. Len(s) - 1 : i + 1 \in 1 .. Len(s) /\ i + 1 # 1
  BY <1>1
<1>3. Head(s) \in Range(s)
  BY <1>1, <1>2 DEF Range
<1>4. \A y \in Range(t) : \E i \in 1 .. Len(s) : i # 1 /\ y = s[i]
  BY <1>1, <1>2 DEF Range
<1>5. \A y \in Range(t) : y \in Range(s)
  BY <1>1, <1>4 DEF Range
<1>6. ASSUME NEW y \in Range(s), y # Head(s) PROVE y \in Range(t)
  <2>1. PICK i \in 1 .. Len(s) : y = s[i]
    BY <1>1 DEF Range
  <2>2. i # 1
    BY <1>1, <1>6, <2>1
  <2>3. i - 1 \in 1 .. Len(s) - 1 /\ (i - 1) + 1 = i
    BY <1>1, <2>2
  <2>4. t[i - 1] = s[i]
    BY <1>1, <2>3
  <2> QED BY <1>1, <2>1, <2>3, <2>4 DEF Range
<1>7. ASSUME IsInjective(s) PROVE IsInjective(t) /\ Head(s) \notin Range(t)
  <2>1. \A i, j \in 1 .. Len(s) : s[i] = s[j] => i = j
    BY <1>1, <1>7 DEF IsInjective
  <2>2. Head(s) \notin Range(t)
    BY <1>1, <1>2, <1>4, <2>1
  <2>3. ASSUME NEW a \in 1 .. Len(s) - 1, NEW b \in 1 .. Len(s) - 1, t[a] = t[b] PROVE a = b
    <3>1. a + 1 = b + 1
      BY <1>1, <1>2, <2>1, <2>3
    <3> QED BY <1>1, <3>1
  <2>4. IsInjective(t)
    BY <1>1, <2>3 DEF IsInjective
  <2> QED BY <2>2, <2>4
<1> QED BY <1>1, <1>3, <1>5, <1>6, <1>7 DEF t

(***************************************************************************)
(* Two members of k stand in list s in the same order, the later one among *)
(* its first n.                                                            *)
(***************************************************************************)
InOrder(k, s, n) ==
  \A a, b \in 1 .. Len(k) : a < b => \E i, j \in 1 .. n : i < j /\ s[i] = k[a] /\ s[j] = k[b]

KeptSoFar(s, S, X, n, k) ==
  /\ k \in Seq(X)
  /\ Range(k) = {s[i] : i \in 1 .. n} \cap S
  /\ InOrder(k, s, n)

(* Along the list, what is kept so far is a list in the original order. *)
LEMMA KeptInvariant ==
  ASSUME NEW X, NEW s \in Seq(X), NEW S, NEW f, KeptOf(s, S, Len(s), f)
  PROVE  KeptSoFar(s, S, X, Len(s), f[Len(s)])
<1> DEFINE T == {n \in Nat : n <= Len(s) => KeptSoFar(s, S, X, n, f[n])}
<1>0. Len(s) \in Nat /\ \A i \in 1 .. Len(s) : s[i] \in X
  OBVIOUS
<1>1. 0 \in T
  <2>1. f[0] = <<>>
    BY <1>0 DEF KeptOf
  <2>2. Range(<<>>) = {} /\ {s[i] : i \in 1 .. 0} = {} /\ InOrder(<<>>, s, 0)
    BY DEF Range, InOrder
  <2>3. KeptSoFar(s, S, X, 0, f[0])
    BY <2>1, <2>2 DEF KeptSoFar
  <2> QED BY <2>3
<1>2. ASSUME NEW n \in Nat, n \in T PROVE n + 1 \in T
  <2> SUFFICES ASSUME n + 1 <= Len(s) PROVE KeptSoFar(s, S, X, n + 1, f[n + 1])
    OBVIOUS
  <2> DEFINE k == f[n]
             x == s[n + 1]
  <2>1. KeptSoFar(s, S, X, n, k)
    BY <1>0, <1>2
  <2>2. f[n + 1] = IF x \in S THEN Append(k, x) ELSE k
    <3>1. n + 1 \in 0 .. Len(s) /\ n + 1 # 0 /\ (n + 1) - 1 = n
      BY <1>0
    <3> QED BY <3>1 DEF KeptOf
  <2>3. x \in X
    BY <1>0
  <2>4. {s[i] : i \in 1 .. n + 1} = {s[i] : i \in 1 .. n} \cup {x}
    <3>1. \A i : i \in 1 .. n + 1 <=> i \in 1 .. n \/ i = n + 1
      OBVIOUS
    <3> QED BY <3>1
  <2>5. \A i \in 1 .. n : i \in 1 .. n + 1 /\ i < n + 1
    OBVIOUS
  <2>6. n + 1 \in 1 .. n + 1
    OBVIOUS
  <2>7. k \in Seq(X) /\ Range(k) = {s[i] : i \in 1 .. n} \cap S /\ InOrder(k, s, n)
    BY <2>1 DEF KeptSoFar
  <2> HIDE DEF k, x
  <2>8. CASE x \notin S
    <3>1. InOrder(k, s, n + 1)
      BY <2>5, <2>7 DEF InOrder
    <3>2. Range(k) = {s[i] : i \in 1 .. n + 1} \cap S
      BY <2>4, <2>7, <2>8
    <3> QED BY <2>2, <2>7, <2>8, <3>1, <3>2 DEF KeptSoFar
  <2>9. CASE x \in S
    <3> DEFINE m == Append(k, x)
    <3>1. m \in Seq(X) /\ Range(m) = Range(k) \cup {x}
      BY <2>3, <2>7, AppendFacts
    <3>2. Range(m) = {s[i] : i \in 1 .. n + 1} \cap S
      BY <2>4, <2>7, <2>9, <3>1
    <3>3. /\ Len(k) \in Nat /\ Len(m) = Len(k) + 1 /\ m[Len(k) + 1] = x
          /\ DOMAIN k = 1 .. Len(k)
          /\ \A a \in 1 .. Len(k) : m[a] = k[a]
      BY <2>3, <2>7
    <3> HIDE DEF m
    <3>4. ASSUME NEW a \in 1 .. Len(m), NEW b \in 1 .. Len(m), a < b
          PROVE  \E i, j \in 1 .. n + 1 : i < j /\ s[i] = m[a] /\ s[j] = m[b]
      <4>1. a \in 1 .. Len(k) /\ m[a] = k[a]
        BY <3>3, <3>4
      <4>2. CASE b = Len(k) + 1
        <5>1. k[a] \in Range(k)
          BY <3>3, <4>1 DEF Range
        <5>2. PICK i \in 1 .. n : s[i] = k[a]
          BY <2>7, <5>1
        <5>3. i \in 1 .. n + 1 /\ i < n + 1 /\ s[i] = m[a] /\ s[n + 1] = m[b]
          BY <2>5, <3>3, <4>1, <4>2, <5>2 DEF x
        <5> QED BY <2>6, <5>3
      <4>3. CASE b # Len(k) + 1
        <5>1. b \in 1 .. Len(k) /\ m[b] = k[b]
          BY <3>3, <4>3
        <5>2. PICK i \in 1 .. n, j \in 1 .. n : i < j /\ s[i] = k[a] /\ s[j] = k[b]
          BY <2>7, <3>4, <4>1, <5>1 DEF InOrder
        <5> QED BY <2>5, <4>1, <5>1, <5>2
      <4> QED BY <4>2, <4>3
    <3>5. InOrder(m, s, n + 1)
      BY <3>4 DEF InOrder
    <3>6. f[n + 1] = m
      BY <2>2, <2>9 DEF m
    <3> QED BY <3>1, <3>2, <3>5, <3>6 DEF KeptSoFar
  <2> QED BY <2>8, <2>9
<1>3. Nat \subseteq T
  <2> HIDE DEF T
  <2> QED BY <1>1, <1>2, SetInduction
<1> QED BY <1>0, <1>3

(***************************************************************************)
(* Keep(s, S) lists the members of s that are in S, each as often as s     *)
(* does, in the same order.                                                *)
(***************************************************************************)
LEMMA KeepFacts ==
  ASSUME NEW X, NEW s \in Seq(X), NEW S
  PROVE  /\ Keep(s, S) \in Seq(X)
         /\ Range(Keep(s, S)) = Range(s) \cap S
         /\ IsInjective(s) => IsInjective(Keep(s, S))
         /\ InOrder(Keep(s, S), s, Len(s))
<1>0. Len(s) \in Nat /\ DOMAIN s = 1 .. Len(s)
  OBVIOUS
<1>1. PICK f : KeptOf(s, S, Len(s), f) /\ Keep(s, S) = f[Len(s)]
  BY <1>0, KeepIsKept
<1> DEFINE k == Keep(s, S)
<1>2. KeptSoFar(s, S, X, Len(s), k)
  BY <1>1, KeptInvariant
<1>3. Range(s) = {s[i] : i \in 1 .. Len(s)}
  BY <1>0 DEF Range
<1> HIDE DEF k
<1>4. k \in Seq(X) /\ Range(k) = Range(s) \cap S /\ InOrder(k, s, Len(s))
  BY <1>2, <1>3 DEF KeptSoFar
<1>5. ASSUME IsInjective(s) PROVE IsInjective(k)
  <2>1. DOMAIN k = 1 .. Len(k) /\ Len(k) \in Nat
    BY <1>4
  <2>2. \A a, b \in 1 .. Len(k) : a < b => k[a] # k[b]
    <3> SUFFICES ASSUME NEW a \in 1 .. Len(k), NEW b \in 1 .. Len(k), a < b, k[a] = k[b]
                 PROVE  FALSE
      OBVIOUS
    <3>1. PICK i \in 1 .. Len(s), j \in 1 .. Len(s) : i < j /\ s[i] = k[a] /\ s[j] = k[b]
      BY <1>4 DEF InOrder
    <3>2. i = j
      BY <1>0, <1>5, <3>1 DEF IsInjective
    <3> QED BY <1>0, <3>1, <3>2
  <2>3. \A a, b \in 1 .. Len(k) : a < b \/ b < a \/ a = b
    BY <2>1
  <2> QED BY <2>1, <2>2, <2>3 DEF IsInjective
<1> QED BY <1>4, <1>5 DEF k
=============================================================================
