---------------------------- MODULE My402Proofs -----------------------------
(***************************************************************************)
(* Proofs about My402List and My402Sort, for any number of cells, objects  *)
(* and lines of input: the links are whole between calls, the three sorts  *)
(* sort, and the list implements a sequence (ListSeq).                     *)
(*                                                                         *)
(* A whole list is described by the sequence s of its cells (Chain): next  *)
(* leads along s from the anchor and back to it, prev the other way.  An   *)
(* operation of My402List is then an insertion into s or a removal from s  *)
(* (Grew, Shrunk), and an exchange by the sorts one of two members of the  *)
(* objects in order (Objs).  The invariant IInv adds, for every place in   *)
(* the programs, what the loops know there of Objs.                        *)
(***************************************************************************)
EXTENDS My402Sort, LibraryProofs, SequenceTheorems

(***************************************************************************)
(* Sequences with one member more or less.                                 *)
(***************************************************************************)
(* t is s with x put in at place i. *)
Inserted(s, i, x, t) ==
  /\ Len(t) = Len(s) + 1 /\ t[i] = x
  /\ \A j \in 1 .. i - 1 : t[j] = s[j]
  /\ \A j \in i + 1 .. Len(s) + 1 : t[j] = s[j - 1]

(* t is s without its member at place i. *)
Removed(s, i, t) ==
  /\ Len(t) = Len(s) - 1
  /\ \A j \in 1 .. i - 1 : t[j] = s[j]
  /\ \A j \in i .. Len(s) - 1 : t[j] = s[j + 1]

(* A sequence is the function of its indices. *)
LEMMA SeqFacts ==
  ASSUME NEW S, NEW s \in Seq(S)
  PROVE  /\ Len(s) \in Nat /\ DOMAIN s = 1 .. Len(s) /\ s \in [1 .. Len(s) -> S]
         /\ \A k \in 1 .. Len(s) : s[k] \in S
         /\ Range(s) = {s[k] : k \in 1 .. Len(s)}
BY DEF Range

(* A function of the first n numbers is a sequence of length n. *)
LEMMA FunctionIsSeq ==
  ASSUME NEW S, NEW n \in Nat, NEW f \in [1 .. n -> S]
  PROVE  f \in Seq(S) /\ Len(f) = n
OBVIOUS

(* Sequences with the same length and members are the same. *)
LEMMA SeqsEqual ==
  ASSUME NEW S, NEW s \in Seq(S), NEW t \in Seq(S), Len(s) = Len(t), \A k \in 1 .. Len(s) : s[k] = t[k]
  PROVE  s = t
<1>1. s \in [1 .. Len(s) -> S] /\ t \in [1 .. Len(s) -> S]
  BY SeqFacts
<1> QED BY <1>1

(* There is such a sequence, and it is InsertAt. *)
LEMMA InsertFacts ==
  ASSUME NEW S, NEW s \in Seq(S), NEW i \in 1 .. Len(s) + 1, NEW x \in S
  PROVE  /\ InsertAt(s, i, x) \in Seq(S) /\ Inserted(s, i, x, InsertAt(s, i, x))
         /\ \A t \in Seq(S) : Inserted(s, i, x, t) => t = InsertAt(s, i, x)
<1> DEFINE u == SubSeq(s, 1, i - 1)
           v == SubSeq(s, i, Len(s))
           m == InsertAt(s, i, x)
<1>1. /\ Len(s) \in Nat /\ i \in Nat /\ 1 <= i /\ i <= Len(s) + 1
  OBVIOUS
<1>2. u \in Seq(S) /\ Len(u) = i - 1 /\ \A j \in 1 .. i - 1 : u[j] = s[j]
  BY <1>1, SubSeqProperties, SMTT(30)
<1>3. v \in Seq(S) /\ Len(v) = Len(s) - i + 1 /\ \A j \in 1 .. Len(s) - i + 1 : v[j] = s[i + j - 1]
  BY <1>1, SubSeqProperties, SMTT(30)
<1> DEFINE w == u \o <<x>>
<1>4. m = w \o v
  BY DEF InsertAt
<1> HIDE DEF u, v, m
<1>5. w \in Seq(S) /\ Len(w) = i /\ (\A j \in 1 .. i - 1 : w[j] = s[j]) /\ w[i] = x
  BY <1>1, <1>2, SMTT(30)
<1> HIDE DEF w
<1>6. m \in Seq(S) /\ Len(m) = Len(w) + Len(v)
  BY <1>3, <1>4, <1>5, ConcatProperties
<1>7. Len(m) = Len(s) + 1
  BY <1>1, <1>3, <1>5, <1>6
<1>8. \A j \in 1 .. i : m[j] = w[j]
  BY <1>1, <1>3, <1>4, <1>5, SMTT(30)
<1>9. \A j \in i + 1 .. Len(s) + 1 : m[j] = v[j - i]
  BY <1>1, <1>3, <1>4, <1>5, SMTT(30)
<1>10. ASSUME NEW j \in i + 1 .. Len(s) + 1 PROVE m[j] = s[j - 1]
  <2>1. j - i \in 1 .. Len(s) - i + 1 /\ i + (j - i) - 1 = j - 1
    BY <1>1
  <2> QED BY <1>3, <1>9, <2>1
<1>11. (\A j \in 1 .. i - 1 : m[j] = s[j]) /\ m[i] = x
  <2>1. i \in 1 .. i /\ \A j \in 1 .. i - 1 : j \in 1 .. i
    BY <1>1
  <2> QED BY <1>5, <1>8, <2>1
<1>12. Inserted(s, i, x, m)
  BY <1>7, <1>10, <1>11 DEF Inserted
<1>13. ASSUME NEW t \in Seq(S), Inserted(s, i, x, t) PROVE t = m
  <2>1. ASSUME NEW k \in 1 .. Len(t) PROVE t[k] = m[k]
    <3>1. Len(t) = Len(s) + 1
      BY <1>13 DEF Inserted
    <3>2. k \in 1 .. i - 1 \/ k = i \/ k \in i + 1 .. Len(s) + 1
      BY <1>1, <3>1
    <3> QED BY <1>12, <1>13, <3>2 DEF Inserted
  <2>2. Len(t) = Len(m)
    BY <1>12, <1>13 DEF Inserted
  <2> QED BY <1>6, <2>1, <2>2, SeqsEqual
<1> QED BY <1>6, <1>12, <1>13 DEF m

(* The same of RemoveAt. *)
LEMMA RemoveFacts ==
  ASSUME NEW S, NEW s \in Seq(S), NEW i \in 1 .. Len(s)
  PROVE  /\ RemoveAt(s, i) \in Seq(S) /\ Removed(s, i, RemoveAt(s, i))
         /\ \A t \in Seq(S) : Removed(s, i, t) => t = RemoveAt(s, i)
<1> DEFINE u == SubSeq(s, 1, i - 1)
           v == SubSeq(s, i + 1, Len(s))
           m == RemoveAt(s, i)
<1>1. /\ Len(s) \in Nat /\ i \in Nat /\ 1 <= i /\ i <= Len(s)
  OBVIOUS
<1>2. u \in Seq(S) /\ Len(u) = i - 1 /\ \A j \in 1 .. i - 1 : u[j] = s[j]
  BY <1>1, SubSeqProperties, SMTT(30)
<1>3. v \in Seq(S) /\ Len(v) = Len(s) - i /\ \A j \in 1 .. Len(s) - i : v[j] = s[i + j]
  BY <1>1, SubSeqProperties, SMTT(30)
<1>4. m = u \o v
  BY DEF RemoveAt
<1> HIDE DEF u, v, m
<1>5. m \in Seq(S) /\ Len(m) = Len(u) + Len(v)
  BY <1>2, <1>3, <1>4, ConcatProperties
<1>6. Len(m) = Len(s) - 1
  BY <1>1, <1>2, <1>3, <1>5
<1>7. \A j \in 1 .. i - 1 : m[j] = u[j]
  BY <1>1, <1>2, <1>3, <1>4, SMTT(30)
<1>8. \A j \in i .. Len(s) - 1 : m[j] = v[j - i + 1]
  BY <1>1, <1>2, <1>3, <1>4, SMTT(30)
<1>9. ASSUME NEW j \in i .. Len(s) - 1 PROVE m[j] = s[j + 1]
  <2>1. j - i + 1 \in 1 .. Len(s) - i /\ i + (j - i + 1) = j + 1
    BY <1>1
  <2> QED BY <1>3, <1>8, <2>1
<1>10. Removed(s, i, m)
  BY <1>2, <1>6, <1>7, <1>9 DEF Removed
<1>11. ASSUME NEW t \in Seq(S), Removed(s, i, t) PROVE t = m
  <2>1. ASSUME NEW k \in 1 .. Len(t) PROVE t[k] = m[k]
    <3>1. Len(t) = Len(s) - 1
      BY <1>11 DEF Removed
    <3>2. k \in 1 .. i - 1 \/ k \in i .. Len(s) - 1
      BY <1>1, <3>1
    <3> QED BY <1>10, <1>11, <3>2 DEF Removed
  <2>2. Len(t) = Len(m)
    BY <1>10, <1>11 DEF Removed
  <2> QED BY <1>5, <2>1, <2>2, SeqsEqual
<1> QED BY <1>5, <1>10, <1>11 DEF m

(***************************************************************************)
(* Following links.                                                        *)
(***************************************************************************)
(* The n-fold applications of succ to e. *)
Iterates(succ, e, n, f) == f = [k \in 0 .. n |-> IF k = 0 THEN e ELSE succ[f[k - 1]]]

(* There is a function that meets the recursive definitions of Walk and Ahead. *)
LEMMA IteratesExist ==
  ASSUME NEW succ, NEW e, NEW n \in Nat
  PROVE  \E f : Iterates(succ, e, n, f)
<1> DEFINE T == {k \in Nat : \E f : Iterates(succ, e, k, f)}
<1>1. 0 \in T
  <2> DEFINE f == [k \in 0 .. 0 |-> e]
  <2>1. Iterates(succ, e, 0, f)
    BY DEF Iterates
  <2> QED BY <2>1
<1>2. ASSUME NEW m \in Nat, m \in T PROVE m + 1 \in T
  <2>1. PICK f : Iterates(succ, e, m, f)
    BY <1>2
  <2>2. f = [k \in 0 .. m |-> IF k = 0 THEN e ELSE succ[f[k - 1]]]
    BY <2>1 DEF Iterates
  <2> DEFINE g == [k \in 0 .. m + 1 |-> IF k <= m THEN f[k] ELSE succ[f[m]]]
             h == [k \in 0 .. m + 1 |-> IF k = 0 THEN e ELSE succ[g[k - 1]]]
  <2>3. ASSUME NEW k \in 0 .. m + 1 PROVE g[k] = h[k]
    <3>1. CASE k = 0
      BY <2>2, <3>1
    <3>2. CASE k = m + 1
      <4>1. k # 0 /\ k - 1 = m /\ m \in 0 .. m + 1 /\ m <= m /\ ~(m + 1 <= m)
        BY <3>2
      <4> QED BY <3>2, <4>1
    <3>3. CASE k # 0 /\ k # m + 1
      <4>1. k \in 0 .. m /\ k - 1 \in 0 .. m /\ k - 1 \in 0 .. m + 1 /\ k <= m /\ k - 1 <= m
        BY <3>3
      <4>2. f[k] = succ[f[k - 1]]
        BY <2>2, <3>3, <4>1
      <4> QED BY <3>3, <4>1, <4>2
    <3> QED BY <3>1, <3>2, <3>3
  <2>4. g = h
    BY <2>3
  <2>5. Iterates(succ, e, m + 1, g)
    BY <2>4 DEF Iterates
  <2> QED BY <2>5
<1>3. Nat \subseteq T
  <2> HIDE DEF T
  <2> QED BY <1>1, <1>2, SetInduction
<1> QED BY <1>3

(* The node at place k of a list with cells s: beyond either end, the anchor. *)
At(s, k) == IF k \in 1 .. Len(s) THEN s[k] ELSE Anchor

(* The links lead along the cells of s, all that are allocated, to the anchor. *)
Path(l, s) ==
  /\ s \in Seq(Cell)
  /\ \A i, j \in 1 .. Len(s) : s[i] = s[j] => i = j
  /\ l.live = {s[k] : k \in 1 .. Len(s)}
  /\ \A k \in 1 .. Len(s) : l.next[s[k]] = At(s, k + 1)

(* A whole list with cells s, in both directions. *)
Chain(l, s) ==
  /\ Path(l, s)
  /\ l.num = Len(s)
  /\ \A k \in 0 .. Len(s) : l.next[At(s, k)] = At(s, k + 1) /\ l.prev[At(s, k + 1)] = At(s, k)

(* What a cell may hold, and the record that a list is. *)
Objects == Values \cup (1 .. MaxLines) \cup {NULL}
ListType == [next : [Node -> Pointer], prev : [Node -> Pointer], obj : [Node -> Objects],
             num : Nat, live : SUBSET Cell]

(* Cells are nodes, and neither the anchor nor NULL. *)
LEMMA NodeFacts ==
  /\ MaxCells \in Nat /\ MaxCells # 0
  /\ \A c \in Cell : c \in Node /\ c \in Pointer /\ c \in Nat /\ c # Anchor /\ c # NULL
  /\ Anchor \in Node /\ Anchor \in Pointer /\ NULL \in Pointer /\ NULL \notin Node /\ Anchor # NULL
  /\ Anchor \notin Cell /\ \A x \in Node : x = Anchor \/ x \in Cell
BY My402ListAssumption DEF Cell, Node, Pointer, Anchor, NULL

(* A sequence of different cells is no longer than there are cells. *)
LEMMA PathLength ==
  ASSUME NEW s \in Seq(Cell), \A i, j \in 1 .. Len(s) : s[i] = s[j] => i = j
  PROVE  Len(s) \in Nat /\ Len(s) <= MaxCells
<1>1. Len(s) \in Nat /\ s \in [1 .. Len(s) -> Cell]
  BY SeqFacts
<1>2. /\ IsFiniteSet(1 .. Len(s)) /\ Cardinality(1 .. Len(s)) = Len(s)
      /\ IsFiniteSet(Cell) /\ Cardinality(Cell) = MaxCells
  <2>1. ASSUME NEW n \in Nat PROVE IsFiniteSet(1 .. n) /\ Cardinality(1 .. n) = n
    <3>1. IsFiniteSet(1 .. n) /\ Cardinality(1 .. n) = IF 1 > n THEN 0 ELSE n - 1 + 1
      BY FS_Interval
    <3> QED BY <3>1
  <2> QED BY <1>1, <2>1, NodeFacts DEF Cell
<1>3. s \in Injection(1 .. Len(s), Cell)
  BY <1>1 DEF Injection, IsInjective
<1>4. Cardinality(1 .. Len(s)) <= Cardinality(Cell)
  BY <1>2, <1>3, FS_Injection
<1> QED BY <1>1, <1>2, <1>4

(* Walk returns the cells of the path. *)
LEMMA WalkAlong ==
  ASSUME NEW l, NEW s, Path(l, s)
  PROVE  Walk(l, At(s, 1)) = s
<1> DEFINE succ == [n \in Pointer |-> IF n \in Cell THEN l.next[n] ELSE n]
           e == At(s, 1)
           at == CHOOSE f : Iterates(succ, e, MaxCells, f)
           len == Cardinality({n \in 0 .. MaxCells - 1 : at[n] \in Cell})
<1>1. Walk(l, e) = [k \in 1 .. len |-> at[k - 1]]
  BY DEF Walk, Iterates
<1>2. /\ Len(s) \in Nat /\ Len(s) <= MaxCells /\ s \in [1 .. Len(s) -> Cell]
      /\ \A k \in 1 .. Len(s) : s[k] \in Cell
  BY PathLength, SeqFacts DEF Path
<1>3. Iterates(succ, e, MaxCells, at)
  BY NodeFacts, IteratesExist
<1>4. ASSUME NEW k \in Nat \ {0} PROVE succ[At(s, k)] = At(s, k + 1)
  <2>1. CASE k \in 1 .. Len(s)
    BY <1>2, <2>1, NodeFacts DEF At, Path
  <2>2. CASE k \notin 1 .. Len(s)
    <3>1. k + 1 \notin 1 .. Len(s)
      BY <1>2, <2>2
    <3> QED BY <2>2, <3>1, NodeFacts DEF At
  <2> QED BY <2>1, <2>2
<1> HIDE DEF succ, at, e
<1>5. at = [k \in 0 .. MaxCells |-> IF k = 0 THEN e ELSE succ[at[k - 1]]]
  BY <1>3 DEF Iterates
<1>6. \A n \in 0 .. MaxCells : at[n] = At(s, n + 1)
  <2> DEFINE T == {n \in Nat : n <= MaxCells => at[n] = At(s, n + 1)}
  <2>1. 0 \in T
    BY <1>5, NodeFacts DEF e
  <2>2. ASSUME NEW n \in Nat, n \in T PROVE n + 1 \in T
    <3> SUFFICES ASSUME n + 1 <= MaxCells PROVE at[n + 1] = At(s, n + 1 + 1)
      OBVIOUS
    <3>1. n <= MaxCells /\ n + 1 \in 0 .. MaxCells /\ n + 1 # 0 /\ n + 1 - 1 = n /\ n + 1 \in Nat \ {0}
      BY NodeFacts
    <3>2. at[n + 1] = succ[at[n]]
      BY <1>5, <3>1
    <3> QED BY <1>4, <2>2, <3>1, <3>2
  <2>3. Nat \subseteq T
    <3> HIDE DEF T
    <3> QED BY <2>1, <2>2, SetInduction
  <2> QED BY <2>3
<1>7. {n \in 0 .. MaxCells - 1 : at[n] \in Cell} = 0 .. Len(s) - 1
  <2>1. ASSUME NEW n \in 0 .. MaxCells - 1 PROVE at[n] \in Cell <=> n \in 0 .. Len(s) - 1
    <3>1. n \in 0 .. MaxCells /\ at[n] = At(s, n + 1)
      BY <1>6, NodeFacts
    <3>2. n + 1 \in 1 .. Len(s) <=> n \in 0 .. Len(s) - 1
      BY <1>2
    <3> QED BY <1>2, <3>1, <3>2, NodeFacts DEF At
  <2>2. 0 .. Len(s) - 1 \subseteq 0 .. MaxCells - 1
    BY <1>2, NodeFacts
  <2> QED BY <2>1, <2>2
<1>8. len = Len(s)
  <2>1. 0 \in Int /\ Len(s) - 1 \in Int
    BY <1>2
  <2>2. Cardinality(0 .. Len(s) - 1) = IF 0 > Len(s) - 1 THEN 0 ELSE Len(s) - 1 - 0 + 1
    BY <2>1, FS_Interval
  <2>3. (IF 0 > Len(s) - 1 THEN 0 ELSE Len(s) - 1 - 0 + 1) = Len(s)
    BY <1>2
  <2> QED BY <1>7, <2>2, <2>3
<1>9. ASSUME NEW k \in 1 .. Len(s) PROVE at[k - 1] = s[k]
  <2>1. k - 1 \in 0 .. MaxCells /\ k - 1 + 1 = k
    BY <1>2, NodeFacts
  <2> QED BY <1>6, <2>1 DEF At
<1>10. [k \in 1 .. Len(s) |-> at[k - 1]] = s
  BY <1>2, <1>9
<1> QED BY <1>1, <1>8, <1>10 DEF e

(***************************************************************************)
(* The operations, on a whole list.                                        *)
(***************************************************************************)
(* The objects of the cells s. *)
Objs(l, s) == [k \in 1 .. Len(s) |-> l.obj[s[k]]]

(* Places of a list, from the anchor to its last cell, or from its first cell
   to the anchor, are different nodes. *)
LEMMA AtFacts ==
  ASSUME NEW l, NEW s, Chain(l, s)
  PROVE  /\ s \in Seq(Cell) /\ Len(s) \in Nat /\ Len(s) <= MaxCells
         /\ \A k \in 1 .. Len(s) : s[k] \in Cell /\ s[k] \in l.live /\ At(s, k) = s[k]
         /\ \A k : At(s, k) \in Node
         /\ At(s, 0) = Anchor /\ At(s, Len(s) + 1) = Anchor
         /\ \A i, j \in 0 .. Len(s) : At(s, i) = At(s, j) => i = j
         /\ \A i, j \in 1 .. Len(s) + 1 : At(s, i) = At(s, j) => i = j
         /\ \A k \in 0 .. Len(s) : l.next[At(s, k)] = At(s, k + 1) /\ l.prev[At(s, k + 1)] = At(s, k)
         /\ l.num = Len(s) /\ l.live = {s[k] : k \in 1 .. Len(s)}
<1>1. Path(l, s) /\ l.num = Len(s) /\ l.live = {s[k] : k \in 1 .. Len(s)}
  BY DEF Chain, Path
<1>2. s \in Seq(Cell) /\ Len(s) \in Nat /\ Len(s) <= MaxCells
  BY <1>1, PathLength DEF Path
<1>3. \A k \in 1 .. Len(s) : s[k] \in Cell /\ s[k] \in l.live /\ At(s, k) = s[k]
  BY <1>1, <1>2, SeqFacts DEF At
<1>4. \A k : At(s, k) \in Node
  BY <1>3, NodeFacts DEF At
<1>5. \A k \in Nat : k \notin 1 .. Len(s) => At(s, k) = Anchor
  BY DEF At
<1>6. \A i, j \in 1 .. Len(s) : s[i] = s[j] => i = j
  BY <1>1 DEF Path
<1>7. ASSUME NEW i \in 0 .. Len(s), NEW j \in 0 .. Len(s), At(s, i) = At(s, j) PROVE i = j
  <2>1. /\ i \in Nat /\ i \notin 1 .. Len(s) => i = 0
        /\ j \in Nat /\ j \notin 1 .. Len(s) => j = 0
    BY <1>2
  <2> QED BY <1>3, <1>5, <1>6, <1>7, <2>1, NodeFacts
<1>8. ASSUME NEW i \in 1 .. Len(s) + 1, NEW j \in 1 .. Len(s) + 1, At(s, i) = At(s, j) PROVE i = j
  <2>1. /\ i \in Nat /\ i \notin 1 .. Len(s) => i = Len(s) + 1
        /\ j \in Nat /\ j \notin 1 .. Len(s) => j = Len(s) + 1
    BY <1>2
  <2> QED BY <1>3, <1>5, <1>6, <1>8, <2>1, NodeFacts
<1>9. At(s, 0) = Anchor /\ At(s, Len(s) + 1) = Anchor
  <2>1. 0 \in Nat /\ 0 \notin 1 .. Len(s) /\ Len(s) + 1 \in Nat /\ Len(s) + 1 \notin 1 .. Len(s)
    BY <1>2
  <2> QED BY <1>5, <2>1
<1>10. \A k \in 0 .. Len(s) : l.next[At(s, k)] = At(s, k + 1) /\ l.prev[At(s, k + 1)] = At(s, k)
  BY DEF Chain
<1> QED BY <1>1, <1>2, <1>3, <1>4, <1>7, <1>8, <1>9, <1>10

(* The fields of a list are of their types. *)
LEMMA ListFields ==
  ASSUME NEW l \in ListType
  PROVE  /\ l = [next |-> l.next, prev |-> l.prev, obj |-> l.obj, num |-> l.num, live |-> l.live]
         /\ l.next \in [Node -> Pointer] /\ l.prev \in [Node -> Pointer] /\ l.obj \in [Node -> Objects]
         /\ l.num \in Nat /\ l.live \subseteq Cell
BY DEF ListType

(* A cell that malloc gives is a new one. *)
LEMMA MallocFacts ==
  ASSUME NEW l, l.live \subseteq Cell, MayAllocate(l)
  PROVE  malloc(l) \in Cell /\ malloc(l) \notin l.live
<1> DEFINE F == Cell \ l.live
<1>1. F # {} /\ F \subseteq Nat
  BY NodeFacts DEF MayAllocate
<1>2. \E x \in F : \A y \in F : x <= y
  <2> HIDE DEF F
  <2> QED BY <1>1, LeastNumber
<1>3. malloc(l) \in F
  BY <1>2 DEF malloc, Min
<1> QED BY <1>3

(* l2 is the list l, with cells s, with a cell holding o put in at place i. *)
Grew(l, s, i, o, l2, s2) ==
  /\ l2 \in ListType /\ Chain(l2, s2)
  /\ Inserted(s, i, s2[i], s2)
  /\ s2[i] \notin l.live /\ l2.live = l.live \cup {s2[i]}
  /\ Inserted(Objs(l, s), i, o, Objs(l2, s2))

(* l2 is the list l, with cells s, without the cell at place i. *)
Shrunk(l, s, i, l2, s2) ==
  /\ l2 \in ListType /\ Chain(l2, s2)
  /\ Removed(s, i, s2)
  /\ l2.live = l.live \ {s[i]}
  /\ Removed(Objs(l, s), i, Objs(l2, s2))

(* Link puts a new cell between two neighbours. *)
LEMMA LinkGrows ==
  ASSUME NEW l \in ListType, NEW s, Chain(l, s), NEW o \in Objects, MayAllocate(l),
         NEW k \in 0 .. Len(s), NEW p, p = At(s, k), NEW n, n = At(s, k + 1)
  PROVE  \E s2 : Grew(l, s, k + 1, o, Link(l, o, p, n), s2)
<1>1. PICK c : c = malloc(l)
  OBVIOUS
<1>2. c \in Cell /\ c \notin l.live /\ c \in Node /\ c \in Pointer /\ c # Anchor
  BY <1>1, ListFields, MallocFacts, NodeFacts
<1>3. /\ s \in Seq(Cell) /\ Len(s) \in Nat /\ Len(s) <= MaxCells
      /\ \A j \in 1 .. Len(s) : s[j] \in Cell /\ s[j] \in l.live /\ At(s, j) = s[j]
      /\ \A j : At(s, j) \in Node
      /\ At(s, 0) = Anchor /\ At(s, Len(s) + 1) = Anchor
      /\ \A i, j \in 0 .. Len(s) : At(s, i) = At(s, j) => i = j
      /\ \A i, j \in 1 .. Len(s) + 1 : At(s, i) = At(s, j) => i = j
      /\ \A j \in 0 .. Len(s) : l.next[At(s, j)] = At(s, j + 1) /\ l.prev[At(s, j + 1)] = At(s, j)
      /\ l.num = Len(s) /\ l.live = {s[j] : j \in 1 .. Len(s)}
  BY AtFacts
<1>4. p \in Node /\ n \in Node /\ p \in Pointer /\ n \in Pointer /\ p # c /\ n # c
  <2>1. \A j : At(s, j) # c
    BY <1>2, <1>3 DEF At
  <2>2. \A x \in Node : x \in Pointer
    BY DEF Pointer
  <2> QED BY <1>3, <2>1, <2>2
<1>5. PICK l2 : l2 = Link(l, o, p, n)
  OBVIOUS
<1>6. PICK s2 : s2 = InsertAt(s, k + 1, c)
  OBVIOUS
<1>7. k \in Nat /\ k <= Len(s) /\ k + 1 \in 1 .. Len(s) + 1 /\ k + 1 - 1 = k
  BY <1>3
<1>8. s2 \in Seq(Cell) /\ Inserted(s, k + 1, c, s2)
  BY <1>2, <1>3, <1>6, <1>7, InsertFacts
<1>9. /\ Len(s2) = Len(s) + 1 /\ s2[k + 1] = c
      /\ \A j \in 1 .. k : s2[j] = s[j]
      /\ \A j \in k + 2 .. Len(s) + 1 : s2[j] = s[j - 1]
  <2>1. PICK m : m = k + 1
    OBVIOUS
  <2>2. /\ Len(s2) = Len(s) + 1 /\ s2[m] = c
        /\ \A j \in 1 .. m - 1 : s2[j] = s[j]
        /\ \A j \in m + 1 .. Len(s) + 1 : s2[j] = s[j - 1]
    BY <1>8, <2>1 DEF Inserted
  <2>3. m - 1 = k /\ m + 1 = k + 2
    BY <1>7, <2>1
  <2> QED BY <2>1, <2>2, <2>3
<1>10. /\ l2.next = [l.next EXCEPT ![c] = n, ![p] = c]
       /\ l2.prev = [l.prev EXCEPT ![c] = p, ![n] = c]
       /\ l2.obj = [l.obj EXCEPT ![c] = o]
       /\ l2.num = l.num + 1 /\ l2.live = l.live \cup {c}
       /\ l2 = [next |-> l2.next, prev |-> l2.prev, obj |-> l2.obj, num |-> l2.num, live |-> l2.live]
  <2>1. PICK nx, pv, ob, nm, lv : l = [next |-> nx, prev |-> pv, obj |-> ob, num |-> nm, live |-> lv]
    BY ListFields
  <2>2. l2 = [l EXCEPT !.num = @ + 1, !.live = @ \cup {c}, !.obj[c] = o,
                       !.next = [@ EXCEPT ![c] = n, ![p] = c],
                       !.prev = [@ EXCEPT ![c] = p, ![n] = c]]
    BY <1>1, <1>5 DEF Link
  <2>3. l2 = [next |-> [nx EXCEPT ![c] = n, ![p] = c], prev |-> [pv EXCEPT ![c] = p, ![n] = c],
              obj |-> [ob EXCEPT ![c] = o], num |-> nm + 1, live |-> lv \cup {c}]
    BY ONLY <2>1, <2>2
  <2> QED BY <2>1, <2>3
<1>11. /\ l.next \in [Node -> Pointer] /\ l.prev \in [Node -> Pointer] /\ l.obj \in [Node -> Objects]
       /\ l.num \in Nat /\ l.live \subseteq Cell
  BY ListFields
<1>12. l2 \in ListType
  <2>1. l2.next \in [Node -> Pointer] /\ l2.prev \in [Node -> Pointer]
    BY <1>2, <1>4, <1>10, <1>11
  <2>2. l2.obj \in [Node -> Objects] /\ l2.num \in Nat /\ l2.live \subseteq Cell
    BY <1>2, <1>10, <1>11
  <2> QED BY <1>10, <2>1, <2>2 DEF ListType
<1>13. ASSUME NEW j \in 0 .. Len(s) + 2
       PROVE  /\ j <= k => At(s2, j) = At(s, j)
              /\ j = k + 1 => At(s2, j) = c
              /\ j > k + 1 => At(s2, j) = At(s, j - 1)
  <2>1. j \in 1 .. Len(s2) <=> j \in 1 .. Len(s) + 1
    BY <1>9
  <2>2. CASE j <= k
    <3>1. (j \in 1 .. Len(s) + 1 <=> j \in 1 .. Len(s)) /\ (j \in 1 .. Len(s) => j \in 1 .. k)
      BY <1>3, <1>7, <2>2
    <3>2. ~(j = k + 1) /\ ~(j > k + 1)
      BY <1>7, <2>2
    <3> QED BY <1>9, <2>1, <3>1, <3>2 DEF At
  <2>3. CASE j = k + 1
    <3>1. j \in 1 .. Len(s) + 1 /\ ~(j <= k) /\ ~(j > k + 1)
      BY <1>7, <2>3
    <3> QED BY <1>9, <2>1, <2>3, <3>1 DEF At
  <2>4. CASE j > k + 1
    <3>1. (j \in 1 .. Len(s) + 1 <=> j - 1 \in 1 .. Len(s)) /\ (j \in 1 .. Len(s) + 1 => j \in k + 2 .. Len(s) + 1)
      BY <1>3, <1>7, <2>4
    <3>2. ~(j = k + 1) /\ ~(j <= k)
      BY <1>7, <2>4
    <3> QED BY <1>9, <2>1, <3>1, <3>2 DEF At
  <2> QED BY <1>7, <2>2, <2>3, <2>4
<1>14. ASSUME NEW j \in 0 .. Len(s2)
       PROVE  l2.next[At(s2, j)] = At(s2, j + 1) /\ l2.prev[At(s2, j + 1)] = At(s2, j)
  <2>1. j \in Nat /\ j <= Len(s) + 1 /\ j \in 0 .. Len(s) + 2 /\ j + 1 \in 0 .. Len(s) + 2
    BY <1>3, <1>9
  <2>2. \A i : At(s, i) # c
    BY <1>2, <1>3 DEF At
  <2>3. CASE j < k
    <3>1. j <= k /\ j + 1 <= k /\ j \in 0 .. Len(s) /\ k \in 0 .. Len(s) /\ j # k
          /\ j + 1 \in 1 .. Len(s) + 1 /\ k + 1 \in 1 .. Len(s) + 1 /\ j + 1 # k + 1
      BY <1>3, <1>7, <2>1, <2>3
    <3>2. At(s2, j) = At(s, j) /\ At(s2, j + 1) = At(s, j + 1)
      BY <1>13, <2>1, <3>1
    <3>3. At(s, j) # p /\ At(s, j + 1) # n
      BY <1>3, <3>1
    <3> QED BY <1>3, <1>10, <1>11, <2>2, <3>1, <3>2, <3>3
  <2>4. CASE j = k
    <3>1. At(s2, j) = p /\ At(s2, j + 1) = c
      BY <1>7, <1>13, <2>1, <2>4
    <3> QED BY <1>2, <1>4, <1>10, <1>11, <3>1
  <2>5. CASE j = k + 1
    <3>1. j + 1 > k + 1 /\ j + 1 - 1 = k + 1
      BY <1>7, <2>5
    <3>2. At(s2, j) = c /\ At(s2, j + 1) = n
      BY <1>13, <2>1, <2>5, <3>1
    <3> QED BY <1>2, <1>4, <1>10, <1>11, <3>2
  <2>6. CASE j > k + 1
    <3>1. /\ j + 1 > k + 1 /\ j + 1 - 1 = j /\ j - 1 \in 0 .. Len(s) /\ k \in 0 .. Len(s) /\ j - 1 # k
          /\ j \in 1 .. Len(s) + 1 /\ k + 1 \in 1 .. Len(s) + 1 /\ j # k + 1 /\ j - 1 + 1 = j
      BY <1>3, <1>7, <2>1, <2>6
    <3>2. At(s2, j) = At(s, j - 1) /\ At(s2, j + 1) = At(s, j)
      BY <1>13, <2>1, <2>6, <3>1
    <3>3. At(s, j - 1) # p /\ At(s, j) # n
      BY <1>3, <3>1
    <3>4. l.next[At(s, j - 1)] = At(s, j) /\ l.prev[At(s, j)] = At(s, j - 1)
      BY <1>3, <3>1
    <3> QED BY <1>3, <1>10, <1>11, <2>2, <3>2, <3>3, <3>4
  <2> QED BY <1>7, <2>1, <2>3, <2>4, <2>5, <2>6
<1>15. \A i, j \in 1 .. Len(s2) : s2[i] = s2[j] => i = j
  <2>1. ASSUME NEW i \in 1 .. Len(s2)
        PROVE  \/ i = k + 1 /\ s2[i] = c
               \/ i \in 1 .. k /\ s2[i] = s[i]
               \/ i - 1 \in k + 1 .. Len(s) /\ s2[i] = s[i - 1]
    <3>1. i = k + 1 \/ i \in 1 .. k \/ i \in k + 2 .. Len(s) + 1
      BY <1>3, <1>7, <1>9
    <3>2. i \in k + 2 .. Len(s) + 1 => i - 1 \in k + 1 .. Len(s)
      BY <1>3, <1>7
    <3> QED BY <1>9, <3>1, <3>2
  <2>2. \A i, j \in 1 .. Len(s) : s[i] = s[j] => i = j
    BY <1>3 DEF Chain, Path
  <2>3. \A i \in 1 .. Len(s) : s[i] # c
    BY <1>2, <1>3
  <2>4. (\A i \in 1 .. k : i \in 1 .. Len(s)) /\ (\A i \in k + 1 .. Len(s) : i \in 1 .. Len(s))
    BY <1>3, <1>7
  <2> TAKE i, j \in 1 .. Len(s2)
  <2> HAVE s2[i] = s2[j]
  <2>5. i \in Int /\ j \in Int
    OBVIOUS
  <2>6. CASE i = k + 1
    BY <1>7, <2>1, <2>3, <2>4, <2>5, <2>6
  <2>7. CASE i \in 1 .. k /\ s2[i] = s[i]
    <3>1. s2[j] # c
      BY <2>3, <2>4, <2>7
    <3>2. CASE j \in 1 .. k /\ s2[j] = s[j]
      BY <2>2, <2>4, <2>7, <3>2
    <3>3. CASE j - 1 \in k + 1 .. Len(s) /\ s2[j] = s[j - 1]
      <4>1. i = j - 1
        BY <2>2, <2>4, <2>7, <3>3
      <4> QED BY <1>7, <2>5, <2>7, <3>3, <4>1
    <3> QED BY <2>1, <3>1, <3>2, <3>3
  <2>8. CASE i - 1 \in k + 1 .. Len(s) /\ s2[i] = s[i - 1]
    <3>1. s2[j] # c
      BY <2>3, <2>4, <2>8
    <3>2. CASE j \in 1 .. k /\ s2[j] = s[j]
      <4>1. j = i - 1
        BY <2>2, <2>4, <2>8, <3>2
      <4> QED BY <1>7, <2>5, <2>8, <3>2, <4>1
    <3>3. CASE j - 1 \in k + 1 .. Len(s) /\ s2[j] = s[j - 1]
      <4>1. i - 1 = j - 1
        BY <2>2, <2>4, <2>8, <3>3
      <4> QED BY <2>5, <4>1
    <3> QED BY <2>1, <3>1, <3>2, <3>3
  <2> QED BY <2>1, <2>6, <2>7, <2>8
<1>16. l2.live = {s2[j] : j \in 1 .. Len(s2)}
  <2>1. \A j \in 1 .. Len(s2) : s2[j] \in l2.live
    <3> TAKE j \in 1 .. Len(s2)
    <3>1. j = k + 1 \/ j \in 1 .. k \/ (j \in k + 2 .. Len(s) + 1 /\ j - 1 \in 1 .. Len(s))
      BY <1>3, <1>7, <1>9
    <3>2. j \in 1 .. k => j \in 1 .. Len(s)
      BY <1>3, <1>7
    <3> QED BY <1>3, <1>9, <1>10, <3>1, <3>2
  <2>2. ASSUME NEW x \in l2.live PROVE \E j \in 1 .. Len(s2) : x = s2[j]
    <3>1. CASE x = c
      BY <1>7, <1>9, <3>1
    <3>2. CASE x # c
      <4>1. PICK j \in 1 .. Len(s) : x = s[j]
        BY <1>3, <1>10, <3>2
      <4>2. j \in 1 .. k \/ (j + 1 \in k + 2 .. Len(s) + 1 /\ j + 1 - 1 = j)
        BY <1>3, <1>7
      <4>3. j \in 1 .. Len(s2) /\ j + 1 \in 1 .. Len(s2)
        BY <1>3, <1>9
      <4>4. CASE j \in 1 .. k
        BY <1>9, <4>1, <4>3, <4>4
      <4>5. CASE j + 1 \in k + 2 .. Len(s) + 1 /\ j + 1 - 1 = j
        <5>1. s2[j + 1] = s[j + 1 - 1]
          BY <1>9, <4>5
        <5> QED BY <4>1, <4>3, <4>5, <5>1
      <4> QED BY <4>2, <4>4, <4>5
    <3> QED BY <3>1, <3>2
  <2> QED BY <2>1, <2>2
<1>17. Chain(l2, s2)
  <2>1. \A j \in 1 .. Len(s2) : j \in 0 .. Len(s2) /\ At(s2, j) = s2[j]
    BY DEF At
  <2>2. l2.num = Len(s2)
    BY <1>3, <1>9, <1>10
  <2> QED BY <1>8, <1>14, <1>15, <1>16, <2>1, <2>2 DEF Chain, Path
<1>18. Inserted(Objs(l, s), k + 1, o, Objs(l2, s2))
  <2>1. Len(Objs(l, s)) = Len(s) /\ Len(Objs(l2, s2)) = Len(s2)
    BY <1>3, <1>9 DEF Objs
  <2>2. Objs(l2, s2)[k + 1] = o
    <3>1. k + 1 \in 1 .. Len(s2)
      BY <1>7, <1>9
    <3> QED BY <1>2, <1>9, <1>10, <1>11, <3>1 DEF Objs
  <2>3. \A j \in 1 .. Len(s) : l2.obj[s[j]] = l.obj[s[j]]
    BY <1>2, <1>3, <1>10, <1>11
  <2>4. ASSUME NEW j \in 1 .. k + 1 - 1 PROVE Objs(l2, s2)[j] = Objs(l, s)[j]
    <3>1. j \in 1 .. k /\ j \in 1 .. Len(s) /\ j \in 1 .. Len(s2)
      BY <1>3, <1>7, <1>9
    <3> QED BY <1>9, <2>3, <3>1 DEF Objs
  <2>5. ASSUME NEW j \in k + 1 + 1 .. Len(s) + 1 PROVE Objs(l2, s2)[j] = Objs(l, s)[j - 1]
    <3>1. j \in k + 2 .. Len(s) + 1 /\ j - 1 \in 1 .. Len(s) /\ j \in 1 .. Len(s2)
      BY <1>3, <1>7, <1>9
    <3> QED BY <1>9, <2>3, <3>1 DEF Objs
  <2> QED BY <1>9, <2>1, <2>2, <2>4, <2>5 DEF Inserted
<1>19. Grew(l, s, k + 1, o, l2, s2)
  BY <1>2, <1>8, <1>9, <1>10, <1>12, <1>17, <1>18 DEF Grew
<1> QED BY <1>5, <1>19

(* Unlink takes a cell out from between its neighbours, and frees it. *)
LEMMA UnlinkShrinks ==
  ASSUME NEW l \in ListType, NEW s, Chain(l, s), NEW k \in 1 .. Len(s), NEW e, e = s[k]
  PROVE  \E s2 : Shrunk(l, s, k, My402ListUnlink(l, e), s2)
<1>1. /\ s \in Seq(Cell) /\ Len(s) \in Nat /\ Len(s) <= MaxCells
      /\ \A j \in 1 .. Len(s) : s[j] \in Cell /\ s[j] \in l.live /\ At(s, j) = s[j]
      /\ \A j : At(s, j) \in Node
      /\ At(s, 0) = Anchor /\ At(s, Len(s) + 1) = Anchor
      /\ \A i, j \in 0 .. Len(s) : At(s, i) = At(s, j) => i = j
      /\ \A i, j \in 1 .. Len(s) + 1 : At(s, i) = At(s, j) => i = j
      /\ \A j \in 0 .. Len(s) : l.next[At(s, j)] = At(s, j + 1) /\ l.prev[At(s, j + 1)] = At(s, j)
      /\ l.num = Len(s) /\ l.live = {s[j] : j \in 1 .. Len(s)}
  BY AtFacts
<1>2. \A i, j \in 1 .. Len(s) : s[i] = s[j] => i = j
  BY DEF Chain, Path
<1>3. PICK p, n : p = At(s, k - 1) /\ n = At(s, k + 1)
  OBVIOUS
<1>4. k \in Nat /\ 1 <= k /\ k <= Len(s) /\ k - 1 \in 0 .. Len(s) /\ k \in 0 .. Len(s) /\ k - 1 + 1 = k
  BY <1>1
<1>5. e \in Cell /\ e \in Node /\ e = At(s, k) /\ e # Anchor
  BY <1>1, NodeFacts
<1>6. l.prev[e] = p /\ l.next[e] = n
  <2>1. l.prev[At(s, k - 1 + 1)] = At(s, k - 1) /\ l.next[At(s, k)] = At(s, k + 1)
    BY <1>1, <1>4
  <2> QED BY <1>3, <1>4, <1>5, <2>1
<1>7. p \in Node /\ n \in Node /\ p # e /\ n # e
  <2>1. k - 1 # k /\ k + 1 # k /\ k + 1 \in 1 .. Len(s) + 1 /\ k \in 1 .. Len(s) + 1
    BY <1>1, <1>4
  <2> QED BY <1>1, <1>3, <1>4, <1>5, <2>1
<1>8. /\ l.next \in [Node -> Pointer] /\ l.prev \in [Node -> Pointer] /\ l.obj \in [Node -> Objects]
      /\ l.num \in Nat /\ l.live \subseteq Cell
  BY ListFields
<1>9. PICK l2 : l2 = My402ListUnlink(l, e)
  OBVIOUS
<1>10. /\ l2.next = [[l.next EXCEPT ![p] = n] EXCEPT ![e] = NULL]
       /\ l2.prev = [[l.prev EXCEPT ![n] = p] EXCEPT ![e] = NULL]
       /\ l2.obj = [l.obj EXCEPT ![e] = NULL]
       /\ l2.num = l.num - 1 /\ l2.live = l.live \ {e}
       /\ l2 = [next |-> l2.next, prev |-> l2.prev, obj |-> l2.obj, num |-> l2.num, live |-> l2.live]
  <2>1. PICK nx, pv, ob, nm, lv : l = [next |-> nx, prev |-> pv, obj |-> ob, num |-> nm, live |-> lv]
    BY ListFields
  <2>2. l2 = [free([l EXCEPT !.next[p] = n, !.prev[n] = p], e) EXCEPT !.num = @ - 1]
    BY <1>6, <1>9 DEF My402ListUnlink
  <2>3. PICK l1 : l1 = [l EXCEPT !.next[p] = n, !.prev[n] = p]
    OBVIOUS
  <2>4. l1 = [next |-> [nx EXCEPT ![p] = n], prev |-> [pv EXCEPT ![n] = p], obj |-> ob, num |-> nm, live |-> lv]
    BY ONLY <2>1, <2>3
  <2>5. PICK nx1, pv1 : nx1 = [nx EXCEPT ![p] = n] /\ pv1 = [pv EXCEPT ![n] = p]
    OBVIOUS
  <2>6. PICK l3 : l3 = free(l1, e)
    OBVIOUS
  <2>7. l1 = [next |-> nx1, prev |-> pv1, obj |-> ob, num |-> nm, live |-> lv]
    BY <2>4, <2>5
  <2>8. l3 = [l1 EXCEPT !.next[e] = NULL, !.prev[e] = NULL, !.obj[e] = NULL, !.live = @ \ {e}]
    BY <2>6 DEF free
  <2>9. l3 = [next |-> [nx1 EXCEPT ![e] = NULL], prev |-> [pv1 EXCEPT ![e] = NULL],
              obj |-> [ob EXCEPT ![e] = NULL], num |-> nm, live |-> lv \ {e}]
    BY ONLY <2>7, <2>8
  <2>10. l2 = [l3 EXCEPT !.num = @ - 1]
    BY <2>2, <2>3, <2>6
  <2>11. PICK nx3, pv3, ob3, lv3 : /\ nx3 = [nx1 EXCEPT ![e] = NULL] /\ pv3 = [pv1 EXCEPT ![e] = NULL]
                                   /\ ob3 = [ob EXCEPT ![e] = NULL] /\ lv3 = lv \ {e}
    OBVIOUS
  <2>12. l3 = [next |-> nx3, prev |-> pv3, obj |-> ob3, num |-> nm, live |-> lv3]
    BY <2>9, <2>11
  <2>13. l2 = [next |-> nx3, prev |-> pv3, obj |-> ob3, num |-> nm - 1, live |-> lv3]
    BY ONLY <2>10, <2>12
  <2> QED BY <2>1, <2>5, <2>11, <2>13
<1>11. l2 \in ListType
  <2>1. n \in Pointer /\ p \in Pointer /\ NULL \in Pointer
    BY <1>7 DEF Pointer
  <2>2. l2.next \in [Node -> Pointer] /\ l2.prev \in [Node -> Pointer]
    <3>1. PICK nx, pv : nx = [l.next EXCEPT ![p] = n] /\ pv = [l.prev EXCEPT ![n] = p]
      OBVIOUS
    <3>2. nx \in [Node -> Pointer] /\ pv \in [Node -> Pointer]
      BY <1>8, <2>1, <3>1
    <3>3. l2.next = [nx EXCEPT ![e] = NULL] /\ l2.prev = [pv EXCEPT ![e] = NULL]
      BY <1>10, <3>1
    <3> QED BY <2>1, <3>2, <3>3
  <2>3. l2.obj \in [Node -> Objects]
    BY <1>8, <1>10 DEF Objects
  <2>4. l2.num \in Nat /\ l2.live \subseteq Cell
    BY <1>1, <1>4, <1>8, <1>10
  <2> QED BY <1>10, <2>2, <2>3, <2>4 DEF ListType
<1>12. PICK s2 : s2 = RemoveAt(s, k)
  OBVIOUS
<1>13. s2 \in Seq(Cell) /\ Removed(s, k, s2)
  BY <1>1, <1>12, RemoveFacts
<1>14. /\ Len(s2) = Len(s) - 1 /\ Len(s2) \in Nat
       /\ \A j \in 1 .. k - 1 : s2[j] = s[j]
       /\ \A j \in k .. Len(s) - 1 : s2[j] = s[j + 1]
  BY <1>1, <1>4, <1>13 DEF Removed
<1>15. ASSUME NEW j \in 0 .. Len(s)
       PROVE  /\ j < k => At(s2, j) = At(s, j)
              /\ j >= k => At(s2, j) = At(s, j + 1)
  <2>1. j \in 1 .. Len(s2) <=> j \in 1 .. Len(s) - 1
    BY <1>14
  <2>2. CASE j < k
    <3>1. (j \in 1 .. Len(s) - 1 <=> j \in 1 .. Len(s)) /\ (j \in 1 .. Len(s) => j \in 1 .. k - 1) /\ ~(j >= k)
      BY <1>1, <1>4, <2>2, SMTT(30)
    <3> QED BY <1>14, <2>1, <3>1 DEF At
  <2>3. CASE j >= k
    <3>1. /\ j \in 1 .. Len(s) - 1 <=> j + 1 \in 1 .. Len(s)
          /\ j \in 1 .. Len(s) - 1 => j \in k .. Len(s) - 1
          /\ ~(j < k)
      BY <1>1, <1>4, <2>3
    <3> QED BY <1>14, <2>1, <3>1 DEF At
  <2> QED BY <1>4, <2>2, <2>3
<1>16. ASSUME NEW j \in 0 .. Len(s2)
       PROVE  l2.next[At(s2, j)] = At(s2, j + 1) /\ l2.prev[At(s2, j + 1)] = At(s2, j)
  <2>1. j \in Nat /\ j <= Len(s) - 1 /\ j \in 0 .. Len(s) /\ j + 1 \in 0 .. Len(s)
    BY <1>1, <1>14
  <2>2. CASE j < k - 1
    <3>1. /\ j < k /\ j + 1 < k /\ j # k - 1 /\ j # k /\ j + 1 # k /\ j + 1 # k + 1
          /\ j + 1 \in 1 .. Len(s) + 1 /\ k \in 1 .. Len(s) + 1 /\ k + 1 \in 1 .. Len(s) + 1
      BY <1>1, <1>4, <2>1, <2>2
    <3>2. At(s2, j) = At(s, j) /\ At(s2, j + 1) = At(s, j + 1)
      BY <1>15, <2>1, <3>1
    <3>3. At(s, j) # p /\ At(s, j) # e /\ At(s, j + 1) # n /\ At(s, j + 1) # e
      BY <1>1, <1>3, <1>4, <1>5, <2>1, <3>1
    <3> QED BY <1>1, <1>8, <1>10, <2>1, <3>2, <3>3
  <2>3. CASE j = k - 1
    <3>1. j < k /\ j + 1 = k /\ k >= k
      BY <1>4, <2>3
    <3>2. At(s2, j) = p /\ At(s2, j + 1) = n
      BY <1>3, <1>15, <2>1, <2>3, <3>1
    <3> QED BY <1>7, <1>8, <1>10, <3>2
  <2>4. CASE j > k - 1
    <3>1. /\ j >= k /\ j + 1 >= k /\ j + 1 # k - 1 /\ j + 1 # k /\ j + 1 + 1 # k + 1 /\ j + 1 + 1 # k
          /\ j + 1 + 1 \in 1 .. Len(s) + 1 /\ k \in 1 .. Len(s) + 1 /\ k + 1 \in 1 .. Len(s) + 1
      <4>1. Len(s) \in Nat /\ k \in Nat /\ k <= Len(s) /\ 1 <= k /\ j \in Nat /\ j <= Len(s) - 1 /\ j > k - 1
        BY <1>1, <1>4, <2>1, <2>4
      <4> QED BY ONLY <4>1
    <3>2. At(s2, j) = At(s, j + 1) /\ At(s2, j + 1) = At(s, j + 1 + 1)
      BY <1>15, <2>1, <3>1
    <3>3. At(s, j + 1) # p /\ At(s, j + 1) # e /\ At(s, j + 1 + 1) # n /\ At(s, j + 1 + 1) # e
      BY <1>1, <1>3, <1>4, <1>5, <2>1, <3>1, SMTT(30)
    <3> QED BY <1>1, <1>8, <1>10, <2>1, <3>2, <3>3
  <2> QED BY <1>4, <2>1, <2>2, <2>3, <2>4
<1>17. \A j \in 1 .. Len(s2) : \/ j \in 1 .. k - 1 /\ j \in 1 .. Len(s) /\ s2[j] = s[j] /\ j # k
                               \/ j \in k .. Len(s) - 1 /\ j + 1 \in 1 .. Len(s) /\ s2[j] = s[j + 1] /\ j + 1 # k
  <2> TAKE j \in 1 .. Len(s2)
  <2>1. CASE j < k
    <3>1. j \in 1 .. k - 1 /\ j \in 1 .. Len(s) /\ j # k
      BY <1>1, <1>4, <1>14, <2>1
    <3> QED BY <1>14, <3>1
  <2>2. CASE j >= k
    <3>1. j \in k .. Len(s) - 1 /\ j + 1 \in 1 .. Len(s) /\ j + 1 # k
      BY <1>1, <1>4, <1>14, <2>2
    <3> QED BY <1>14, <3>1
  <2> QED BY <1>4, <2>1, <2>2
<1>18. \A i, j \in 1 .. Len(s2) : s2[i] = s2[j] => i = j
  <2> TAKE i, j \in 1 .. Len(s2)
  <2> HAVE s2[i] = s2[j]
  <2>1. i \in Int /\ j \in Int
    OBVIOUS
  <2>2. CASE i \in 1 .. k - 1 /\ i \in 1 .. Len(s) /\ s2[i] = s[i]
    <3>1. CASE j \in 1 .. k - 1 /\ j \in 1 .. Len(s) /\ s2[j] = s[j]
      BY <1>2, <2>2, <3>1
    <3>2. CASE j \in k .. Len(s) - 1 /\ j + 1 \in 1 .. Len(s) /\ s2[j] = s[j + 1]
      <4>1. i = j + 1
        BY <1>2, <2>2, <3>2
      <4> QED BY <1>4, <2>1, <2>2, <3>2, <4>1
    <3> QED BY <1>17, <3>1, <3>2
  <2>3. CASE i \in k .. Len(s) - 1 /\ i + 1 \in 1 .. Len(s) /\ s2[i] = s[i + 1]
    <3>1. CASE j \in 1 .. k - 1 /\ j \in 1 .. Len(s) /\ s2[j] = s[j]
      <4>1. i + 1 = j
        BY <1>2, <2>3, <3>1
      <4> QED BY <1>4, <2>1, <2>3, <3>1, <4>1
    <3>2. CASE j \in k .. Len(s) - 1 /\ j + 1 \in 1 .. Len(s) /\ s2[j] = s[j + 1]
      <4>1. i + 1 = j + 1
        BY <1>2, <2>3, <3>2
      <4> QED BY <2>1, <4>1
    <3> QED BY <1>17, <3>1, <3>2
  <2> QED BY <1>17, <2>2, <2>3
<1>19. l2.live = {s2[j] : j \in 1 .. Len(s2)}
  <2>1. ASSUME NEW j \in 1 .. Len(s2) PROVE s2[j] \in l2.live
    <3>1. PICK i \in 1 .. Len(s) : s2[j] = s[i] /\ i # k
      BY <1>17
    <3>2. s[i] # e /\ s[i] \in l.live
      BY <1>1, <1>2, <3>1
    <3> QED BY <1>10, <3>1, <3>2
  <2>2. ASSUME NEW x \in l2.live PROVE \E j \in 1 .. Len(s2) : x = s2[j]
    <3>1. PICK i \in 1 .. Len(s) : x = s[i] /\ i # k
      BY <1>1, <1>10
    <3>2. CASE i < k
      <4>1. i \in 1 .. k - 1 /\ i \in 1 .. Len(s2)
        BY <1>1, <1>4, <1>14, <3>2
      <4> QED BY <1>14, <3>1, <4>1
    <3>3. CASE i > k
      <4>1. i - 1 \in k .. Len(s) - 1 /\ i - 1 \in 1 .. Len(s2) /\ i - 1 + 1 = i
        BY <1>1, <1>4, <1>14, <3>3
      <4> QED BY <1>14, <3>1, <4>1
    <3> QED BY <1>4, <3>1, <3>2, <3>3
  <2> QED BY <2>1, <2>2
<1>20. Chain(l2, s2)
  <2>1. \A j \in 1 .. Len(s2) : j \in 0 .. Len(s2) /\ At(s2, j) = s2[j]
    BY DEF At
  <2>2. l2.num = Len(s2)
    BY <1>1, <1>10, <1>14
  <2> QED BY <1>13, <1>16, <1>18, <1>19, <2>1, <2>2 DEF Chain, Path
<1>21. Removed(Objs(l, s), k, Objs(l2, s2))
  <2>1. Len(Objs(l, s)) = Len(s) /\ Len(Objs(l2, s2)) = Len(s2)
    BY <1>1, <1>14 DEF Objs
  <2>2. \A j \in 1 .. Len(s) : j # k => l2.obj[s[j]] = l.obj[s[j]]
    BY <1>1, <1>2, <1>8, <1>10
  <2>3. ASSUME NEW j \in 1 .. k - 1 PROVE Objs(l2, s2)[j] = Objs(l, s)[j]
    <3>1. j \in 1 .. Len(s) /\ j \in 1 .. Len(s2) /\ j # k
      BY <1>1, <1>4, <1>14
    <3> QED BY <1>14, <2>2, <3>1 DEF Objs
  <2>4. ASSUME NEW j \in k .. Len(s) - 1 PROVE Objs(l2, s2)[j] = Objs(l, s)[j + 1]
    <3>1. j + 1 \in 1 .. Len(s) /\ j \in 1 .. Len(s2) /\ j + 1 # k
      BY <1>1, <1>4, <1>14
    <3> QED BY <1>14, <2>2, <3>1 DEF Objs
  <2> QED BY <1>14, <2>1, <2>3, <2>4 DEF Removed
<1>22. Shrunk(l, s, k, l2, s2)
  BY <1>10, <1>11, <1>13, <1>20, <1>21 DEF Shrunk
<1> QED BY <1>9, <1>22

(* The ends and the neighbours in a list are those of the sequence of its
   cells. *)
LEMMA Neighbours ==
  ASSUME NEW l \in ListType, NEW s, Chain(l, s)
  PROVE  /\ Members(l) = s
         /\ My402ListFirst(l) = IF Len(s) = 0 THEN NULL ELSE s[1]
         /\ My402ListLast(l) = IF Len(s) = 0 THEN NULL ELSE s[Len(s)]
         /\ \A k \in 1 .. Len(s) : /\ My402ListNext(l, s[k]) = IF k = Len(s) THEN NULL ELSE s[k + 1]
                                   /\ My402ListPrev(l, s[k]) = IF k = 1 THEN NULL ELSE s[k - 1]
<1>1. /\ s \in Seq(Cell) /\ Len(s) \in Nat
      /\ \A k \in 1 .. Len(s) : s[k] \in Cell /\ s[k] \in l.live /\ At(s, k) = s[k]
      /\ At(s, 0) = Anchor /\ At(s, Len(s) + 1) = Anchor
      /\ \A k \in 0 .. Len(s) : l.next[At(s, k)] = At(s, k + 1) /\ l.prev[At(s, k + 1)] = At(s, k)
      /\ l.num = Len(s)
  BY AtFacts
<1>2. l.next[Anchor] = At(s, 1) /\ l.prev[Anchor] = At(s, Len(s))
  <2>1. 0 \in 0 .. Len(s) /\ Len(s) \in 0 .. Len(s) /\ 0 + 1 = 1
    BY <1>1
  <2> QED BY <1>1, <2>1
<1>3. Members(l) = s
  BY <1>2, WalkAlong DEF Members, Chain
<1>4. Len(s) # 0 => At(s, 1) = s[1] /\ At(s, Len(s)) = s[Len(s)]
  <2>1. Len(s) # 0 => 1 \in 1 .. Len(s) /\ Len(s) \in 1 .. Len(s)
    BY <1>1
  <2> QED BY <1>1, <2>1
<1>5. ASSUME NEW k \in 1 .. Len(s)
      PROVE  /\ My402ListNext(l, s[k]) = IF k = Len(s) THEN NULL ELSE s[k + 1]
             /\ My402ListPrev(l, s[k]) = IF k = 1 THEN NULL ELSE s[k - 1]
  <2>1. /\ k \in 0 .. Len(s) /\ k - 1 \in 0 .. Len(s) /\ k - 1 + 1 = k
        /\ k # Len(s) => k + 1 \in 1 .. Len(s)
        /\ k # 1 => k - 1 \in 1 .. Len(s)
        /\ k = 1 => k - 1 = 0
    BY <1>1
  <2>2. l.next[s[k]] = At(s, k + 1) /\ l.prev[s[k]] = At(s, k - 1)
    BY <1>1, <2>1
  <2> QED BY <1>1, <2>1, <2>2, NodeFacts DEF My402ListNext, My402ListPrev
<1> QED BY <1>1, <1>2, <1>3, <1>4, <1>5 DEF My402ListFirst, My402ListLast

(* Each of the calls that add a cell puts it where its name says. *)
LEMMA InsertionsGrow ==
  ASSUME NEW l \in ListType, NEW s, Chain(l, s), NEW o \in Objects, MayAllocate(l)
  PROVE  /\ \E s2 : Grew(l, s, Len(s) + 1, o, My402ListAppend(l, o), s2)
         /\ \E s2 : Grew(l, s, Len(s) + 1, o, My402ListInsertAfter(l, o, NULL), s2)
         /\ \E s2 : Grew(l, s, 1, o, My402ListPrepend(l, o), s2)
         /\ \E s2 : Grew(l, s, 1, o, My402ListInsertBefore(l, o, NULL), s2)
         /\ \A k \in 1 .. Len(s) : \E s2 : Grew(l, s, k + 1, o, My402ListInsertAfter(l, o, s[k]), s2)
         /\ \A k \in 1 .. Len(s) : \E s2 : Grew(l, s, k, o, My402ListInsertBefore(l, o, s[k]), s2)
<1>1. /\ s \in Seq(Cell) /\ Len(s) \in Nat
      /\ \A k \in 1 .. Len(s) : s[k] \in Cell /\ s[k] \in l.live /\ At(s, k) = s[k]
      /\ At(s, 0) = Anchor /\ At(s, Len(s) + 1) = Anchor
      /\ \A k \in 0 .. Len(s) : l.next[At(s, k)] = At(s, k + 1) /\ l.prev[At(s, k + 1)] = At(s, k)
      /\ l.num = Len(s)
  BY AtFacts
<1>2. 0 \in 0 .. Len(s) /\ Len(s) \in 0 .. Len(s) /\ 0 + 1 = 1
  BY <1>1
<1>3. l.next[Anchor] = At(s, 1) /\ l.prev[Anchor] = At(s, Len(s))
  BY <1>1, <1>2
<1>4. \A k \in 0 .. Len(s) : \E s2 : Grew(l, s, k + 1, o, Link(l, o, At(s, k), At(s, k + 1)), s2)
  BY LinkGrows
<1>5. \E s2 : Grew(l, s, Len(s) + 1, o, My402ListAppend(l, o), s2)
  BY <1>1, <1>2, <1>3, <1>4 DEF My402ListAppend
<1>6. \E s2 : Grew(l, s, 1, o, My402ListPrepend(l, o), s2)
  BY <1>1, <1>2, <1>3, <1>4 DEF My402ListPrepend
<1>7. ASSUME NEW k \in 1 .. Len(s)
      PROVE  \E s2 : Grew(l, s, k + 1, o, My402ListInsertAfter(l, o, s[k]), s2)
  <2>1. k \in 0 .. Len(s)
    BY <1>1
  <2>2. l.next[s[k]] = At(s, k + 1) /\ l.prev[At(s, k + 1)] = At(s, k)
    BY <1>1, <2>1
  <2>3. s[k] # NULL
    BY <1>1, NodeFacts
  <2> QED BY <1>4, <2>1, <2>2, <2>3 DEF My402ListInsertAfter
<1>8. ASSUME NEW k \in 1 .. Len(s)
      PROVE  \E s2 : Grew(l, s, k, o, My402ListInsertBefore(l, o, s[k]), s2)
  <2>1. PICK m : m = k - 1
    OBVIOUS
  <2>2. m \in 0 .. Len(s) /\ m + 1 = k
    BY <1>1, <2>1
  <2>3. l.prev[s[k]] = At(s, m) /\ s[k] = At(s, m + 1)
    BY <1>1, <2>2
  <2>4. s[k] # NULL
    BY <1>1, NodeFacts
  <2> QED BY <1>4, <2>2, <2>3, <2>4 DEF My402ListInsertBefore
<1> QED BY <1>5, <1>6, <1>7, <1>8 DEF My402ListInsertAfter, My402ListInsertBefore

(* The objects of the cells are a sequence of objects. *)
LEMMA ObjsFacts ==
  ASSUME NEW l \in ListType, NEW s, Chain(l, s)
  PROVE  /\ Objs(l, s) \in Seq(Objects) /\ Len(Objs(l, s)) = Len(s)
         /\ \A k \in 1 .. Len(s) : Objs(l, s)[k] = l.obj[s[k]]
<1>1. /\ s \in Seq(Cell) /\ Len(s) \in Nat
      /\ \A k \in 1 .. Len(s) : s[k] \in Cell
  BY AtFacts
<1>2. Objs(l, s) \in [1 .. Len(s) -> Objects]
  BY <1>1, NodeFacts, ListFields DEF Objs
<1> QED BY <1>1, <1>2, FunctionIsSeq DEF Objs

(* Find returns the first cell that holds the object, or NULL. *)
LEMMA FindsIt ==
  ASSUME NEW l \in ListType, NEW s, Chain(l, s), NEW o
  PROVE  LET hits == {k \in 1 .. Len(s) : l.obj[s[k]] = o}
         IN My402ListFind(l, o) = IF hits = {} THEN NULL ELSE s[Min(hits)]
<1> DEFINE hits == {k \in 1 .. Len(s) : l.obj[s[k]] = o}
           from == {n \in 0 .. l.num - 1 : l.obj[Ahead(l, n)] = o}
<1>1. /\ s \in Seq(Cell) /\ Len(s) \in Nat
      /\ \A k \in 1 .. Len(s) : s[k] \in Cell /\ s[k] \in l.live /\ At(s, k) = s[k]
      /\ \A k \in 0 .. Len(s) : l.next[At(s, k)] = At(s, k + 1)
      /\ l.num = Len(s)
  BY AtFacts
<1>2. ASSUME NEW n \in 0 .. l.num - 1 PROVE Ahead(l, n) = s[n + 1]
  <2> DEFINE e == My402ListFirst(l)
             at == CHOOSE f : Iterates(l.next, e, n, f)
  <2>1. n \in Nat /\ n < Len(s)
    BY <1>1
  <2>2. Ahead(l, n) = at[n]
    BY DEF Ahead, Iterates
  <2>3. Iterates(l.next, e, n, at)
    BY <2>1, IteratesExist
  <2>4. e = s[1]
    BY <1>1, <2>1, Neighbours
  <2> HIDE DEF at, e
  <2>5. at = [k \in 0 .. n |-> IF k = 0 THEN e ELSE l.next[at[k - 1]]]
    BY <2>3 DEF Iterates
  <2> DEFINE T == {k \in Nat : k <= n => at[k] = s[k + 1]}
  <2>6. 0 \in T
    BY <2>1, <2>4, <2>5
  <2>7. ASSUME NEW k \in Nat, k \in T PROVE k + 1 \in T
    <3> SUFFICES ASSUME k + 1 <= n PROVE at[k + 1] = s[k + 1 + 1]
      OBVIOUS
    <3>1. /\ k <= n /\ k + 1 \in 0 .. n /\ k + 1 # 0 /\ k + 1 - 1 = k /\ k + 1 \in 0 .. Len(s)
          /\ k + 1 \in 1 .. Len(s) /\ k + 1 + 1 \in 1 .. Len(s)
      BY <1>1, <2>1
    <3>2. at[k + 1] = l.next[at[k]] /\ at[k] = s[k + 1]
      BY <2>5, <2>7, <3>1
    <3> QED BY <1>1, <3>1, <3>2
  <2>8. Nat \subseteq T
    <3> HIDE DEF T
    <3> QED BY <2>6, <2>7, SetInduction
  <2>9. n \in T
    BY <2>1, <2>8
  <2> QED BY <2>1, <2>2, <2>9
<1>3. \A n : n \in from <=> n + 1 \in hits /\ n \in Int
  <2>1. ASSUME NEW n, n \in Int PROVE n \in 0 .. l.num - 1 <=> n + 1 \in 1 .. Len(s)
    BY <1>1, <2>1
  <2>2. \A n \in 0 .. l.num - 1 : n \in Int
    OBVIOUS
  <2> QED BY <1>2, <2>1, <2>2
<1>4. hits \subseteq Nat /\ from \subseteq Nat
  <2>1. 1 .. Len(s) \subseteq Nat /\ 0 .. l.num - 1 \subseteq Nat
    BY <1>1
  <2> QED BY <2>1
<1>5. CASE hits = {}
  <2>1. from = {}
    BY <1>3, <1>5
  <2> QED BY <1>5, <2>1 DEF My402ListFind
<1>6. CASE hits # {}
  <2> HIDE DEF hits, from
  <2>1. PICK m : m = Min(hits)
    OBVIOUS
  <2>2. m \in hits /\ \A y \in hits : m <= y
    <3>1. \E x \in hits : \A y \in hits : x <= y
      BY <1>4, <1>6, LeastNumber
    <3> QED BY <2>1, <3>1 DEF Min
  <2>3. m \in Nat /\ m - 1 \in Int /\ m - 1 + 1 = m
    BY <1>4, <2>2
  <2>4. m - 1 \in from
    BY <1>3, <2>2, <2>3
  <2>5. PICK n : n = Min(from)
    OBVIOUS
  <2>6. n \in from /\ \A y \in from : n <= y
    <3>1. \E x \in from : \A y \in from : x <= y
      BY <1>4, <2>4, LeastNumber
    <3> QED BY <2>5, <3>1 DEF Min
  <2>7. n <= m - 1 /\ n + 1 \in hits /\ n \in Nat
    BY <1>3, <1>4, <2>4, <2>6
  <2>8. m <= n + 1
    BY <2>2, <2>7
  <2>9. n + 1 = m
    BY <2>3, <2>7, <2>8
  <2>10. n \in 0 .. l.num - 1
    BY <2>6 DEF from
  <2>11. My402ListFind(l, o) = Ahead(l, n)
    BY <2>5, <2>6 DEF My402ListFind, from
  <2>12. My402ListFind(l, o) = s[m]
    BY <1>2, <2>9, <2>10, <2>11
  <2> QED BY <1>6, <2>1, <2>12 DEF hits
<1> QED BY <1>5, <1>6

(* d is c without its members at places k and k + 1. *)
TwoLess(c, k, d) ==
  /\ Len(d) = Len(c) - 2
  /\ \A j \in 1 .. k - 1 : d[j] = c[j]
  /\ \A j \in k .. Len(c) - 2 : d[j] = c[j + 2]

(* d is c with x and y put in at places k and k + 1. *)
TwoMore(c, k, x, y, d) ==
  /\ Len(d) = Len(c) + 2 /\ d[k] = x /\ d[k + 1] = y
  /\ \A j \in 1 .. k - 1 : d[j] = c[j]
  /\ \A j \in k .. Len(c) : d[j + 2] = c[j]

(* The members left when two neighbours are taken out. *)
LEMMA TwoOut ==
  ASSUME NEW c, Len(c) \in Nat, NEW k \in 1 .. Len(c) - 1, NEW i, i = k \/ i = k + 1,
         NEW c1, Removed(c, i, c1), NEW c0, Removed(c1, k, c0)
  PROVE  TwoLess(c, k, c0)
<1>1. k \in Nat /\ 1 <= k /\ k <= Len(c) - 1 /\ i \in Nat /\ 1 <= i /\ i <= Len(c)
  OBVIOUS
<1>2. /\ Len(c1) = Len(c) - 1
      /\ \A j \in 1 .. i - 1 : c1[j] = c[j]
      /\ \A j \in i .. Len(c) - 1 : c1[j] = c[j + 1]
  BY DEF Removed
<1>3. /\ Len(c0) = Len(c1) - 1
      /\ \A j \in 1 .. k - 1 : c0[j] = c1[j]
      /\ \A j \in k .. Len(c1) - 1 : c0[j] = c1[j + 1]
  BY DEF Removed
<1>4. ASSUME NEW j \in 1 .. k - 1 PROVE c0[j] = c[j]
  <2>1. j \in 1 .. i - 1
    BY <1>1
  <2> QED BY <1>2, <1>3, <2>1
<1>5. ASSUME NEW j \in k .. Len(c) - 2 PROVE c0[j] = c[j + 2]
  <2>1. j \in k .. Len(c1) - 1 /\ j + 1 \in i .. Len(c) - 1 /\ j + 1 + 1 = j + 2
    BY <1>1, <1>2
  <2> QED BY <1>2, <1>3, <2>1
<1>6. Len(c1) = Len(c) - 1 /\ Len(c0) = Len(c) - 2
  BY <1>1, <1>2, <1>3
<1> QED BY <1>4, <1>5, <1>6 DEF TwoLess

(* The members when two are put in as neighbours. *)
LEMMA TwoIn ==
  ASSUME NEW c, Len(c) \in Nat, NEW k \in 1 .. Len(c) + 1, NEW i, i = k \/ i = k + 1, NEW x, NEW y,
         NEW c1, Inserted(c, k, x, c1), NEW c2, Inserted(c1, i, y, c2)
  PROVE  TwoMore(c, k, IF i = k THEN y ELSE x, IF i = k THEN x ELSE y, c2)
<1>1. k \in Nat /\ 1 <= k /\ k <= Len(c) + 1 /\ i \in Nat /\ 1 <= i /\ i <= Len(c) + 2
  OBVIOUS
<1>2. /\ Len(c1) = Len(c) + 1 /\ c1[k] = x
      /\ \A j \in 1 .. k - 1 : c1[j] = c[j]
      /\ \A j \in k + 1 .. Len(c) + 1 : c1[j] = c[j - 1]
  BY DEF Inserted
<1>3. /\ Len(c2) = Len(c1) + 1 /\ c2[i] = y
      /\ \A j \in 1 .. i - 1 : c2[j] = c1[j]
      /\ \A j \in i + 1 .. Len(c1) + 1 : c2[j] = c1[j - 1]
  BY DEF Inserted
<1>4. ASSUME NEW j \in 1 .. k - 1 PROVE c1[j] = c[j] /\ c2[j] = c[j]
  <2>1. j \in 1 .. i - 1
    BY <1>1
  <2> QED BY <1>2, <1>3, <2>1
<1>5. ASSUME NEW j \in k .. Len(c) PROVE c1[j + 1] = c[j] /\ c2[j + 2] = c[j]
  <2>1. /\ j + 2 \in i + 1 .. Len(c1) + 1 /\ j + 2 - 1 = j + 1 /\ j + 1 \in k + 1 .. Len(c) + 1
        /\ j + 1 - 1 = j
    BY <1>1, <1>2
  <2>2. c2[j + 2] = c1[j + 1] /\ c1[j + 1] = c[j]
    BY <1>2, <1>3, <2>1
  <2> QED BY <2>2
<1>6. (i = k => c2[k] = y /\ c2[k + 1] = x) /\ (i # k => c2[k] = x /\ c2[k + 1] = y)
  <2>1. CASE i = k
    <3>1. k + 1 \in i + 1 .. Len(c1) + 1 /\ k + 1 - 1 = k
      BY <1>1, <1>2, <2>1
    <3> QED BY <1>2, <1>3, <2>1, <3>1
  <2>2. CASE i # k
    <3>1. k \in 1 .. i - 1 /\ i = k + 1
      BY <1>1, <2>2
    <3> QED BY <1>2, <1>3, <2>2, <3>1
  <2> QED BY <2>1, <2>2
<1>7. Len(c1) = Len(c) + 1 /\ Len(c2) = Len(c) + 2
  BY <1>1, <1>2, <1>3
<1> QED BY <1>4, <1>5, <1>6, <1>7 DEF TwoMore

(* d is c with the members at places k and k + 1 exchanged. *)
Exchanged(c, k, d) ==
  /\ Len(d) = Len(c) /\ d[k] = c[k + 1] /\ d[k + 1] = c[k]
  /\ \A j \in 1 .. Len(c) : j # k /\ j # k + 1 => d[j] = c[j]

(* Two taken out and put in again in the other order are exchanged. *)
LEMMA OutAndIn ==
  ASSUME NEW c, Len(c) \in Nat, NEW k \in 1 .. Len(c) - 1,
         NEW i, i = k \/ i = k + 1, NEW c1, Removed(c, i, c1), NEW c0, Removed(c1, k, c0),
         NEW j, j = k \/ j = k + 1, NEW x, NEW y, NEW d1, Inserted(c0, k, x, d1), NEW d, Inserted(d1, j, y, d),
         j = k => x = c[k] /\ y = c[k + 1], j # k => x = c[k + 1] /\ y = c[k]
  PROVE  Exchanged(c, k, d)
<1>1. /\ Len(c0) = Len(c) - 2 /\ Len(c0) \in Nat
      /\ \A m \in 1 .. k - 1 : c0[m] = c[m]
      /\ \A m \in k .. Len(c) - 2 : c0[m] = c[m + 2]
  <2>1. TwoLess(c, k, c0)
    BY TwoOut
  <2>2. Len(c) - 2 \in Nat
    OBVIOUS
  <2> QED BY <2>1, <2>2 DEF TwoLess
<1>2. k \in 1 .. Len(c0) + 1
  BY <1>1
<1>3. /\ Len(d) = Len(c0) + 2
      /\ \A m \in 1 .. k - 1 : d[m] = c0[m]
      /\ \A m \in k .. Len(c0) : d[m + 2] = c0[m]
      /\ d[k] = c[k + 1] /\ d[k + 1] = c[k]
  <2>1. CASE j = k
    <3>1. TwoMore(c0, k, y, x, d)
      BY <1>1, <1>2, <2>1, TwoIn
    <3> QED BY <2>1, <3>1 DEF TwoMore
  <2>2. CASE j # k
    <3>1. TwoMore(c0, k, x, y, d)
      BY <1>1, <1>2, <2>2, TwoIn
    <3> QED BY <2>2, <3>1 DEF TwoMore
  <2> QED BY <2>1, <2>2
<1>4. ASSUME NEW m \in 1 .. Len(c), m # k, m # k + 1 PROVE d[m] = c[m]
  <2>1. CASE m < k
    <3>1. m \in 1 .. k - 1
      BY <2>1
    <3> QED BY <1>1, <1>3, <3>1
  <2>2. CASE m > k
    <3>1. m - 2 \in k .. Len(c) - 2 /\ m - 2 + 2 = m /\ m - 2 \in k .. Len(c0)
      BY <1>1, <1>4, <2>2
    <3>2. d[m - 2 + 2] = c0[m - 2] /\ c0[m - 2] = c[m - 2 + 2]
      BY <1>1, <1>3, <3>1
    <3> QED BY <3>1, <3>2
  <2> QED BY <1>4, <2>1, <2>2
<1>5. Len(d) = Len(c) /\ k # k + 1
  BY <1>1, <1>3
<1> QED BY <1>3, <1>4, <1>5 DEF Exchanged

(* Two neighbours come out of the list, in either order; there is room for two
   cells again. *)
LEMMA NeighboursOut ==
  ASSUME NEW l \in ListType, NEW s, Chain(l, s), NEW k \in 1 .. Len(s) - 1, NEW i, i = k \/ i = k + 1,
         NEW e1, e1 = s[i], NEW e2, e2 = s[IF i = k THEN k + 1 ELSE k],
         NEW out, out = My402ListUnlink(My402ListUnlink(l, e1), e2)
  PROVE  \E s1, s0, l1 : /\ Shrunk(l, s, i, l1, s1) /\ Shrunk(l1, s1, k, out, s0)
                         /\ e1 \in Cell /\ e2 \in Cell /\ e1 # e2
                         /\ e1 \notin out.live /\ e2 \notin out.live
<1>1. /\ s \in Seq(Cell) /\ Len(s) \in Nat /\ \A j \in 1 .. Len(s) : s[j] \in Cell
      /\ \A a, b \in 1 .. Len(s) : s[a] = s[b] => a = b
  BY AtFacts DEF Chain, Path
<1>2. /\ i \in 1 .. Len(s) /\ k \in 1 .. Len(s) /\ k + 1 \in 1 .. Len(s) /\ k # k + 1
      /\ k \in 1 .. Len(s) - 1
  BY <1>1
<1>3. PICK l1 : l1 = My402ListUnlink(l, e1)
  OBVIOUS
<1>4. PICK s1 : Shrunk(l, s, i, l1, s1)
  BY <1>2, <1>3, UnlinkShrinks
<1>5. l1 \in ListType /\ Chain(l1, s1) /\ Removed(s, i, s1) /\ l1.live = l.live \ {e1}
  BY <1>4 DEF Shrunk
<1>6. Len(s1) = Len(s) - 1 /\ s1[k] = s[IF i = k THEN k + 1 ELSE k]
  <2>1. /\ Len(s1) = Len(s) - 1
        /\ \A j \in 1 .. i - 1 : s1[j] = s[j]
        /\ \A j \in i .. Len(s) - 1 : s1[j] = s[j + 1]
    BY <1>5 DEF Removed
  <2>2. i = k => k \in i .. Len(s) - 1
    BY <1>1, <1>2
  <2>3. i # k => k \in 1 .. i - 1
    BY <1>1, <1>2
  <2> QED BY <2>1, <2>2, <2>3
<1>7. k \in 1 .. Len(s1) /\ e2 = s1[k]
  BY <1>2, <1>6
<1>8. PICK s0 : Shrunk(l1, s1, k, out, s0)
  BY <1>3, <1>5, <1>7, UnlinkShrinks
<1>9. out.live = l1.live \ {e2}
  BY <1>7, <1>8 DEF Shrunk
<1>10. e1 # e2 /\ e1 \in Cell /\ e2 \in Cell
  BY <1>1, <1>2
<1> QED BY <1>4, <1>5, <1>8, <1>9, <1>10

(* A turn of the forward sort that exchanges: the walk goes on from the cell
   that now holds the object it came with. *)
LEMMA ForwardExchanges ==
  ASSUME list \in ListType, NEW s, Chain(list, s), NEW k \in 1 .. Len(s) - 1,
         BubbleForward(s[k], s[k + 1])
  PROVE  \E s2 : /\ list' \in ListType /\ Chain(list', s2) /\ Len(s2) = Len(s)
                 /\ Exchanged(Objs(list, s), k, Objs(list', s2))
                 /\ elem' = s2[k + 1]
<1> DEFINE e1 == s[k]
           e2 == s[k + 1]
<1>1. PICK before, after, out, one :
        /\ before = My402ListPrev(list, e1) /\ after = My402ListNext(list, e2)
        /\ out = My402ListUnlink(My402ListUnlink(list, e1), e2)
        /\ one = IF before = NULL THEN My402ListPrepend(out, list.obj[e2])
                 ELSE My402ListInsertAfter(out, list.obj[e2], before)
        /\ list' = IF after = NULL THEN My402ListAppend(one, list.obj[e1])
                   ELSE My402ListInsertBefore(one, list.obj[e1], after)
        /\ elem' = IF after = NULL THEN My402ListLast(list') ELSE My402ListPrev(list', after)
  BY DEF BubbleForward
<1>2. /\ s \in Seq(Cell) /\ Len(s) \in Nat /\ Len(s) = Len(Objs(list, s))
      /\ \A j \in 1 .. Len(s) : s[j] \in Cell /\ list.obj[s[j]] \in Objects /\ list.obj[s[j]] = Objs(list, s)[j]
  <2>1. s \in Seq(Cell) /\ Len(s) \in Nat /\ \A j \in 1 .. Len(s) : s[j] \in Cell
    BY AtFacts
  <2>2. Len(Objs(list, s)) = Len(s) /\ \A j \in 1 .. Len(s) : Objs(list, s)[j] = list.obj[s[j]]
    BY ObjsFacts
  <2>3. \A c \in Cell : list.obj[c] \in Objects
    BY NodeFacts, ListFields
  <2> QED BY <2>1, <2>2, <2>3
<1>3. k \in 1 .. Len(s) /\ k + 1 \in 1 .. Len(s)
      /\ k \in Nat /\ k <= Len(s) - 1 /\ 1 <= k
  BY <1>2
<1>4. PICK s1, s0, l1 : /\ Shrunk(list, s, k, l1, s1) /\ Shrunk(l1, s1, k, out, s0)
                        /\ e1 \in Cell /\ e2 \in Cell /\ e1 # e2
                        /\ e1 \notin out.live /\ e2 \notin out.live
  BY <1>1, <1>3, NeighboursOut
<1>5. /\ Removed(s, k, s1) /\ Removed(s1, k, s0) /\ out \in ListType /\ Chain(out, s0)
      /\ Removed(Objs(list, s), k, Objs(l1, s1)) /\ Removed(Objs(l1, s1), k, Objs(out, s0))
  BY <1>4 DEF Shrunk
<1>6. /\ Len(s0) = Len(s) - 2
      /\ \A j \in 1 .. k - 1 : s0[j] = s[j]
      /\ \A j \in k .. Len(s) - 2 : s0[j] = s[j + 2]
  <2>1. TwoLess(s, k, s0)
    BY <1>2, <1>3, <1>5, TwoOut
  <2> QED BY <2>1 DEF TwoLess
<1>7. before = (IF k = 1 THEN NULL ELSE s[k - 1]) /\ after = (IF k + 1 = Len(s) THEN NULL ELSE s[k + 1 + 1])
  BY <1>1, <1>3, Neighbours
<1>8. MayAllocate(out) /\ list.obj[e1] \in Objects /\ list.obj[e2] \in Objects
  BY <1>2, <1>3, <1>4 DEF MayAllocate
<1>9. PICK sa : Grew(out, s0, k, list.obj[e2], one, sa)
  <2>1. CASE k = 1
    BY <1>1, <1>5, <1>7, <1>8, <2>1, InsertionsGrow
  <2>2. CASE k # 1
    <3>1. k - 1 \in 1 .. k - 1 /\ k - 1 \in 1 .. Len(s0) /\ k - 1 + 1 = k /\ k - 1 \in 1 .. Len(s)
      BY <1>2, <1>3, <1>6, <2>2
    <3>2. before = s0[k - 1] /\ before # NULL
      BY <1>2, <1>6, <1>7, <2>2, <3>1, NodeFacts
    <3>3. one = My402ListInsertAfter(out, list.obj[e2], s0[k - 1])
      BY <1>1, <3>2
    <3>4. \E s2 : Grew(out, s0, k - 1 + 1, list.obj[e2], one, s2)
      BY <1>5, <1>8, <3>1, <3>3, InsertionsGrow
    <3> QED BY <3>1, <3>4
  <2> QED BY <2>1, <2>2
<1>10. /\ one \in ListType /\ Chain(one, sa) /\ Inserted(s0, k, sa[k], sa)
       /\ one.live = out.live \cup {sa[k]} /\ Inserted(Objs(out, s0), k, list.obj[e2], Objs(one, sa))
  BY <1>9 DEF Grew
<1>11. MayAllocate(one)
  <2>1. e1 \notin one.live \/ e2 \notin one.live
    BY <1>4, <1>10
  <2> QED BY <1>4, <2>1 DEF MayAllocate
<1>12. /\ Len(sa) = Len(s) - 1
       /\ \A j \in k + 1 .. Len(s) - 1 : sa[j] = s[j + 1]
  <2>1. Len(sa) = Len(s0) + 1 /\ \A j \in k + 1 .. Len(s0) + 1 : sa[j] = s0[j - 1]
    BY <1>10 DEF Inserted
  <2>2. ASSUME NEW j \in k + 1 .. Len(s) - 1 PROVE sa[j] = s[j + 1]
    <3>1. j \in k + 1 .. Len(s0) + 1 /\ j - 1 \in k .. Len(s) - 2 /\ j - 1 + 2 = j + 1
      BY <1>2, <1>3, <1>6
    <3>2. sa[j] = s0[j - 1] /\ s0[j - 1] = s[j - 1 + 2]
      BY <1>6, <2>1, <3>1
    <3> QED BY <3>1, <3>2
  <2>3. Len(sa) = Len(s) - 1
    BY <1>2, <1>6, <2>1
  <2> QED BY <2>2, <2>3
<1>13. k + 1 # Len(s) => /\ k + 1 \in 1 .. Len(sa) /\ after = sa[k + 1] /\ after # NULL
                         /\ k + 2 \in 1 .. Len(s)
  <2> SUFFICES ASSUME k + 1 # Len(s)
               PROVE  k + 1 \in 1 .. Len(sa) /\ after = sa[k + 1] /\ after # NULL /\ k + 2 \in 1 .. Len(s)
    OBVIOUS
  <2>1. k + 1 \in 1 .. Len(sa) /\ k + 1 \in k + 1 .. Len(s) - 1 /\ k + 1 + 1 \in 1 .. Len(s) /\ k + 1 + 1 = k + 2
    BY <1>2, <1>3, <1>12
  <2>2. sa[k + 1] = s[k + 1 + 1] /\ s[k + 1 + 1] \in Cell
    BY <1>2, <1>12, <2>1
  <2> QED BY <1>7, <2>1, <2>2, NodeFacts
<1>14. PICK sb : Grew(one, sa, k + 1, list.obj[e1], list', sb)
  <2>1. CASE k + 1 = Len(s)
    <3>1. Len(sa) + 1 = k + 1
      BY <1>2, <1>12, <2>1
    <3>2. list' = My402ListAppend(one, list.obj[e1])
      BY <1>1, <1>7, <2>1
    <3>3. \E s2 : Grew(one, sa, Len(sa) + 1, list.obj[e1], list', s2)
      BY <1>8, <1>10, <1>11, <3>2, InsertionsGrow
    <3> QED BY <3>1, <3>3
  <2>2. CASE k + 1 # Len(s)
    <3>1. list' = My402ListInsertBefore(one, list.obj[e1], sa[k + 1]) /\ k + 1 \in 1 .. Len(sa)
      BY <1>1, <1>13, <2>2
    <3> QED BY <1>8, <1>10, <1>11, <3>1, InsertionsGrow
  <2> QED BY <2>1, <2>2
<1>15. /\ list' \in ListType /\ Chain(list', sb) /\ Inserted(sa, k + 1, sb[k + 1], sb)
       /\ Inserted(Objs(one, sa), k + 1, list.obj[e1], Objs(list', sb))
  BY <1>14 DEF Grew
<1>16. Len(sb) = Len(s)
  BY <1>2, <1>12, <1>15 DEF Inserted
<1>17. Exchanged(Objs(list, s), k, Objs(list', sb))
  <2>1. PICK c, c1, c0, d1, d, x, y : /\ c = Objs(list, s) /\ c1 = Objs(l1, s1) /\ c0 = Objs(out, s0)
                                      /\ d1 = Objs(one, sa) /\ d = Objs(list', sb)
                                      /\ x = list.obj[e2] /\ y = list.obj[e1]
    OBVIOUS
  <2>2. x = c[k + 1] /\ y = c[k] /\ Len(c) \in Nat /\ k \in 1 .. Len(c) - 1 /\ k + 1 # k
    BY <1>2, <1>3, <2>1
  <2>3. Removed(c, k, c1) /\ Removed(c1, k, c0) /\ Inserted(c0, k, x, d1) /\ Inserted(d1, k + 1, y, d)
    BY <1>5, <1>10, <1>15, <2>1
  <2>4. PICK j : j = k + 1
    OBVIOUS
  <2>5. /\ j = k \/ j = k + 1
        /\ j = k => x = c[k] /\ y = c[k + 1]
        /\ j # k => x = c[k + 1] /\ y = c[k]
        /\ Inserted(d1, j, y, d)
    BY <2>2, <2>3, <2>4
  <2>6. Exchanged(c, k, d)
    BY <2>2, <2>3, <2>5, OutAndIn
  <2> QED BY <2>1, <2>6
<1>18. elem' = sb[k + 1]
  <2>1. CASE k + 1 = Len(s)
    <3>1. elem' = My402ListLast(list') /\ Len(sb) # 0
      BY <1>1, <1>2, <1>3, <1>7, <1>16, <2>1
    <3> QED BY <1>15, <1>16, <2>1, <3>1, Neighbours
  <2>2. CASE k + 1 # Len(s)
    <3>1. PICK m : m = k + 2
      OBVIOUS
    <3>2. m \in 1 .. Len(sb) /\ m # 1 /\ m - 1 = k + 1 /\ m \in k + 1 + 1 .. Len(sa) + 1
      BY <1>2, <1>3, <1>12, <1>13, <1>16, <2>2, <3>1
    <3>3. sb[m] = sa[m - 1]
      BY <1>15, <3>2 DEF Inserted
    <3>4. elem' = My402ListPrev(list', sb[m])
      BY <1>1, <1>13, <2>2, <3>2, <3>3
    <3>5. My402ListPrev(list', sb[m]) = IF m = 1 THEN NULL ELSE sb[m - 1]
      BY <1>15, <3>2, Neighbours
    <3> QED BY <3>2, <3>4, <3>5
  <2> QED BY <2>1, <2>2
<1> QED BY <1>15, <1>16, <1>17, <1>18

(* A turn of the backward sort that exchanges. *)
LEMMA BackwardExchanges ==
  ASSUME list \in ListType, NEW s, Chain(list, s), NEW k \in 1 .. Len(s) - 1,
         BubbleBackward(s[k + 1], s[k])
  PROVE  \E s2 : /\ list' \in ListType /\ Chain(list', s2) /\ Len(s2) = Len(s)
                 /\ Exchanged(Objs(list, s), k, Objs(list', s2))
                 /\ elem' = s2[k]
<1> DEFINE e1 == s[k + 1]
           e2 == s[k]
<1>1. PICK before, after, out, one :
        /\ before = My402ListPrev(list, e2) /\ after = My402ListNext(list, e1)
        /\ out = My402ListUnlink(My402ListUnlink(list, e1), e2)
        /\ one = IF after = NULL THEN My402ListAppend(out, list.obj[e2])
                 ELSE My402ListInsertBefore(out, list.obj[e2], after)
        /\ list' = IF before = NULL THEN My402ListPrepend(one, list.obj[e1])
                   ELSE My402ListInsertAfter(one, list.obj[e1], before)
        /\ elem' = IF before = NULL THEN My402ListFirst(list') ELSE My402ListNext(list', before)
  BY DEF BubbleBackward
<1>2. /\ s \in Seq(Cell) /\ Len(s) \in Nat /\ Len(s) = Len(Objs(list, s))
      /\ \A j \in 1 .. Len(s) : s[j] \in Cell /\ list.obj[s[j]] \in Objects /\ list.obj[s[j]] = Objs(list, s)[j]
  <2>1. s \in Seq(Cell) /\ Len(s) \in Nat /\ \A j \in 1 .. Len(s) : s[j] \in Cell
    BY AtFacts
  <2>2. Len(Objs(list, s)) = Len(s) /\ \A j \in 1 .. Len(s) : Objs(list, s)[j] = list.obj[s[j]]
    BY ObjsFacts
  <2>3. \A c \in Cell : list.obj[c] \in Objects
    BY NodeFacts, ListFields
  <2> QED BY <2>1, <2>2, <2>3
<1>3. k \in 1 .. Len(s) /\ k + 1 \in 1 .. Len(s)
      /\ k \in Nat /\ k <= Len(s) - 1 /\ 1 <= k /\ k + 1 # k
  BY <1>2
<1>4. PICK s1, s0, l1 : /\ Shrunk(list, s, k + 1, l1, s1) /\ Shrunk(l1, s1, k, out, s0)
                        /\ e1 \in Cell /\ e2 \in Cell /\ e1 # e2
                        /\ e1 \notin out.live /\ e2 \notin out.live
  BY <1>1, <1>3, NeighboursOut
<1>5. /\ Removed(s, k + 1, s1) /\ Removed(s1, k, s0) /\ out \in ListType /\ Chain(out, s0)
      /\ Removed(Objs(list, s), k + 1, Objs(l1, s1)) /\ Removed(Objs(l1, s1), k, Objs(out, s0))
  BY <1>4 DEF Shrunk
<1>6. /\ Len(s0) = Len(s) - 2
      /\ \A j \in 1 .. k - 1 : s0[j] = s[j]
      /\ \A j \in k .. Len(s) - 2 : s0[j] = s[j + 2]
  <2>1. TwoLess(s, k, s0)
    BY <1>2, <1>3, <1>5, TwoOut
  <2> QED BY <2>1 DEF TwoLess
<1>7. before = (IF k = 1 THEN NULL ELSE s[k - 1]) /\ after = (IF k + 1 = Len(s) THEN NULL ELSE s[k + 1 + 1])
  BY <1>1, <1>3, Neighbours
<1>8. MayAllocate(out) /\ list.obj[e1] \in Objects /\ list.obj[e2] \in Objects
  BY <1>2, <1>3, <1>4 DEF MayAllocate
<1>9. PICK sa : Grew(out, s0, k, list.obj[e2], one, sa)
  <2>1. CASE k + 1 = Len(s)
    <3>1. Len(s0) + 1 = k
      BY <1>2, <1>3, <1>6, <2>1
    <3>2. one = My402ListAppend(out, list.obj[e2])
      BY <1>1, <1>7, <2>1
    <3>3. \E s2 : Grew(out, s0, Len(s0) + 1, list.obj[e2], one, s2)
      BY <1>5, <1>8, <3>2, InsertionsGrow
    <3> QED BY <3>1, <3>3
  <2>2. CASE k + 1 # Len(s)
    <3>1. k \in 1 .. Len(s0) /\ k \in k .. Len(s) - 2 /\ k + 2 = k + 1 + 1 /\ k + 2 \in 1 .. Len(s)
      BY <1>2, <1>3, <1>6, <2>2
    <3>2. after = s0[k] /\ after # NULL
      BY <1>2, <1>6, <1>7, <2>2, <3>1, NodeFacts
    <3>3. one = My402ListInsertBefore(out, list.obj[e2], s0[k])
      BY <1>1, <3>2
    <3> QED BY <1>5, <1>8, <3>1, <3>3, InsertionsGrow
  <2> QED BY <2>1, <2>2
<1>10. /\ one \in ListType /\ Chain(one, sa) /\ Inserted(s0, k, sa[k], sa)
       /\ one.live = out.live \cup {sa[k]} /\ Inserted(Objs(out, s0), k, list.obj[e2], Objs(one, sa))
  BY <1>9 DEF Grew
<1>11. MayAllocate(one)
  <2>1. e1 \notin one.live \/ e2 \notin one.live
    BY <1>4, <1>10
  <2> QED BY <1>4, <2>1 DEF MayAllocate
<1>12. /\ Len(sa) = Len(s) - 1
       /\ \A j \in 1 .. k - 1 : sa[j] = s[j]
  <2>1. Len(sa) = Len(s0) + 1 /\ \A j \in 1 .. k - 1 : sa[j] = s0[j]
    BY <1>10 DEF Inserted
  <2>2. Len(sa) = Len(s) - 1
    BY <1>2, <1>6, <2>1
  <2> QED BY <1>6, <2>1, <2>2
<1>13. k # 1 => /\ k - 1 \in 1 .. Len(sa) /\ before = sa[k - 1] /\ before # NULL
                /\ k - 1 \in 1 .. k - 1
  <2> SUFFICES ASSUME k # 1
               PROVE  k - 1 \in 1 .. Len(sa) /\ before = sa[k - 1] /\ before # NULL /\ k - 1 \in 1 .. k - 1
    OBVIOUS
  <2>1. k - 1 \in 1 .. Len(sa) /\ k - 1 \in 1 .. k - 1 /\ k - 1 \in 1 .. Len(s)
    BY <1>2, <1>3, <1>12
  <2>2. sa[k - 1] = s[k - 1] /\ s[k - 1] \in Cell
    BY <1>2, <1>12, <2>1
  <2> QED BY <1>7, <2>1, <2>2, NodeFacts
<1>14. PICK sb : Grew(one, sa, k, list.obj[e1], list', sb)
  <2>1. CASE k = 1
    BY <1>1, <1>7, <1>8, <1>10, <1>11, <2>1, InsertionsGrow
  <2>2. CASE k # 1
    <3>1. PICK m : m = k - 1
      OBVIOUS
    <3>2. m \in 1 .. Len(sa) /\ m + 1 = k /\ list' = My402ListInsertAfter(one, list.obj[e1], sa[m])
      BY <1>1, <1>3, <1>13, <2>2, <3>1
    <3>3. \E s2 : Grew(one, sa, m + 1, list.obj[e1], list', s2)
      BY <1>8, <1>10, <1>11, <3>2, InsertionsGrow
    <3> QED BY <3>2, <3>3
  <2> QED BY <2>1, <2>2
<1>15. /\ list' \in ListType /\ Chain(list', sb) /\ Inserted(sa, k, sb[k], sb)
       /\ Inserted(Objs(one, sa), k, list.obj[e1], Objs(list', sb))
  BY <1>14 DEF Grew
<1>16. Len(sb) = Len(s)
  BY <1>2, <1>12, <1>15 DEF Inserted
<1>17. Exchanged(Objs(list, s), k, Objs(list', sb))
  <2>1. PICK c, c1, c0, d1, d, x, y : /\ c = Objs(list, s) /\ c1 = Objs(l1, s1) /\ c0 = Objs(out, s0)
                                      /\ d1 = Objs(one, sa) /\ d = Objs(list', sb)
                                      /\ x = list.obj[e2] /\ y = list.obj[e1]
    OBVIOUS
  <2>2. x = c[k] /\ y = c[k + 1] /\ Len(c) \in Nat /\ k \in 1 .. Len(c) - 1
    BY <1>2, <1>3, <2>1
  <2>3. Removed(c, k + 1, c1) /\ Removed(c1, k, c0) /\ Inserted(c0, k, x, d1) /\ Inserted(d1, k, y, d)
    BY <1>5, <1>10, <1>15, <2>1
  <2>4. PICK i : i = k + 1
    OBVIOUS
  <2>5. (i = k \/ i = k + 1) /\ Removed(c, i, c1)
    BY <2>3, <2>4
  <2>6. Exchanged(c, k, d)
    BY <2>2, <2>3, <2>5, OutAndIn
  <2> QED BY <2>1, <2>6
<1>18. elem' = sb[k]
  <2>1. CASE k = 1
    <3>1. elem' = My402ListFirst(list') /\ Len(sb) # 0
      BY <1>1, <1>2, <1>3, <1>7, <1>16, <2>1
    <3> QED BY <1>15, <1>16, <2>1, <3>1, Neighbours
  <2>2. CASE k # 1
    <3>1. PICK m : m = k - 1
      OBVIOUS
    <3>2. m \in 1 .. Len(sb) /\ m # Len(sb) /\ m + 1 = k /\ m \in 1 .. k - 1
      BY <1>2, <1>3, <1>12, <1>13, <1>16, <2>2, <3>1
    <3>3. sb[m] = sa[m]
      BY <1>15, <3>2 DEF Inserted
    <3>4. elem' = My402ListNext(list', sb[m])
      BY <1>1, <1>13, <2>2, <3>1, <3>3
    <3>5. My402ListNext(list', sb[m]) = IF m = Len(sb) THEN NULL ELSE sb[m + 1]
      BY <1>15, <3>2, Neighbours
    <3> QED BY <3>2, <3>4, <3>5
  <2> QED BY <2>1, <2>2
<1> QED BY <1>15, <1>16, <1>17, <1>18

(***************************************************************************)
(* What the bubble sorts know, of the sequence c of the objects.           *)
(***************************************************************************)
(* The members from place a to place b are in order. *)
Ascending(c, a, b) == \A x, y \in a .. b : x < y => c[x] <= c[y]

(* Pass i is at place j + 1, w says whether it has exchanged: what the i
   passes before have left at the end is in its place, nothing passed is
   greater than what the walk is at, and without an exchange it is in order. *)
BubbleAt(c, i, j, w) ==
  Len(c) > 0 =>
    /\ i < Len(c) /\ j <= Len(c) - i - 1
    /\ \A y \in 1 .. Len(c) : y > Len(c) - i => \A x \in 1 .. y : c[x] <= c[y]
    /\ \A x \in 1 .. j + 1 : c[x] <= c[j + 1]
    /\ w = FALSE => Ascending(c, 1, j + 1)

(* A sort begins knowing nothing. *)
LEMMA BubbleBegins ==
  ASSUME NEW c \in Seq(Int)
  PROVE  BubbleAt(c, 0, 0, FALSE)
<1> SUFFICES ASSUME Len(c) > 0 PROVE BubbleAt(c, 0, 0, FALSE)
  BY DEF BubbleAt
<1>1. Len(c) \in Nat /\ c[1] \in Int
  OBVIOUS
<1>2. \A x \in 1 .. 0 + 1 : x = 1
  OBVIOUS
<1>3. \A y \in 1 .. Len(c) : ~(y > Len(c) - 0)
  BY <1>1
<1>4. Ascending(c, 1, 0 + 1)
  BY <1>2 DEF Ascending
<1>5. \A x \in 1 .. 0 + 1 : c[x] <= c[0 + 1]
  <2>1. c[1] <= c[1] /\ 0 + 1 = 1
    BY <1>1
  <2> QED BY <1>2, <2>1
<1>6. 0 < Len(c) /\ 0 <= Len(c) - 0 - 1
  BY <1>1
<1> QED BY <1>3, <1>4, <1>5, <1>6 DEF BubbleAt

(* A turn that exchanges nothing. *)
LEMMA BubbleGoesOn ==
  ASSUME NEW c \in Seq(Int), NEW i \in Nat, NEW j \in Nat, NEW w \in BOOLEAN,
         BubbleAt(c, i, j, w), j < Len(c) - i - 1, c[j + 1] <= c[j + 2]
  PROVE  BubbleAt(c, i, j + 1, w)
<1>1. /\ Len(c) \in Nat /\ Len(c) > 0 /\ j + 1 \in 1 .. Len(c) /\ j + 2 \in 1 .. Len(c) /\ j + 1 + 1 = j + 2
      /\ \A x \in 1 .. Len(c) : c[x] \in Int
  BY SMTT(30)
<1>2. /\ i < Len(c)
      /\ \A y \in 1 .. Len(c) : y > Len(c) - i => \A x \in 1 .. y : c[x] <= c[y]
      /\ \A x \in 1 .. j + 1 : c[x] <= c[j + 1]
      /\ w = FALSE => Ascending(c, 1, j + 1)
  BY <1>1 DEF BubbleAt
<1>3. \A x \in 1 .. j + 1 + 1 : c[x] <= c[j + 1 + 1]
  <2> TAKE x \in 1 .. j + 1 + 1
  <2>1. x \in 1 .. Len(c) /\ (x \in 1 .. j + 1 \/ x = j + 2)
    BY <1>1
  <2>2. c[x] \in Int /\ c[j + 1] \in Int /\ c[j + 2] \in Int
    BY <1>1, <2>1
  <2>3. x \in 1 .. j + 1 => c[x] <= c[j + 1]
    BY <1>2
  <2> QED BY <1>1, <2>1, <2>2, <2>3, SMTT(30)
<1>4. w = FALSE => Ascending(c, 1, j + 1 + 1)
  <2> SUFFICES ASSUME w = FALSE, NEW x \in 1 .. j + 1 + 1, NEW y \in 1 .. j + 1 + 1, x < y PROVE c[x] <= c[y]
    BY DEF Ascending
  <2>1. CASE y = j + 1 + 1
    BY <1>3, <2>1
  <2>2. CASE y # j + 1 + 1
    <3>1. x \in 1 .. j + 1 /\ y \in 1 .. j + 1
      BY <2>2
    <3> QED BY <1>2, <3>1 DEF Ascending
  <2> QED BY <2>1, <2>2
<1>5. j + 1 <= Len(c) - i - 1
  BY <1>1
<1> QED BY <1>2, <1>3, <1>4, <1>5 DEF BubbleAt

(* A turn that exchanges. *)
LEMMA BubbleRises ==
  ASSUME NEW c \in Seq(Int), NEW d \in Seq(Int), NEW i \in Nat, NEW j \in Nat, NEW w \in BOOLEAN,
         BubbleAt(c, i, j, w), j < Len(c) - i - 1, c[j + 1] > c[j + 2], Exchanged(c, j + 1, d)
  PROVE  BubbleAt(d, i, j + 1, TRUE)
<1>1. /\ Len(c) \in Nat /\ Len(c) > 0 /\ j + 1 \in 1 .. Len(c) /\ j + 2 \in 1 .. Len(c) /\ j + 1 + 1 = j + 2
      /\ \A x \in 1 .. Len(c) : c[x] \in Int
  BY SMTT(30)
<1>2. /\ i < Len(c)
      /\ \A y \in 1 .. Len(c) : y > Len(c) - i => \A x \in 1 .. y : c[x] <= c[y]
      /\ \A x \in 1 .. j + 1 : c[x] <= c[j + 1]
  BY <1>1 DEF BubbleAt
<1>3. /\ Len(d) = Len(c) /\ d[j + 1] = c[j + 2] /\ d[j + 2] = c[j + 1]
      /\ \A x \in 1 .. Len(c) : x # j + 1 /\ x # j + 2 => d[x] = c[x]
  BY <1>1 DEF Exchanged
<1>4. \A x \in 1 .. j + 1 + 1 : d[x] <= d[j + 1 + 1]
  <2> TAKE x \in 1 .. j + 1 + 1
  <2>1. x \in 1 .. Len(c) /\ (x \in 1 .. j + 1 \/ x = j + 2) /\ c[j + 1] \in Int /\ c[j + 2] \in Int
    BY <1>1
  <2>2. CASE x = j + 1
    <3>1. d[x] = c[j + 2] /\ d[j + 1 + 1] = c[j + 1]
      BY <1>1, <1>3, <2>2
    <3>2. c[j + 2] <= c[j + 1]
      BY <1>1
    <3> QED BY ONLY <3>1, <3>2
  <2>4. CASE x = j + 2
    <3>1. d[x] = c[j + 1] /\ d[j + 1 + 1] = c[j + 1]
      BY <1>1, <1>3, <2>4
    <3> QED BY <2>1, <3>1, SMTT(30)
  <2>3. CASE x # j + 1 /\ x # j + 2
    <3>1. d[x] = c[x] /\ c[x] <= c[j + 1]
      BY <1>2, <1>3, <2>1, <2>3
    <3>2. d[j + 1 + 1] = c[j + 1]
      BY <1>1, <1>3
    <3> QED BY <3>1, <3>2
  <2> QED BY <2>2, <2>3, <2>4
<1>5. ASSUME NEW y \in 1 .. Len(c), y > Len(c) - i, NEW x \in 1 .. y PROVE d[x] <= d[y]
  <2>1. y > j + 2 /\ j + 1 \in 1 .. y /\ j + 2 \in 1 .. y /\ x \in 1 .. Len(c)
    BY <1>1, <1>5
  <2>2. d[y] = c[y] /\ c[j + 1] <= c[y] /\ c[j + 2] <= c[y] /\ c[x] <= c[y]
    BY <1>2, <1>3, <1>5, <2>1
  <2> QED BY <1>3, <2>1, <2>2
<1>6. j + 1 <= Len(c) - i - 1
  BY <1>1
<1> QED BY <1>2, <1>3, <1>4, <1>5, <1>6 DEF BubbleAt

(* The next pass. *)
LEMMA BubbleNextPass ==
  ASSUME NEW c \in Seq(Int), NEW i \in Nat, NEW j \in Nat, NEW w \in BOOLEAN,
         BubbleAt(c, i, j, w), j >= Len(c) - i - 1, i + 1 < Len(c)
  PROVE  BubbleAt(c, i + 1, 0, FALSE)
<1>1. /\ Len(c) \in Nat /\ Len(c) > 0
      /\ \A x \in 1 .. Len(c) : c[x] \in Int
  OBVIOUS
<1>2. /\ i < Len(c) /\ j <= Len(c) - i - 1
      /\ \A y \in 1 .. Len(c) : y > Len(c) - i => \A x \in 1 .. y : c[x] <= c[y]
      /\ \A x \in 1 .. j + 1 : c[x] <= c[j + 1]
  BY <1>1 DEF BubbleAt
<1>3. j + 1 = Len(c) - i
  BY <1>1, <1>2
<1>4. ASSUME NEW y \in 1 .. Len(c), y > Len(c) - (i + 1), NEW x \in 1 .. y PROVE c[x] <= c[y]
  <2>1. CASE y > Len(c) - i
    BY <1>2, <2>1
  <2>2. CASE ~(y > Len(c) - i)
    <3>1. y = j + 1
      BY <1>1, <1>3, <1>4, <2>2
    <3> QED BY <1>2, <3>1
  <2> QED BY <2>1, <2>2
<1>5. i + 1 < Len(c) /\ 0 <= Len(c) - (i + 1) - 1
  BY <1>1
<1>6. (\A x \in 1 .. 0 + 1 : c[x] <= c[0 + 1]) /\ Ascending(c, 1, 0 + 1)
  <2>1. BubbleAt(c, 0, 0, FALSE)
    BY BubbleBegins
  <2> QED BY <1>1, <2>1 DEF BubbleAt
<1> QED BY <1>4, <1>5, <1>6 DEF BubbleAt

(* The end of the last pass. *)
LEMMA BubbleEnds ==
  ASSUME NEW c \in Seq(Int), NEW i \in Nat, NEW j \in Nat, NEW w \in BOOLEAN,
         BubbleAt(c, i, j, w), j >= Len(c) - i - 1, ~(w /\ i + 1 < Len(c))
  PROVE  Ascending(c, 1, Len(c))
<1> SUFFICES ASSUME NEW x \in 1 .. Len(c), NEW y \in 1 .. Len(c), x < y PROVE c[x] <= c[y]
  BY DEF Ascending
<1>1. Len(c) \in Nat /\ Len(c) > 0
  OBVIOUS
<1>2. /\ i < Len(c) /\ j <= Len(c) - i - 1
      /\ \A m \in 1 .. Len(c) : m > Len(c) - i => \A a \in 1 .. m : c[a] <= c[m]
      /\ w = FALSE => Ascending(c, 1, j + 1)
  BY <1>1 DEF BubbleAt
<1>3. x \in 1 .. y
  OBVIOUS
<1>4. CASE y > Len(c) - i
  BY <1>2, <1>3, <1>4
<1>5. CASE ~(y > Len(c) - i)
  <2>1. x \in 1 .. j + 1 /\ y \in 1 .. j + 1
    BY <1>1, <1>2, <1>5
  <2>2. w = FALSE
    BY <1>1, <1>5
  <2> QED BY <1>2, <2>1, <2>2 DEF Ascending
<1> QED BY <1>4, <1>5

(* A list read from its other end, with the order turned round. *)
Mirror(c) == [k \in 1 .. Len(c) |-> 0 - c[Len(c) + 1 - k]]

(* A mirrored sequence is in order when the sequence is, and its exchanges are
   those of the sequence. *)
LEMMA MirrorFacts ==
  ASSUME NEW c \in Seq(Int)
  PROVE  /\ Mirror(c) \in Seq(Int) /\ Len(Mirror(c)) = Len(c)
         /\ \A k \in 1 .. Len(c) : Mirror(c)[k] = 0 - c[Len(c) + 1 - k]
         /\ Ascending(Mirror(c), 1, Len(c)) => Ascending(c, 1, Len(c))
<1>1. Len(c) \in Nat /\ \A k \in 1 .. Len(c) : c[k] \in Int
  OBVIOUS
<1>2. ASSUME NEW k \in 1 .. Len(c) PROVE Len(c) + 1 - k \in 1 .. Len(c)
  BY <1>1
<1>3. Mirror(c) \in [1 .. Len(c) -> Int]
  BY <1>1, <1>2 DEF Mirror
<1>4. Mirror(c) \in Seq(Int) /\ Len(Mirror(c)) = Len(c)
  BY <1>1, <1>3, FunctionIsSeq
<1>5. \A k \in 1 .. Len(c) : Mirror(c)[k] = 0 - c[Len(c) + 1 - k]
  BY DEF Mirror
<1>6. ASSUME Ascending(Mirror(c), 1, Len(c)) PROVE Ascending(c, 1, Len(c))
  <2> SUFFICES ASSUME NEW x \in 1 .. Len(c), NEW y \in 1 .. Len(c), x < y PROVE c[x] <= c[y]
    BY DEF Ascending
  <2>1. PICK p, q : p = Len(c) + 1 - y /\ q = Len(c) + 1 - x
    OBVIOUS
  <2>2. /\ p \in 1 .. Len(c) /\ q \in 1 .. Len(c) /\ p < q
        /\ Len(c) + 1 - p = y /\ Len(c) + 1 - q = x
    BY <1>1, <2>1
  <2>3. Mirror(c)[p] <= Mirror(c)[q]
    BY <1>6, <2>2 DEF Ascending
  <2>4. Mirror(c)[p] = 0 - c[y] /\ Mirror(c)[q] = 0 - c[x]
    BY <1>5, <2>2
  <2> QED BY <1>1, <2>3, <2>4
<1> QED BY <1>4, <1>5, <1>6

(* An exchange of two is an exchange of their mirror images. *)
LEMMA MirrorExchanged ==
  ASSUME NEW c \in Seq(Int), NEW d \in Seq(Int), NEW k \in 1 .. Len(c) - 1, Exchanged(c, k, d)
  PROVE  Exchanged(Mirror(c), Len(c) - k, Mirror(d))
<1>1. /\ Len(c) \in Nat /\ k \in Nat /\ 1 <= k /\ k <= Len(c) - 1
      /\ Len(d) = Len(c) /\ d[k] = c[k + 1] /\ d[k + 1] = c[k]
      /\ \A j \in 1 .. Len(c) : j # k /\ j # k + 1 => d[j] = c[j]
  BY DEF Exchanged
<1>2. PICK n, m : n = Len(c) /\ m = n - k
  OBVIOUS
<1>3. /\ m \in 1 .. n /\ m + 1 \in 1 .. n /\ n + 1 - m = k + 1 /\ n + 1 - (m + 1) = k
      /\ n \in Nat
  BY <1>1, <1>2
<1>4. /\ Len(Mirror(c)) = n /\ Len(Mirror(d)) = n
      /\ \A x \in 1 .. n : Mirror(c)[x] = 0 - c[n + 1 - x]
      /\ \A x \in 1 .. n : Mirror(d)[x] = 0 - d[n + 1 - x]
  BY <1>1, <1>2, MirrorFacts
<1>5. Mirror(d)[m] = Mirror(c)[m + 1] /\ Mirror(d)[m + 1] = Mirror(c)[m]
  <2>1. Mirror(d)[m] = 0 - d[k + 1] /\ Mirror(d)[m + 1] = 0 - d[k]
    <3>1. Mirror(d)[m] = 0 - d[n + 1 - m] /\ Mirror(d)[m + 1] = 0 - d[n + 1 - (m + 1)]
      BY <1>3, <1>4
    <3> QED BY <1>3, <3>1
  <2>2. Mirror(c)[m] = 0 - c[k + 1] /\ Mirror(c)[m + 1] = 0 - c[k]
    <3>1. Mirror(c)[m] = 0 - c[n + 1 - m] /\ Mirror(c)[m + 1] = 0 - c[n + 1 - (m + 1)]
      BY <1>3, <1>4
    <3> QED BY <1>3, <3>1
  <2> QED BY <1>1, <2>1, <2>2
<1>6. ASSUME NEW x \in 1 .. n, x # m, x # m + 1 PROVE Mirror(d)[x] = Mirror(c)[x]
  <2>1. n + 1 - x \in 1 .. n /\ n + 1 - x # k /\ n + 1 - x # k + 1
    BY <1>1, <1>2, <1>3, <1>6
  <2>2. d[n + 1 - x] = c[n + 1 - x]
    BY <1>1, <1>2, <2>1
  <2> QED BY <1>4, <2>2
<1> QED BY <1>2, <1>4, <1>5, <1>6 DEF Exchanged

(***************************************************************************)
(* What the program sort knows, of the times t of the objects.             *)
(***************************************************************************)
(* The outer loop is at a, the inner one at b: what comes before a is in its
   place, and nothing the inner loop has passed is earlier than what is at a. *)
SortingAt(t, a, b) ==
  /\ 1 <= a /\ a < Len(t) /\ a < b /\ b <= Len(t) + 1
  /\ \A x \in 1 .. Len(t) : x < a => \A y \in 1 .. Len(t) : x < y => t[x] < t[y]
  /\ \A y \in 1 .. Len(t) : a < y /\ y < b => t[a] < t[y]

(* Every time is earlier than those after it. *)
Increasing(t) == \A x, y \in 1 .. Len(t) : x < y => t[x] < t[y]

(* d is c with the members at places a and b exchanged. *)
Swapped(c, a, b, d) ==
  /\ Len(d) = Len(c) /\ d[a] = c[b] /\ d[b] = c[a]
  /\ \A k \in 1 .. Len(c) : k # a /\ k # b => d[k] = c[k]

(* The outer loop goes to a place: nothing is known of it. *)
LEMMA SortingBegins ==
  ASSUME NEW t \in Seq(Int), NEW a \in Nat, 1 <= a, a < Len(t),
         a = 1 \/ SortingAt(t, a - 1, Len(t) + 1)
  PROVE  SortingAt(t, a, a + 1)
<1>1. Len(t) \in Nat
  OBVIOUS
<1>2. \A y \in 1 .. Len(t) : ~(a < y /\ y < a + 1)
  OBVIOUS
<1>3. ASSUME NEW x \in 1 .. Len(t), x < a, NEW y \in 1 .. Len(t), x < y PROVE t[x] < t[y]
  <2>1. a # 1
    BY <1>3
  <2>2. PICK p : p = a - 1
    OBVIOUS
  <2>3. SortingAt(t, p, Len(t) + 1) /\ p \in Nat
    BY <2>1, <2>2
  <2>4. CASE x < p
    BY <1>3, <2>3, <2>4 DEF SortingAt
  <2>5. CASE x = p
    BY <1>1, <1>3, <2>3, <2>5 DEF SortingAt
  <2>6. x < p \/ x = p
    BY <1>3, <2>2
  <2> QED BY <2>4, <2>5, <2>6
<1>4. a < a + 1 /\ a + 1 <= Len(t) + 1
  BY <1>1
<1> QED BY <1>2, <1>3, <1>4 DEF SortingAt

(* A turn of the inner loop: the earlier of the two is at a. *)
LEMMA SortingGoesOn ==
  ASSUME NEW t \in Seq(Int), NEW u \in Seq(Int), NEW a \in Nat, NEW b \in Nat, SortingAt(t, a, b), b <= Len(t),
         \/ t[a] < t[b] /\ u = t
         \/ t[a] > t[b] /\ Swapped(t, a, b, u)
  PROVE  SortingAt(u, a, b + 1)
<1>1. /\ Len(t) \in Nat /\ Len(u) = Len(t) /\ a \in 1 .. Len(t) /\ b \in 1 .. Len(t) /\ a < b /\ a < Len(t)
      /\ \A x \in 1 .. Len(t) : t[x] \in Int
  BY DEF SortingAt, Swapped
<1>2. /\ \A x \in 1 .. Len(t) : x < a => \A y \in 1 .. Len(t) : x < y => t[x] < t[y]
      /\ \A y \in 1 .. Len(t) : a < y /\ y < b => t[a] < t[y]
  BY DEF SortingAt
<1>3. \A x \in 1 .. Len(t) : x # a /\ x # b => u[x] = t[x]
  BY DEF Swapped
<1>4. u[a] < u[b] /\ u[a] <= t[a] /\ u[a] \in Int
  BY <1>1 DEF Swapped
<1>5. (u[a] = t[a] /\ u[b] = t[b]) \/ (u[a] = t[b] /\ u[b] = t[a])
  BY DEF Swapped
<1>6. ASSUME NEW x \in 1 .. Len(t), x < a, NEW y \in 1 .. Len(t), x < y PROVE u[x] < u[y]
  <2>1. x # a /\ x # b /\ x < b /\ u[x] = t[x]
    BY <1>1, <1>3, <1>6
  <2>2. t[x] < t[a] /\ t[x] < t[b] /\ t[x] < t[y]
    BY <1>1, <1>2, <1>6, <2>1
  <2> QED BY <1>3, <1>5, <2>1, <2>2
<1>7. ASSUME NEW y \in 1 .. Len(t), a < y, y < b + 1 PROVE u[a] < u[y]
  <2>1. CASE y = b
    BY <1>4, <2>1
  <2>2. CASE y # b
    <3>1. y < b /\ y # a
      BY <1>1, <1>7, <2>2
    <3>2. u[y] = t[y] /\ t[a] < t[y] /\ t[y] \in Int /\ t[a] \in Int
      BY <1>1, <1>2, <1>3, <1>7, <2>2, <3>1
    <3> QED BY <1>4, <3>2
  <2> QED BY <2>1, <2>2
<1>8. 1 <= a /\ a < b + 1 /\ b + 1 <= Len(t) + 1
  BY <1>1
<1> QED BY <1>1, <1>6, <1>7, <1>8 DEF SortingAt

(* The end of the outer loop, and a list it need not begin with. *)
LEMMA SortingEnds ==
  ASSUME NEW t \in Seq(Int), NEW a \in Nat,
         Len(t) = 1 \/ (SortingAt(t, a, Len(t) + 1) /\ a + 1 = Len(t))
  PROVE  Increasing(t)
<1> SUFFICES ASSUME NEW x \in 1 .. Len(t), NEW y \in 1 .. Len(t), x < y PROVE t[x] < t[y]
  BY DEF Increasing
<1>1. Len(t) \in Nat /\ Len(t) # 1
  <2>1. PICK n : n = Len(t)
    OBVIOUS
  <2>2. n \in Nat /\ x \in 1 .. n /\ y \in 1 .. n /\ x < y
    BY <2>1
  <2>3. n # 1
    BY ONLY <2>2
  <2> QED BY <2>1, <2>2, <2>3
<1>2. SortingAt(t, a, Len(t) + 1) /\ a + 1 = Len(t)
  BY <1>1
<1>3. x < a \/ x = a
  BY <1>1, <1>2
<1>4. CASE x < a
  BY <1>2, <1>4 DEF SortingAt
<1>5. CASE x = a
  BY <1>1, <1>2, <1>5 DEF SortingAt
<1> QED BY <1>3, <1>4, <1>5

(***************************************************************************)
(* Every transaction is in the list once.                                  *)
(***************************************************************************)
(* c has every number from 1 to n, once. *)
Each(c, n) ==
  /\ Len(c) = n
  /\ \A k \in 1 .. n : c[k] \in 1 .. n
  /\ \A a, b \in 1 .. n : c[a] = c[b] => a = b
  /\ \A m \in 1 .. n : \E k \in 1 .. n : c[k] = m

(* That is so when the next number is put at the end. *)
LEMMA EachGrows ==
  ASSUME NEW n \in Nat, NEW c, Each(c, n), NEW d, Inserted(c, n + 1, n + 1, d)
  PROVE  Each(d, n + 1)
<1>1. /\ Len(d) = n + 1 /\ d[n + 1] = n + 1
      /\ \A k \in 1 .. n : d[k] = c[k]
  <2>1. PICK m : m = n + 1
    OBVIOUS
  <2>2. Len(c) = n /\ Inserted(c, m, m, d) /\ m - 1 = n
    BY <2>1 DEF Each
  <2> QED BY <2>1, <2>2 DEF Inserted
<1>2. \A k \in 1 .. n + 1 : k = n + 1 \/ (k \in 1 .. n /\ d[k] = c[k])
  BY <1>1
<1>3. \A k \in 1 .. n : c[k] \in 1 .. n /\ c[k] # n + 1 /\ c[k] \in 1 .. n + 1
  <2>1. \A m \in 1 .. n : m # n + 1 /\ m \in 1 .. n + 1
    OBVIOUS
  <2> QED BY <2>1 DEF Each
<1>4. \A k \in 1 .. n + 1 : d[k] \in 1 .. n + 1
  BY <1>1, <1>2, <1>3
<1>5. \A a, b \in 1 .. n + 1 : d[a] = d[b] => a = b
  <2>1. \A x, y \in 1 .. n : c[x] = c[y] => x = y
    BY DEF Each
  <2> TAKE x, y \in 1 .. n + 1
  <2> HAVE d[x] = d[y]
  <2>2. CASE x = n + 1
    BY <1>1, <1>2, <1>3, <2>2
  <2>3. CASE y = n + 1
    BY <1>1, <1>2, <1>3, <2>3
  <2>4. CASE x # n + 1 /\ y # n + 1
    BY <1>2, <2>1, <2>4
  <2> QED BY <2>2, <2>3, <2>4
<1>6. ASSUME NEW m \in 1 .. n + 1 PROVE \E k \in 1 .. n + 1 : d[k] = m
  <2>1. CASE m = n + 1
    BY <1>1, <2>1
  <2>2. CASE m # n + 1
    <3>1. m \in 1 .. n
      BY <2>2
    <3>2. PICK k \in 1 .. n : c[k] = m
      BY <3>1 DEF Each
    <3>3. k \in 1 .. n + 1
      OBVIOUS
    <3> QED BY <1>1, <3>2, <3>3
  <2> QED BY <2>1, <2>2
<1> QED BY <1>1, <1>4, <1>5, <1>6 DEF Each

(* And when two are exchanged. *)
LEMMA EachSwapped ==
  ASSUME NEW n \in Nat, NEW c, Each(c, n), NEW a \in 1 .. n, NEW b \in 1 .. n, NEW d, Swapped(c, a, b, d)
  PROVE  Each(d, n)
<1>1. /\ Len(c) = n
      /\ \A k \in 1 .. n : c[k] \in 1 .. n
      /\ \A x, y \in 1 .. n : c[x] = c[y] => x = y
      /\ \A m \in 1 .. n : \E k \in 1 .. n : c[k] = m
  BY DEF Each
<1>2. /\ Len(d) = n /\ d[a] = c[b] /\ d[b] = c[a]
      /\ \A k \in 1 .. n : k # a /\ k # b => d[k] = c[k]
  BY <1>1 DEF Swapped
<1>3. \A k \in 1 .. n : d[k] \in 1 .. n
  BY <1>1, <1>2
<1>4. \A x, y \in 1 .. n : d[x] = d[y] => x = y
  <2> DEFINE to(k) == IF k = a THEN b ELSE IF k = b THEN a ELSE k
  <2>1. \A k \in 1 .. n : to(k) \in 1 .. n /\ d[k] = c[to(k)]
    BY <1>2
  <2>2. \A x, y \in 1 .. n : to(x) = to(y) => x = y
    OBVIOUS
  <2> HIDE DEF to
  <2> TAKE x, y \in 1 .. n
  <2> HAVE d[x] = d[y]
  <2>3. c[to(x)] = c[to(y)] /\ to(x) \in 1 .. n /\ to(y) \in 1 .. n
    BY <2>1
  <2>4. to(x) = to(y)
    BY <1>1, <2>3
  <2> QED BY <2>2, <2>4
<1>5. ASSUME NEW m \in 1 .. n PROVE \E k \in 1 .. n : d[k] = m
  <2>1. PICK k \in 1 .. n : c[k] = m
    BY <1>1
  <2> QED BY <1>2, <2>1
<1> QED BY <1>2, <1>3, <1>4, <1>5 DEF Each

(***************************************************************************)
(* The inductive invariant.                                                *)
(***************************************************************************)
(* What read makes of a line it accepts. *)
Transactions == [type : {"+", "-"}, time : {t \in Int : t <= Now}, amount : 0 .. MaxAmount]

Fields ==
  /\ list \in ListType /\ list.num <= MaxCells
  /\ pc \in Places /\ elem \in Pointer /\ other \in Pointer
  /\ turn \in [i : 0 .. MaxCells, j : 0 .. MaxCells, swapped : BOOLEAN]
  /\ got \in Seq(Transactions) /\ Len(got) <= MaxLines
  /\ balance \in Int /\ rows \in Seq(Range(rows)) /\ Len(rows) <= MaxLines

(* The times of the transactions in the cells s. *)
Times(s) == [k \in 1 .. Len(s) |-> Time(s[k])]

(* A list that is being emptied: what is left begins at elem, and the cell to
   free next has been read already. *)
Emptying ==
  \E r : Path(list, r) /\ elem = At(r, 1) /\ (elem # Anchor => other = At(r, 2))

(* A whole list with cells s, at the place the program has reached. *)
RunAt(s) ==
  /\ pc = "start" => s = <<>> /\ got = <<>>
  /\ pc = "forward" => /\ BubbleAt(Objs(list, s), turn.i, turn.j, turn.swapped)
                       /\ Len(s) > 0 => elem = s[turn.j + 1]
  /\ pc = "backward" => /\ BubbleAt(Mirror(Objs(list, s)), turn.i, turn.j, turn.swapped)
                        /\ Len(s) > 0 => elem = s[Len(s) - turn.j]
  /\ pc = "sorted" => Ascending(Objs(list, s), 1, Len(s))
  /\ pc \in {"start", "reading", "sorting", "printing", "printed"} => Each(Objs(list, s), Len(got))
  /\ pc \in {"start", "reading", "sorting"} => rows = <<>>
  /\ pc = "sorting" => \E a, b \in Nat : /\ SortingAt(Times(s), a, b)
                                         /\ elem = s[a] /\ other = IF b > Len(s) THEN NULL ELSE s[b]
  /\ pc \in {"printing", "printed"} => Increasing(Times(s)) /\ Len(rows) <= Len(s)
  /\ pc = "printing" => Len(rows) < Len(s) /\ elem = s[Len(rows) + 1]
  /\ pc = "duplicate" => ~TimesUnique

IInv ==
  /\ Fields
  /\ pc = "unlinking" => Emptying
  /\ pc # "unlinking" => \E s : Chain(list, s) /\ RunAt(s)

(***************************************************************************)
(* The sequence that the list is.                                          *)
(***************************************************************************)
(* Of a whole list, the objects of its cells. *)
LEMMA WholeContents ==
  ASSUME NEW l, NEW s, Chain(l, s)
  PROVE  LET w == Walk(l, l.next[Anchor]) IN [k \in 1 .. Len(w) |-> l.obj[w[k]]] = Objs(l, s)
<1>1. l.next[Anchor] = At(s, 1) /\ Path(l, s)
  <2>1. /\ At(s, 0) = Anchor /\ Len(s) \in Nat
        /\ \A k \in 0 .. Len(s) : l.next[At(s, k)] = At(s, k + 1)
    BY AtFacts
  <2>2. 0 \in 0 .. Len(s) /\ 0 + 1 = 1
    BY <2>1
  <2>3. l.next[At(s, 0)] = At(s, 0 + 1)
    BY <2>1, <2>2
  <2> QED BY <2>1, <2>2, <2>3 DEF Chain
<1>2. Walk(l, l.next[Anchor]) = s
  BY <1>1, WalkAlong
<1> QED BY <1>2 DEF Objs

(* The same before and after a step. *)
LEMMA ContentsAre ==
  ASSUME NEW s
  PROVE  /\ pc # "unlinking" /\ Chain(list, s) => Contents = Objs(list, s)
         /\ pc' # "unlinking" /\ Chain(list', s) => Contents' = Objs(list', s)
<1>1. ASSUME pc # "unlinking", Chain(list, s) PROVE Contents = Objs(list, s)
  BY <1>1, WholeContents DEF Contents
<1>2. ASSUME pc' # "unlinking", Chain(list', s) PROVE Contents' = Objs(list', s)
  BY <1>2, WholeContents DEF Contents
<1> QED BY <1>1, <1>2

(* A step of ListSeq, or none. *)
Allowed == Abstract!Next \/ UNCHANGED Contents

(* A cell more is an insertion. *)
LEMMA GrowingAllowed ==
  ASSUME NEW l \in ListType, l = list, NEW s, Chain(l, s), NEW i \in 1 .. Len(s) + 1, NEW o \in Values \cup (1 .. MaxLines),
         NEW l2, l2 = list', NEW s2, Grew(l, s, i, o, l2, s2), pc # "unlinking", pc' # "unlinking"
  PROVE  Allowed
<1>1. Contents = Objs(l, s) /\ Contents' = Objs(l2, s2) /\ l2 \in ListType /\ Chain(l2, s2)
  BY ContentsAre DEF Grew
<1>2. /\ Objs(l, s) \in Seq(Objects) /\ Len(Objs(l, s)) = Len(s) /\ Objs(l2, s2) \in Seq(Objects)
      /\ Inserted(Objs(l, s), i, o, Objs(l2, s2)) /\ o \in Objects
  BY <1>1, ObjsFacts DEF Grew, Objects
<1>3. Objs(l2, s2) = InsertAt(Objs(l, s), i, o)
  BY <1>2, InsertFacts
<1>4. Contents' = InsertAt(Contents, i, o) /\ i \in 1 .. Len(Contents) + 1
  BY <1>1, <1>2, <1>3
<1>5. Abstract!Insert(i, o)
  BY <1>4 DEF Abstract!Insert, InsertAt, Abstract!InsertAt
<1> QED BY <1>4, <1>5 DEF Allowed, Abstract!Next

(* A cell less is a deletion. *)
LEMMA ShrinkingAllowed ==
  ASSUME NEW l \in ListType, l = list, NEW s, Chain(l, s), NEW i \in 1 .. Len(s),
         NEW l2, l2 = list', NEW s2, Shrunk(l, s, i, l2, s2), pc # "unlinking", pc' # "unlinking"
  PROVE  Allowed
<1>1. Contents = Objs(l, s) /\ Contents' = Objs(l2, s2) /\ l2 \in ListType /\ Chain(l2, s2)
  BY ContentsAre DEF Shrunk
<1>2. /\ Objs(l, s) \in Seq(Objects) /\ Len(Objs(l, s)) = Len(s) /\ Objs(l2, s2) \in Seq(Objects)
      /\ Removed(Objs(l, s), i, Objs(l2, s2))
  BY <1>1, ObjsFacts DEF Shrunk
<1>3. Objs(l2, s2) = RemoveAt(Objs(l, s), i)
  BY <1>2, RemoveFacts
<1>4. Contents' = RemoveAt(Contents, i) /\ i \in 1 .. Len(Contents)
  BY <1>1, <1>2, <1>3
<1>5. Abstract!Delete(i)
  BY <1>4 DEF Abstract!Delete, RemoveAt, Abstract!RemoveAt
<1> QED BY <1>4, <1>5 DEF Allowed, Abstract!Next

(* Two objects that change places are an exchange. *)
LEMMA SwappingAllowed ==
  ASSUME NEW l \in ListType, l = list, NEW s, Chain(l, s), NEW a \in 1 .. Len(s), NEW b \in 1 .. Len(s),
         NEW l2 \in ListType, l2 = list', NEW s2, Chain(l2, s2), Len(s2) = Len(s),
         Swapped(Objs(l, s), a, b, Objs(l2, s2)), pc # "unlinking", pc' # "unlinking"
  PROVE  Allowed
<1>1. Contents = Objs(l, s) /\ Contents' = Objs(l2, s2)
  BY ContentsAre
<1>2. /\ Objs(l, s) \in Seq(Objects) /\ Len(Objs(l, s)) = Len(s)
      /\ Objs(l2, s2) \in Seq(Objects) /\ Len(Objs(l2, s2)) = Len(s)
  BY <1>1, ObjsFacts
<1>3. PICK c, d : c = Objs(l, s) /\ d = Objs(l2, s2)
  OBVIOUS
<1>4. c \in Seq(Objects) /\ d \in Seq(Objects) /\ Len(d) = Len(c) /\ a \in 1 .. Len(c) /\ b \in 1 .. Len(c)
      /\ Swapped(c, a, b, d)
  BY <1>2, <1>3
<1>5. d = [c EXCEPT ![a] = c[b], ![b] = c[a]]
  <2> DEFINE u == [c EXCEPT ![a] = c[b], ![b] = c[a]]
  <2>1. c \in [1 .. Len(c) -> Objects] /\ d \in [1 .. Len(c) -> Objects] /\ c[a] \in Objects /\ c[b] \in Objects
    BY <1>4, SeqFacts
  <2>2. u \in [1 .. Len(c) -> Objects]
    BY <1>4, <2>1
  <2>3. ASSUME NEW k \in 1 .. Len(c) PROVE d[k] = u[k]
    BY <1>4, <2>1, <2>3 DEF Swapped
  <2> QED BY <2>1, <2>2, <2>3
<1>6. Abstract!Exchange(a, b)
  BY <1>1, <1>3, <1>4, <1>5 DEF Abstract!Exchange
<1> QED BY <1>1, <1>3, <1>4, <1>6 DEF Allowed, Abstract!Next

(* Neighbours that change places do so. *)
LEMMA ExchangedSwapped ==
  ASSUME NEW c, NEW k, NEW d, Exchanged(c, k, d)
  PROVE  Swapped(c, k, k + 1, d)
BY DEF Exchanged, Swapped

(* A step that leaves the list alone. *)
LEMMA NothingAllowed ==
  ASSUME list' = list, pc # "unlinking", pc' # "unlinking"
  PROVE  Allowed
BY DEF Allowed, Contents

(***************************************************************************)
(* What the invariant says of a state.                                     *)
(***************************************************************************)
(* A whole list satisfies what LinksWhole and FindsFirst say. *)
LEMMA WholeListInv ==
  ASSUME list \in ListType, NEW s, Chain(list, s)
  PROVE  LinksWhole /\ FindsFirst
<1>1. /\ s \in Seq(Cell) /\ Len(s) \in Nat
      /\ \A k \in 1 .. Len(s) : At(s, k) = s[k]
      /\ At(s, 0) = Anchor
      /\ \A k \in 0 .. Len(s) : list.next[At(s, k)] = At(s, k + 1) /\ list.prev[At(s, k + 1)] = At(s, k)
      /\ list.num = Len(s) /\ list.live = {s[k] : k \in 1 .. Len(s)}
  BY AtFacts
<1>2. Members(list) = s
  BY Neighbours
<1>3. ASSUME NEW e \in list.live \cup {Anchor} PROVE list.prev[list.next[e]] = e
  <2>1. PICK k \in 0 .. Len(s) : e = At(s, k)
    <3>1. CASE e = Anchor
      <4>1. 0 \in 0 .. Len(s)
        BY <1>1
      <4> QED BY <1>1, <3>1, <4>1
    <3>2. CASE e # Anchor
      <4>1. PICK k \in 1 .. Len(s) : e = s[k]
        BY <1>1, <3>2
      <4>2. k \in 0 .. Len(s)
        BY <1>1
      <4> QED BY <1>1, <4>1, <4>2
    <3> QED BY <3>1, <3>2
  <2> QED BY <1>1, <2>1
<1>4. LinksWhole
  BY <1>1, <1>2, <1>3 DEF LinksWhole
<1>5. FindsFirst
  BY <1>2, FindsIt DEF FindsFirst
<1> QED BY <1>4, <1>5

(* The invariant implies what the runs check of the list. *)
LEMMA InvariantList ==
  ASSUME IInv
  PROVE  ListInv
<1>1. Fields
  BY DEF IInv
<1>2. My402TypeOK
  <2>1. /\ list.next \in [Node -> Pointer] /\ list.prev \in [Node -> Pointer] /\ list.obj \in [Node -> Objects]
        /\ list.num \in Nat /\ list.num <= MaxCells /\ list.live \subseteq Cell
    BY <1>1, ListFields DEF Fields
  <2>2. list.num \in 0 .. MaxCells
    BY <2>1, NodeFacts
  <2>3. \A n \in 1 .. Len(got) : got[n].amount \in 0 .. MaxAmount /\ got[n].time <= Now
    <3>1. \A n \in 1 .. Len(got) : got[n] \in Transactions
      BY <1>1, SeqFacts DEF Fields
    <3>2. \A x \in Transactions : x.amount \in 0 .. MaxAmount /\ x.time <= Now
      BY DEF Transactions
    <3> QED BY <3>1, <3>2
  <2>4. /\ pc \in Places /\ elem \in Pointer /\ other \in Pointer
        /\ turn \in [i : 0 .. MaxCells, j : 0 .. MaxCells, swapped : BOOLEAN]
        /\ balance \in Int /\ Len(rows) <= MaxLines
    BY <1>1 DEF Fields
  <2>5. list.obj \in [Node -> Values \cup (1 .. MaxLines) \cup {NULL}]
    BY <2>1 DEF Objects
  <2> QED BY <2>1, <2>2, <2>3, <2>4, <2>5 DEF My402TypeOK
<1>3. LinksWhole /\ FindsFirst
  <2>1. CASE pc = "unlinking"
    BY <2>1 DEF LinksWhole, FindsFirst
  <2>2. CASE pc # "unlinking"
    BY <1>1, <2>2, WholeListInv DEF IInv, Fields
  <2> QED BY <2>1, <2>2
<1>4. NoDangling
  <2>1. CASE pc = "unlinking"
    <3>1. PICK r : Path(list, r) /\ elem = At(r, 1)
      BY <2>1 DEF IInv, Emptying
    <3>2. elem \in list.live \cup {Anchor}
      BY <3>1 DEF At, Path
    <3> QED BY <2>1, <3>2 DEF NoDangling
  <2>2. CASE pc # "unlinking"
    <3>1. PICK s : Chain(list, s) /\ RunAt(s)
      BY <2>2 DEF IInv
    <3>2. /\ Len(s) \in Nat /\ list.num = Len(s)
          /\ \A k \in 1 .. Len(s) : s[k] \in list.live
      BY <3>1, AtFacts
    <3>3. ASSUME pc \in {"sorting", "printing"} PROVE elem \in list.live
      <4>1. CASE pc = "sorting"
        <5>1. PICK a, b \in Nat : SortingAt(Times(s), a, b) /\ elem = s[a]
          BY <3>1, <4>1 DEF RunAt
        <5>2. Len(Times(s)) = Len(s)
          BY <3>2 DEF Times
        <5>3. a \in 1 .. Len(s)
          BY <3>2, <5>1, <5>2 DEF SortingAt
        <5> QED BY <3>2, <5>1, <5>3
      <4>2. CASE pc = "printing"
        <5>1. Len(rows) < Len(s) /\ elem = s[Len(rows) + 1]
          BY <3>1, <4>2 DEF RunAt
        <5>2. Len(rows) \in Nat
          BY <1>1 DEF Fields
        <5>3. Len(rows) + 1 \in 1 .. Len(s)
          BY <3>2, <5>1, <5>2
        <5> QED BY <3>2, <5>1, <5>3
      <4> QED BY <3>3, <4>1, <4>2
    <3>4. ASSUME pc \in {"forward", "backward"}, turn.j < PassLength(turn.i) PROVE elem \in list.live
      <4>1. PICK n, i, j : n = Len(s) /\ i = turn.i /\ j = turn.j
        OBVIOUS
      <4>2. n \in Nat /\ i \in Nat /\ j \in Nat /\ j < n - i - 1
        BY <1>1, <3>2, <3>4, <4>1 DEF Fields, PassLength
      <4>3. n > 0 /\ j + 1 \in 1 .. n /\ n - j \in 1 .. n
        BY <4>2
      <4>4. elem = s[j + 1] \/ elem = s[n - j]
        BY <3>1, <3>4, <4>1, <4>3 DEF RunAt
      <4> QED BY <3>2, <4>1, <4>3, <4>4
    <3> QED BY <2>2, <3>3, <3>4 DEF NoDangling
  <2> QED BY <2>1, <2>2
<1> QED BY <1>2, <1>3, <1>4 DEF ListInv

(* And what they check of the sorts. *)
LEMMA InvariantSorted ==
  ASSUME IInv
  PROVE  Sorted
<1>1. Fields
  BY DEF IInv
<1>2. ASSUME NEW s, Chain(list, s), pc # "unlinking"
      PROVE  /\ Members(list) = s /\ Len(s) \in Nat /\ Len(Objs(list, s)) = Len(s)
             /\ \A k \in 1 .. Len(s) : Objs(list, s)[k] = list.obj[s[k]]
  BY <1>1, <1>2, Neighbours, ObjsFacts, AtFacts DEF Fields
<1>3. BubbleSorted
  <2> SUFFICES ASSUME pc = "sorted"
               PROVE  LET s == Members(list)
                      IN \A a, b \in 1 .. Len(s) : a < b => list.obj[s[a]] <= list.obj[s[b]]
    BY DEF BubbleSorted
  <2>1. PICK s : Chain(list, s) /\ RunAt(s)
    BY DEF IInv
  <2>2. Ascending(Objs(list, s), 1, Len(s))
    BY <2>1 DEF RunAt
  <2> QED BY <1>2, <2>1, <2>2 DEF Ascending
<1>4. SortedByTime
  <2>1. ASSUME pc \in {"printing", "printed"}
        PROVE  LET s == Members(list)
               IN /\ TimesUnique
                  /\ {list.obj[s[k]] : k \in 1 .. Len(s)} = 1 .. Len(got) /\ Len(s) = Len(got)
                  /\ \A a, b \in 1 .. Len(s) : a < b => Time(s[a]) < Time(s[b])
    <3>1. PICK s : Chain(list, s) /\ RunAt(s)
      BY <2>1 DEF IInv
    <3>2. /\ Members(list) = s /\ Len(s) \in Nat /\ Len(Objs(list, s)) = Len(s)
          /\ \A k \in 1 .. Len(s) : Objs(list, s)[k] = list.obj[s[k]]
      BY <1>2, <2>1, <3>1
    <3>3. Each(Objs(list, s), Len(got)) /\ Increasing(Times(s))
      BY <2>1, <3>1 DEF RunAt
    <3>4. /\ Len(s) = Len(got)
          /\ \A k \in 1 .. Len(s) : list.obj[s[k]] \in 1 .. Len(s)
          /\ \A m \in 1 .. Len(s) : \E k \in 1 .. Len(s) : list.obj[s[k]] = m
      <4>1. Len(s) = Len(got)
        BY <3>2, <3>3 DEF Each
      <4>2. Each(Objs(list, s), Len(s))
        BY <3>3, <4>1
      <4>3. \A k \in 1 .. Len(s) : list.obj[s[k]] \in 1 .. Len(s)
        BY <3>2, <4>2 DEF Each
      <4>4. ASSUME NEW m \in 1 .. Len(s) PROVE \E k \in 1 .. Len(s) : list.obj[s[k]] = m
        <5>1. PICK k \in 1 .. Len(s) : Objs(list, s)[k] = m
          BY <4>2 DEF Each
        <5> QED BY <3>2, <5>1
      <4> QED BY <4>1, <4>3, <4>4
    <3>5. \A a, b \in 1 .. Len(s) : a < b => Time(s[a]) < Time(s[b])
      BY <3>2, <3>3 DEF Increasing, Times
    <3>6. \A k \in 1 .. Len(s) : Time(s[k]) \in Int
      <4>1. \A n \in 1 .. Len(got) : got[n] \in Transactions
        BY <1>1, SeqFacts DEF Fields
      <4>2. \A x \in Transactions : x.time \in Int
        BY DEF Transactions
      <4> QED BY <3>4, <4>1, <4>2 DEF Time
    <3>7. ASSUME NEW x \in 1 .. Len(got), NEW y \in 1 .. Len(got), x # y PROVE got[x].time # got[y].time
      <4>1. PICK a \in 1 .. Len(s) : list.obj[s[a]] = x
        BY <3>4
      <4>2. PICK b \in 1 .. Len(s) : list.obj[s[b]] = y
        BY <3>4
      <4>3. a < b \/ b < a
        BY <3>7, <4>1, <4>2
      <4>4. Time(s[a]) \in Int /\ Time(s[b]) \in Int /\ Time(s[a]) = got[x].time /\ Time(s[b]) = got[y].time
        BY <3>6, <4>1, <4>2 DEF Time
      <4>5. Time(s[a]) < Time(s[b]) \/ Time(s[b]) < Time(s[a])
        BY <3>5, <4>3
      <4> QED BY <4>4, <4>5
    <3>8. {list.obj[s[k]] : k \in 1 .. Len(s)} = 1 .. Len(got)
      BY <3>4
    <3> QED BY <3>2, <3>4, <3>5, <3>7, <3>8 DEF TimesUnique
  <2>2. ASSUME pc = "duplicate" PROVE ~TimesUnique
    BY <2>2 DEF IInv, RunAt
  <2> QED BY <2>1, <2>2 DEF SortedByTime
<1> QED BY <1>3, <1>4 DEF Sorted

(* The program begins with an empty list. *)
LEMMA InitInv ==
  ASSUME Init
  PROVE  IInv /\ Abstract!Init
<1>1. Chain(list, <<>>) /\ list \in ListType
  <2>1. /\ list = [next |-> list.next, prev |-> list.prev, obj |-> list.obj, num |-> list.num, live |-> list.live]
        /\ list.next = [n \in Node |-> IF n = Anchor THEN Anchor ELSE NULL]
        /\ list.prev = [n \in Node |-> IF n = Anchor THEN Anchor ELSE NULL]
        /\ list.obj = [n \in Node |-> NULL] /\ list.num = 0 /\ list.live = {}
    BY DEF Init, EmptyList
  <2>2. \A k \in 0 .. 1 : At(<<>>, k) = Anchor
    BY DEF At
  <2>3. list \in ListType
    BY <2>1, NodeFacts DEF ListType, Objects
  <2>4. Len(<<>>) = 0 /\ <<>> \in Seq(Cell) /\ \A k \in 0 .. Len(<<>>) : k = 0 /\ k \in 0 .. 1 /\ k + 1 \in 0 .. 1
    OBVIOUS
  <2>5. list.next[Anchor] = Anchor /\ list.prev[Anchor] = Anchor
    BY <2>1, NodeFacts
  <2> QED BY <2>1, <2>2, <2>3, <2>4, <2>5 DEF Chain, Path
<1>2. Fields
  <2>1. rows = <<>> /\ got = <<>>
    BY DEF Init
  <2>2. rows \in Seq(Range(rows)) /\ Len(rows) = 0 /\ got \in Seq(Transactions) /\ Len(got) = 0
    BY <2>1
  <2>3. list.num = 0 /\ turn = [i |-> 0, j |-> 0, swapped |-> FALSE] /\ balance = 0 /\ elem = NULL /\ other = NULL
        /\ pc = "start"
    BY DEF Init, EmptyList, NoTurn
  <2>4. 0 <= MaxCells /\ 0 <= MaxLines /\ 0 \in 0 .. MaxCells
    BY My402ListAssumption, My402SortAssumption
  <2> QED BY <1>1, <2>2, <2>3, <2>4, NodeFacts DEF Fields, Places
<1>3. RunAt(<<>>)
  <2>1. pc = "start" /\ got = <<>> /\ rows = <<>>
    BY DEF Init
  <2>2. Each(Objs(list, <<>>), Len(got))
    BY <2>1 DEF Each, Objs
  <2> QED BY <2>1, <2>2 DEF RunAt
<1>4. Contents = <<>>
  <2>1. pc # "unlinking"
    BY DEF Init
  <2> QED BY <1>1, <2>1, ContentsAre DEF Objs
<1>5. pc # "unlinking"
  BY DEF Init
<1>6. IInv
  BY <1>1, <1>2, <1>3, <1>5 DEF IInv
<1> QED BY <1>4, <1>6 DEF Abstract!Init

(***************************************************************************)
(* The steps: each keeps the invariant, and is one of ListSeq or none.     *)
(***************************************************************************)
(* What the invariant says of a whole list. *)
LEMMA WholeState ==
  ASSUME IInv, pc # "unlinking"
  PROVE  \E s : /\ Chain(list, s) /\ RunAt(s)
                /\ s \in Seq(Cell) /\ Len(s) \in Nat /\ Len(s) <= MaxCells /\ list.num = Len(s)
                /\ \A k \in 1 .. Len(s) : s[k] \in Cell /\ s[k] \in list.live
                /\ list.live = {s[k] : k \in 1 .. Len(s)}
                /\ Objs(list, s) \in Seq(Objects) /\ Len(Objs(list, s)) = Len(s)
                /\ \A k \in 1 .. Len(s) : Objs(list, s)[k] = list.obj[s[k]]
<1>1. PICK s : Chain(list, s) /\ RunAt(s)
  BY DEF IInv
<1>2. list \in ListType
  BY DEF IInv, Fields
<1>3. /\ s \in Seq(Cell) /\ Len(s) \in Nat /\ Len(s) <= MaxCells /\ list.num = Len(s)
      /\ \A k \in 1 .. Len(s) : s[k] \in Cell /\ s[k] \in list.live
      /\ list.live = {s[k] : k \in 1 .. Len(s)}
  BY <1>1, AtFacts
<1>4. /\ Objs(list, s) \in Seq(Objects) /\ Len(Objs(list, s)) = Len(s)
      /\ \A k \in 1 .. Len(s) : Objs(list, s)[k] = list.obj[s[k]]
  BY <1>1, <1>2, ObjsFacts
<1> QED BY <1>1, <1>3, <1>4

(* The fields that most of the steps leave alone. *)
LEMMA FieldsKept ==
  ASSUME IInv, list' \in ListType, list'.num <= MaxCells, pc' \in Places, elem' \in Pointer, other' \in Pointer,
         turn' \in [i : 0 .. MaxCells, j : 0 .. MaxCells, swapped : BOOLEAN],
         UNCHANGED <<got, balance, rows>>
  PROVE  Fields'
<1>1. /\ got \in Seq(Transactions) /\ Len(got) <= MaxLines
      /\ balance \in Int /\ rows \in Seq(Range(rows)) /\ Len(rows) <= MaxLines
  BY DEF IInv, Fields
<1> QED BY <1>1 DEF Fields

(* The arguments are looked at once, before there is a list. *)
LEMMA MainStep ==
  ASSUME IInv, main
  PROVE  IInv' /\ Allowed
<1>1. /\ pc = "start" /\ pc' \in {"test", "reading", "refused"}
      /\ UNCHANGED <<list, elem, other, turn, got, balance, rows>>
  BY DEF main
<1>2. PICK s : Chain(list, s) /\ RunAt(s)
  BY <1>1 DEF IInv
<1>3. Fields'
  <2>1. Fields /\ pc' \in Places
    BY <1>1 DEF IInv, Places
  <2> QED BY <1>1, <2>1, FieldsKept DEF Fields
<1>4. Chain(list', s) /\ pc' # "unlinking"
  BY <1>1, <1>2
<1>5. RunAt(s)'
  <2>1. Each(Objs(list, s), Len(got)) /\ rows = <<>>
    BY <1>1, <1>2 DEF RunAt
  <2> QED BY <1>1, <2>1 DEF RunAt
<1> QED BY <1>1, <1>3, <1>4, <1>5, NothingAllowed DEF IInv

(* The calls of listtest that put a cell in. *)
LEMMA AddStep ==
  ASSUME IInv, NEW o \in Values, Add(o)
  PROVE  IInv' /\ Allowed
<1>1. /\ pc = "test" /\ pc' = "test" /\ UNCHANGED <<elem, other, turn, got, balance, rows>> /\ MayAllocate(list)
      /\ \/ list' = My402ListAppend(list, o)
         \/ list' = My402ListPrepend(list, o)
         \/ \E e \in list.live \cup {NULL} : \/ list' = My402ListInsertAfter(list, o, e)
                                             \/ list' = My402ListInsertBefore(list, o, e)
  BY DEF Add, InTest
<1>2. PICK s : Chain(list, s)
  BY <1>1 DEF IInv
<1>3. list \in ListType /\ o \in Objects /\ Len(s) \in Nat /\ list.live = {s[k] : k \in 1 .. Len(s)}
  <2>1. list \in ListType /\ o \in Objects
    BY DEF IInv, Fields, Objects
  <2>2. Len(s) \in Nat
    BY <1>2, AtFacts
  <2>3. list.live = {s[k] : k \in 1 .. Len(s)}
    BY <1>2 DEF Chain, Path
  <2> QED BY <2>1, <2>2, <2>3
<1>4. \E i \in 1 .. Len(s) + 1 : \E s2 : Grew(list, s, i, o, list', s2)
  <2> DEFINE G(i) == \E s2 : Grew(list, s, i, o, list', s2)
  <2>1. /\ list' = My402ListAppend(list, o) => G(Len(s) + 1)
        /\ list' = My402ListInsertAfter(list, o, NULL) => G(Len(s) + 1)
        /\ list' = My402ListPrepend(list, o) => G(1)
        /\ list' = My402ListInsertBefore(list, o, NULL) => G(1)
        /\ \A k \in 1 .. Len(s) : list' = My402ListInsertAfter(list, o, s[k]) => G(k + 1)
        /\ \A k \in 1 .. Len(s) : list' = My402ListInsertBefore(list, o, s[k]) => G(k)
    BY <1>1, <1>2, <1>3, InsertionsGrow
  <2> HIDE DEF G
  <2>2. \E i \in 1 .. Len(s) + 1 : G(i)
    <3>1. /\ 1 \in 1 .. Len(s) + 1 /\ Len(s) + 1 \in 1 .. Len(s) + 1
          /\ \A k \in 1 .. Len(s) : k \in 1 .. Len(s) + 1 /\ k + 1 \in 1 .. Len(s) + 1
      BY <1>3
    <3>2. CASE \E e \in list.live \cup {NULL} : \/ list' = My402ListInsertAfter(list, o, e)
                                                \/ list' = My402ListInsertBefore(list, o, e)
      <4>1. PICK e \in list.live \cup {NULL} : \/ list' = My402ListInsertAfter(list, o, e)
                                               \/ list' = My402ListInsertBefore(list, o, e)
        BY <3>2
      <4>2. CASE e = NULL
        BY <2>1, <3>1, <4>1, <4>2
      <4>3. CASE e # NULL
        <5>1. PICK k \in 1 .. Len(s) : e = s[k]
          BY <1>3, <4>1, <4>3
        <5> QED BY <2>1, <3>1, <4>1, <5>1
      <4> QED BY <4>2, <4>3
    <3> QED BY <1>1, <2>1, <3>1, <3>2
  <2> QED BY <2>2 DEF G
<1>5. PICK i \in 1 .. Len(s) + 1 : \E s2 : Grew(list, s, i, o, list', s2)
  BY <1>4
<1>6. PICK s2 : Grew(list, s, i, o, list', s2)
  BY <1>5
<1>7. list' \in ListType /\ Chain(list', s2)
  BY <1>6 DEF Grew
<1>8. Fields'
  <2>1. list'.num <= MaxCells
    BY <1>7, AtFacts
  <2>2. Fields
    BY DEF IInv
  <2> QED BY <1>1, <1>7, <2>1, <2>2, FieldsKept DEF Fields
<1>9. RunAt(s2)'
  BY <1>1 DEF RunAt
<1>10. Allowed
  BY <1>1, <1>2, <1>3, <1>6, GrowingAllowed
<1> QED BY <1>1, <1>7, <1>8, <1>9, <1>10 DEF IInv

(* The calls of listtest that take a cell out. *)
LEMMA TakeOutStep ==
  ASSUME IInv, NEW e \in Cell, TakeOut(e)
  PROVE  IInv' /\ Allowed
<1>1. /\ pc = "test" /\ pc' = "test" /\ UNCHANGED <<elem, other, turn, got, balance, rows>>
      /\ e \in list.live /\ list' = My402ListUnlink(list, e)
  BY DEF TakeOut, InTest
<1>2. PICK s : Chain(list, s)
  BY <1>1 DEF IInv
<1>3. list \in ListType /\ Len(s) \in Nat /\ list.live = {s[k] : k \in 1 .. Len(s)}
  <2>1. list \in ListType
    BY DEF IInv, Fields
  <2>2. Len(s) \in Nat
    BY <1>2, AtFacts
  <2>3. list.live = {s[k] : k \in 1 .. Len(s)}
    BY <1>2 DEF Chain, Path
  <2> QED BY <2>1, <2>2, <2>3
<1>4. PICK i \in 1 .. Len(s) : e = s[i]
  BY <1>1, <1>3
<1>5. PICK s2 : Shrunk(list, s, i, list', s2)
  BY <1>1, <1>2, <1>3, <1>4, UnlinkShrinks
<1>6. list' \in ListType /\ Chain(list', s2)
  BY <1>5 DEF Shrunk
<1>7. Fields'
  <2>1. list'.num <= MaxCells
    BY <1>6, AtFacts
  <2>2. Fields
    BY DEF IInv
  <2> QED BY <1>1, <1>6, <2>1, <2>2, FieldsKept DEF Fields
<1>8. RunAt(s2)'
  BY <1>1 DEF RunAt
<1>9. Allowed
  BY <1>1, <1>2, <1>3, <1>5, ShrinkingAllowed
<1> QED BY <1>1, <1>6, <1>7, <1>8, <1>9 DEF IInv

(* Going back to the calls. *)
LEMMA DoTestStep ==
  ASSUME IInv, DoTest
  PROVE  IInv' /\ Allowed
<1>1. pc = "sorted" /\ pc' = "test" /\ UNCHANGED <<list, elem, other, turn, got, balance, rows>>
  BY DEF DoTest, Goto
<1>2. PICK s : Chain(list, s)
  BY <1>1 DEF IInv
<1>3. Fields'
  <2>1. Fields /\ pc' \in Places
    BY <1>1 DEF IInv, Places
  <2> QED BY <1>1, <2>1, FieldsKept DEF Fields
<1>4. RunAt(s)' /\ Chain(list', s)
  BY <1>1, <1>2 DEF RunAt
<1> QED BY <1>1, <1>3, <1>4, NothingAllowed DEF IInv

(***************************************************************************)
(* Emptying the list.                                                      *)
(***************************************************************************)
(* The loop of UnlinkAll begins at the first cell. *)
LEMMA UnlinkAllStep ==
  ASSUME IInv, UnlinkAll
  PROVE  IInv' /\ Allowed
<1>1. /\ pc = "test" /\ pc' = "unlinking" /\ UNCHANGED <<list, turn, got, balance, rows>>
      /\ elem' = list.next[Anchor] /\ other' = list.next[list.next[Anchor]]
  BY DEF UnlinkAll, Goto
<1>2. PICK s : Chain(list, s)
  BY <1>1 DEF IInv
<1>3. /\ At(s, 0) = Anchor /\ Len(s) \in Nat /\ \A k : At(s, k) \in Node
      /\ \A k \in 0 .. Len(s) : list.next[At(s, k)] = At(s, k + 1)
  BY <1>2, AtFacts
<1>4. elem' = At(s, 1) /\ (elem' # Anchor => other' = At(s, 2))
  <2>1. 0 \in 0 .. Len(s) /\ 0 + 1 = 1 /\ 1 + 1 = 2 /\ (1 \in 1 .. Len(s) => 1 \in 0 .. Len(s))
    BY <1>3
  <2>2. elem' = At(s, 1)
    BY <1>1, <1>3, <2>1
  <2>3. At(s, 1) # Anchor => 1 \in 1 .. Len(s)
    BY DEF At
  <2> QED BY <1>1, <1>3, <2>1, <2>2, <2>3
<1>5. list \in ListType /\ list.next \in [Node -> Pointer]
  <2>1. list \in ListType
    BY DEF IInv, Fields
  <2> QED BY <2>1, ListFields
<1>6. Fields'
  <2>1. elem' \in Node /\ elem' \in Pointer /\ other' \in Pointer
    <3>1. elem' \in Node
      BY <1>3, <1>4
    <3> QED BY <1>1, <1>5, <3>1 DEF Pointer
  <2>2. Fields /\ pc' \in Places
    BY <1>1 DEF IInv, Places
  <2> QED BY <1>1, <2>1, <2>2, FieldsKept DEF Fields
<1>7. Path(list, s)
  BY <1>2 DEF Chain
<1>8. Emptying'
  BY <1>1, <1>4, <1>7 DEF Emptying
<1>9. IInv'
  BY <1>1, <1>6, <1>8 DEF IInv
<1>10. Contents' = Contents
  BY <1>1 DEF Contents
<1> QED BY <1>9, <1>10 DEF Allowed

(* Freeing the first cell of a list that is being emptied leaves the rest. *)
LEMMA FreeShrinks ==
  ASSUME NEW l \in ListType, NEW r, Path(l, r), NEW e, e = At(r, 1), e # Anchor, NEW l2, l2 = free(l, e)
  PROVE  \E r2 : /\ l2 \in ListType /\ l2.num = l.num /\ Path(l2, r2) /\ Removed(r, 1, r2)
                 /\ At(r2, 1) = At(r, 2) /\ 1 \in 1 .. Len(r)
                 /\ At(r2, 1) \in Cell => l2.next[At(r2, 1)] = At(r2, 2)
                 /\ Objs(l, r) \in Seq(Objects) /\ Objs(l2, r2) \in Seq(Objects) /\ Len(Objs(l, r)) = Len(r)
                 /\ Removed(Objs(l, r), 1, Objs(l2, r2))
<1>1. /\ r \in Seq(Cell) /\ Len(r) \in Nat
      /\ \A k \in 1 .. Len(r) : r[k] \in Cell
      /\ \A i, j \in 1 .. Len(r) : r[i] = r[j] => i = j
      /\ l.live = {r[k] : k \in 1 .. Len(r)}
      /\ \A k \in 1 .. Len(r) : l.next[r[k]] = At(r, k + 1)
  BY SeqFacts DEF Path
<1>2. 1 \in 1 .. Len(r) /\ e = r[1] /\ e \in Cell /\ e \in Node
  BY <1>1, NodeFacts DEF At
<1>3. /\ l.next \in [Node -> Pointer] /\ l.prev \in [Node -> Pointer] /\ l.obj \in [Node -> Objects]
      /\ l.num \in Nat /\ l.live \subseteq Cell
  BY ListFields
<1>4. /\ l2.next = [l.next EXCEPT ![e] = NULL] /\ l2.prev = [l.prev EXCEPT ![e] = NULL]
      /\ l2.obj = [l.obj EXCEPT ![e] = NULL] /\ l2.num = l.num /\ l2.live = l.live \ {e}
      /\ l2 = [next |-> l2.next, prev |-> l2.prev, obj |-> l2.obj, num |-> l2.num, live |-> l2.live]
  <2>1. PICK nx, pv, ob, nm, lv : l = [next |-> nx, prev |-> pv, obj |-> ob, num |-> nm, live |-> lv]
    BY ListFields
  <2>2. l2 = [l EXCEPT !.next[e] = NULL, !.prev[e] = NULL, !.obj[e] = NULL, !.live = @ \ {e}]
    BY DEF free
  <2>3. l2 = [next |-> [nx EXCEPT ![e] = NULL], prev |-> [pv EXCEPT ![e] = NULL],
              obj |-> [ob EXCEPT ![e] = NULL], num |-> nm, live |-> lv \ {e}]
    BY ONLY <2>1, <2>2
  <2>4. PICK nx2, pv2, ob2, lv2 : /\ nx2 = [nx EXCEPT ![e] = NULL] /\ pv2 = [pv EXCEPT ![e] = NULL]
                                  /\ ob2 = [ob EXCEPT ![e] = NULL] /\ lv2 = lv \ {e}
    OBVIOUS
  <2>5. l2 = [next |-> nx2, prev |-> pv2, obj |-> ob2, num |-> nm, live |-> lv2]
    BY <2>3, <2>4
  <2>6. l.next = nx /\ l.prev = pv /\ l.obj = ob /\ l.num = nm /\ l.live = lv
    BY <2>1
  <2>7. l2.next = nx2 /\ l2.prev = pv2 /\ l2.obj = ob2 /\ l2.num = nm /\ l2.live = lv2
    BY <2>5
  <2> QED BY <2>4, <2>5, <2>6, <2>7
<1>5. l2 \in ListType
  <2>1. l2.next \in [Node -> Pointer] /\ l2.prev \in [Node -> Pointer]
    BY <1>3, <1>4, NodeFacts
  <2>2. l2.obj \in [Node -> Objects] /\ l2.num \in Nat /\ l2.live \subseteq Cell
    BY <1>3, <1>4 DEF Objects
  <2> QED BY <1>4, <2>1, <2>2 DEF ListType
<1>6. PICK r2 : r2 = RemoveAt(r, 1)
  OBVIOUS
<1>7. r2 \in Seq(Cell) /\ Removed(r, 1, r2)
  BY <1>1, <1>2, <1>6, RemoveFacts
<1>8. Len(r2) = Len(r) - 1 /\ \A j \in 1 .. Len(r) - 1 : r2[j] = r[j + 1]
  BY <1>7 DEF Removed
<1>9. \A j \in 1 .. Len(r2) : j \in 1 .. Len(r) - 1 /\ j + 1 \in 1 .. Len(r) /\ r2[j] = r[j + 1] /\ j + 1 # 1
  <2> TAKE j \in 1 .. Len(r2)
  <2>1. j \in 1 .. Len(r) - 1 /\ j + 1 \in 1 .. Len(r) /\ j + 1 # 1
    BY <1>1, <1>2, <1>8
  <2> QED BY <1>8, <2>1
<1>10. \A j \in Nat \ {0} : At(r2, j) = At(r, j + 1)
  <2> TAKE j \in Nat \ {0}
  <2>1. j \in 1 .. Len(r2) <=> j + 1 \in 1 .. Len(r)
    BY <1>1, <1>2, <1>8
  <2> QED BY <1>9, <2>1 DEF At
<1>11. \A j \in 1 .. Len(r) : j # 1 => r[j] # e /\ r[j] \in Node
  BY <1>1, <1>2, NodeFacts
<1>12. Path(l2, r2)
  <2>1. \A i, j \in 1 .. Len(r2) : r2[i] = r2[j] => i = j
    <3> TAKE i, j \in 1 .. Len(r2)
    <3> HAVE r2[i] = r2[j]
    <3>1. i + 1 = j + 1
      BY <1>1, <1>9
    <3> QED BY <3>1
  <2>2. l2.live = {r2[k] : k \in 1 .. Len(r2)}
    <3>1. ASSUME NEW k \in 1 .. Len(r2) PROVE r2[k] \in l2.live
      <4>1. r2[k] = r[k + 1] /\ k + 1 \in 1 .. Len(r) /\ k + 1 # 1
        BY <1>9
      <4>2. r[k + 1] \in l.live /\ r[k + 1] # e
        BY <1>1, <1>11, <4>1
      <4> QED BY <1>4, <4>1, <4>2
    <3>2. ASSUME NEW x \in l2.live PROVE \E k \in 1 .. Len(r2) : x = r2[k]
      <4>1. PICK k \in 1 .. Len(r) : x = r[k] /\ k # 1
        BY <1>1, <1>2, <1>4
      <4>2. PICK m : m = k - 1
        OBVIOUS
      <4>3. m \in 1 .. Len(r2) /\ m + 1 = k
        BY <1>1, <1>8, <4>1, <4>2
      <4> QED BY <1>9, <4>1, <4>3
    <3> QED BY <3>1, <3>2
  <2>3. ASSUME NEW k \in 1 .. Len(r2) PROVE l2.next[r2[k]] = At(r2, k + 1)
    <3>1. r2[k] = r[k + 1] /\ k + 1 \in 1 .. Len(r) /\ k + 1 # 1 /\ k + 1 \in Nat \ {0}
      BY <1>9
    <3>2. l2.next[r[k + 1]] = l.next[r[k + 1]]
      BY <1>3, <1>4, <1>11, <3>1
    <3> QED BY <1>1, <1>10, <3>1, <3>2
  <2> QED BY <1>7, <2>1, <2>2, <2>3 DEF Path
<1>13. At(r2, 1) = At(r, 2) /\ (At(r2, 1) \in Cell => l2.next[At(r2, 1)] = At(r2, 2))
  <2>1. At(r2, 1) \in Cell => 1 \in 1 .. Len(r2) /\ At(r2, 1) = r2[1]
    BY NodeFacts DEF At
  <2>2. 1 \in Nat \ {0} /\ 1 + 1 = 2
    OBVIOUS
  <2> QED BY <1>10, <1>12, <2>1, <2>2 DEF Path
<1>14. /\ Objs(l, r) \in Seq(Objects) /\ Len(Objs(l, r)) = Len(r)
       /\ Objs(l2, r2) \in Seq(Objects) /\ Len(Objs(l2, r2)) = Len(r2)
  <2>1. Len(r2) \in Nat /\ \A k \in 1 .. Len(r2) : r2[k] \in Node
    <3>1. Len(r2) \in Nat /\ \A k \in 1 .. Len(r2) : r2[k] \in Cell
      BY <1>7, SeqFacts
    <3> QED BY <3>1, NodeFacts
  <2>2. Objs(l, r) \in [1 .. Len(r) -> Objects] /\ Objs(l2, r2) \in [1 .. Len(r2) -> Objects]
    <3>1. l2.obj \in [Node -> Objects]
      BY <1>5, ListFields
    <3> QED BY <1>1, <1>3, <2>1, <3>1, NodeFacts DEF Objs
  <2> QED BY <1>1, <2>1, <2>2, FunctionIsSeq
<1>15. Removed(Objs(l, r), 1, Objs(l2, r2))
  <2>1. ASSUME NEW j \in 1 .. Len(r) - 1 PROVE Objs(l2, r2)[j] = Objs(l, r)[j + 1]
    <3>1. j \in 1 .. Len(r2) /\ j + 1 \in 1 .. Len(r) /\ r2[j] = r[j + 1] /\ j + 1 # 1
      BY <1>1, <1>8, <1>9
    <3>2. l2.obj[r[j + 1]] = l.obj[r[j + 1]]
      BY <1>3, <1>4, <1>11, <3>1
    <3> QED BY <3>1, <3>2 DEF Objs
  <2> QED BY <1>8, <1>14, <2>1 DEF Removed
<1> QED BY <1>2, <1>4, <1>5, <1>7, <1>12, <1>13, <1>14, <1>15

(* A turn of its loop, and its end. *)
LEMMA UnlinkAllTurn ==
  ASSUME IInv, UnlinkAll_step
  PROVE  IInv' /\ Allowed
<1>1. pc = "unlinking" /\ UNCHANGED <<turn, got, balance, rows>>
  BY DEF UnlinkAll_step
<1>2. PICK r : Path(list, r) /\ elem = At(r, 1) /\ (elem # Anchor => other = At(r, 2))
  BY <1>1 DEF IInv, Emptying
<1>3. Fields /\ list \in ListType /\ list.num <= MaxCells
  BY DEF IInv, Fields
<1>4. Contents = Objs(list, r)
  BY <1>1, <1>2, WalkAlong DEF Contents, Objs
<1>5. CASE elem # Anchor
  <2>1. /\ list' = free(list, elem) /\ elem' = other /\ pc' = pc
        /\ other' = IF elem' \in Node THEN list'.next[elem'] ELSE NULL
    BY <1>5 DEF UnlinkAll_step, After
  <2>2. PICK r2 : /\ list' \in ListType /\ list'.num = list.num /\ Path(list', r2) /\ Removed(r, 1, r2)
                  /\ At(r2, 1) = At(r, 2) /\ 1 \in 1 .. Len(r)
                  /\ At(r2, 1) \in Cell => list'.next[At(r2, 1)] = At(r2, 2)
                  /\ Objs(list, r) \in Seq(Objects) /\ Objs(list', r2) \in Seq(Objects) /\ Len(Objs(list, r)) = Len(r)
                  /\ Removed(Objs(list, r), 1, Objs(list', r2))
    BY <1>2, <1>3, <1>5, <2>1, FreeShrinks
  <2>3. elem' = At(r2, 1)
    BY <1>2, <1>5, <2>1, <2>2
  <2>4. elem' \in Node /\ (elem' # Anchor => elem' \in Cell)
    <3>1. r2 \in Seq(Cell)
      BY <2>2 DEF Path
    <3>2. \A k \in 1 .. Len(r2) : r2[k] \in Cell
      BY <3>1, SeqFacts
    <3> QED BY <2>3, <3>2, NodeFacts DEF At
  <2>5. elem' # Anchor => other' = At(r2, 2)
    BY <2>1, <2>2, <2>3, <2>4
  <2>6. Fields'
    <3>1. list'.next \in [Node -> Pointer]
      BY <2>2, ListFields
    <3>2. elem' \in Pointer /\ other' \in Pointer
      BY <2>1, <2>4, <3>1 DEF Pointer
    <3> QED BY <1>1, <1>3, <2>1, <2>2, <3>2, FieldsKept DEF Fields
  <2>7. Emptying'
    BY <2>2, <2>3, <2>5 DEF Emptying
  <2>8. IInv'
    BY <1>1, <2>1, <2>6, <2>7 DEF IInv
  <2>9. Contents' = Objs(list', r2)
    <3>1. Walk(list', elem') = r2
      BY <2>2, <2>3, WalkAlong
    <3> QED BY <1>1, <2>1, <3>1 DEF Contents, Objs
  <2>10. Contents' = RemoveAt(Contents, 1) /\ 1 \in 1 .. Len(Contents)
    BY <1>4, <2>2, <2>9, RemoveFacts
  <2>11. Abstract!Delete(1)
    BY <2>10 DEF Abstract!Delete, RemoveAt, Abstract!RemoveAt
  <2>12. Allowed
    BY <2>10, <2>11 DEF Allowed, Abstract!Next
  <2> QED BY <2>8, <2>12
<1>6. CASE elem = Anchor
  <2>1. list' = My402ListInit(list) /\ pc' = "test" /\ elem' = NULL /\ other' = NULL
    BY <1>6 DEF UnlinkAll_step, Goto
  <2>2. r = <<>>
    <3>1. r \in Seq(Cell) /\ Len(r) \in Nat /\ \A k \in 1 .. Len(r) : r[k] \in Cell
      BY <1>2, SeqFacts DEF Path
    <3>2. 1 \notin 1 .. Len(r)
      BY <1>2, <1>6, <3>1, NodeFacts DEF At
    <3>3. Len(r) = 0
      BY <3>1, <3>2
    <3> QED BY <3>1, <3>3
  <2>3. list.live = {}
    BY <1>2, <2>2 DEF Path
  <2>4. /\ list'.next = [list.next EXCEPT ![Anchor] = Anchor] /\ list'.prev = [list.prev EXCEPT ![Anchor] = Anchor]
        /\ list'.obj = [list.obj EXCEPT ![Anchor] = NULL] /\ list'.num = 0 /\ list'.live = list.live
        /\ list' = [next |-> list'.next, prev |-> list'.prev, obj |-> list'.obj, num |-> list'.num,
                    live |-> list'.live]
    <3>1. PICK nx, pv, ob, nm, lv : list = [next |-> nx, prev |-> pv, obj |-> ob, num |-> nm, live |-> lv]
      BY <1>3, ListFields
    <3>2. PICK l2 : l2 = list'
      OBVIOUS
    <3>3. PICK l : l = list
      OBVIOUS
    <3>4. l2 = [l EXCEPT !.num = 0, !.obj[Anchor] = NULL, !.next[Anchor] = Anchor, !.prev[Anchor] = Anchor]
      BY <2>1, <3>2, <3>3 DEF My402ListInit
    <3>5. l = [next |-> nx, prev |-> pv, obj |-> ob, num |-> nm, live |-> lv]
      BY <3>1, <3>3
    <3>6. l2 = [next |-> [nx EXCEPT ![Anchor] = Anchor], prev |-> [pv EXCEPT ![Anchor] = Anchor],
                obj |-> [ob EXCEPT ![Anchor] = NULL], num |-> 0, live |-> lv]
      BY ONLY <3>4, <3>5
    <3>7. PICK nx2, pv2, ob2 : /\ nx2 = [nx EXCEPT ![Anchor] = Anchor] /\ pv2 = [pv EXCEPT ![Anchor] = Anchor]
                               /\ ob2 = [ob EXCEPT ![Anchor] = NULL]
      OBVIOUS
    <3>8. l2 = [next |-> nx2, prev |-> pv2, obj |-> ob2, num |-> 0, live |-> lv]
      BY <3>6, <3>7
    <3> QED BY <3>1, <3>2, <3>7, <3>8
  <2>5. list' \in ListType
    <3>1. /\ list.next \in [Node -> Pointer] /\ list.prev \in [Node -> Pointer] /\ list.obj \in [Node -> Objects]
          /\ list.live \subseteq Cell
      BY <1>3, ListFields
    <3>2. list'.next \in [Node -> Pointer] /\ list'.prev \in [Node -> Pointer] /\ list'.obj \in [Node -> Objects]
      BY <2>4, <3>1, NodeFacts DEF Objects
    <3> QED BY <2>4, <3>1, <3>2 DEF ListType
  <2>6. Chain(list', <<>>)
    <3>1. \A k \in 0 .. 1 : At(<<>>, k) = Anchor
      BY DEF At
    <3>2. Len(<<>>) = 0 /\ <<>> \in Seq(Cell) /\ \A k \in 0 .. Len(<<>>) : k = 0 /\ k \in 0 .. 1 /\ k + 1 \in 0 .. 1
      OBVIOUS
    <3>3. list'.next[Anchor] = Anchor /\ list'.prev[Anchor] = Anchor
      <4>1. list.next \in [Node -> Pointer] /\ list.prev \in [Node -> Pointer]
        BY <1>3, ListFields
      <4> QED BY <2>4, <4>1, NodeFacts
    <3> QED BY <2>3, <2>4, <3>1, <3>2, <3>3 DEF Chain, Path
  <2>7. Fields'
    <3>1. list'.num <= MaxCells
      BY <2>4, NodeFacts
    <3> QED BY <1>1, <1>3, <2>1, <2>5, <3>1, NodeFacts, FieldsKept DEF Fields, Places
  <2>8. RunAt(<<>>)'
    BY <2>1 DEF RunAt
  <2>9. Contents' = Contents
    <3>1. Contents' = Objs(list', <<>>)
      BY <2>1, <2>6, ContentsAre
    <3> QED BY <1>4, <2>2, <3>1 DEF Objs
  <2>10. IInv'
    BY <2>1, <2>6, <2>7, <2>8 DEF IInv
  <2> QED BY <2>9, <2>10 DEF Allowed
<1> QED BY <1>5, <1>6

(***************************************************************************)
(* The bubble sorts.                                                       *)
(***************************************************************************)
(* Objects can be compared. *)
LEMMA ObjectsAreInts ==
  ASSUME NEW c \in Seq(Objects)
  PROVE  c \in Seq(Int)
<1>1. Objects \subseteq Int
  BY My402SortAssumption DEF Objects, NULL
<1>2. c \in [1 .. Len(c) -> Int] /\ Len(c) \in Nat
  BY <1>1, SeqFacts
<1> QED BY <1>2, FunctionIsSeq

(* The ends of the list, for the two directions. *)
LEMMA EndFacts ==
  ASSUME IInv, NEW s, Chain(list, s)
  PROVE  /\ End("forward") \in Pointer /\ End("backward") \in Pointer
         /\ Len(s) > 0 => End("forward") = s[1] /\ End("backward") = s[Len(s)]
<1>1. list \in ListType
  BY DEF IInv, Fields
<1>2. Len(s) \in Nat /\ \A k \in 1 .. Len(s) : s[k] \in Cell
  BY AtFacts
<1>3. /\ End("forward") = IF Len(s) = 0 THEN NULL ELSE s[1]
      /\ End("backward") = IF Len(s) = 0 THEN NULL ELSE s[Len(s)]
  BY <1>1, Neighbours DEF End
<1>4. Len(s) # 0 => 1 \in 1 .. Len(s) /\ Len(s) \in 1 .. Len(s)
  BY <1>2
<1>5. Len(s) > 0 => Len(s) # 0
  BY <1>2
<1> QED BY <1>2, <1>3, <1>4, <1>5, NodeFacts

(* A sort, or a pass, that begins. *)
LEMMA BubbleSortStep ==
  ASSUME IInv, NEW dir \in {"forward", "backward"}, BubbleSort(dir)
  PROVE  IInv' /\ Allowed
<1>1. /\ pc = "test" /\ pc' = dir /\ elem' = End(dir) /\ turn' = [i |-> 0, j |-> 0, swapped |-> FALSE]
      /\ UNCHANGED <<list, other, got, balance, rows>>
  BY DEF BubbleSort, Goto, NoTurn
<1>2. PICK s : /\ Chain(list, s) /\ Len(s) \in Nat
               /\ Objs(list, s) \in Seq(Objects) /\ Len(Objs(list, s)) = Len(s)
  BY <1>1, WholeState
<1>3. Fields /\ pc' \in Places /\ pc' # "unlinking" /\ pc # "unlinking"
  BY <1>1 DEF IInv, Places
<1>4. elem' \in Pointer
  BY <1>1, <1>2, EndFacts
<1>5. Fields'
  <2>1. 0 \in 0 .. MaxCells
    BY NodeFacts
  <2> QED BY <1>1, <1>3, <1>4, <2>1, FieldsKept DEF Fields
<1>6. Objs(list, s) \in Seq(Int) /\ Mirror(Objs(list, s)) \in Seq(Int)
  BY <1>2, ObjectsAreInts, MirrorFacts
<1>7. BubbleAt(Objs(list, s), 0, 0, FALSE) /\ BubbleAt(Mirror(Objs(list, s)), 0, 0, FALSE)
  BY <1>6, BubbleBegins
<1>8. /\ turn'.i = 0 /\ turn'.j = 0 /\ turn'.swapped = FALSE
      /\ 0 + 1 = 1 /\ Len(s) - 0 = Len(s)
  BY <1>1, <1>2
<1>9. Len(s) > 0 => End("forward") = s[1] /\ End("backward") = s[Len(s)]
  BY <1>2, EndFacts
<1>10. RunAt(s)'
  <2>1. CASE dir = "forward"
    BY <1>1, <1>7, <1>8, <1>9, <2>1 DEF RunAt
  <2>2. CASE dir = "backward"
    BY <1>1, <1>7, <1>8, <1>9, <2>2 DEF RunAt
  <2> QED BY <2>1, <2>2
<1>11. Chain(list', s)
  BY <1>1, <1>2
<1> QED BY <1>1, <1>3, <1>5, <1>10, <1>11, NothingAllowed DEF IInv

(* A turn of the inner loop. *)
LEMMA BubbleForwardStep ==
  ASSUME IInv, BubbleStep("forward")
  PROVE  IInv' /\ Allowed
<1>1. PICK i, j, w : i = turn.i /\ j = turn.j /\ w = turn.swapped
  OBVIOUS
<1>2. Fields /\ list \in ListType /\ turn \in [i : 0 .. MaxCells, j : 0 .. MaxCells, swapped : BOOLEAN]
  BY DEF IInv, Fields
<1>3. i \in 0 .. MaxCells /\ i \in Nat /\ j \in Nat /\ w \in BOOLEAN
  BY <1>1, <1>2
<1>4. /\ pc = "forward" /\ j < list.num - i - 1
      /\ UNCHANGED <<pc, other, got, balance, rows>>
  BY <1>1 DEF BubbleStep, PassLength
<1>5. PICK s : /\ Chain(list, s) /\ RunAt(s) /\ Len(s) \in Nat /\ Len(s) <= MaxCells /\ list.num = Len(s)
               /\ \A k \in 1 .. Len(s) : s[k] \in Cell
               /\ Objs(list, s) \in Seq(Objects) /\ Len(Objs(list, s)) = Len(s)
               /\ \A k \in 1 .. Len(s) : Objs(list, s)[k] = list.obj[s[k]]
  BY <1>4, WholeState
<1>6. PICK n, k : n = Len(s) /\ k = j + 1
  OBVIOUS
<1>7. /\ n \in Nat /\ n > 0 /\ k \in 1 .. n - 1 /\ k \in 1 .. n /\ k + 1 \in 1 .. n /\ k # n
      /\ j < n - i - 1 /\ j + 2 = k + 1 /\ j + 1 \in 0 .. MaxCells /\ n <= MaxCells
  BY <1>3, <1>4, <1>5, <1>6, NodeFacts
<1>8. PICK c : c = Objs(list, s)
  OBVIOUS
<1>9. c \in Seq(Int) /\ Len(c) = n /\ BubbleAt(c, i, j, w) /\ elem = s[k]
  BY <1>1, <1>4, <1>5, <1>6, <1>7, <1>8, ObjectsAreInts DEF RunAt
<1>10. Neighbour("forward") = s[k + 1]
  <2>1. My402ListNext(list, s[k]) = s[k + 1]
    BY <1>2, <1>5, <1>6, <1>7, Neighbours
  <2> QED BY <1>9, <2>1 DEF Neighbour
<1>11. OutOfOrder("forward", s[k + 1]) <=> c[j + 1] > c[j + 2]
  <2>1. list.obj[s[k]] = c[j + 1] /\ list.obj[s[k + 1]] = c[j + 2]
    BY <1>5, <1>6, <1>7, <1>8
  <2> QED BY <1>9, <2>1 DEF OutOfOrder
<1>12. CASE OutOfOrder("forward", s[k + 1])
  <2>1. /\ BubbleForward(s[k], s[k + 1])
        /\ turn' = [turn EXCEPT !.j = @ + 1, !.swapped = TRUE]
    BY <1>9, <1>10, <1>12 DEF BubbleStep
  <2>2. turn' = [i |-> i, j |-> j + 1, swapped |-> TRUE]
    BY <1>1, <1>2, <2>1
  <2>3. PICK s2 : /\ list' \in ListType /\ Chain(list', s2) /\ Len(s2) = Len(s)
                  /\ Exchanged(c, k, Objs(list', s2))
                  /\ elem' = s2[k + 1]
    BY <1>2, <1>5, <1>6, <1>7, <1>8, <2>1, ForwardExchanges
  <2>4. /\ Objs(list', s2) \in Seq(Objects) /\ Objs(list', s2) \in Seq(Int)
        /\ list'.num <= MaxCells /\ \A m \in 1 .. n : s2[m] \in Cell
    BY <1>6, <2>3, ObjsFacts, ObjectsAreInts, AtFacts
  <2>5. Fields'
    <3>1. turn' \in [i : 0 .. MaxCells, j : 0 .. MaxCells, swapped : BOOLEAN]
      BY <1>3, <1>7, <2>2
    <3>2. elem' \in Pointer
      BY <1>7, <2>3, <2>4, NodeFacts
    <3> QED BY <1>2, <1>4, <2>3, <2>4, <3>1, <3>2, FieldsKept DEF Fields
  <2>6. BubbleAt(Objs(list', s2), i, j + 1, TRUE)
    BY <1>3, <1>6, <1>7, <1>9, <1>11, <1>12, <2>3, <2>4, BubbleRises
  <2>7. RunAt(s2)'
    <3>1. turn'.i = i /\ turn'.j = j + 1 /\ turn'.swapped = TRUE /\ j + 1 + 1 = k + 1
      BY <1>3, <1>6, <2>2
    <3> QED BY <1>4, <2>3, <2>6, <3>1 DEF RunAt
  <2>8. Allowed
    <3>1. Swapped(Objs(list, s), k, k + 1, Objs(list', s2))
      BY <1>8, <2>3, ExchangedSwapped
    <3> QED BY <1>2, <1>4, <1>5, <1>6, <1>7, <2>3, <3>1, SwappingAllowed
  <2> QED BY <1>4, <2>3, <2>5, <2>7, <2>8 DEF IInv
<1>13. CASE ~OutOfOrder("forward", s[k + 1])
  <2>1. elem' = s[k + 1] /\ turn' = [turn EXCEPT !.j = @ + 1] /\ list' = list
    BY <1>9, <1>10, <1>13 DEF BubbleStep
  <2>2. turn' = [i |-> i, j |-> j + 1, swapped |-> w]
    BY <1>1, <1>2, <2>1
  <2>3. Fields'
    <3>1. turn' \in [i : 0 .. MaxCells, j : 0 .. MaxCells, swapped : BOOLEAN]
      BY <1>3, <1>7, <2>2
    <3>2. elem' \in Pointer
      BY <1>5, <1>6, <1>7, <2>1, NodeFacts
    <3> QED BY <1>2, <1>4, <2>1, <3>1, <3>2, FieldsKept DEF Fields
  <2>4. c[j + 1] <= c[j + 2]
    <3>1. c[j + 1] \in Int /\ c[j + 2] \in Int
      BY <1>6, <1>7, <1>9
    <3> QED BY <1>11, <1>13, <3>1
  <2>5. BubbleAt(c, i, j + 1, w)
    BY <1>3, <1>7, <1>9, <2>4, BubbleGoesOn
  <2>6. RunAt(s)'
    <3>1. turn'.i = i /\ turn'.j = j + 1 /\ turn'.swapped = w /\ j + 1 + 1 = k + 1
      BY <1>3, <1>6, <2>2
    <3> QED BY <1>4, <1>8, <2>1, <2>5, <3>1 DEF RunAt
  <2>7. Chain(list', s)
    BY <1>5, <2>1
  <2> QED BY <1>4, <2>1, <2>3, <2>6, <2>7, NothingAllowed DEF IInv
<1> QED BY <1>12, <1>13

(* The same from the other end. *)
LEMMA BubbleBackwardStep ==
  ASSUME IInv, BubbleStep("backward")
  PROVE  IInv' /\ Allowed
<1>1. PICK i, j, w : i = turn.i /\ j = turn.j /\ w = turn.swapped
  OBVIOUS
<1>2. Fields /\ list \in ListType /\ turn \in [i : 0 .. MaxCells, j : 0 .. MaxCells, swapped : BOOLEAN]
  BY DEF IInv, Fields
<1>3. i \in 0 .. MaxCells /\ i \in Nat /\ j \in Nat /\ w \in BOOLEAN
  BY <1>1, <1>2
<1>4. /\ pc = "backward" /\ j < list.num - i - 1
      /\ UNCHANGED <<pc, other, got, balance, rows>>
  BY <1>1 DEF BubbleStep, PassLength
<1>5. PICK s : /\ Chain(list, s) /\ RunAt(s) /\ Len(s) \in Nat /\ Len(s) <= MaxCells /\ list.num = Len(s)
               /\ \A k \in 1 .. Len(s) : s[k] \in Cell
               /\ Objs(list, s) \in Seq(Objects) /\ Len(Objs(list, s)) = Len(s)
               /\ \A k \in 1 .. Len(s) : Objs(list, s)[k] = list.obj[s[k]]
  BY <1>4, WholeState
<1>6. PICK n, k : n = Len(s) /\ k = n - j - 1
  OBVIOUS
<1>7. /\ n \in Nat /\ n > 0 /\ k \in 1 .. n - 1 /\ k \in 1 .. n /\ k + 1 \in 1 .. n /\ k + 1 # 1
      /\ j < n - i - 1 /\ n - j = k + 1 /\ j + 1 \in 0 .. MaxCells /\ n <= MaxCells
      /\ n - k = j + 1 /\ k + 1 - 1 = k /\ n - (j + 1) = k
      /\ j + 1 \in 1 .. n /\ j + 2 \in 1 .. n /\ n + 1 - (j + 1) = k + 1 /\ n + 1 - (j + 2) = k
  BY <1>3, <1>4, <1>5, <1>6, NodeFacts
<1>8. PICK c : c = Objs(list, s)
  OBVIOUS
<1>9. c \in Seq(Int) /\ Len(c) = n /\ BubbleAt(Mirror(c), i, j, w) /\ elem = s[k + 1]
  BY <1>1, <1>4, <1>5, <1>6, <1>7, <1>8, ObjectsAreInts DEF RunAt
<1>10. Neighbour("backward") = s[k]
  <2>1. PICK m : m = k + 1
    OBVIOUS
  <2>2. m \in 1 .. Len(s) /\ m # 1 /\ m - 1 = k
    BY <1>6, <1>7, <2>1
  <2>3. My402ListPrev(list, s[m]) = IF m = 1 THEN NULL ELSE s[m - 1]
    BY <1>2, <1>5, <2>2, Neighbours
  <2>4. My402ListPrev(list, s[k + 1]) = s[k]
    BY <2>1, <2>2, <2>3
  <2> QED BY <1>9, <2>4 DEF Neighbour
<1>11. OutOfOrder("backward", s[k]) <=> c[k + 1] < c[k]
  <2>1. list.obj[s[k]] = c[k] /\ list.obj[s[k + 1]] = c[k + 1]
    BY <1>5, <1>6, <1>7, <1>8
  <2> QED BY <1>9, <2>1 DEF OutOfOrder
<1>12. /\ Mirror(c) \in Seq(Int) /\ Len(Mirror(c)) = n
       /\ Mirror(c)[j + 1] = 0 - c[k + 1] /\ Mirror(c)[j + 2] = 0 - c[k]
       /\ c[k] \in Int /\ c[k + 1] \in Int
  <2>1. /\ Mirror(c) \in Seq(Int) /\ Len(Mirror(c)) = n
        /\ \A x \in 1 .. n : Mirror(c)[x] = 0 - c[n + 1 - x]
    BY <1>9, MirrorFacts
  <2>2. Mirror(c)[j + 1] = 0 - c[n + 1 - (j + 1)] /\ Mirror(c)[j + 2] = 0 - c[n + 1 - (j + 2)]
    BY <1>7, <2>1
  <2>3. c[k] \in Int /\ c[k + 1] \in Int
    BY <1>7, <1>9
  <2> QED BY <1>7, <2>1, <2>2, <2>3
<1>13. CASE OutOfOrder("backward", s[k])
  <2>1. /\ BubbleBackward(s[k + 1], s[k])
        /\ turn' = [turn EXCEPT !.j = @ + 1, !.swapped = TRUE]
    BY <1>9, <1>10, <1>13 DEF BubbleStep
  <2>2. turn' = [i |-> i, j |-> j + 1, swapped |-> TRUE]
    BY <1>1, <1>2, <2>1
  <2>3. PICK s2 : /\ list' \in ListType /\ Chain(list', s2) /\ Len(s2) = Len(s)
                  /\ Exchanged(c, k, Objs(list', s2))
                  /\ elem' = s2[k]
    BY <1>2, <1>5, <1>6, <1>7, <1>8, <2>1, BackwardExchanges
  <2>4. PICK d : d = Objs(list', s2)
    OBVIOUS
  <2>5. /\ d \in Seq(Objects) /\ d \in Seq(Int) /\ Mirror(d) \in Seq(Int)
        /\ list'.num <= MaxCells /\ \A m \in 1 .. n : s2[m] \in Cell
    BY <1>6, <2>3, <2>4, ObjsFacts, ObjectsAreInts, MirrorFacts, AtFacts
  <2>6. Fields'
    <3>1. turn' \in [i : 0 .. MaxCells, j : 0 .. MaxCells, swapped : BOOLEAN]
      BY <1>3, <1>7, <2>2
    <3>2. elem' \in Pointer
      BY <1>7, <2>3, <2>5, NodeFacts
    <3> QED BY <1>2, <1>4, <2>3, <2>5, <3>1, <3>2, FieldsKept DEF Fields
  <2>7. BubbleAt(Mirror(d), i, j + 1, TRUE)
    <3>1. Exchanged(Mirror(c), n - k, Mirror(d))
      BY <1>7, <1>9, <2>3, <2>4, <2>5, MirrorExchanged
    <3>2. Exchanged(Mirror(c), j + 1, Mirror(d))
      BY <1>7, <3>1
    <3>3. Mirror(c)[j + 1] > Mirror(c)[j + 2]
      BY <1>11, <1>12, <1>13
    <3>4. j < Len(Mirror(c)) - i - 1
      BY <1>7, <1>12
    <3> QED BY <1>3, <1>9, <1>12, <2>5, <3>2, <3>3, <3>4, BubbleRises
  <2>8. RunAt(s2)'
    <3>1. turn'.i = i /\ turn'.j = j + 1 /\ turn'.swapped = TRUE /\ Len(s2) - (j + 1) = k
      BY <1>6, <1>7, <2>2, <2>3
    <3> QED BY <1>4, <2>3, <2>4, <2>7, <3>1 DEF RunAt
  <2>9. Allowed
    <3>1. Swapped(Objs(list, s), k, k + 1, Objs(list', s2))
      BY <1>8, <2>3, ExchangedSwapped
    <3> QED BY <1>2, <1>4, <1>5, <1>6, <1>7, <2>3, <3>1, SwappingAllowed
  <2> QED BY <1>4, <2>3, <2>6, <2>8, <2>9 DEF IInv
<1>14. CASE ~OutOfOrder("backward", s[k])
  <2>1. elem' = s[k] /\ turn' = [turn EXCEPT !.j = @ + 1] /\ list' = list
    BY <1>9, <1>10, <1>14 DEF BubbleStep
  <2>2. turn' = [i |-> i, j |-> j + 1, swapped |-> w]
    BY <1>1, <1>2, <2>1
  <2>3. Fields'
    <3>1. turn' \in [i : 0 .. MaxCells, j : 0 .. MaxCells, swapped : BOOLEAN]
      BY <1>3, <1>7, <2>2
    <3>2. elem' \in Pointer
      BY <1>5, <1>6, <1>7, <2>1, NodeFacts
    <3> QED BY <1>2, <1>4, <2>1, <3>1, <3>2, FieldsKept DEF Fields
  <2>4. Mirror(c)[j + 1] <= Mirror(c)[j + 2]
    BY <1>11, <1>12, <1>14
  <2>5. BubbleAt(Mirror(c), i, j + 1, w)
    <3>1. j < Len(Mirror(c)) - i - 1
      BY <1>7, <1>12
    <3> QED BY <1>3, <1>9, <1>12, <2>4, <3>1, BubbleGoesOn
  <2>6. RunAt(s)'
    <3>1. turn'.i = i /\ turn'.j = j + 1 /\ turn'.swapped = w /\ Len(s) - (j + 1) = k
      BY <1>6, <1>7, <2>2
    <3> QED BY <1>4, <1>8, <2>1, <2>5, <3>1 DEF RunAt
  <2>7. Chain(list', s)
    BY <1>5, <2>1
  <2> QED BY <1>4, <2>1, <2>3, <2>6, <2>7, NothingAllowed DEF IInv
<1> QED BY <1>13, <1>14

(* The end of a pass. *)
LEMMA BubblePassStep ==
  ASSUME IInv, NEW dir \in {"forward", "backward"}, BubblePass(dir)
  PROVE  IInv' /\ Allowed
<1>1. PICK i, j, w : i = turn.i /\ j = turn.j /\ w = turn.swapped
  OBVIOUS
<1>2. Fields /\ list \in ListType /\ turn \in [i : 0 .. MaxCells, j : 0 .. MaxCells, swapped : BOOLEAN]
  BY DEF IInv, Fields
<1>3. i \in 0 .. MaxCells /\ i \in Nat /\ j \in Nat /\ w \in BOOLEAN
  BY <1>1, <1>2
<1>4. /\ pc = dir /\ pc # "unlinking" /\ j >= list.num - i - 1
      /\ UNCHANGED <<list, other, got, balance, rows>>
  BY <1>1 DEF BubblePass, PassLength
<1>5. PICK s : /\ Chain(list, s) /\ RunAt(s) /\ Len(s) \in Nat /\ Len(s) <= MaxCells /\ list.num = Len(s)
               /\ Objs(list, s) \in Seq(Objects) /\ Len(Objs(list, s)) = Len(s)
  BY <1>4, WholeState
<1>6. PICK c : c = IF dir = "forward" THEN Objs(list, s) ELSE Mirror(Objs(list, s))
  OBVIOUS
<1>7. Objs(list, s) \in Seq(Int) /\ Mirror(Objs(list, s)) \in Seq(Int) /\ Len(Mirror(Objs(list, s))) = Len(s)
  BY <1>5, ObjectsAreInts, MirrorFacts
<1>8. c \in Seq(Int) /\ Len(c) = Len(s) /\ BubbleAt(c, i, j, w) /\ j >= Len(c) - i - 1
  <2>1. BubbleAt(c, i, j, w)
    <3>1. CASE dir = "forward"
      BY <1>1, <1>4, <1>5, <1>6, <3>1 DEF RunAt
    <3>2. CASE dir = "backward"
      BY <1>1, <1>4, <1>5, <1>6, <3>2 DEF RunAt
    <3> QED BY <3>1, <3>2
  <2> QED BY <1>4, <1>5, <1>6, <1>7, <2>1
<1>9. CASE w /\ i + 1 < list.num
  <2>1. /\ turn' = [i |-> i + 1, j |-> 0, swapped |-> FALSE] /\ elem' = End(dir) /\ pc' = pc
    BY <1>1, <1>9 DEF BubblePass
  <2>2. i + 1 < Len(c) /\ i + 1 \in 0 .. MaxCells /\ 0 \in 0 .. MaxCells
    BY <1>3, <1>5, <1>8, <1>9, NodeFacts
  <2>3. BubbleAt(c, i + 1, 0, FALSE)
    BY <1>3, <1>8, <2>2, BubbleNextPass
  <2>4. /\ elem' \in Pointer
        /\ Len(s) > 0 => End("forward") = s[1] /\ End("backward") = s[Len(s)]
    BY <1>5, <2>1, EndFacts
  <2>5. Fields'
    BY <1>2, <1>4, <2>1, <2>2, <2>4, FieldsKept DEF Fields
  <2>6. RunAt(s)'
    <3>1. turn'.i = i + 1 /\ turn'.j = 0 /\ turn'.swapped = FALSE /\ 0 + 1 = 1 /\ Len(s) - 0 = Len(s)
      BY <1>5, <2>1
    <3>2. CASE dir = "forward"
      BY <1>4, <1>6, <2>1, <2>3, <2>4, <3>1, <3>2 DEF RunAt
    <3>3. CASE dir = "backward"
      BY <1>4, <1>6, <2>1, <2>3, <2>4, <3>1, <3>3 DEF RunAt
    <3> QED BY <3>2, <3>3
  <2>7. Chain(list', s)
    BY <1>4, <1>5
  <2> QED BY <1>4, <2>1, <2>5, <2>6, <2>7, NothingAllowed DEF IInv
<1>10. CASE ~(w /\ i + 1 < list.num)
  <2>1. pc' = "sorted" /\ elem' = NULL /\ turn' = [i |-> 0, j |-> 0, swapped |-> FALSE]
    BY <1>1, <1>10 DEF BubblePass, Goto, NoTurn
  <2>2. ~(w /\ i + 1 < Len(c))
    BY <1>5, <1>8, <1>10
  <2>3. Ascending(c, 1, Len(c))
    BY <1>3, <1>8, <2>2, BubbleEnds
  <2>4. Ascending(Objs(list, s), 1, Len(s))
    <3>1. CASE dir = "forward"
      BY <1>6, <1>8, <2>3, <3>1
    <3>2. CASE dir = "backward"
      BY <1>5, <1>6, <1>7, <1>8, <2>3, <3>2, MirrorFacts
    <3> QED BY <3>1, <3>2
  <2>5. Fields'
    <3>1. 0 \in 0 .. MaxCells /\ pc' \in Places /\ elem' \in Pointer
      BY <2>1, NodeFacts DEF Places
    <3> QED BY <1>2, <1>4, <2>1, <3>1, FieldsKept DEF Fields
  <2>6. RunAt(s)'
    BY <1>4, <2>1, <2>4 DEF RunAt
  <2>7. Chain(list', s)
    BY <1>4, <1>5
  <2> QED BY <1>4, <2>1, <2>5, <2>6, <2>7, NothingAllowed DEF IInv
<1> QED BY <1>9, <1>10

(* There is a cell to give when the list has fewer than there are. *)
LEMMA CellsLeft ==
  ASSUME NEW l, NEW s, Chain(l, s), Len(s) < MaxCells
  PROVE  MayAllocate(l)
<1>1. Len(s) \in Nat /\ s \in [1 .. Len(s) -> Cell] /\ l.live = {s[k] : k \in 1 .. Len(s)}
  <2>1. s \in Seq(Cell) /\ l.live = {s[k] : k \in 1 .. Len(s)}
    BY DEF Chain, Path
  <2> QED BY <2>1, SeqFacts
<1>2. /\ IsFiniteSet(1 .. Len(s)) /\ Cardinality(1 .. Len(s)) = Len(s)
      /\ Cardinality(Cell) = MaxCells
  <2>1. ASSUME NEW n \in Nat PROVE IsFiniteSet(1 .. n) /\ Cardinality(1 .. n) = n
    <3>1. IsFiniteSet(1 .. n) /\ Cardinality(1 .. n) = IF 1 > n THEN 0 ELSE n - 1 + 1
      BY FS_Interval
    <3> QED BY <3>1
  <2> QED BY <1>1, <2>1, NodeFacts DEF Cell
<1>3. SUFFICES ASSUME l.live = Cell PROVE FALSE
  BY DEF MayAllocate
<1>4. s \in Surjection(1 .. Len(s), Cell)
  BY <1>1, <1>3 DEF Surjection
<1>5. Cardinality(Cell) <= Cardinality(1 .. Len(s))
  BY <1>2, <1>4, FS_Surjection
<1> QED BY <1>1, <1>2, <1>5, NodeFacts

(* The times of the transactions in the cells. *)
LEMMA TimesFacts ==
  ASSUME Fields, NEW s, Chain(list, s), Each(Objs(list, s), Len(got))
  PROVE  /\ Times(s) \in Seq(Int) /\ Len(Times(s)) = Len(s) /\ Len(s) = Len(got) /\ Len(s) \in Nat
         /\ \A k \in 1 .. Len(s) : Times(s)[k] = Time(s[k]) /\ list.obj[s[k]] \in 1 .. Len(s)
<1>1. /\ Len(s) \in Nat /\ Len(Objs(list, s)) = Len(s)
      /\ \A k \in 1 .. Len(s) : Objs(list, s)[k] = list.obj[s[k]]
  BY ObjsFacts, AtFacts DEF Fields
<1>2. Len(s) = Len(got) /\ \A k \in 1 .. Len(s) : list.obj[s[k]] \in 1 .. Len(s)
  <2>1. Len(s) = Len(got)
    BY <1>1 DEF Each
  <2> QED BY <1>1, <2>1 DEF Each
<1>3. \A k \in 1 .. Len(s) : Time(s[k]) \in Int
  <2>1. \A n \in 1 .. Len(got) : got[n] \in Transactions
    BY SeqFacts DEF Fields
  <2>2. \A x \in Transactions : x.time \in Int
    BY DEF Transactions
  <2> QED BY <1>2, <2>1, <2>2 DEF Time
<1>4. [k \in 1 .. Len(s) |-> Time(s[k])] \in [1 .. Len(s) -> Int]
  BY <1>3
<1>5. Times(s) \in Seq(Int) /\ Len(Times(s)) = Len(s)
  BY <1>1, <1>4, FunctionIsSeq DEF Times
<1>6. \A k \in 1 .. Len(s) : Times(s)[k] = Time(s[k])
  BY DEF Times
<1> QED BY <1>1, <1>2, <1>5, <1>6

(* What read makes of a line it accepts is a transaction. *)
LEMMA AcceptedFacts ==
  ASSUME NEW l \in Lines, Accepted(l)
  PROVE  Transaction(l) \in Transactions
<1>1. PICK t, w, c : t = l.time /\ w = l.whole /\ c = l.cents
  OBVIOUS
<1>2. l.type \in {"+", "-"} /\ t <= Now /\ w < 10000000 /\ l.ncents = 2
  BY <1>1 DEF Accepted
<1>3. t \in Nat /\ w \in Nat /\ c \in 0 .. 99
  BY <1>1, <1>2, LinesAssumption
<1>4. w * 100 + c \in Nat /\ w * 100 + c <= 999999999
  BY ONLY <1>2, <1>3, SMT
<1>5. w * 100 + c <= MaxAmount /\ MaxAmount \in Nat
  BY <1>4, SMT DEF MaxAmount
<1>6. w * 100 + c \in 0 .. MaxAmount
  BY <1>4, <1>5
<1> QED BY <1>1, <1>2, <1>3, <1>6 DEF Transaction, Transactions

(* A line of the input: a transaction more at the end of the list, or the end
   of the program. *)
LEMMA ReadStep ==
  ASSUME IInv, NEW l \in Lines, read(l)
  PROVE  IInv' /\ Allowed
<1>1. /\ pc = "reading" /\ Len(got) < MaxLines
      /\ UNCHANGED <<elem, other, turn, balance, rows>>
      /\ \/ pc' = "crashed" /\ UNCHANGED <<list, got>>
         \/ ~Accepted(l) /\ pc' = "rejected" /\ UNCHANGED <<list, got>>
         \/ /\ Accepted(l)
            /\ got' = Append(got, Transaction(l))
            /\ list' = My402ListAppend(list, Len(got) + 1)
            /\ UNCHANGED pc
  BY DEF read, Goto
<1>2. PICK s : /\ Chain(list, s) /\ RunAt(s) /\ Len(s) \in Nat /\ Len(s) <= MaxCells /\ list.num = Len(s)
               /\ Len(Objs(list, s)) = Len(s)
  BY <1>1, WholeState
<1>3. Fields /\ list \in ListType
  BY DEF IInv, Fields
<1>4. CASE pc' \in {"crashed", "rejected"} /\ UNCHANGED <<list, got>>
  <2>1. Fields'
    <3>1. pc' \in Places
      BY <1>4 DEF Places
    <3> QED BY <1>1, <1>3, <1>4, <3>1, FieldsKept DEF Fields
  <2>2. RunAt(s)' /\ Chain(list', s) /\ pc' # "unlinking"
    BY <1>2, <1>4 DEF RunAt
  <2> QED BY <1>1, <1>4, <2>1, <2>2, NothingAllowed DEF IInv
<1>5. CASE /\ Accepted(l)
           /\ got' = Append(got, Transaction(l))
           /\ list' = My402ListAppend(list, Len(got) + 1)
           /\ UNCHANGED pc
  <2>1. got \in Seq(Transactions) /\ Transaction(l) \in Transactions /\ Len(got) \in Nat
    BY <1>3, <1>5, AcceptedFacts DEF Fields
  <2>2. got' \in Seq(Transactions) /\ Len(got') = Len(got) + 1
    BY <1>5, <2>1
  <2>3. Each(Objs(list, s), Len(got)) /\ Len(s) = Len(got) /\ rows = <<>>
    BY <1>1, <1>2 DEF RunAt, Each
  <2>4. PICK n : n = Len(s)
    OBVIOUS
  <2>5. n \in Nat /\ n < MaxLines /\ MaxLines \in Nat /\ MaxLines <= MaxCells /\ MaxCells \in Nat /\ Len(got) = n
    BY <1>1, <1>2, <2>3, <2>4, My402SortAssumption, NodeFacts
  <2>6. MayAllocate(list)
    BY <1>2, <2>4, <2>5, CellsLeft
  <2>7. n + 1 \in 1 .. MaxLines /\ n + 1 \in Values \cup (1 .. MaxLines) /\ n + 1 \in Objects /\ n + 1 \in 1 .. n + 1
        /\ n + 1 <= MaxCells /\ n + 1 <= MaxLines
    BY <2>5 DEF Objects
  <2>8. PICK s2 : Grew(list, s, n + 1, n + 1, list', s2)
    <3>1. \E s2 : Grew(list, s, Len(s) + 1, n + 1, My402ListAppend(list, n + 1), s2)
      BY <1>2, <1>3, <2>6, <2>7, InsertionsGrow
    <3> QED BY <1>5, <2>4, <2>5, <3>1
  <2>9. /\ list' \in ListType /\ Chain(list', s2)
        /\ Inserted(Objs(list, s), n + 1, n + 1, Objs(list', s2))
    BY <2>8 DEF Grew
  <2>10. Fields'
    <3>1. list'.num <= MaxCells
      BY <2>9, AtFacts
    <3>2. Len(got') <= MaxLines
      BY <2>2, <2>5, <2>7
    <3> QED BY <1>1, <1>3, <1>5, <2>2, <2>9, <3>1, <3>2 DEF Fields
  <2>11. Each(Objs(list', s2), Len(got'))
    <3>1. Each(Objs(list, s), n)
      BY <2>3, <2>5
    <3>2. Each(Objs(list', s2), n + 1)
      BY <2>5, <2>9, <3>1, EachGrows
    <3> QED BY <2>2, <2>5, <3>2
  <2>12. RunAt(s2)'
    BY <1>1, <1>5, <2>3, <2>11 DEF RunAt
  <2>13. Allowed
    <3>1. pc # "unlinking" /\ pc' # "unlinking"
      BY <1>1, <1>5
    <3>2. n + 1 \in 1 .. Len(s) + 1
      BY <2>4, <2>7
    <3> QED BY <1>2, <1>3, <2>7, <2>8, <3>1, <3>2, GrowingAllowed
  <2> QED BY <1>1, <1>5, <2>9, <2>10, <2>12, <2>13 DEF IInv
<1> QED BY <1>1, <1>4, <1>5

(* The list l with the objects of e and f exchanged. *)
ObjectsOver(l, e, f) == [l EXCEPT !.obj[e] = l.obj[f], !.obj[f] = l.obj[e]]

(* Two cells exchange their objects, and the links stay. *)
LEMMA ObjectsExchanged ==
  ASSUME NEW l \in ListType, NEW s, Chain(l, s), NEW a \in 1 .. Len(s), NEW b \in 1 .. Len(s), a # b,
         NEW l2, l2 = ObjectsOver(l, s[a], s[b])
  PROVE  /\ l2 \in ListType /\ Chain(l2, s) /\ l2.num = l.num
         /\ Swapped(Objs(l, s), a, b, Objs(l2, s))
<1>1. /\ Len(s) \in Nat /\ s[a] # s[b] /\ \A k \in 1 .. Len(s) : s[k] \in Node
      /\ \A i, j \in 1 .. Len(s) : s[i] = s[j] => i = j
  <2>1. \A i, j \in 1 .. Len(s) : s[i] = s[j] => i = j
    BY DEF Chain, Path
  <2> QED BY <2>1, AtFacts, NodeFacts
<1>2. PICK nx, pv, ob, nm, lv : l = [next |-> nx, prev |-> pv, obj |-> ob, num |-> nm, live |-> lv]
  BY ListFields
<1>3. /\ nx = l.next /\ pv = l.prev /\ ob = l.obj /\ nm = l.num /\ lv = l.live
      /\ nx \in [Node -> Pointer] /\ pv \in [Node -> Pointer] /\ ob \in [Node -> Objects]
      /\ nm \in Nat /\ lv \subseteq Cell
  <2>1. nx = l.next /\ pv = l.prev /\ ob = l.obj /\ nm = l.num /\ lv = l.live
    BY <1>2
  <2> QED BY <2>1, ListFields
<1>4. PICK o1 : o1 = [ob EXCEPT ![s[a]] = ob[s[b]]]
  OBVIOUS
<1>5. PICK o2 : o2 = [o1 EXCEPT ![s[b]] = ob[s[a]]]
  OBVIOUS
<1>6. l2 = [next |-> nx, prev |-> pv, obj |-> o2, num |-> nm, live |-> lv]
  BY <1>2, <1>3, <1>4, <1>5 DEF ObjectsOver
<1>7. /\ o2 \in [Node -> Objects] /\ o2[s[a]] = ob[s[b]] /\ o2[s[b]] = ob[s[a]]
      /\ \A c \in Node : c # s[a] /\ c # s[b] => o2[c] = ob[c]
  <2>1. o1 \in [Node -> Objects] /\ o1[s[a]] = ob[s[b]]
        /\ \A c \in Node : c # s[a] => o1[c] = ob[c]
    BY <1>1, <1>3, <1>4
  <2> QED BY <1>1, <1>3, <1>5, <2>1
<1>8. l2.next = nx /\ l2.prev = pv /\ l2.obj = o2 /\ l2.num = nm /\ l2.live = lv
  BY ONLY <1>6
<1>9. l2 \in ListType
  BY <1>3, <1>6, <1>7 DEF ListType
<1>10. Chain(l2, s)
  BY <1>3, <1>8 DEF Chain, Path
<1>11. Swapped(Objs(l, s), a, b, Objs(l2, s))
  <2>1. /\ Len(Objs(l, s)) = Len(s) /\ \A k \in 1 .. Len(s) : Objs(l, s)[k] = ob[s[k]]
        /\ Len(Objs(l2, s)) = Len(s) /\ \A k \in 1 .. Len(s) : Objs(l2, s)[k] = o2[s[k]]
    <3>1. /\ Len(Objs(l, s)) = Len(s) /\ \A k \in 1 .. Len(s) : Objs(l, s)[k] = l.obj[s[k]]
      BY ObjsFacts
    <3>2. Len(Objs(l2, s)) = Len(s) /\ \A k \in 1 .. Len(s) : Objs(l2, s)[k] = l2.obj[s[k]]
      BY ONLY <1>9, <1>10, ObjsFacts
    <3> QED BY ONLY <1>3, <1>8, <3>1, <3>2
  <2>2. \A k \in 1 .. Len(s) : k # a /\ k # b => o2[s[k]] = ob[s[k]]
    BY <1>1, <1>7
  <2> QED BY <1>7, <2>1, <2>2 DEF Swapped
<1> QED BY <1>3, <1>8, <1>9, <1>10, <1>11

(* The head of the outer loop. *)
LEMMA OuterStep ==
  ASSUME IInv, pc \in {"reading", "sorting"}, NEW s, Chain(list, s), RunAt(s), NEW k \in 1 .. Len(s),
         k = 1 \/ SortingAt(Times(s), k - 1, Len(s) + 1),
         Outer(s[k]), UNCHANGED <<list, turn, got, balance, rows>>
  PROVE  IInv' /\ Allowed
<1>1. Fields /\ list \in ListType
  BY DEF IInv, Fields
<1>2. Each(Objs(list, s), Len(got)) /\ rows = <<>>
  BY DEF RunAt
<1>3. PICK n, t : n = Len(s) /\ t = Times(s)
  OBVIOUS
<1>4. /\ n \in Nat /\ t \in Seq(Int) /\ Len(t) = n /\ k \in 1 .. n
      /\ \A x \in 1 .. n : s[x] \in Cell
      /\ k = 1 \/ SortingAt(t, k - 1, n + 1)
  BY <1>1, <1>2, <1>3, TimesFacts, AtFacts
<1>5. /\ My402ListNext(list, s[k]) = IF k = n THEN NULL ELSE s[k + 1]
      /\ My402ListFirst(list) = IF n = 0 THEN NULL ELSE s[1]
  BY <1>1, <1>3, Neighbours
<1>6. Times(s)' = t
  BY <1>3 DEF Times, Time
<1>7. CASE k # n
  <2>1. k \in Nat /\ 1 <= k /\ k < n /\ k + 1 \in 1 .. n
    BY <1>4, <1>7
  <2>2. s[k] \in Cell /\ s[k + 1] \in Cell /\ s[k + 1] # NULL
    BY <1>4, <2>1, NodeFacts
  <2>3. pc' = "sorting" /\ elem' = s[k] /\ other' = s[k + 1]
    BY <1>5, <1>7, <2>2 DEF Outer
  <2>4. SortingAt(t, k, k + 1)
    BY <1>4, <2>1, SortingBegins
  <2>5. Fields'
    <3>1. pc' \in Places /\ elem' \in Pointer /\ other' \in Pointer
      BY <2>2, <2>3, NodeFacts DEF Places
    <3> QED BY <1>1, <3>1, FieldsKept DEF Fields
  <2>6. RunAt(s)'
    <3>1. PICK m : m = k + 1
      OBVIOUS
    <3>2. SortingAt(t, k, m) /\ k \in Nat /\ m \in Nat /\ ~(m > n) /\ other' = s[m]
      BY <1>4, <2>1, <2>3, <2>4, <3>1
    <3>3. \E a, b \in Nat : /\ SortingAt(Times(s)', a, b)
                            /\ elem' = s[a] /\ other' = IF b > Len(s) THEN NULL ELSE s[b]
      BY <1>3, <1>6, <2>3, <3>2
    <3> QED BY <1>2, <2>3, <3>3 DEF RunAt
  <2>7. pc # "unlinking" /\ pc' # "unlinking" /\ Chain(list', s)
    BY <2>3
  <2> QED BY <2>5, <2>6, <2>7, NothingAllowed DEF IInv
<1>8. CASE k = n
  <2>1. s[1] \in Cell /\ n # 0
    BY <1>4, <1>8
  <2>2. pc' = "printing" /\ elem' = s[1] /\ other' = NULL
    BY <1>5, <1>8, <2>1 DEF Outer
  <2>3. Increasing(t)
    <3>1. PICK p : p = k - 1
      OBVIOUS
    <3>2. p \in Nat /\ (Len(t) = 1 \/ (SortingAt(t, p, Len(t) + 1) /\ p + 1 = Len(t)))
      BY <1>4, <1>8, <3>1
    <3> QED BY <1>4, <3>2, SortingEnds
  <2>4. Fields'
    <3>1. pc' \in Places /\ elem' \in Pointer /\ other' \in Pointer
      BY <2>1, <2>2, NodeFacts DEF Places
    <3> QED BY <1>1, <3>1, FieldsKept DEF Fields
  <2>5. RunAt(s)'
    <3>1. Len(rows') = 0 /\ 0 < Len(s) /\ 0 <= Len(s) /\ 0 + 1 = 1
      BY <1>2, <1>3, <1>4, <2>1
    <3>2. /\ Increasing(Times(s)') /\ Len(rows') <= Len(s) /\ Len(rows') < Len(s)
          /\ elem' = s[Len(rows') + 1]
      BY <1>6, <2>2, <2>3, <3>1
    <3> QED BY <1>2, <2>2, <3>2 DEF RunAt
  <2>6. pc # "unlinking" /\ pc' # "unlinking" /\ Chain(list', s)
    BY <2>2
  <2> QED BY <2>4, <2>5, <2>6, NothingAllowed DEF IInv
<1> QED BY <1>7, <1>8

(* The end of the input. *)
LEMMA SortingStart ==
  ASSUME IInv, sorting
  PROVE  IInv' /\ Allowed
<1>1. pc = "reading" /\ UNCHANGED <<list, turn, got, balance, rows>>
  BY DEF sorting
<1>2. PICK s : Chain(list, s) /\ RunAt(s) /\ Len(s) \in Nat
  BY <1>1, WholeState
<1>3. Fields /\ list \in ListType
  BY DEF IInv, Fields
<1>4. My402ListFirst(list) = IF Len(s) = 0 THEN NULL ELSE s[1]
  BY <1>2, <1>3, Neighbours
<1>5. CASE Len(s) = 0
  <2>1. pc' = "crashed" /\ UNCHANGED <<elem, other>>
    BY <1>4, <1>5 DEF sorting, Goto
  <2>2. Fields'
    <3>1. pc' \in Places
      BY <2>1 DEF Places
    <3> QED BY <1>1, <1>3, <2>1, <3>1, FieldsKept DEF Fields
  <2>3. RunAt(s)' /\ Chain(list', s) /\ pc' # "unlinking"
    BY <1>1, <1>2, <2>1 DEF RunAt
  <2> QED BY <1>1, <2>2, <2>3, NothingAllowed DEF IInv
<1>6. CASE Len(s) # 0
  <2>1. 1 \in 1 .. Len(s) /\ s[1] # NULL
    <3>1. 1 \in 1 .. Len(s)
      BY <1>2, <1>6
    <3> QED BY <1>2, <3>1, AtFacts, NodeFacts
  <2>2. Outer(s[1])
    BY <1>4, <1>6, <2>1 DEF sorting
  <2> QED BY <1>1, <1>2, <2>1, <2>2, OuterStep
<1> QED BY <1>5, <1>6

(* A turn of the inner loop of sort, or of the outer one. *)
LEMMA SortingTurn ==
  ASSUME IInv, sorting_step
  PROVE  IInv' /\ Allowed
<1>1. pc = "sorting" /\ UNCHANGED <<turn, got, balance, rows>>
  BY DEF sorting_step
<1>2. PICK s : Chain(list, s) /\ RunAt(s) /\ \A k \in 1 .. Len(s) : s[k] \in Cell
  BY <1>1, WholeState
<1>3. Fields /\ list \in ListType /\ list.num <= MaxCells
  BY DEF IInv, Fields
<1>4. Each(Objs(list, s), Len(got)) /\ rows = <<>>
  BY <1>1, <1>2 DEF RunAt
<1>5. PICK n, t : n = Len(s) /\ t = Times(s)
  OBVIOUS
<1>6. /\ t \in Seq(Int) /\ Len(t) = n /\ n = Len(got) /\ n \in Nat
      /\ \A k \in 1 .. n : t[k] = Time(s[k]) /\ list.obj[s[k]] \in 1 .. n /\ t[k] \in Int
  <2>1. /\ t \in Seq(Int) /\ Len(t) = n /\ n = Len(got) /\ n \in Nat
        /\ \A k \in 1 .. n : t[k] = Time(s[k]) /\ list.obj[s[k]] \in 1 .. n
    BY <1>2, <1>3, <1>4, <1>5, TimesFacts
  <2> QED BY <2>1, SeqFacts
<1>7. PICK a \in Nat, b \in Nat : /\ SortingAt(t, a, b)
                                  /\ elem = s[a] /\ other = IF b > n THEN NULL ELSE s[b]
  BY <1>1, <1>2, <1>5 DEF RunAt
<1>8. /\ a \in 1 .. n /\ a < n /\ a < b /\ b <= n + 1 /\ s[a] \in Cell
      /\ b <= n => b \in 1 .. n /\ s[b] \in Cell
  BY <1>2, <1>5, <1>6, <1>7 DEF SortingAt
<1>9. other # NULL <=> b <= n
  BY <1>6, <1>7, <1>8, NodeFacts
<1>10. CASE /\ other # NULL /\ Time(elem) = Time(other)
            /\ pc' = "duplicate" /\ UNCHANGED <<list, elem, other>>
  <2>1. b \in 1 .. n /\ other = s[b] /\ a # b
    BY <1>6, <1>7, <1>8, <1>9, <1>10
  <2>2. PICK x, y : x = list.obj[s[a]] /\ y = list.obj[s[b]]
    OBVIOUS
  <2>3. x \in 1 .. n /\ y \in 1 .. n /\ x # y
    <3>1. /\ \A k \in 1 .. n : Objs(list, s)[k] = list.obj[s[k]]
          /\ \A i, j \in 1 .. n : Objs(list, s)[i] = Objs(list, s)[j] => i = j
      <4>1. \A k \in 1 .. n : Objs(list, s)[k] = list.obj[s[k]]
        BY <1>2, <1>3, <1>5, ObjsFacts
      <4>2. Each(Objs(list, s), n)
        BY <1>4, <1>6
      <4> QED BY <4>1, <4>2 DEF Each
    <3> QED BY <1>6, <1>8, <2>1, <2>2, <3>1
  <2>4. got[x].time = got[y].time
    BY <1>7, <1>10, <2>1, <2>2 DEF Time
  <2>5. ~TimesUnique
    BY <1>6, <2>3, <2>4 DEF TimesUnique
  <2>6. Fields'
    <3>1. pc' \in Places
      BY <1>10 DEF Places
    <3> QED BY <1>1, <1>3, <1>10, <3>1, FieldsKept DEF Fields
  <2>7. RunAt(s)' /\ Chain(list', s) /\ pc' # "unlinking"
    BY <1>1, <1>2, <1>10, <2>5 DEF RunAt, TimesUnique
  <2> QED BY <1>1, <1>10, <2>6, <2>7, NothingAllowed DEF IInv
<1>11. CASE /\ other # NULL /\ Time(elem) # Time(other)
            /\ list' = IF Later(elem, other)
                       THEN [list EXCEPT !.obj[elem] = list.obj[other], !.obj[other] = list.obj[elem]]
                       ELSE list
            /\ other' = My402ListNext(list, other)
            /\ UNCHANGED <<pc, elem>>
  <2>1. b \in 1 .. n /\ b <= n /\ other = s[b] /\ a # b /\ s[b] \in Cell
    BY <1>6, <1>7, <1>8, <1>9, <1>11
  <2>2. t[a] \in Int /\ t[b] \in Int /\ t[a] # t[b] /\ (Later(elem, other) <=> t[a] > t[b])
    BY <1>6, <1>7, <1>8, <1>11, <2>1 DEF Later
  <2>3. My402ListNext(list, s[b]) = IF b = n THEN NULL ELSE s[b + 1]
    BY <1>2, <1>3, <1>5, <2>1, Neighbours
  <2>4. other' \in Pointer /\ other' = IF b + 1 > n THEN NULL ELSE s[b + 1]
    <3>1. CASE b = n
      BY <1>6, <1>11, <2>1, <2>3, <3>1, NodeFacts
    <3>2. CASE b # n
      <4>1. PICK m : m = b + 1
        OBVIOUS
      <4>2. m \in 1 .. n /\ ~(m > n)
        BY <1>6, <2>1, <3>2, <4>1
      <4>3. other' = s[m] /\ s[m] \in Cell
        BY <1>2, <1>5, <1>11, <2>1, <2>3, <3>2, <4>1, <4>2
      <4> QED BY <4>1, <4>2, <4>3, NodeFacts
    <3> QED BY <3>1, <3>2
  <2>5. /\ list' \in ListType /\ list'.num <= MaxCells /\ Chain(list', s)
        /\ \/ t[a] < t[b] /\ list' = list
           \/ t[a] > t[b] /\ Swapped(Objs(list, s), a, b, Objs(list', s))
    <3>1. CASE Later(elem, other)
      <4>1. list' = [list EXCEPT !.obj[s[a]] = list.obj[s[b]], !.obj[s[b]] = list.obj[s[a]]]
        BY <1>7, <1>11, <2>1, <3>1
      <4>2. /\ list' \in ListType /\ Chain(list', s) /\ list'.num = list.num
            /\ Swapped(Objs(list, s), a, b, Objs(list', s))
        <5>1. PICK l2 : l2 = list'
          OBVIOUS
        <5>2. l2 = ObjectsOver(list, s[a], s[b])
          BY <4>1, <5>1 DEF ObjectsOver
        <5>3. a \in 1 .. Len(s) /\ b \in 1 .. Len(s)
          BY <1>5, <1>8, <2>1
        <5>4. /\ l2 \in ListType /\ Chain(l2, s) /\ l2.num = list.num
              /\ Swapped(Objs(list, s), a, b, Objs(l2, s))
          BY ONLY <1>2, <1>3, <2>1, <5>2, <5>3, ObjectsExchanged
        <5> QED BY <5>1, <5>4
      <4> QED BY <1>3, <2>2, <3>1, <4>2
    <3>2. CASE ~Later(elem, other)
      BY <1>2, <1>3, <1>11, <2>2, <3>2
    <3> QED BY <3>1, <3>2
  <2>6. Fields'
    BY <1>1, <1>3, <1>11, <2>4, <2>5, FieldsKept DEF Fields
  <2>7. Each(Objs(list', s), Len(got'))
    BY <1>1, <1>4, <1>6, <1>8, <2>1, <2>5, EachSwapped
  <2>8. PICK u : u = Times(s)'
    OBVIOUS
  <2>9. /\ u \in Seq(Int) /\ Len(u) = n
        /\ \A k \in 1 .. n : u[k] = got[list'.obj[s[k]]].time
    <3>1. [k \in 1 .. Len(s) |-> Time(s[k])]' = [k \in 1 .. Len(s) |-> got[list'.obj[s[k]]].time]
      BY <1>1 DEF Time
    <3>2. u = [k \in 1 .. n |-> got[list'.obj[s[k]]].time]
      BY <1>5, <2>8, <3>1 DEF Times
    <3>3. ASSUME NEW k \in 1 .. n PROVE got[list'.obj[s[k]]].time \in Int
      <4>1. list'.obj[s[k]] \in 1 .. n
        <5>1. Objs(list', s)[k] = list'.obj[s[k]]
          BY <1>5, <2>5, ObjsFacts
        <5>2. Each(Objs(list', s), n)
          BY <1>1, <1>6, <2>7
        <5> QED BY <5>1, <5>2 DEF Each
      <4>2. got[list'.obj[s[k]]] \in Transactions
        BY <1>3, <1>6, <4>1, SeqFacts DEF Fields
      <4> QED BY <4>2 DEF Transactions
    <3>4. u \in [1 .. n -> Int]
      BY <3>2, <3>3
    <3> QED BY <1>6, <3>2, <3>4, FunctionIsSeq
  <2>10. \A k \in 1 .. n : t[k] = got[list.obj[s[k]]].time
    BY <1>6 DEF Time
  <2>11. (t[a] < t[b] /\ u = t) \/ (t[a] > t[b] /\ Swapped(t, a, b, u))
    <3>1. CASE t[a] < t[b] /\ list' = list
      <4>1. \A k \in 1 .. Len(t) : t[k] = u[k]
        BY <1>6, <2>9, <2>10, <3>1
      <4>2. t = u
        BY <1>6, <2>9, <4>1, SeqsEqual
      <4> QED BY <3>1, <4>2
    <3>2. CASE t[a] > t[b] /\ Swapped(Objs(list, s), a, b, Objs(list', s))
      <4>1. /\ \A k \in 1 .. n : Objs(list, s)[k] = list.obj[s[k]]
            /\ \A k \in 1 .. n : Objs(list', s)[k] = list'.obj[s[k]]
            /\ Len(Objs(list, s)) = n
        BY <1>2, <1>3, <1>5, <2>5, ObjsFacts
      <4>2. /\ list'.obj[s[a]] = list.obj[s[b]] /\ list'.obj[s[b]] = list.obj[s[a]]
            /\ \A k \in 1 .. n : k # a /\ k # b => list'.obj[s[k]] = list.obj[s[k]]
        BY <1>8, <2>1, <3>2, <4>1 DEF Swapped
      <4>3. Swapped(t, a, b, u)
        <5>1. u[a] = t[b] /\ u[b] = t[a]
          BY <1>8, <2>1, <2>9, <2>10, <4>2
        <5>2. ASSUME NEW k \in 1 .. n, k # a, k # b PROVE u[k] = t[k]
          BY <2>9, <2>10, <4>2, <5>2
        <5> QED BY <1>6, <2>9, <5>1, <5>2 DEF Swapped
      <4> QED BY <3>2, <4>3
    <3> QED BY <2>5, <3>1, <3>2
  <2>12. SortingAt(u, a, b + 1)
    BY <1>6, <1>7, <2>1, <2>9, <2>11, SortingGoesOn
  <2>13. RunAt(s)'
    <3>1. PICK m : m = b + 1
      OBVIOUS
    <3>2. m \in Nat /\ SortingAt(u, a, m) /\ elem' = s[a] /\ other' = IF m > n THEN NULL ELSE s[m]
      BY <1>7, <1>11, <2>4, <2>12, <3>1
    <3>3. \E x, y \in Nat : /\ SortingAt(Times(s)', x, y)
                            /\ elem' = s[x] /\ other' = IF y > Len(s) THEN NULL ELSE s[y]
      BY <1>5, <2>8, <3>2
    <3> QED BY <1>1, <1>4, <1>11, <2>7, <3>3 DEF RunAt
  <2>14. Allowed
    <3>1. pc # "unlinking" /\ pc' # "unlinking"
      BY <1>1, <1>11
    <3>2. CASE list' = list
      BY <3>1, <3>2, NothingAllowed
    <3>3. CASE Swapped(Objs(list, s), a, b, Objs(list', s))
      BY <1>2, <1>3, <1>5, <1>8, <2>1, <2>5, <3>1, <3>3, SwappingAllowed
    <3> QED BY <2>5, <3>2, <3>3
  <2> QED BY <1>1, <1>11, <2>5, <2>6, <2>13, <2>14 DEF IInv
<1>12. CASE other = NULL /\ Outer(My402ListNext(list, elem)) /\ UNCHANGED list
  <2>1. b = n + 1
    <3>1. ~(b <= n)
      BY <1>9, <1>12
    <3>2. b \in Nat /\ n \in Nat /\ b <= n + 1
      BY <1>6, <1>8
    <3> QED BY ONLY <3>1, <3>2
  <2>2. PICK k : k = a + 1
    OBVIOUS
  <2>3. k \in 1 .. n /\ k - 1 = a /\ a # n
    BY <1>6, <1>8, <2>2
  <2>4. My402ListNext(list, elem) = s[k]
    <3>1. My402ListNext(list, s[a]) = IF a = n THEN NULL ELSE s[a + 1]
      BY <1>2, <1>3, <1>5, <1>8, Neighbours
    <3> QED BY <1>7, <2>2, <2>3, <3>1
  <2>5. SortingAt(Times(s), k - 1, Len(s) + 1) /\ Outer(s[k]) /\ k \in 1 .. Len(s)
    BY <1>5, <1>7, <1>12, <2>1, <2>3, <2>4
  <2> QED BY <1>1, <1>2, <1>12, <2>5, OuterStep
<1> QED BY <1>10, <1>11, <1>12 DEF sorting_step, Goto

(* A row more is printed. *)
LEMMA PrintStep ==
  ASSUME IInv, PrintList_step
  PROVE  IInv' /\ Allowed
<1>1. /\ pc = "printing" /\ elem' = My402ListNext(list, elem)
      /\ pc' = IF elem' = NULL THEN "printed" ELSE "printing"
      /\ UNCHANGED <<list, other, turn, got>>
  BY DEF PrintList_step
<1>2. PICK t : t = got[list.obj[elem]]
  OBVIOUS
<1>3. balance' = NewBalance(t) /\ \E x : rows' = Append(rows, x)
  BY <1>2 DEF PrintList_step
<1>4. PICK s : Chain(list, s) /\ RunAt(s) /\ \A k \in 1 .. Len(s) : s[k] \in Cell
  BY <1>1, WholeState
<1>5. Fields /\ list \in ListType
  BY DEF IInv, Fields
<1>6. /\ Each(Objs(list, s), Len(got)) /\ Increasing(Times(s))
      /\ Len(rows) < Len(s) /\ elem = s[Len(rows) + 1]
  BY <1>1, <1>4 DEF RunAt
<1>7. PICK n, r : n = Len(s) /\ r = Len(rows) + 1
  OBVIOUS
<1>8. /\ n \in Nat /\ n = Len(got) /\ n <= MaxLines /\ r \in 1 .. n /\ r <= MaxLines
      /\ list.obj[elem] \in 1 .. n /\ elem = s[r] /\ Len(rows) \in Nat
  <2>1. n \in Nat /\ n = Len(got) /\ \A k \in 1 .. n : list.obj[s[k]] \in 1 .. n
    BY <1>4, <1>5, <1>6, <1>7, TimesFacts
  <2>2. n <= MaxLines /\ Len(rows) \in Nat
    BY <1>5, <2>1 DEF Fields
  <2>3. r \in 1 .. n /\ r <= MaxLines
    BY <1>6, <1>7, <2>1, <2>2, My402SortAssumption
  <2> QED BY <1>6, <1>7, <2>1, <2>2, <2>3
<1>9. balance' \in Int
  <2>1. t \in Transactions
    BY <1>2, <1>5, <1>8, SeqFacts DEF Fields
  <2>2. t.amount \in Int
    BY <2>1 DEF Transactions
  <2>3. balance \in Int
    BY <1>5 DEF Fields
  <2> QED BY <1>3, <2>2, <2>3 DEF NewBalance
<1>10. rows' \in Seq(Range(rows')) /\ Len(rows') = r
  <2>1. PICK x : rows' = Append(rows, x)
    BY <1>3
  <2>2. PICK S : S = Range(rows) \cup {x}
    OBVIOUS
  <2>3. rows \in Seq(Range(rows))
    BY <1>5 DEF Fields
  <2>4. rows \in Seq(S) /\ x \in S
    BY <2>2, <2>3
  <2>5. rows' \in Seq(S) /\ Len(rows') = r
    BY <1>7, <2>1, <2>4
  <2>6. PICK q : q = rows'
    OBVIOUS
  <2>7. Len(q) \in Nat /\ q \in [1 .. Len(q) -> S] /\ Range(q) = {q[k] : k \in 1 .. Len(q)}
    BY <2>5, <2>6, SeqFacts
  <2>8. q \in [1 .. Len(q) -> Range(q)]
    BY <2>7
  <2>9. q \in Seq(Range(q))
    BY <2>7, <2>8, FunctionIsSeq
  <2> QED BY <2>5, <2>6, <2>9
<1>11. elem' = IF r = n THEN NULL ELSE s[r + 1]
  BY <1>1, <1>4, <1>5, <1>7, <1>8, Neighbours
<1>12. /\ elem' \in Pointer /\ pc' \in {"printing", "printed"}
       /\ pc' = "printing" => r < n /\ elem' = s[r + 1]
  <2>1. CASE r = n
    BY <1>1, <1>11, <2>1, NodeFacts
  <2>2. CASE r # n
    <3>1. r + 1 \in 1 .. n /\ r < n
      BY <1>8, <2>2
    <3>2. s[r + 1] \in Cell
      BY <1>4, <1>7, <3>1
    <3> QED BY <1>1, <1>11, <2>2, <3>1, <3>2, NodeFacts
  <2> QED BY <2>1, <2>2
<1>13. Fields'
  BY <1>1, <1>5, <1>8, <1>9, <1>10, <1>12 DEF Fields, Places
<1>14. RunAt(s)'
  <2>1. /\ Increasing(Times(s)') /\ Each(Objs(list', s), Len(got'))
    BY <1>1, <1>6 DEF Times, Time
  <2>2. Len(rows') <= Len(s) /\ (pc' = "printing" => Len(rows') < Len(s) /\ elem' = s[Len(rows') + 1])
    BY <1>7, <1>8, <1>10, <1>12
  <2> QED BY <1>12, <2>1, <2>2 DEF RunAt
<1>15. Chain(list', s) /\ pc' # "unlinking"
  BY <1>1, <1>4
<1> QED BY <1>1, <1>13, <1>14, <1>15, NothingAllowed DEF IInv

(* Every step of the two programs, and none. *)
LEMMA StepInv ==
  ASSUME IInv, [Next]_vars
  PROVE  IInv' /\ Allowed
<1>1. CASE Next
  BY <1>1, MainStep, AddStep, TakeOutStep, UnlinkAllStep, UnlinkAllTurn, BubbleSortStep, BubbleForwardStep,
     BubbleBackwardStep, BubblePassStep, DoTestStep, ReadStep, SortingStart, SortingTurn, PrintStep DEF Next
<1>2. CASE UNCHANGED vars
  <2>1. UNCHANGED <<list, pc, elem, other, turn, got, balance, rows>>
    BY <1>2 DEF vars
  <2>2. Fields'
    BY <2>1 DEF IInv, Fields
  <2>3. pc' = "unlinking" => Emptying'
    BY <2>1 DEF IInv, Emptying
  <2>4. pc' # "unlinking" => \E s : Chain(list', s) /\ RunAt(s)'
    <3> SUFFICES ASSUME pc' # "unlinking" PROVE \E s : Chain(list', s) /\ RunAt(s)'
      OBVIOUS
    <3>1. PICK s : Chain(list, s) /\ RunAt(s)
      BY <2>1 DEF IInv
    <3>2. RunAt(s)'
      BY <2>1, <3>1 DEF RunAt, Times, Time, TimesUnique
    <3> QED BY <2>1, <3>1, <3>2
  <2>5. Allowed
    BY <2>1 DEF Allowed, Contents
  <2> QED BY <2>2, <2>3, <2>4, <2>5 DEF IInv
<1> QED BY <1>1, <1>2

(* The invariant holds throughout. *)
LEMMA AlwaysInv == Spec => []IInv
<1>1. Init => IInv
  BY InitInv
<1>2. IInv /\ [Next]_vars => IInv'
  BY StepInv
<1> QED BY <1>1, <1>2, PTL DEF Spec

(* The list is whole between calls, whatever calls are made and however many:
   both directions of its links agree, it counts what it holds, My402ListFind
   answers right, and no loop stands at a cell that has been freed. *)
THEOREM ListIsWhole == Spec => []ListInv
<1>1. IInv => ListInv
  BY InvariantList
<1> QED BY <1>1, AlwaysInv, PTL

(* All three sorts sort every list they are given: the two bubble sorts of
   listtest put the objects in order, and sort prints every transaction of
   its input in the order of their times, and stops exactly if two have the
   same. *)
THEOREM SortsSort == Spec => []Sorted
<1>1. IInv => Sorted
  BY InvariantSorted
<1> QED BY <1>1, AlwaysInv, PTL

(* The links are an implementation of a sequence of objects: every call, every
   exchange of the sorts and every cell that My402ListUnlinkAll frees is one
   insertion, one deletion or one exchange, or leaves the sequence alone. *)
THEOREM ListImplementsSequence == Spec => ImplementsListSeq
<1>1. Init => Abstract!Init
  BY InitInv
<1>2. IInv /\ [Next]_vars => [Abstract!Next]_Contents
  BY StepInv DEF Allowed
<1> QED BY <1>1, <1>2, AlwaysInv, PTL DEF Spec, ImplementsListSeq, Abstract!Spec
=============================================================================
