---------------------------- MODULE VmmapProofs ----------------------------
(***************************************************************************)
(* Proofs about Vmmap, for any page size, user memory, address space and   *)
(* objects, and any arguments of mmap, munmap, brk and faults.             *)
(*                                                                         *)
(* The order is that of the argument: lists of areas and the one-pass      *)
(* scans of them; the loop of vmmap_remove, by an invariant of its turns   *)
(* that the areas built so far, the half split off and the areas still to  *)
(* come are pieces of the old list that share no page; what a list shows   *)
(* at a page, and how removals, insertions and vmmap_destroy change it;    *)
(* the actions; the theorems; the copies between the kernel and user       *)
(* memory, by an invariant of their loops over the areas and pages.        *)
(*                                                                         *)
(* VmmapInv is inductive as it stands.  Space is the same formula for any  *)
(* list, references and page table, so that it can be stated of the        *)
(* values in the middle of an operation.                                   *)
(***************************************************************************)
EXTENDS Vmmap, LibraryProofs, SequenceTheorems, TLAPS

(***************************************************************************)
(* Areas and lists of areas, without their order.                          *)
(***************************************************************************)
Covers(a, p) == a.start <= p /\ p < a.end

(* What a page shows in an area that covers it. *)
PageIn(a, p) == [obj |-> a.obj, pg |-> a.off + p - a.start, prot |-> a.prot]

(* Areas that share no page. *)
Apart(a, b) == a.end <= b.start \/ b.end <= a.start

(* Areas that are not empty and share no page. *)
AreaSet(M) ==
  /\ M \subseteq Area
  /\ \A a \in M : a.start < a.end
  /\ \A a, b \in M : a = b \/ Apart(a, b)

(* What every list of areas in a reachable state is. *)
AreaList(al) ==
  /\ al \in Seq(Area)
  /\ \A i \in 1 .. Len(al) : al[i].start < al[i].end
  /\ \A i, j \in 1 .. Len(al) : i < j => al[i].end <= al[j].start

(* The areas of a set that show an object. *)
CountOf(M, o) == Cardinality({a \in M : a.obj = o})

(***************************************************************************)
(* The bounds of an area are page numbers of user memory.                  *)
(***************************************************************************)
LEMMA SpaceFacts ==
  /\ LowPage \in Nat /\ HighPage \in Nat /\ PageSize \in Nat /\ AddrSpace \in Nat
  /\ PageSize # 0 /\ 0 < LowPage /\ LowPage < HighPage
BY SpaceAssumption

(* The bounds, offset, object and protection of an area. *)
LEMMA AreaFacts ==
  ASSUME NEW a \in Area
  PROVE  /\ a.start \in Nat /\ a.end \in Nat /\ a.off \in Nat
         /\ LowPage <= a.start /\ a.start < HighPage
         /\ LowPage < a.end /\ a.end <= HighPage
         /\ a.obj \in Objs \cup {Junk} /\ a.prot \in Protections
BY SpaceFacts DEF Area, UserPages

(***************************************************************************)
(* vmmap_lookup finds the one area that covers a page, if there is one.    *)
(***************************************************************************)
LookupFacts(al, p, i) ==
  /\ i \in 0 .. Len(al)
  /\ i # 0 => Covers(al[i], p)
  /\ \A j \in 1 .. Len(al) : Covers(al[j], p) => i = j

(* The areas of a list lie in user memory, in order of their pages. *)
LEMMA ListFacts ==
  ASSUME NEW al, AreaList(al)
  PROVE  /\ Len(al) \in Nat /\ DOMAIN al = 1 .. Len(al)
         /\ \A i \in 1 .. Len(al) :
              /\ al[i] \in Area /\ al[i].start \in Nat /\ al[i].end \in Nat /\ al[i].off \in Nat
              /\ LowPage <= al[i].start /\ al[i].start < al[i].end /\ al[i].end <= HighPage
         /\ \A i, j \in 1 .. Len(al) : i < j => al[i].end <= al[j].start
<1>1. al \in Seq(Area)
  BY DEF AreaList
<1>2. Len(al) \in Nat /\ DOMAIN al = 1 .. Len(al) /\ \A i \in 1 .. Len(al) : al[i] \in Area
  BY ONLY <1>1, SMT
<1> QED BY <1>2, AreaFacts DEF AreaList

(* The first area that covers a page is the only one. *)
LEMMA LookupCorrect ==
  ASSUME NEW al, AreaList(al), NEW p \in Int
  PROVE  LookupFacts(al, p, vmmap_lookup(al, p))
<1> DEFINE I == {i \in 1 .. Len(al) : al[i].start <= p /\ p < al[i].end}
<1>1. vmmap_lookup(al, p) = IF I # {} THEN CHOOSE x \in I : \A y \in I : x =< y ELSE 0
  BY DEF vmmap_lookup, SelectInSeq, Min
<1>2. Len(al) \in Nat
  BY ListFacts
<1>3. \A i, j \in I : i = j
  <2> SUFFICES ASSUME NEW i \in I, NEW j \in I, i < j PROVE FALSE
    BY <1>2
  <2>1. /\ al[i].end <= al[j].start /\ al[i].end \in Nat /\ al[j].start \in Nat
        /\ p < al[i].end /\ al[j].start <= p
    BY ListFacts
  <2> QED BY <2>1
<1>4. CASE I = {}
  BY <1>1, <1>2, <1>4 DEF LookupFacts, Covers
<1>5. CASE I # {}
  <2>1. PICK k \in I : TRUE
    BY <1>5
  <2>2. k \in 1 .. Len(al) /\ Covers(al[k], p)
    BY DEF Covers
  <2>3. \A y \in I : k =< y
    BY <1>2, <1>3
  <2>4. vmmap_lookup(al, p) = k
    BY <1>1, <1>3, <1>5, <2>3
  <2>5. \A j \in 1 .. Len(al) : Covers(al[j], p) => j \in I
    BY DEF Covers
  <2> HIDE DEF I
  <2> QED BY <1>2, <1>3, <2>2, <2>4, <2>5 DEF LookupFacts
<1> QED BY <1>4, <1>5

(***************************************************************************)
(* Appending and inserting an area that is apart from all others.          *)
(***************************************************************************)
LEMMA RangeMembers ==
  ASSUME NEW al, AreaList(al)
  PROVE  /\ \A i \in 1 .. Len(al) : al[i] \in Range(al)
         /\ \A a \in Range(al) : \E i \in 1 .. Len(al) : a = al[i]
BY ListFacts DEF Range

(* The areas of a list are a set of areas that share no page. *)
LEMMA ListIsSet ==
  ASSUME NEW al, AreaList(al)
  PROVE  AreaSet(Range(al))
<1>1. \A i \in 1 .. Len(al) : al[i] \in Area /\ al[i].start < al[i].end
  BY ListFacts
<1>2. \A i, j \in 1 .. Len(al) : i = j \/ Apart(al[i], al[j])
  <2> SUFFICES ASSUME NEW i \in 1 .. Len(al), NEW j \in 1 .. Len(al), i # j
               PROVE  Apart(al[i], al[j])
    OBVIOUS
  <2>1. i \in Int /\ j \in Int
    BY ListFacts
  <2>2. i < j \/ j < i
    BY <2>1
  <2> QED BY <2>2, ListFacts DEF Apart
<1> QED BY <1>1, <1>2, RangeMembers DEF AreaSet

(* The sequence al with c put in at place i. *)
PutAt(al, i, c, m) ==
  /\ m \in Seq(Area) /\ Len(m) = Len(al) + 1
  /\ \A j \in 1 .. i - 1 : m[j] = al[j]
  /\ m[i] = c
  /\ \A j \in i + 1 .. Len(al) + 1 : m[j] = al[j - 1]

(* Append puts its area after the last. *)
LEMMA AppendPuts ==
  ASSUME NEW al \in Seq(Area), NEW c \in Area
  PROVE  PutAt(al, Len(al) + 1, c, Append(al, c))
BY DEF PutAt

(* InsertAt puts its area before the one at its index. *)
LEMMA InsertPuts ==
  ASSUME NEW al \in Seq(Area), NEW c \in Area, NEW i \in 1 .. Len(al)
  PROVE  PutAt(al, i, c, InsertAt(al, i, c))
<1> DEFINE u == SubSeq(al, 1, i - 1)
           v == SubSeq(al, i, Len(al))
           m == InsertAt(al, i, c)
<1>1. /\ Len(al) \in Nat /\ i \in Nat /\ 1 <= i /\ i <= Len(al)
  OBVIOUS
<1>2. u \in Seq(Area) /\ Len(u) = i - 1 /\ \A j \in 1 .. i - 1 : u[j] = al[j]
  BY <1>1, SubSeqProperties, SMTT(30)
<1>3. v \in Seq(Area) /\ Len(v) = Len(al) - i + 1 /\ \A j \in 1 .. Len(al) - i + 1 : v[j] = al[i + j - 1]
  BY <1>1, SMTT(30)
<1> DEFINE w == u \o <<c>>
<1>4. m = w \o v
  BY DEF InsertAt
<1> HIDE DEF u, v, m
<1>5. w \in Seq(Area) /\ Len(w) = i /\ (\A j \in 1 .. i - 1 : w[j] = al[j]) /\ w[i] = c
  BY <1>1, <1>2, SMTT(30)
<1> HIDE DEF w
<1>6. m \in Seq(Area) /\ Len(m) = Len(w) + Len(v)
  BY <1>3, <1>4, <1>5, ConcatProperties
<1>7. Len(m) = Len(al) + 1
  BY <1>1, <1>3, <1>5, <1>6
<1>8. \A j \in 1 .. i : m[j] = w[j]
  BY <1>1, <1>3, <1>4, <1>5, SMTT(30)
<1>9. \A j \in i + 1 .. Len(al) + 1 : m[j] = v[j - i]
  BY <1>1, <1>3, <1>4, <1>5, SMTT(30)
<1>10. \A j \in i + 1 .. Len(al) + 1 : j - i \in 1 .. Len(al) - i + 1 /\ i + (j - i) - 1 = j - 1
  BY <1>1
<1>11. \A j \in i + 1 .. Len(al) + 1 : m[j] = al[j - 1]
  <2> TAKE j \in i + 1 .. Len(al) + 1
  <2>1. m[j] = v[j - i] /\ v[j - i] = al[i + (j - i) - 1] /\ i + (j - i) - 1 = j - 1
    BY <1>3, <1>9, <1>10
  <2> QED BY <2>1
<1>12. (\A j \in 1 .. i - 1 : m[j] = al[j]) /\ m[i] = c
  <2>1. i \in 1 .. i /\ \A j \in 1 .. i - 1 : j \in 1 .. i
    BY <1>1
  <2> QED BY <1>5, <1>8, <2>1
<1>13. PutAt(al, i, c, m)
  BY <1>6, <1>7, <1>11, <1>12 DEF PutAt
<1> QED BY <1>13 DEF m

(* Put where it keeps the order, an area makes a list of all areas. *)
LEMMA PutFacts ==
  ASSUME NEW al, AreaList(al), NEW c \in Area, c.start < c.end,
         NEW i \in 1 .. Len(al) + 1, NEW m, PutAt(al, i, c, m),
         \A j \in 1 .. i - 1 : al[j].end <= c.start,
         \A j \in i .. Len(al) : c.end <= al[j].start
  PROVE  AreaList(m) /\ Range(m) = Range(al) \cup {c}
<1>1. /\ Len(al) \in Nat /\ i \in Nat /\ 1 <= i /\ i <= Len(al) + 1
      /\ m \in Seq(Area) /\ Len(m) = Len(al) + 1 /\ DOMAIN m = 1 .. Len(al) + 1
  BY ListFacts DEF PutAt
<1>2. \A j \in 1 .. Len(al) + 1 : \/ j < i /\ j \in 1 .. i - 1 /\ j \in 1 .. Len(al) /\ m[j] = al[j]
                                  \/ j = i /\ m[j] = c
                                  \/ j > i /\ j - 1 \in i .. Len(al) /\ j - 1 \in 1 .. Len(al) /\ m[j] = al[j - 1]
  <2> SUFFICES ASSUME NEW j \in 1 .. Len(al) + 1
               PROVE  \/ j < i /\ j \in 1 .. i - 1 /\ j \in 1 .. Len(al) /\ m[j] = al[j]
                      \/ j = i /\ m[j] = c
                      \/ j > i /\ j - 1 \in i .. Len(al) /\ j - 1 \in 1 .. Len(al) /\ m[j] = al[j - 1]
    OBVIOUS
  <2>1. CASE j < i
    <3>1. j \in 1 .. i - 1 /\ j \in 1 .. Len(al)
      BY <1>1, <2>1
    <3> QED BY <2>1, <3>1 DEF PutAt
  <2>2. CASE j = i
    BY <2>2 DEF PutAt
  <2>3. CASE j > i
    <3>1. j - 1 \in i .. Len(al) /\ j - 1 \in 1 .. Len(al) /\ j \in i + 1 .. Len(al) + 1
      BY <1>1, <2>3
    <3> QED BY <2>3, <3>1 DEF PutAt
  <2> QED BY <1>1, <2>1, <2>2, <2>3
<1>3. \A j \in 1 .. Len(m) : m[j].start < m[j].end
  BY <1>1, <1>2, ListFacts
<1>4. \A j, k \in 1 .. Len(m) : j < k => m[j].end <= m[k].start
  <2> SUFFICES ASSUME NEW j \in 1 .. Len(al) + 1, NEW k \in 1 .. Len(al) + 1, j < k
               PROVE  m[j].end <= m[k].start
    BY <1>1
  <2>1. CASE j < i /\ k < i
    BY <1>1, <1>2, <2>1, ListFacts
  <2>2. CASE j < i /\ k = i
    BY <1>1, <1>2, <2>2
  <2>3. CASE j < i /\ k > i
    <3>1. j \in 1 .. Len(al) /\ k - 1 \in 1 .. Len(al) /\ j < k - 1 /\ m[j] = al[j] /\ m[k] = al[k - 1]
      BY <1>1, <1>2, <2>3
    <3> QED BY <3>1, ListFacts
  <2>4. CASE j = i /\ k > i
    BY <1>1, <1>2, <2>4
  <2>5. CASE j > i /\ k > i
    <3>1. j - 1 \in 1 .. Len(al) /\ k - 1 \in 1 .. Len(al) /\ j - 1 < k - 1 /\ m[j] = al[j - 1] /\ m[k] = al[k - 1]
      BY <1>1, <1>2, <2>5
    <3> QED BY <3>1, ListFacts
  <2> QED BY <1>1, <2>1, <2>2, <2>3, <2>4, <2>5
<1>5. AreaList(m)
  BY <1>1, <1>3, <1>4 DEF AreaList
<1>6. \A a \in Range(m) : a \in Range(al) \cup {c}
  <2> TAKE a \in Range(m)
  <2>1. PICK j \in 1 .. Len(m) : a = m[j]
    BY <1>5, RangeMembers
  <2> QED BY <1>1, <1>2, <2>1, RangeMembers
<1>7. \A a \in Range(al) : a \in Range(m)
  <2> TAKE a \in Range(al)
  <2>1. PICK j \in 1 .. Len(al) : a = al[j]
    BY RangeMembers
  <2>2. CASE j < i
    <3>1. j \in 1 .. Len(m) /\ j \in 1 .. i - 1
      BY <1>1, <2>2
    <3>2. m[j] = al[j]
      BY <3>1 DEF PutAt
    <3> QED BY <1>5, <2>1, <3>1, <3>2, RangeMembers
  <2>3. CASE ~(j < i)
    <3>1. j + 1 \in 1 .. Len(m) /\ j + 1 \in i + 1 .. Len(al) + 1 /\ (j + 1) - 1 = j
      BY <1>1, <2>3
    <3>2. m[j + 1] = al[j]
      BY <3>1 DEF PutAt
    <3> QED BY <1>5, <2>1, <3>1, <3>2, RangeMembers
  <2> QED BY <2>2, <2>3
<1>8. c \in Range(m)
  <2>1. i \in 1 .. Len(m) /\ m[i] = c
    BY <1>1 DEF PutAt
  <2> QED BY <1>5, <2>1, RangeMembers
<1> QED BY <1>5, <1>6, <1>7, <1>8

(***************************************************************************)
(* vmmap_is_range_empty, vmmap_insert.                                     *)
(***************************************************************************)
Free(M, lo, hi) == \A a \in M : a.end <= lo \/ hi <= a.start

(* The end of the area before a place bounds the gap below that place. *)
LEMMA GapLowFacts ==
  ASSUME NEW al, AreaList(al), NEW i \in 1 .. Len(al) + 1
  PROVE  /\ GapLow(al, i) \in Nat /\ LowPage <= GapLow(al, i)
         /\ GapLow(al, i) <= HighPage
         /\ i # 1 => i - 1 \in 1 .. Len(al) /\ GapLow(al, i) = al[i - 1].end
         /\ i = 1 => GapLow(al, i) = LowPage
         /\ \A j \in 1 .. i - 1 : j \in 1 .. Len(al) /\ al[j].end <= GapLow(al, i)
         /\ i <= Len(al) => i \in 1 .. Len(al) /\ GapLow(al, i) <= al[i].start
<1>1. Len(al) \in Nat /\ i \in Nat /\ 1 <= i /\ i <= Len(al) + 1
  BY ListFacts
<1>2. CASE i = 1
  <2>1. GapLow(al, i) = LowPage
    BY <1>2 DEF GapLow
  <2>2. 1 .. i - 1 = {}
    BY <1>2
  <2>3. i <= Len(al) => i \in 1 .. Len(al) /\ LowPage <= al[i].start
    BY <1>1, ListFacts
  <2> QED BY <1>2, <2>1, <2>2, <2>3, SpaceFacts
<1>3. CASE i # 1
  <2>1. GapLow(al, i) = al[i - 1].end /\ i - 1 \in 1 .. Len(al)
    BY <1>1, <1>3 DEF GapLow
  <2>2. ASSUME NEW j \in 1 .. i - 1 PROVE j \in 1 .. Len(al) /\ al[j].end <= al[i - 1].end
    <3>1. j \in 1 .. Len(al) /\ (j < i - 1 \/ j = i - 1)
      BY <1>1
    <3>2. /\ al[j].end \in Nat /\ al[i - 1].end \in Nat /\ al[i - 1].start \in Nat
          /\ al[i - 1].start < al[i - 1].end
      BY <2>1, <3>1, ListFacts
    <3>3. CASE j < i - 1
      <4>1. al[j].end <= al[i - 1].start
        BY <2>1, <3>1, <3>3, ListFacts
      <4> QED BY <3>1, <3>2, <4>1
    <3>4. CASE j = i - 1
      BY <3>1, <3>2, <3>4
    <3> QED BY <3>1, <3>3, <3>4
  <2>3. i <= Len(al) => i \in 1 .. Len(al) /\ al[i - 1].end <= al[i].start
    <3> HAVE i <= Len(al)
    <3>1. i \in 1 .. Len(al) /\ i - 1 < i
      BY <1>1
    <3> QED BY <2>1, <3>1, ListFacts
  <2>4. /\ al[i - 1].end \in Nat /\ al[i - 1].start \in Nat /\ al[i - 1].end <= HighPage
        /\ LowPage <= al[i - 1].start /\ al[i - 1].start < al[i - 1].end
    BY <2>1, ListFacts
  <2>5. LowPage <= al[i - 1].end
    BY <2>4, SpaceFacts
  <2> QED BY <1>3, <2>1, <2>2, <2>3, <2>4, <2>5
<1> QED BY <1>2, <1>3

(* The scan of vmmap_is_range_empty answers for all areas. *)
LEMMA RangeEmptyExact ==
  ASSUME NEW al, AreaList(al), NEW lo \in Int, NEW hi \in Int, LowPage <= lo, lo < hi
  PROVE  vmmap_is_range_empty(al, lo, hi) <=> Free(Range(al), lo, hi)
<1> DEFINE L == Len(al)
           above(i) == al[i].start >= hi /\ GapLow(al, i) <= lo
           inside(i) == al[i].start > lo /\ al[i].start < hi
           past(i) == GapLow(al, i) > lo
           decides == {i \in 1 .. Len(al) : above(i) \/ inside(i) \/ past(i)}
           least == CHOOSE i \in decides : \A j \in decides : i <= j
<1>1. vmmap_is_range_empty(al, lo, hi) =
        IF decides = {} THEN GapLow(al, L + 1) <= lo ELSE above(least)
  BY DEF vmmap_is_range_empty
<1>2. Free(Range(al), lo, hi) <=> \A i \in 1 .. L : al[i].end <= lo \/ hi <= al[i].start
  BY RangeMembers DEF Free
<1>3. L \in Nat /\ L + 1 \in 1 .. L + 1
  BY ListFacts
<1>4. CASE decides = {}
  <2>1. ASSUME GapLow(al, L + 1) <= lo, NEW i \in 1 .. L PROVE al[i].end <= lo
    <3>1. al[i].end <= GapLow(al, L + 1) /\ GapLow(al, L + 1) \in Nat /\ al[i].end \in Nat
      <4>1. i \in 1 .. (L + 1) - 1
        BY <1>3
      <4> QED BY <1>3, <4>1, GapLowFacts, ListFacts
    <3> QED BY <2>1, <3>1
  <2>2. ASSUME \A i \in 1 .. L : al[i].end <= lo \/ hi <= al[i].start, ~(GapLow(al, L + 1) <= lo)
        PROVE  FALSE
    <3>1. L + 1 # 1
      BY <1>3, <2>2, GapLowFacts
    <3>2. L \in 1 .. L /\ GapLow(al, L + 1) = al[L].end
      <4>1. (L + 1) - 1 = L
        BY <1>3
      <4> QED BY <1>3, <3>1, <4>1, GapLowFacts
    <3>3. hi <= al[L].start
      BY <2>2, <3>2
    <3>4. L \notin decides
      BY <1>4
    <3>5. ~(GapLow(al, L) <= lo) /\ ~(GapLow(al, L) > lo)
      BY <3>2, <3>3, <3>4
    <3>6. GapLow(al, L) \in Nat
      <4>1. L \in 1 .. L + 1
        BY <1>3, <3>2
      <4> QED BY <4>1, GapLowFacts
    <3> QED BY <3>5, <3>6
  <2> QED BY <1>1, <1>2, <1>4, <2>1, <2>2
<1>5. CASE decides # {}
  <2>1. decides \subseteq Nat
    BY <1>3
  <2>2. \E i \in decides : \A j \in decides : i <= j
    <3> HIDE DEF decides
    <3> QED BY <1>5, <2>1, LeastNumber
  <2>3. least \in decides /\ \A j \in decides : least <= j
    <3> HIDE DEF decides
    <3> QED BY <2>2
  <2> HIDE DEF least
  <2>4. least \in 1 .. L /\ least \in 1 .. L + 1
    BY <1>3, <2>3
  <2>5. ASSUME above(least), NEW i \in 1 .. L PROVE al[i].end <= lo \/ hi <= al[i].start
    <3>1. al[i].end \in Nat /\ al[i].start \in Nat /\ al[least].start \in Nat /\ al[least].end \in Nat /\ al[least].start < al[least].end
      BY <2>4, ListFacts
    <3>2. CASE i < least
      <4>1. i \in 1 .. least - 1
        BY <1>3, <2>4, <3>2
      <4>2. al[i].end <= GapLow(al, least) /\ GapLow(al, least) \in Nat
        BY <2>4, <4>1, GapLowFacts
      <4> QED BY <2>5, <3>1, <4>2
    <3>3. CASE i = least
      BY <2>5, <3>1, <3>3
    <3>4. CASE least < i
      <4>1. al[least].end <= al[i].start
        BY <2>4, <3>4, ListFacts
      <4> QED BY <2>5, <3>1, <4>1
    <3> QED BY <1>3, <2>4, <3>2, <3>3, <3>4
  <2>6. ASSUME \A i \in 1 .. L : al[i].end <= lo \/ hi <= al[i].start PROVE above(least)
    <3>1. /\ al[least].end \in Nat /\ al[least].start \in Nat /\ al[least].start < al[least].end
          /\ GapLow(al, least) \in Nat
      BY <2>4, ListFacts, GapLowFacts
    <3>2. al[least].end <= lo \/ hi <= al[least].start
      BY <2>4, <2>6
    <3>3. ~inside(least)
      BY <3>1, <3>2
    <3>4. ASSUME past(least) PROVE FALSE
      <4>1. least # 1
        BY <2>4, <3>4, GapLowFacts, SpaceFacts
      <4> DEFINE k == least - 1
      <4>2. k \in 1 .. L /\ k \in 1 .. L + 1 /\ GapLow(al, least) = al[k].end /\ k < least /\ k \in Nat
        BY <1>3, <2>4, <4>1, GapLowFacts
      <4> HIDE DEF k
      <4>3. al[k].end \in Nat /\ al[k].start \in Nat /\ GapLow(al, k) \in Nat
        BY <4>2, ListFacts, GapLowFacts
      <4>4. hi <= al[k].start
        BY <2>6, <3>4, <4>2, <4>3
      <4>5. above(k) \/ past(k)
        BY <4>3, <4>4
      <4>6. k \in decides
        BY <4>2, <4>5
      <4>7. least <= k /\ least \in Nat
        BY <2>3, <2>4, <4>6
      <4> QED BY <4>2, <4>7
    <3>5. above(least) \/ inside(least) \/ past(least)
      BY <2>3
    <3> QED BY <3>3, <3>4, <3>5
  <2> QED BY <1>1, <1>2, <1>5, <2>5, <2>6 DEF least
<1> QED BY <1>4, <1>5

(* Into a free range the area goes, and the list stays in order. *)
LEMMA InsertFacts ==
  ASSUME NEW al, AreaList(al), NEW c \in Area, c.start < c.end,
         \A a \in Range(al) : Apart(a, c)
  PROVE  AreaList(vmmap_insert(al, c)) /\ Range(vmmap_insert(al, c)) = Range(al) \cup {c}
<1> DEFINE I == {i \in 1 .. Len(al) : al[i].start >= c.end}
           i == SelectInSeq(al, LAMBDA a : a.start >= c.end)
<1>1. c.start \in Nat /\ c.end \in Nat /\ LowPage <= c.start /\ c.end <= HighPage
  BY AreaFacts
<1>2. Free(Range(al), c.start, c.end)
  BY DEF Free, Apart
<1>3. vmmap_is_range_empty(al, c.start, c.end)
  BY <1>1, <1>2, RangeEmptyExact
<1>4. vmmap_insert(al, c) = IF i = 0 THEN Append(al, c) ELSE InsertAt(al, i, c)
  BY <1>3 DEF vmmap_insert
<1>5. i = IF I # {} THEN CHOOSE x \in I : \A y \in I : x =< y ELSE 0
  BY DEF SelectInSeq, Min
<1> HIDE DEF i
<1>6. Len(al) \in Nat /\ al \in Seq(Area)
  BY ListFacts DEF AreaList
<1>7. \A j \in 1 .. Len(al) : /\ al[j].end <= c.start \/ c.end <= al[j].start
                              /\ al[j].start \in Nat /\ al[j].end \in Nat /\ al[j].start < al[j].end
  BY RangeMembers, ListFacts DEF Apart
<1>8. CASE I = {}
  <2>1. vmmap_insert(al, c) = Append(al, c)
    BY <1>4, <1>5, <1>8
  <2>2. PutAt(al, Len(al) + 1, c, Append(al, c))
    BY <1>6, AppendPuts
  <2>3. \A j \in 1 .. (Len(al) + 1) - 1 : al[j].end <= c.start
    <3> TAKE j \in 1 .. (Len(al) + 1) - 1
    <3>1. j \in 1 .. Len(al) /\ j \notin I
      BY <1>6, <1>8
    <3>2. ~(al[j].start >= c.end)
      BY <3>1
    <3> QED BY <1>1, <1>7, <3>1, <3>2
  <2>4. \A j \in Len(al) + 1 .. Len(al) : c.end <= al[j].start
    BY <1>6
  <2>5. Len(al) + 1 \in 1 .. Len(al) + 1
    BY <1>6
  <2> QED BY <2>1, <2>2, <2>3, <2>4, <2>5, PutFacts
<1>9. CASE I # {}
  <2>1. I \subseteq Nat
    OBVIOUS
  <2>2. \E x \in I : \A y \in I : x <= y
    <3> HIDE DEF I
    <3> QED BY <1>9, <2>1, LeastNumber
  <2>3. i \in I /\ \A y \in I : i <= y
    <3> HIDE DEF I
    <3> QED BY <1>5, <1>9, <2>2
  <2>4. i \in 1 .. Len(al) /\ i # 0 /\ i \in 1 .. Len(al) + 1 /\ al[i].start >= c.end
    BY <1>6, <2>3
  <2>5. vmmap_insert(al, c) = InsertAt(al, i, c)
    BY <1>4, <2>4
  <2>6. PutAt(al, i, c, InsertAt(al, i, c))
    BY <1>6, <2>4, InsertPuts
  <2>7. \A j \in 1 .. i - 1 : al[j].end <= c.start
    <3> TAKE j \in 1 .. i - 1
    <3>1. j \in 1 .. Len(al) /\ ~(i <= j)
      BY <1>6, <2>4
    <3>2. j \notin I
      BY <2>3, <3>1
    <3>3. ~(al[j].start >= c.end)
      BY <3>1, <3>2
    <3> QED BY <1>1, <1>7, <3>1, <3>3
  <2>8. \A j \in i .. Len(al) : c.end <= al[j].start
    <3> TAKE j \in i .. Len(al)
    <3>1. j \in 1 .. Len(al) /\ (i = j \/ i < j)
      BY <1>6, <2>4
    <3>2. al[i].start \in Nat /\ al[i].end \in Nat /\ al[j].start \in Nat /\ al[i].start < al[i].end
      BY <1>7, <2>4, <3>1
    <3>3. i < j => al[i].end <= al[j].start
      BY <2>4, <3>1, ListFacts
    <3> QED BY <1>1, <2>4, <3>1, <3>2, <3>3
  <2> HIDE DEF I
  <2> QED BY <2>4, <2>5, <2>6, <2>7, <2>8, PutFacts
<1> QED BY <1>8, <1>9

(***************************************************************************)
(* vmmap_find_range: the lowest and the highest free range.                *)
(***************************************************************************)
First(al) == IF al = <<>> THEN HighPage ELSE al[1].start

(* A free range lies in the gap below some area, or in the last gap. *)
LEMMA GapAbove ==
  ASSUME NEW al, AreaList(al), NEW lo \in Int, NEW hi \in Int, LowPage <= lo, lo < hi,
         Free(Range(al), lo, hi)
  PROVE  \/ \E k \in 1 .. Len(al) : hi <= al[k].start /\ GapLow(al, k) <= lo
         \/ GapLow(al, Len(al) + 1) <= lo
<1> DEFINE K == {k \in 1 .. Len(al) : hi <= al[k].start}
<1>1. \A j \in 1 .. Len(al) : al[j].end <= lo \/ hi <= al[j].start
  BY RangeMembers DEF Free
<1>2. Len(al) \in Nat
  BY ListFacts
<1>3. CASE K = {}
  <2>1. Len(al) + 1 \in 1 .. Len(al) + 1
    BY <1>2
  <2>2. CASE Len(al) + 1 = 1
    BY <2>1, <2>2, GapLowFacts
  <2>3. CASE Len(al) + 1 # 1
    <3>1. (Len(al) + 1) - 1 = Len(al) /\ Len(al) \in 1 .. Len(al)
      BY <1>2, <2>3
    <3>2. GapLow(al, Len(al) + 1) = al[Len(al)].end
      BY <2>1, <2>3, <3>1, GapLowFacts
    <3>3. Len(al) \notin K
      BY <1>3
    <3> QED BY <1>1, <3>1, <3>2, <3>3
  <2> QED BY <2>2, <2>3
<1>4. CASE K # {}
  <2>1. PICK k \in K : \A j \in K : k <= j
    <3>1. K \subseteq Nat
      BY <1>2
    <3> HIDE DEF K
    <3> QED BY <1>4, <3>1, LeastNumber
  <2>2. k \in 1 .. Len(al) /\ k \in 1 .. Len(al) + 1 /\ hi <= al[k].start /\ k \in Nat
    BY <1>2
  <2>3. CASE k = 1
    BY <2>2, <2>3, GapLowFacts
  <2>4. CASE k # 1
    <3>1. k - 1 \in 1 .. Len(al) /\ GapLow(al, k) = al[k - 1].end /\ ~(k <= k - 1)
      BY <2>2, <2>4, GapLowFacts
    <3>2. k - 1 \notin K
      BY <2>1, <3>1
    <3>3. ~(hi <= al[k - 1].start)
      BY <3>1, <3>2
    <3> QED BY <1>1, <2>2, <3>1, <3>3
  <2> QED BY <2>3, <2>4
<1> QED BY <1>3, <1>4

(* The start of the area after a place bounds the gap above that place. *)
LEMMA GapHighFacts ==
  ASSUME NEW al, AreaList(al), NEW i \in 1 .. Len(al)
  PROVE  /\ GapHigh(al, i) \in Nat /\ GapHigh(al, i) <= HighPage /\ al[i].end <= GapHigh(al, i)
         /\ \A j \in 1 .. Len(al) : j > i => GapHigh(al, i) <= al[j].start
         /\ i = Len(al) => GapHigh(al, i) = HighPage
         /\ i # Len(al) => i + 1 \in 1 .. Len(al) /\ GapHigh(al, i) = al[i + 1].start
<1>1. Len(al) \in Nat /\ i \in Nat /\ 1 <= i /\ i <= Len(al) /\ HighPage \in Nat
  BY ListFacts, SpaceFacts
<1>2. CASE i = Len(al)
  <2>1. GapHigh(al, i) = HighPage
    BY <1>2 DEF GapHigh
  <2>2. al[i].end <= HighPage /\ \A j \in 1 .. Len(al) : ~(j > i)
    BY <1>1, <1>2, ListFacts
  <2> QED BY <1>1, <1>2, <2>1, <2>2
<1>3. CASE i # Len(al)
  <2>1. GapHigh(al, i) = al[i + 1].start /\ i + 1 \in 1 .. Len(al) /\ i < i + 1
    BY <1>1, <1>3 DEF GapHigh
  <2>2. al[i].end <= al[i + 1].start /\ al[i + 1].start \in Nat
    BY <2>1, ListFacts
  <2>3. al[i + 1].start <= HighPage
    <3>1. al[i + 1].start < al[i + 1].end /\ al[i + 1].end <= HighPage /\ al[i + 1].end \in Nat
      BY <2>1, ListFacts
    <3> QED BY <1>1, <2>2, <3>1
  <2>4. ASSUME NEW j \in 1 .. Len(al), j > i PROVE al[i + 1].start <= al[j].start
    <3>1. j = i + 1 \/ i + 1 < j
      BY <1>1, <2>4
    <3>2. /\ al[i + 1].start \in Nat /\ al[i + 1].end \in Nat /\ al[j].start \in Nat
          /\ al[i + 1].start < al[i + 1].end
      BY <2>1, ListFacts
    <3>3. i + 1 < j => al[i + 1].end <= al[j].start
      BY <2>1, ListFacts
    <3> QED BY <3>1, <3>2, <3>3
  <2> QED BY <1>3, <2>1, <2>2, <2>3, <2>4
<1> QED BY <1>2, <1>3

(* No area begins before the first. *)
LEMMA FirstFacts ==
  ASSUME NEW al, AreaList(al)
  PROVE  /\ First(al) \in Nat /\ First(al) <= HighPage
         /\ al = <<>> <=> Len(al) = 0
         /\ \A j \in 1 .. Len(al) : First(al) <= al[j].start
         /\ Len(al) # 0 => 1 \in 1 .. Len(al) /\ First(al) = al[1].start
<1>1. al \in Seq(Area) /\ Len(al) \in Nat /\ HighPage \in Nat
  BY ListFacts, SpaceFacts DEF AreaList
<1>2. al = <<>> <=> Len(al) = 0
  BY <1>1
<1>3. CASE al = <<>>
  BY <1>1, <1>2, <1>3 DEF First
<1>4. CASE al # <<>>
  <2>1. 1 \in 1 .. Len(al) /\ First(al) = al[1].start
    BY <1>1, <1>2, <1>4 DEF First
  <2>2. al[1].start \in Nat /\ al[1].end \in Nat /\ al[1].start < al[1].end /\ al[1].end <= HighPage
    BY <2>1, ListFacts
  <2>3. al[1].start <= HighPage
    BY <1>1, <2>2
  <2>4. ASSUME NEW j \in 1 .. Len(al) PROVE al[1].start <= al[j].start
    <3>1. j = 1 \/ 1 < j
      BY <1>1
    <3>2. 1 < j => al[1].end <= al[j].start
      BY <2>1, ListFacts
    <3>3. al[j].start \in Nat
      BY ListFacts
    <3> QED BY <2>2, <3>1, <3>2, <3>3
  <2> QED BY <1>2, <2>1, <2>2, <2>3, <2>4
<1> QED BY <1>3, <1>4

(* Or in the gap above some area, or in the first gap. *)
LEMMA GapBelow ==
  ASSUME NEW al, AreaList(al), NEW lo \in Int, NEW hi \in Int, LowPage <= lo, lo < hi,
         hi <= HighPage, Free(Range(al), lo, hi)
  PROVE  \/ \E k \in 1 .. Len(al) : al[k].end <= lo /\ hi <= GapHigh(al, k)
         \/ hi <= First(al)
<1>1. Len(al) \in Nat
  BY ListFacts
<1>2. CASE \E k \in 1 .. Len(al) : hi <= al[k].start /\ GapLow(al, k) <= lo
  <2>1. PICK k \in 1 .. Len(al) : hi <= al[k].start /\ GapLow(al, k) <= lo
    BY <1>2
  <2>2. CASE k = 1
    BY <1>1, <2>1, <2>2, FirstFacts
  <2>3. CASE k # 1
    <3> DEFINE j == k - 1
    <3>1. k \in 1 .. Len(al) + 1
      BY <1>1
    <3>2. j \in 1 .. Len(al) /\ GapLow(al, k) = al[j].end /\ j # Len(al) /\ j + 1 = k
      BY <1>1, <2>3, <3>1, GapLowFacts
    <3> HIDE DEF j
    <3>3. GapHigh(al, j) = al[k].start
      BY <3>2, GapHighFacts
    <3> QED BY <2>1, <3>2, <3>3
  <2> QED BY <2>2, <2>3
<1>3. CASE GapLow(al, Len(al) + 1) <= lo
  <2>1. CASE Len(al) = 0
    BY <2>1, FirstFacts DEF First
  <2>2. CASE Len(al) # 0
    <3>1. Len(al) \in 1 .. Len(al) /\ Len(al) + 1 # 1 /\ (Len(al) + 1) - 1 = Len(al) /\ Len(al) + 1 \in 1 .. Len(al) + 1
      BY <1>1, <2>2
    <3>2. GapLow(al, Len(al) + 1) = al[Len(al)].end
      BY <3>1, GapLowFacts
    <3>3. GapHigh(al, Len(al)) = HighPage
      BY <3>1, GapHighFacts
    <3> QED BY <1>3, <3>1, <3>2, <3>3
  <2> QED BY <2>1, <2>2
<1> QED BY <1>2, <1>3, GapAbove

(* Where a range of n pages can be put. *)
RoomAt(al, n, lo) ==
  lo \in Int /\ LowPage <= lo /\ lo + n <= HighPage /\ Free(Range(al), lo, lo + n)

(* The search upwards finds the lowest room there is, and -1 only if there
   is none. *)
LEMMA FindLowest ==
  ASSUME NEW al, AreaList(al), NEW n \in Nat, n # 0,
         NEW r, r = vmmap_find_range(al, n, "lohi")
  PROVE  \/ RoomAt(al, n, r) /\ \A lo \in Int : RoomAt(al, n, lo) => r <= lo
         \/ r = -1 /\ \A lo \in Int : ~RoomAt(al, n, lo)
<1> DEFINE up == {i \in 1 .. Len(al) : n <= al[i].start - GapLow(al, i)}
           last == GapLow(al, Len(al) + 1)
           k == CHOOSE i \in up : \A j \in up : i <= j
<1>1. r = IF up # {} THEN GapLow(al, k) ELSE IF HighPage < n + last THEN -1 ELSE last
  BY DEF vmmap_find_range, Fits
<1>2. /\ Len(al) \in Nat /\ HighPage \in Nat /\ LowPage \in Nat /\ Len(al) + 1 \in 1 .. Len(al) + 1
      /\ last \in Nat /\ LowPage <= last
  BY ListFacts, SpaceFacts, GapLowFacts
<1>3. \A lo \in Int : RoomAt(al, n, lo) =>
        (\E i \in up : GapLow(al, i) <= lo) \/ (last <= lo)
  <2> SUFFICES ASSUME NEW lo \in Int, RoomAt(al, n, lo)
               PROVE  (\E i \in up : GapLow(al, i) <= lo) \/ last <= lo
    OBVIOUS
  <2>1. LowPage <= lo /\ lo < lo + n /\ Free(Range(al), lo, lo + n) /\ lo + n \in Int
    BY DEF RoomAt
  <2>2. CASE \E i \in 1 .. Len(al) : lo + n <= al[i].start /\ GapLow(al, i) <= lo
    <3>1. PICK i \in 1 .. Len(al) : lo + n <= al[i].start /\ GapLow(al, i) <= lo
      BY <2>2
    <3>2. al[i].start \in Nat /\ GapLow(al, i) \in Nat
      <4>1. i \in 1 .. Len(al) + 1
        BY <1>2
      <4> QED BY <4>1, ListFacts, GapLowFacts
    <3>3. n <= al[i].start - GapLow(al, i)
      BY <3>1, <3>2
    <3> QED BY <3>1, <3>3
  <2>3. CASE last <= lo
    BY <2>3
  <2> QED BY <2>1, <2>2, <2>3, GapAbove
<1>4. CASE up # {}
  <2>1. \E i \in up : \A j \in up : i <= j
    <3>1. up \subseteq Nat
      BY <1>2
    <3> HIDE DEF up
    <3> QED BY <1>4, <3>1, LeastNumber
  <2>2. k \in up /\ \A j \in up : k <= j
    <3> HIDE DEF up
    <3> QED BY <2>1
  <2> HIDE DEF k
  <2>3. k \in 1 .. Len(al) /\ k \in 1 .. Len(al) + 1 /\ n <= al[k].start - GapLow(al, k)
    BY <1>2, <2>2
  <2>4. r = GapLow(al, k) /\ r \in Nat /\ LowPage <= r /\ al[k].start \in Nat /\ r + n <= al[k].start
    BY <1>1, <1>4, <2>3, GapLowFacts, ListFacts DEF k
  <2>5. al[k].start < al[k].end /\ al[k].end <= HighPage /\ al[k].end \in Nat
    BY <2>3, ListFacts
  <2>6. \A j \in 1 .. Len(al) : al[j].end <= r \/ r + n <= al[j].start
    <3> TAKE j \in 1 .. Len(al)
    <3>1. CASE j < k
      <4>1. j \in 1 .. k - 1
        BY <1>2, <2>3, <3>1
      <4> QED BY <2>3, <2>4, <4>1, GapLowFacts
    <3>2. CASE j = k
      BY <2>4, <3>2
    <3>3. CASE k < j
      <4>1. al[k].end <= al[j].start /\ al[j].start \in Nat
        BY <2>3, <3>3, ListFacts
      <4> QED BY <2>4, <2>5, <4>1
    <3> QED BY <1>2, <2>3, <3>1, <3>2, <3>3
  <2>7. RoomAt(al, n, r)
    <3>1. Free(Range(al), r, r + n)
      BY <2>6, RangeMembers DEF Free
    <3> QED BY <1>2, <2>4, <2>5, <3>1 DEF RoomAt
  <2>8. ASSUME NEW lo \in Int, RoomAt(al, n, lo) PROVE r <= lo
    <3>1. CASE \E i \in up : GapLow(al, i) <= lo
      <4>1. PICK i \in up : GapLow(al, i) <= lo
        BY <3>1
      <4>2. k <= i /\ i \in 1 .. Len(al) /\ i \in 1 .. Len(al) + 1 /\ k \in Nat /\ i \in Nat
        BY <1>2, <2>2, <2>3
      <4>3. GapLow(al, k) <= GapLow(al, i)
        <5>1. CASE k = i
          BY <2>3, <5>1, GapLowFacts, <2>4
        <5>2. CASE k < i
          <6>1. k \in 1 .. i - 1
            BY <2>3, <4>2, <5>2
          <6>2. al[k].end <= GapLow(al, i) /\ GapLow(al, i) \in Nat
            BY <4>2, <6>1, GapLowFacts
          <6> QED BY <2>4, <2>5, <6>2
        <5> QED BY <4>2, <5>1, <5>2
      <4>4. GapLow(al, i) \in Nat
        BY <4>2, GapLowFacts
      <4> QED BY <2>4, <4>1, <4>3, <4>4
    <3>2. CASE last <= lo
      <4>1. k \in 1 .. (Len(al) + 1) - 1
        BY <1>2, <2>3
      <4>2. al[k].end <= last
        BY <1>2, <4>1, GapLowFacts
      <4> QED BY <1>2, <2>4, <2>5, <3>2, <4>2
    <3> QED BY <1>3, <2>8, <3>1, <3>2
  <2> QED BY <2>7, <2>8
<1>5. CASE up = {}
  <2>1. r = IF HighPage < n + last THEN -1 ELSE last
    BY <1>1, <1>5
  <2>2. \A lo \in Int : RoomAt(al, n, lo) => last <= lo /\ lo + n <= HighPage
    BY <1>3, <1>5 DEF RoomAt
  <2>3. CASE HighPage < n + last
    <3>1. ASSUME NEW lo \in Int, RoomAt(al, n, lo) PROVE FALSE
      <4>1. last <= lo /\ lo + n <= HighPage
        BY <2>2, <3>1
      <4> HIDE DEF last
      <4> QED BY ONLY <1>2, <2>3, <4>1, n \in Nat, lo \in Int
    <3> QED BY <2>1, <2>3, <3>1
  <2>4. CASE ~(HighPage < n + last)
    <3>1. r = last /\ last + n <= HighPage
      BY <1>2, <2>1, <2>4
    <3>2. \A j \in 1 .. Len(al) : al[j].end <= last
      <4> TAKE j \in 1 .. Len(al)
      <4>1. j \in 1 .. (Len(al) + 1) - 1
        BY <1>2
      <4> QED BY <1>2, <4>1, GapLowFacts
    <3>3. RoomAt(al, n, last)
      BY <1>2, <3>1, <3>2, RangeMembers DEF RoomAt, Free
    <3> QED BY <2>2, <3>1, <3>3
  <2> QED BY <2>3, <2>4
<1> QED BY <1>4, <1>5

(* A finite set of indices that is not empty has a greatest member. *)
LEMMA GreatestIndex ==
  ASSUME NEW n \in Nat, NEW I, I \subseteq 1 .. n, I # {}
  PROVE  \E i \in I : \A j \in I : j <= i
<1> DEFINE T == {n - i : i \in I}
<1>1. \A i \in I : n - i \in Nat /\ i \in Int
  OBVIOUS
<1>2. T \subseteq Nat /\ T # {}
  BY <1>1
<1>3. PICK x \in T : \A y \in T : x <= y
  <2> HIDE DEF T
  <2> QED BY <1>2, LeastNumber
<1>4. PICK i \in I : x = n - i
  OBVIOUS
<1>5. ASSUME NEW j \in I PROVE j <= i
  <2>1. n - j \in T
    OBVIOUS
  <2>2. n - i <= n - j
    BY <1>3, <1>4, <2>1
  <2> QED BY <1>1, <2>2
<1> QED BY <1>5

(* The search downwards finds the highest room there is, and a negative
   number only if there is none. *)
LEMMA FindHighest ==
  ASSUME NEW al, AreaList(al), NEW n \in Nat, n # 0,
         NEW r, r = vmmap_find_range(al, n, "hilo")
  PROVE  \/ RoomAt(al, n, r) /\ \A lo \in Int : RoomAt(al, n, lo) => lo <= r
         \/ r = -1 /\ \A lo \in Int : ~RoomAt(al, n, lo)
<1> DEFINE down == {i \in 1 .. Len(al) : n <= GapHigh(al, i) - al[i].end}
           first == First(al)
           k == CHOOSE i \in down : \A j \in down : j <= i
<1>1. r = IF down # {} THEN GapHigh(al, k) - n ELSE IF LowPage > first - n THEN -1 ELSE first - n
  BY DEF vmmap_find_range, Fits, First
<1>2. /\ Len(al) \in Nat /\ HighPage \in Nat /\ LowPage \in Nat
      /\ first \in Nat /\ first <= HighPage
  BY ListFacts, SpaceFacts, FirstFacts
<1>3. \A lo \in Int : RoomAt(al, n, lo) =>
        (\E i \in down : lo + n <= GapHigh(al, i)) \/ (lo + n <= first)
  <2> SUFFICES ASSUME NEW lo \in Int, RoomAt(al, n, lo)
               PROVE  (\E i \in down : lo + n <= GapHigh(al, i)) \/ lo + n <= first
    OBVIOUS
  <2>1. LowPage <= lo /\ lo < lo + n /\ Free(Range(al), lo, lo + n) /\ lo + n \in Int /\ lo + n <= HighPage
    BY DEF RoomAt
  <2>2. CASE \E i \in 1 .. Len(al) : al[i].end <= lo /\ lo + n <= GapHigh(al, i)
    <3>1. PICK i \in 1 .. Len(al) : al[i].end <= lo /\ lo + n <= GapHigh(al, i)
      BY <2>2
    <3>2. al[i].end \in Nat /\ GapHigh(al, i) \in Nat
      BY ListFacts, GapHighFacts
    <3>3. n <= GapHigh(al, i) - al[i].end
      BY <3>1, <3>2
    <3> QED BY <3>1, <3>3
  <2>3. CASE lo + n <= first
    BY <2>3
  <2> QED BY <2>1, <2>2, <2>3, GapBelow
<1>4. CASE down # {}
  <2>1. \E i \in down : \A j \in down : j <= i
    <3>1. down \subseteq 1 .. Len(al)
      BY <1>2
    <3> HIDE DEF down
    <3> QED BY <1>2, <1>4, <3>1, GreatestIndex
  <2>2. k \in down /\ \A j \in down : j <= k
    <3> HIDE DEF down
    <3> QED BY <2>1
  <2> HIDE DEF k
  <2>3. k \in 1 .. Len(al) /\ n <= GapHigh(al, k) - al[k].end
    BY <1>2, <2>2
  <2>4. /\ r = GapHigh(al, k) - n /\ GapHigh(al, k) \in Nat /\ GapHigh(al, k) <= HighPage
        /\ al[k].end \in Nat /\ al[k].start \in Nat /\ LowPage <= al[k].start /\ al[k].start < al[k].end
    BY <1>1, <1>4, <2>3, GapHighFacts, ListFacts DEF k
  <2>5. r \in Int /\ r + n = GapHigh(al, k) /\ al[k].end <= r /\ LowPage <= r
    <3>1. PICK g, e, s : g = GapHigh(al, k) /\ e = al[k].end /\ s = al[k].start
      OBVIOUS
    <3>2. /\ g \in Nat /\ e \in Nat /\ s \in Nat /\ n \in Nat /\ LowPage \in Nat
          /\ r = g - n /\ n <= g - e /\ LowPage <= s /\ s < e
      BY <1>2, <2>3, <2>4, <3>1, SpaceFacts
    <3>3. r \in Int /\ r + n = g /\ e <= r /\ LowPage <= r
      BY ONLY <3>2
    <3> QED BY <3>1, <3>3
  <2>6. \A j \in 1 .. Len(al) : al[j].end <= r \/ r + n <= al[j].start
    <3> TAKE j \in 1 .. Len(al)
    <3>1. CASE j < k
      <4>1. al[j].end <= al[k].start /\ al[j].end \in Nat
        BY <2>3, <3>1, ListFacts
      <4> QED BY <2>4, <2>5, <4>1
    <3>2. CASE j = k
      BY <2>5, <3>2
    <3>3. CASE k < j
      BY <2>3, <2>5, <3>3, GapHighFacts
    <3> QED BY <1>2, <2>3, <3>1, <3>2, <3>3
  <2>7. RoomAt(al, n, r)
    <3>1. Free(Range(al), r, r + n)
      BY <2>6, RangeMembers DEF Free
    <3> QED BY <2>4, <2>5, <3>1 DEF RoomAt
  <2>8. ASSUME NEW lo \in Int, RoomAt(al, n, lo) PROVE lo <= r
    <3>1. CASE \E i \in down : lo + n <= GapHigh(al, i)
      <4>1. PICK i \in down : lo + n <= GapHigh(al, i)
        BY <3>1
      <4>2. i <= k /\ i \in 1 .. Len(al) /\ k \in Nat /\ i \in Nat
        BY <1>2, <2>2, <2>3
      <4>3. GapHigh(al, i) <= GapHigh(al, k)
        <5>1. CASE k = i
          BY <2>4, <5>1
        <5>2. CASE i < k
          <6>1. GapHigh(al, i) <= al[k].start /\ GapHigh(al, i) \in Nat
            BY <2>3, <4>2, <5>2, GapHighFacts
          <6>2. al[k].end <= GapHigh(al, k)
            BY <2>3, GapHighFacts
          <6> QED BY <2>4, <6>1, <6>2
        <5> QED BY <4>2, <5>1, <5>2
      <4>4. GapHigh(al, i) \in Nat
        BY <4>2, GapHighFacts
      <4> QED BY <2>4, <2>5, <4>1, <4>3, <4>4
    <3>2. CASE lo + n <= first
      <4>1. first <= al[k].start
        BY <2>3, FirstFacts
      <4> HIDE DEF first
      <4> QED BY <1>2, <2>4, <2>5, <3>2, <4>1
    <3> QED BY <1>3, <2>8, <3>1, <3>2
  <2> QED BY <2>7, <2>8
<1>5. CASE down = {}
  <2>1. r = IF LowPage > first - n THEN -1 ELSE first - n
    BY <1>1, <1>5
  <2>2. \A lo \in Int : RoomAt(al, n, lo) => lo + n <= first /\ LowPage <= lo
    BY <1>3, <1>5 DEF RoomAt
  <2>3. CASE LowPage > first - n
    <3>1. ASSUME NEW lo \in Int, RoomAt(al, n, lo) PROVE FALSE
      <4>1. lo + n <= first /\ LowPage <= lo
        BY <2>2, <3>1
      <4> HIDE DEF first
      <4> QED BY ONLY <1>2, <2>3, <4>1, n \in Nat, lo \in Int
    <3> QED BY <2>1, <2>3, <3>1
  <2>4. CASE ~(LowPage > first - n)
    <3>1. r = first - n /\ LowPage <= r /\ r \in Int /\ r + n = first
      BY <1>2, <2>1, <2>4
    <3>2. \A j \in 1 .. Len(al) : first <= al[j].start
      BY FirstFacts
    <3>3. RoomAt(al, n, r)
      BY <1>2, <3>1, <3>2, RangeMembers DEF RoomAt, Free
    <3>4. ASSUME NEW lo \in Int, RoomAt(al, n, lo) PROVE lo <= r
      <4>1. lo + n <= first
        BY <2>2, <3>4
      <4> HIDE DEF first
      <4> QED BY ONLY <1>2, <3>1, <4>1, n \in Nat, lo \in Int
    <3> QED BY <3>3, <3>4
  <2> QED BY <2>3, <2>4
<1> QED BY <1>4, <1>5

(* A range is free exactly when vmmap_lookup finds no area at its pages. *)
LEMMA UnmappedIsFree ==
  ASSUME AreaList(areas), NEW lo \in Int, NEW n \in Nat, n # 0
  PROVE  Unmapped(lo, n) <=> Free(Range(areas), lo, lo + n)
<1>1. ASSUME Free(Range(areas), lo, lo + n), NEW p \in lo .. lo + n - 1
      PROVE  vmmap_lookup(areas, p) = 0
  <2> DEFINE i == vmmap_lookup(areas, p)
  <2>1. i \in 0 .. Len(areas) /\ (i # 0 => Covers(areas[i], p))
    BY LookupCorrect DEF LookupFacts
  <2> HIDE DEF i
  <2>2. ASSUME i # 0 PROVE FALSE
    <3>1. i \in 1 .. Len(areas) /\ areas[i].start <= p /\ p < areas[i].end
      BY <2>1, <2>2, ListFacts DEF Covers
    <3>2. areas[i].end <= lo \/ lo + n <= areas[i].start
      BY <1>1, <3>1, RangeMembers DEF Free
    <3>3. areas[i].start \in Nat /\ areas[i].end \in Nat
      BY <3>1, ListFacts
    <3> QED BY <3>1, <3>2, <3>3
  <2> QED BY <2>2 DEF i
<1>2. ASSUME Unmapped(lo, n), NEW a \in Range(areas) PROVE a.end <= lo \/ lo + n <= a.start
  <2>1. PICK j \in 1 .. Len(areas) : a = areas[j]
    BY RangeMembers
  <2>2. a.start \in Nat /\ a.end \in Nat /\ a.start < a.end
    BY <2>1, ListFacts
  <2> SUFFICES ASSUME lo < a.end, a.start < lo + n PROVE FALSE
    BY <2>2
  <2> DEFINE p == IF a.start <= lo THEN lo ELSE a.start
  <2>3. p \in lo .. lo + n - 1 /\ Covers(a, p) /\ p \in Int
    BY <2>2 DEF Covers
  <2> HIDE DEF p
  <2>4. vmmap_lookup(areas, p) = j
    BY <2>1, <2>3, LookupCorrect DEF LookupFacts
  <2>5. vmmap_lookup(areas, p) = 0
    BY <1>2, <2>3 DEF Unmapped
  <2> QED BY <2>1, <2>4, <2>5
<1> QED BY <1>1, <1>2 DEF Unmapped, Free

(* ScansExact holds of every ordered list. *)
LEMMA ListScans ==
  ASSUME AreaList(areas)
  PROVE  ScansExact
<1> SUFFICES ASSUME NEW n \in 1 .. HighPage - LowPage
             PROVE  /\ \A lo \in LowPage .. HighPage - n :
                         vmmap_is_range_empty(areas, lo, lo + n) <=> Unmapped(lo, n)
                    /\ LET up == vmmap_find_range(areas, n, "lohi")
                           down == vmmap_find_range(areas, n, "hilo")
                       IN IF FreeStarts(n) = {} THEN up < 0 /\ down < 0
                          ELSE /\ up \in FreeStarts(n) /\ \A lo \in FreeStarts(n) : up <= lo
                               /\ down \in FreeStarts(n) /\ \A lo \in FreeStarts(n) : down >= lo
  BY DEF ScansExact
<1> DEFINE up == vmmap_find_range(areas, n, "lohi")
           down == vmmap_find_range(areas, n, "hilo")
<1>1. n \in Nat /\ n # 0 /\ HighPage \in Nat /\ LowPage \in Nat
  BY SpaceFacts
<1>2. ASSUME NEW lo \in LowPage .. HighPage - n
      PROVE  vmmap_is_range_empty(areas, lo, lo + n) <=> Unmapped(lo, n)
  <2>1. lo \in Int /\ lo + n \in Int /\ LowPage <= lo /\ lo < lo + n
    BY <1>1
  <2> QED BY <1>1, <2>1, RangeEmptyExact, UnmappedIsFree
<1>3. \A lo \in Int : lo \in FreeStarts(n) <=> RoomAt(areas, n, lo)
  <2> TAKE lo \in Int
  <2>1. lo \in FreeStarts(n) <=> LowPage <= lo /\ lo <= HighPage - 1 /\ lo + n <= HighPage /\ Unmapped(lo, n)
    BY <1>1 DEF FreeStarts, UserPages
  <2>2. lo + n <= HighPage => lo <= HighPage - 1
    BY <1>1
  <2> QED BY <1>1, <2>1, <2>2, UnmappedIsFree DEF RoomAt
<1>4. FreeStarts(n) \subseteq Int
  BY <1>1 DEF FreeStarts, UserPages
<1>5. \/ RoomAt(areas, n, up) /\ \A lo \in Int : RoomAt(areas, n, lo) => up <= lo
      \/ up = -1 /\ \A lo \in Int : ~RoomAt(areas, n, lo)
  BY <1>1, FindLowest
<1>6. \/ RoomAt(areas, n, down) /\ \A lo \in Int : RoomAt(areas, n, lo) => lo <= down
      \/ down = -1 /\ \A lo \in Int : ~RoomAt(areas, n, lo)
  BY <1>1, FindHighest
<1>7. RoomAt(areas, n, up) => up \in Int
  BY DEF RoomAt
<1>8. RoomAt(areas, n, down) => down \in Int
  BY DEF RoomAt
<1> HIDE DEF up, down
<1>9. CASE FreeStarts(n) = {}
  <2>1. up = -1 /\ down = -1
    BY <1>3, <1>5, <1>6, <1>7, <1>8, <1>9
  <2> QED BY <1>2, <1>9, <2>1 DEF up, down
<1>10. CASE FreeStarts(n) # {}
  <2>1. PICK lo \in Int : RoomAt(areas, n, lo)
    BY <1>3, <1>4, <1>10
  <2>2. /\ up \in FreeStarts(n) /\ \A l \in FreeStarts(n) : up <= l
        /\ down \in FreeStarts(n) /\ \A l \in FreeStarts(n) : l <= down
    BY <1>3, <1>4, <1>5, <1>6, <1>7, <1>8, <2>1
  <2>3. \A l \in FreeStarts(n) : down >= l
    BY <1>4, <2>2
  <2> QED BY <1>2, <1>10, <2>2, <2>3 DEF up, down
<1> QED BY <1>9, <1>10

----------------------------------------------------------------------------
(***************************************************************************)
(* Sets of areas: what is left of an area, and how many show an object.    *)
(***************************************************************************)

(* c is a part of a: it shows the same pages of the same object. *)
Piece(c, a) ==
  /\ c \in Area /\ c.start < c.end
  /\ a.start <= c.start /\ c.end <= a.end
  /\ c.obj = a.obj /\ c.prot = a.prot
  /\ c.off - c.start = a.off - a.start

(* A piece of an area shows what the area shows. *)
LEMMA PieceShows ==
  ASSUME NEW a \in Area, NEW c, Piece(c, a), NEW p \in Int, Covers(c, p)
  PROVE  Covers(a, p) /\ PageIn(c, p) = PageIn(a, p)
<1>1. /\ a.start \in Nat /\ a.end \in Nat /\ a.off \in Nat
      /\ c.start \in Nat /\ c.end \in Nat /\ c.off \in Nat
      /\ a.start <= c.start /\ c.end <= a.end /\ c.off - c.start = a.off - a.start
      /\ c.start <= p /\ p < c.end
      /\ c.obj = a.obj /\ c.prot = a.prot
  BY AreaFacts DEF Piece, Covers
<1>2. c.off + p - c.start = a.off + p - a.start
  <2>1. \A w, x, y, z, q \in Int : w - x = y - z => w + q - x = y + q - z
    OBVIOUS
  <2>2. PICK w, x, y, z : w = c.off /\ x = c.start /\ y = a.off /\ z = a.start
    OBVIOUS
  <2>3. w \in Int /\ x \in Int /\ y \in Int /\ z \in Int /\ w - x = y - z
    BY <1>1, <2>2
  <2>4. w + p - x = y + p - z
    BY ONLY <2>1, <2>3, p \in Int
  <2> QED BY <2>2, <2>4
<1>3. a.start <= p /\ p < a.end
  BY ONLY <1>1, p \in Int
<1> QED BY <1>1, <1>2, <1>3 DEF Covers, PageIn

(* A piece of a piece is a piece. *)
LEMMA PieceOfPiece ==
  ASSUME NEW a \in Area, NEW b, Piece(b, a), NEW c, Piece(c, b)
  PROVE  Piece(c, a)
<1>1. /\ a.start \in Nat /\ a.end \in Nat /\ a.off \in Nat
      /\ b.start \in Nat /\ b.end \in Nat /\ b.off \in Nat
      /\ c.start \in Nat /\ c.end \in Nat /\ c.off \in Nat
  BY AreaFacts DEF Piece
<1> QED BY <1>1 DEF Piece

(* An area is a piece of itself. *)
LEMMA WholePiece ==
  ASSUME NEW a \in Area, a.start < a.end
  PROVE  Piece(a, a)
BY AreaFacts DEF Piece

(* What is left of an area when its end is cut. *)
LEMMA LowerPiece ==
  ASSUME NEW a \in Area, NEW lo \in Int, a.start < lo, lo <= a.end,
         NEW c, c = [a EXCEPT !.end = lo]
  PROVE  Piece(c, a) /\ c.start = a.start /\ c.end = lo
<1>1. /\ a.start \in Nat /\ a.end \in Nat /\ a.off \in Nat /\ LowPage \in Nat /\ HighPage \in Nat
      /\ LowPage <= a.start /\ a.end <= HighPage
  BY AreaFacts, SpaceFacts
<1>2. lo \in LowPage + 1 .. HighPage
  BY <1>1
<1>3. c \in Area
  BY <1>2 DEF Area
<1>4. /\ c.start = a.start /\ c.end = lo /\ c.obj = a.obj /\ c.prot = a.prot /\ c.off = a.off
  BY DEF Area
<1> QED BY <1>1, <1>3, <1>4 DEF Piece

(* The part of a from hi on. *)
Upper(a, hi) == [a EXCEPT !.start = hi, !.off = @ + hi - a.start]

(* What is left of an area when its start is cut, vma_off moved along. *)
LEMMA UpperPiece ==
  ASSUME NEW a \in Area, NEW hi \in Int, a.start <= hi, hi < a.end,
         NEW c, c = Upper(a, hi)
  PROVE  Piece(c, a) /\ c.start = hi /\ c.end = a.end
<1>1. /\ a.start \in Nat /\ a.end \in Nat /\ a.off \in Nat /\ LowPage \in Nat /\ HighPage \in Nat
      /\ LowPage <= a.start /\ a.end <= HighPage
  BY AreaFacts, SpaceFacts
<1>2. hi \in UserPages /\ a.off + hi - a.start \in Nat
  BY <1>1 DEF UserPages
<1>3. c \in Area
  BY <1>2 DEF Area, Upper
<1>4. /\ c.start = hi /\ c.end = a.end /\ c.obj = a.obj /\ c.prot = a.prot
      /\ c.off = a.off + hi - a.start
  BY DEF Area, Upper
<1>5. c.off - c.start = a.off - a.start
  BY <1>1, <1>4
<1> QED BY <1>1, <1>3, <1>4, <1>5 DEF Piece

(* Pieces of one member are apart from every other member. *)
LEMMA PieceApart ==
  ASSUME NEW M, AreaSet(M), NEW a \in M, NEW b \in M, a # b, NEW c, Piece(c, a)
  PROVE  Apart(c, b) /\ Apart(b, c) /\ c # b
<1>1. /\ a.start \in Nat /\ a.end \in Nat /\ b.start \in Nat /\ b.end \in Nat /\ b.start < b.end
      /\ c.start \in Nat /\ c.end \in Nat
      /\ a.start <= c.start /\ c.end <= a.end /\ c.start < c.end
  BY AreaFacts DEF AreaSet, Piece
<1>2. a.end <= b.start \/ b.end <= a.start
  BY DEF AreaSet, Apart
<1>3. c.end <= b.start \/ b.end <= c.start
  BY <1>1, <1>2
<1> QED BY <1>1, <1>3 DEF Apart

(* A member replaced by pieces of it that are apart. *)
LEMMA ReplaceMember ==
  ASSUME NEW M, AreaSet(M), NEW a \in M, NEW P, \A c \in P : Piece(c, a),
         \A c, d \in P : c = d \/ Apart(c, d)
  PROVE  AreaSet((M \ {a}) \cup P) /\ \A c \in P : c \notin M \ {a}
<1>1. \A c \in P, b \in M \ {a} : Apart(c, b) /\ Apart(b, c) /\ c # b
  BY PieceApart
<1>2. \A c \in P : c \in Area /\ c.start < c.end
  BY DEF Piece
<1>3. AreaSet((M \ {a}) \cup P)
  BY <1>1, <1>2 DEF AreaSet
<1> QED BY <1>1, <1>3

(* One area more is counted for its object and for no other. *)
LEMMA CountAdd ==
  ASSUME NEW M, IsFiniteSet(M), NEW c, c \notin M
  PROVE  /\ IsFiniteSet(M \cup {c})
         /\ \A o : /\ CountOf(M, o) \in Nat
                   /\ CountOf(M \cup {c}, o) = CountOf(M, o) + (IF c.obj = o THEN 1 ELSE 0)
<1>1. IsFiniteSet(M \cup {c})
  BY FS_AddElement
<1>2. ASSUME NEW o
      PROVE  /\ CountOf(M, o) \in Nat
             /\ CountOf(M \cup {c}, o) = CountOf(M, o) + (IF c.obj = o THEN 1 ELSE 0)
  <2> DEFINE S == {x \in M : x.obj = o}
  <2>1. IsFiniteSet(S) /\ Cardinality(S) \in Nat
    BY FS_Subset, FS_CardinalityType
  <2>2. CASE c.obj = o
    <3>1. {x \in M \cup {c} : x.obj = o} = S \cup {c} /\ c \notin S
      BY <2>2
    <3>2. Cardinality(S \cup {c}) = Cardinality(S) + 1
      BY <2>1, <3>1, FS_AddElement
    <3> QED BY <2>1, <2>2, <3>1, <3>2 DEF CountOf
  <2>3. CASE c.obj # o
    <3>1. {x \in M \cup {c} : x.obj = o} = S
      BY <2>3
    <3>2. CountOf(M, o) = Cardinality(S) /\ CountOf(M \cup {c}, o) = Cardinality(S)
      BY <3>1 DEF CountOf
    <3> HIDE DEF S
    <3> QED BY <2>1, <2>3, <3>2
  <2> QED BY <2>2, <2>3
<1> QED BY <1>1, <1>2

(* One area less is counted for its object and for no other. *)
LEMMA CountDrop ==
  ASSUME NEW M, IsFiniteSet(M), NEW a \in M
  PROVE  /\ IsFiniteSet(M \ {a})
         /\ \A o : /\ CountOf(M \ {a}, o) \in Nat
                   /\ CountOf(M, o) = CountOf(M \ {a}, o) + (IF a.obj = o THEN 1 ELSE 0)
<1>1. IsFiniteSet(M \ {a}) /\ a \notin M \ {a} /\ (M \ {a}) \cup {a} = M
  BY FS_RemoveElement
<1> QED BY <1>1, CountAdd

(* Counting indices and counting areas is the same in a list. *)
LEMMA CountByIndex ==
  ASSUME NEW al, AreaList(al)
  PROVE  /\ IsFiniteSet(Range(al))
         /\ \A o : CountOf(Range(al), o) = Cardinality({i \in 1 .. Len(al) : al[i].obj = o})
<1>1. Len(al) \in Nat /\ IsFiniteSet(1 .. Len(al))
  <2>1. Len(al) \in Nat
    BY ListFacts
  <2> QED BY <2>1, FS_Interval
<1>2. \A i, j \in 1 .. Len(al) : al[i] = al[j] => i = j
  <2> SUFFICES ASSUME NEW i \in 1 .. Len(al), NEW j \in 1 .. Len(al), al[i] = al[j], i # j
               PROVE  FALSE
    OBVIOUS
  <2>1. i < j \/ j < i
    BY <1>1
  <2>2. al[i].end <= al[i].start
    BY <2>1, ListFacts
  <2>3. al[i].start < al[i].end /\ al[i].start \in Nat /\ al[i].end \in Nat
    BY ListFacts
  <2> QED BY <2>2, <2>3
<1>3. ASSUME NEW o, NEW I, I \subseteq 1 .. Len(al), NEW S, S = {al[i] : i \in I}
      PROVE  IsFiniteSet(S) /\ Cardinality(S) = Cardinality(I)
  <2> DEFINE f == [i \in I |-> al[i]]
  <2>1. f \in Bijection(I, S)
    <3>1. f \in [I -> S]
      BY <1>3
    <3>2. f \in Injection(I, S)
      BY <1>2, <1>3, <3>1 DEF Injection, IsInjective
    <3>3. f \in Surjection(I, S)
      BY <1>3, <3>1 DEF Surjection
    <3> QED BY <3>2, <3>3 DEF Bijection
  <2>2. IsFiniteSet(I)
    BY <1>1, <1>3, FS_Subset
  <2> QED BY <2>1, <2>2, FS_Bijection DEF ExistsBijection
<1>4. Range(al) = {al[i] : i \in 1 .. Len(al)}
  BY ListFacts DEF Range
<1>5. IsFiniteSet(Range(al))
  BY <1>3, <1>4
<1>6. ASSUME NEW o
      PROVE  CountOf(Range(al), o) = Cardinality({i \in 1 .. Len(al) : al[i].obj = o})
  <2> DEFINE I == {i \in 1 .. Len(al) : al[i].obj = o}
  <2>1. {a \in Range(al) : a.obj = o} = {al[i] : i \in I}
    BY <1>4
  <2>2. I \subseteq 1 .. Len(al)
    OBVIOUS
  <2> HIDE DEF I
  <2>3. Cardinality({al[i] : i \in I}) = Cardinality(I)
    BY <1>3, <2>2
  <2> QED BY <2>1, <2>3 DEF CountOf, I
<1> QED BY <1>5, <1>6

----------------------------------------------------------------------------
(***************************************************************************)
(* One turn of vmmap_remove's loop: the area keeps a piece, goes, or is    *)
(* split.                                                                  *)
(***************************************************************************)
LoopState == [list : Seq(Area), refs : [Objs \cup {Junk} -> Nat], split : Seq(Area),
              unmapped : SUBSET Int, done : BOOLEAN]

(* A record with the fields of the loop state. *)
Shaped(t) == t = [list |-> t.list, refs |-> t.refs, split |-> t.split,
                  unmapped |-> t.unmapped, done |-> t.done]

(* Page p is in the range lo .. hi - 1. *)
Inside(lo, hi, p) == lo <= p /\ p < hi

(* The pages of an area in the range. *)
CutPages(a, lo, hi) == {p \in Int : Covers(a, p) /\ Inside(lo, hi, p)}

(* A turn from s to t that appends the piece c of a. *)
Keeps(s, t, a, lo, hi, c) ==
  /\ Piece(c, a) /\ (c.end <= lo \/ hi <= c.start)
  /\ t.list = Append(s.list, c) /\ t.split = s.split /\ t.refs = s.refs
  /\ t.unmapped = s.unmapped \cup CutPages(a, lo, hi)
  /\ \A p \in Int : Covers(a, p) /\ ~Inside(lo, hi, p) => Covers(c, p)
  /\ t.done \in BOOLEAN /\ (t.done => s.done \/ hi <= a.end) /\ (s.done => t.done)

(* A turn that appends nothing and drops a reference. *)
Drops(s, t, a, lo, hi) ==
  /\ a.obj # Junk /\ lo <= a.start /\ a.end <= hi
  /\ t.list = s.list /\ t.split = s.split
  /\ t.refs = [s.refs EXCEPT ![a.obj] = @ - 1]
  /\ t.unmapped = s.unmapped \cup CutPages(a, lo, hi)
  /\ t.done = s.done

(* A turn that appends the piece c, sets the piece d aside and takes a
   reference. *)
Splits(s, t, a, lo, hi, c, d) ==
  /\ ~s.done /\ a.obj # Junk
  /\ Piece(c, a) /\ c.start = a.start /\ c.end = lo
  /\ Piece(d, a) /\ d.start = hi /\ d.end = a.end
  /\ t.list = Append(s.list, c) /\ t.split = <<d>>
  /\ t.refs = [s.refs EXCEPT ![a.obj] = @ + 1]
  /\ t.unmapped = s.unmapped \cup CutPages(a, lo, hi)
  /\ t.done = TRUE

(* An area with no object that the removal would drop or split. *)
JunkHit(a, lo, hi) ==
  /\ a.obj = Junk
  /\ lo < a.end /\ hi > a.start
  /\ \/ hi >= a.end /\ lo <= a.start
     \/ hi < a.end /\ lo > a.start

(* An area out of reach of the range, or after the loop has returned, is
   appended as it is. *)
LEMMA TurnKeeps ==
  ASSUME NEW s \in LoopState, NEW a \in Area, a.start < a.end,
         NEW lo \in Int, NEW hi \in Int, lo <= hi,
         s.done => hi <= a.start, NEW t, t = [s EXCEPT !.list = Append(@, a)],
         s.done \/ a.end <= lo \/ hi <= a.start
  PROVE  Shaped(t) /\ Keeps(s, t, a, lo, hi, a)
<1>1. a.start \in Nat /\ a.end \in Nat
  BY AreaFacts
<1>2. Piece(a, a)
  BY WholePiece
<1>3. /\ t.list = Append(s.list, a) /\ t.split = s.split /\ t.refs = s.refs
      /\ t.unmapped = s.unmapped /\ t.done = s.done /\ Shaped(t)
  BY DEF LoopState, Shaped
<1>4. a.end <= lo \/ hi <= a.start
  OBVIOUS
<1>5. CutPages(a, lo, hi) = {}
  BY <1>1, <1>4 DEF CutPages, Covers, Inside
<1>6. s.done \in BOOLEAN
  BY DEF LoopState
<1> QED BY <1>2, <1>3, <1>4, <1>5, <1>6 DEF Keeps

(* An area that the range overlaps from the right loses its end. *)
LEMMA TurnCutsEnd ==
  ASSUME NEW s \in LoopState, NEW a \in Area, a.start < a.end,
         NEW lo \in Int, NEW hi \in Int, lo <= hi,
         hi >= a.end, lo < a.end, lo > a.start, NEW t, t = CutEnd(s, a, lo)
  PROVE  Shaped(t) /\ \E c : Keeps(s, t, a, lo, hi, c)
<1>1. a.start \in Nat /\ a.end \in Nat
  BY AreaFacts
<1>2. PICK c : c = [a EXCEPT !.end = lo]
  OBVIOUS
<1>3. Piece(c, a) /\ c.start = a.start /\ c.end = lo
  BY <1>1, <1>2, LowerPiece
<1>4. /\ t.list = Append(s.list, c) /\ t.split = s.split /\ t.refs = s.refs
      /\ t.unmapped = s.unmapped \cup (lo .. a.end - 1) /\ t.done = s.done /\ Shaped(t)
  BY <1>2 DEF LoopState, Shaped, CutEnd
<1>5. CutPages(a, lo, hi) = lo .. a.end - 1
  BY <1>1 DEF CutPages, Covers, Inside
<1>6. s.done \in BOOLEAN
  BY DEF LoopState
<1>7. \A p \in Int : Covers(a, p) /\ ~Inside(lo, hi, p) => Covers(c, p)
  BY <1>1, <1>3 DEF Covers, Inside
<1>8. Keeps(s, t, a, lo, hi, c)
  BY <1>3, <1>4, <1>5, <1>6, <1>7 DEF Keeps
<1> QED BY <1>4, <1>8

(* An area that the range overlaps from the left loses its start, and ends
   the loop. *)
LEMMA TurnCutsStart ==
  ASSUME NEW s \in LoopState, NEW a \in Area, a.start < a.end,
         NEW lo \in Int, NEW hi \in Int, lo <= hi,
         lo <= a.start, hi < a.end, hi > a.start, NEW t, t = CutStart(s, a, hi)
  PROVE  Shaped(t) /\ \E c : Keeps(s, t, a, lo, hi, c)
<1>1. a.start \in Nat /\ a.end \in Nat
  BY AreaFacts
<1>2. PICK c : c = Upper(a, hi)
  OBVIOUS
<1>3. Piece(c, a) /\ c.start = hi /\ c.end = a.end
  <2>1. a \in Area /\ hi \in Int /\ a.start <= hi /\ hi < a.end
    BY <1>1
  <2> QED BY ONLY <1>2, <2>1, UpperPiece
<1>4. /\ t.list = Append(s.list, c) /\ t.split = s.split /\ t.refs = s.refs
      /\ t.unmapped = s.unmapped \cup (a.start .. hi - 1) /\ t.done = TRUE /\ Shaped(t)
  BY <1>2 DEF LoopState, Shaped, CutStart, Upper
<1>5. CutPages(a, lo, hi) = a.start .. hi - 1
  BY <1>1 DEF CutPages, Covers, Inside
<1>6. \A p \in Int : Covers(a, p) /\ ~Inside(lo, hi, p) => Covers(c, p)
  BY <1>1, <1>3 DEF Covers, Inside
<1>7. hi <= a.end /\ hi <= c.start
  BY <1>1, <1>3
<1>8. Keeps(s, t, a, lo, hi, c)
  BY <1>3, <1>4, <1>5, <1>6, <1>7 DEF Keeps
<1> QED BY <1>4, <1>8

(* An area within the range is dropped with its reference. *)
LEMMA TurnDrops ==
  ASSUME NEW s \in LoopState, NEW a \in Area, a.start < a.end,
         NEW lo \in Int, NEW hi \in Int, lo <= hi, ~JunkHit(a, lo, hi),
         hi >= a.end, lo <= a.start, NEW t, t = DropArea(s, a)
  PROVE  Shaped(t) /\ Drops(s, t, a, lo, hi)
<1>1. a.start \in Nat /\ a.end \in Nat
  BY AreaFacts
<1>2. a.obj # Junk
  BY <1>1 DEF JunkHit
<1>3. /\ t.list = s.list /\ t.split = s.split /\ t.refs = [s.refs EXCEPT ![a.obj] = @ - 1]
      /\ t.unmapped = s.unmapped \cup (a.start .. a.end - 1) /\ t.done = s.done /\ Shaped(t)
  BY DEF LoopState, Shaped, DropArea
<1>4. CutPages(a, lo, hi) = a.start .. a.end - 1
  BY <1>1 DEF CutPages, Covers, Inside
<1> QED BY <1>1, <1>2, <1>3, <1>4 DEF Drops

(* An area around the range is split, for one reference more, and ends the
   loop. *)
LEMMA TurnSplits ==
  ASSUME NEW s \in LoopState, NEW a \in Area, a.start < a.end,
         NEW lo \in Int, NEW hi \in Int, lo <= hi, ~JunkHit(a, lo, hi), ~s.done,
         hi < a.end, lo > a.start, NEW t, t = SplitArea(s, a, lo, hi)
  PROVE  Shaped(t) /\ \E c, d : Splits(s, t, a, lo, hi, c, d)
<1>1. a.start \in Nat /\ a.end \in Nat
  BY AreaFacts
<1>2. a.obj # Junk
  BY <1>1 DEF JunkHit
<1>3. PICK c : c = [a EXCEPT !.end = lo]
  OBVIOUS
<1>4. PICK d : d = Upper(a, hi)
  OBVIOUS
<1>5. Piece(c, a) /\ c.start = a.start /\ c.end = lo
  BY <1>1, <1>3, LowerPiece
<1>6. Piece(d, a) /\ d.start = hi /\ d.end = a.end
  <2>1. a \in Area /\ hi \in Int /\ a.start <= hi /\ hi < a.end
    BY <1>1
  <2> QED BY ONLY <1>4, <2>1, UpperPiece
<1>7. /\ t.list = Append(s.list, c) /\ t.split = <<d>> /\ t.refs = [s.refs EXCEPT ![a.obj] = @ + 1]
      /\ t.unmapped = s.unmapped \cup (lo .. hi - 1) /\ t.done = TRUE /\ Shaped(t)
  BY <1>3, <1>4 DEF LoopState, Shaped, SplitArea, Upper
<1>8. CutPages(a, lo, hi) = lo .. hi - 1
  BY <1>1 DEF CutPages, Covers, Inside
<1>9. Splits(s, t, a, lo, hi, c, d)
  BY <1>2, <1>5, <1>6, <1>7, <1>8 DEF Splits
<1> QED BY <1>7, <1>9

(* A turn keeps, drops or splits its area, and unmaps what it takes of it. *)
LEMMA TurnCases ==
  ASSUME NEW s \in LoopState, NEW a \in Area, a.start < a.end,
         NEW lo \in Int, NEW hi \in Int, lo <= hi, ~JunkHit(a, lo, hi),
         s.done => hi <= a.start, NEW t, t = RemoveArea(lo, hi, s, a)
  PROVE  /\ Shaped(t)
         /\ \/ \E c : Keeps(s, t, a, lo, hi, c)
            \/ Drops(s, t, a, lo, hi)
            \/ \E c, d : Splits(s, t, a, lo, hi, c, d)
<1>1. a.start \in Nat /\ a.end \in Nat /\ s.done \in BOOLEAN
  BY AreaFacts DEF LoopState
<1>2. CASE s.done
  <2>1. t = [s EXCEPT !.list = Append(@, a)]
    BY <1>2 DEF RemoveArea
  <2> QED BY <1>2, <2>1, TurnKeeps
<1>3. CASE ~s.done /\ hi < a.end /\ lo > a.start
  <2>1. t = SplitArea(s, a, lo, hi)
    BY <1>1, <1>3 DEF RemoveArea
  <2> QED BY <1>3, <2>1, TurnSplits
<1>4. CASE ~s.done /\ hi >= a.end /\ lo < a.end /\ lo > a.start
  <2>1. t = CutEnd(s, a, lo)
    BY <1>1, <1>4 DEF RemoveArea
  <2> QED BY <1>4, <2>1, TurnCutsEnd
<1>5. CASE ~s.done /\ lo <= a.start /\ hi < a.end /\ hi > a.start
  <2>1. t = CutStart(s, a, hi)
    BY <1>1, <1>5 DEF RemoveArea
  <2> QED BY <1>5, <2>1, TurnCutsStart
<1>6. CASE ~s.done /\ hi >= a.end /\ lo <= a.start
  <2>1. t = DropArea(s, a)
    BY <1>1, <1>6 DEF RemoveArea
  <2> QED BY <1>6, <2>1, TurnDrops
<1>7. CASE /\ ~s.done /\ ~(hi < a.end /\ lo > a.start)
           /\ ~(hi >= a.end /\ lo < a.end /\ lo > a.start)
           /\ ~(lo <= a.start /\ hi < a.end /\ hi > a.start)
           /\ ~(hi >= a.end /\ lo <= a.start)
  <2>1. t = [s EXCEPT !.list = Append(@, a)]
    BY <1>1, <1>7 DEF RemoveArea
  <2>2. a.end <= lo \/ hi <= a.start
    BY <1>1, <1>7
  <2> QED BY <1>7, <2>1, <2>2, TurnKeeps
<1> QED BY <1>2, <1>3, <1>4, <1>5, <1>6, <1>7

(***************************************************************************)
(* vmmap_remove's loop after i turns: the kept pieces, the upper half of a *)
(* split and the areas still to come form one set of areas, which the      *)
(* references count.                                                       *)
(***************************************************************************)
Half(s) == IF s.split = <<>> THEN {} ELSE {s.split[1]}
(* The areas the loop has not reached. *)
Rest(al, i) == {al[j] : j \in i + 1 .. Len(al)}

(* All areas after i turns: built so far, set aside and still to come. *)
Mixed(al, i, s) == Range(s.list) \cup Half(s) \cup Rest(al, i)

(* The list built so far is in order and ends before the areas to come. *)
LoopList(al, i, s) ==
  /\ s \in LoopState /\ AreaList(s.list)
  /\ s.split # <<>> => s.done
  /\ \A b \in Range(s.list), j \in i + 1 .. Len(al) : b.end <= al[j].start

(* No two of all these areas share a page, and the references count them. *)
LoopCount(al, rf, i, s) ==
  /\ AreaSet(Mixed(al, i, s)) /\ IsFiniteSet(Mixed(al, i, s))
  /\ Range(s.list) \cap Half(s) = {}
  /\ s.refs[Junk] = rf[Junk]
  /\ \A o \in Objs : s.refs[o] = CountOf(Mixed(al, i, s), o)

(* What was built is pieces of the areas passed, outside the range; of those
   areas the pages in the range are unmapped and the others are not. *)
LoopCut(al, lo, hi, i, s) ==
  /\ \A b \in Range(s.list) \cup Half(s) :
       /\ b.end <= lo \/ hi <= b.start
       /\ \E j \in 1 .. i : Piece(b, al[j])
  /\ \A j \in 1 .. i, p \in Int : Covers(al[j], p) /\ ~Inside(lo, hi, p) =>
       \E b \in Range(s.list) \cup Half(s) : Covers(b, p)
  /\ s.unmapped = UNION {CutPages(al[j], lo, hi) : j \in 1 .. i}
  /\ s.done => \A j \in i + 1 .. Len(al) : hi <= al[j].start

(* The invariant of the loop of vmmap_remove. *)
LoopInv(al, rf, lo, hi, i, s) ==
  LoopList(al, i, s) /\ LoopCount(al, rf, i, s) /\ LoopCut(al, lo, hi, i, s)

(* What one turn starts from. *)
Turn(al, rf, lo, hi, i, s, a) ==
  /\ AreaList(al) /\ lo \in Int /\ hi \in Int /\ lo <= hi
  /\ i \in Nat /\ i + 1 \in 1 .. Len(al) /\ a = al[i + 1]
  /\ LoopInv(al, rf, lo, hi, i, s)

(* The areas before, at and after a turn, as sets. *)
LEMMA TurnSets ==
  ASSUME NEW al, NEW rf, NEW lo, NEW hi, NEW i, NEW s, NEW a, Turn(al, rf, lo, hi, i, s, a)
  PROVE  /\ a \in Mixed(al, i, s) /\ a \in Area /\ a.start < a.end
         /\ Mixed(al, i, s) \ {a} = Range(s.list) \cup Half(s) \cup Rest(al, i + 1)
         /\ \A b \in Range(s.list) : b.end <= a.start
         /\ \A j \in (i + 1) + 1 .. Len(al) : j \in i + 1 .. Len(al) /\ j \in 1 .. Len(al) /\ a.end <= al[j].start
         /\ \A j \in 1 .. i + 1 : j \in 1 .. i \/ (j = i + 1 /\ al[j] = a)
         /\ \A j \in 1 .. i : j \in 1 .. i + 1 /\ j \in 1 .. Len(al)
         /\ i + 1 \in 1 .. i + 1
<1>1. /\ AreaList(al) /\ lo \in Int /\ hi \in Int /\ lo <= hi
      /\ i \in Nat /\ i + 1 \in 1 .. Len(al) /\ a = al[i + 1]
      /\ LoopList(al, i, s) /\ LoopCount(al, rf, i, s) /\ LoopCut(al, lo, hi, i, s)
  BY DEF Turn, LoopInv
<1>2. Len(al) \in Nat
  BY <1>1, ListFacts
<1>3. a \in Area /\ a.start < a.end /\ a.start \in Nat /\ a.end \in Nat
  BY <1>1, ListFacts
<1>4. \A j \in (i + 1) + 1 .. Len(al) : j \in i + 1 .. Len(al) /\ j \in 1 .. Len(al) /\ i + 1 < j
  BY <1>1, <1>2
<1>5. \A j \in (i + 1) + 1 .. Len(al) : a.end <= al[j].start /\ al[j].start \in Nat
  BY <1>1, <1>4, ListFacts
<1>6. \A j \in 1 .. i : j \in 1 .. i + 1 /\ j \in 1 .. Len(al) /\ j < i + 1
  BY <1>1, <1>2
<1>7. \A j \in 1 .. i + 1 : j \in 1 .. i \/ (j = i + 1 /\ al[j] = a)
  BY <1>1
<1>8. \A j \in 1 .. i : al[j].end <= a.start /\ al[j].end \in Nat
  BY <1>1, <1>6, ListFacts
<1>9. i + 1 \in i + 1 .. Len(al) /\ i + 1 \in 1 .. i + 1
  BY <1>1, <1>2
<1>10. a \notin Range(s.list) \cup Half(s)
  <2> SUFFICES ASSUME a \in Range(s.list) \cup Half(s) PROVE FALSE
    OBVIOUS
  <2>1. PICK j \in 1 .. i : Piece(a, al[j])
    BY <1>1 DEF LoopCut
  <2>2. a.end <= al[j].end
    BY <2>1 DEF Piece
  <2> QED BY <1>3, <1>8, <2>2
<1>11. Rest(al, i) = Rest(al, i + 1) \cup {a} /\ a \notin Rest(al, i + 1)
  <2>1. \A j \in i + 1 .. Len(al) : j = i + 1 \/ j \in (i + 1) + 1 .. Len(al)
    BY <1>1, <1>2
  <2>2. Rest(al, i) = Rest(al, i + 1) \cup {a}
    BY <1>1, <1>4, <1>9, <2>1 DEF Rest
  <2>3. a \notin Rest(al, i + 1)
    <3> SUFFICES ASSUME NEW j \in (i + 1) + 1 .. Len(al), a = al[j] PROVE FALSE
      BY DEF Rest
    <3> QED BY <1>3, <1>5
  <2> QED BY <2>2, <2>3
<1>12. Mixed(al, i, s) \ {a} = Range(s.list) \cup Half(s) \cup Rest(al, i + 1)
  BY <1>10, <1>11 DEF Mixed
<1>13. a \in Mixed(al, i, s)
  BY <1>11 DEF Mixed
<1>14. \A b \in Range(s.list) : b.end <= a.start
  BY <1>1, <1>9 DEF LoopList
<1> QED BY <1>3, <1>4, <1>5, <1>6, <1>7, <1>9, <1>12, <1>13, <1>14

(* The pages taken out of the page table grow by those of the area. *)
LEMMA TurnUnmaps ==
  ASSUME NEW al, NEW rf, NEW lo, NEW hi, NEW i, NEW s, NEW a, Turn(al, rf, lo, hi, i, s, a)
  PROVE  UNION {CutPages(al[j], lo, hi) : j \in 1 .. i + 1} = s.unmapped \cup CutPages(a, lo, hi)
<1>1. s.unmapped = UNION {CutPages(al[j], lo, hi) : j \in 1 .. i}
  BY DEF Turn, LoopInv, LoopCut
<1>2. a = al[i + 1]
  BY DEF Turn
<1>3. /\ \A j \in 1 .. i + 1 : j \in 1 .. i \/ (j = i + 1 /\ al[j] = a)
      /\ \A j \in 1 .. i : j \in 1 .. i + 1
      /\ i + 1 \in 1 .. i + 1
  BY TurnSets
<1> QED BY <1>1, <1>2, <1>3

(* m is the list of s with c appended, and c comes before all to come. *)
Appended(al, i, s, c, m) ==
  /\ AreaList(m) /\ Range(m) = Range(s.list) \cup {c}
  /\ \A b \in Range(m), j \in (i + 1) + 1 .. Len(al) : b.end <= al[j].start

(* What a turn appends stays in order. *)
LEMMA TurnAppends ==
  ASSUME NEW al, NEW rf, NEW lo, NEW hi, NEW i, NEW s, NEW a, Turn(al, rf, lo, hi, i, s, a),
         NEW c, Piece(c, a), NEW m, m = Append(s.list, c)
  PROVE  Appended(al, i, s, c, m)
<1>1. AreaList(s.list) /\ AreaList(al) /\ LoopList(al, i, s)
  BY DEF Turn, LoopInv, LoopList
<1>2. Len(s.list) \in Nat /\ s.list \in Seq(Area)
  BY <1>1, ListFacts DEF AreaList
<1>3. c \in Area /\ c.start < c.end /\ c.start \in Nat /\ a.start <= c.start /\ c.end <= a.end /\ c.end \in Nat
  BY AreaFacts DEF Piece
<1>4. a.start \in Nat /\ a.end \in Nat
  BY TurnSets, AreaFacts
<1>5. \A j \in 1 .. (Len(s.list) + 1) - 1 : s.list[j].end <= c.start
  <2> TAKE j \in 1 .. (Len(s.list) + 1) - 1
  <2>1. j \in 1 .. Len(s.list)
    BY <1>2
  <2>2. s.list[j].end <= a.start /\ s.list[j].end \in Nat
    BY <1>1, <2>1, TurnSets, RangeMembers, ListFacts
  <2> QED BY <1>3, <1>4, <2>2
<1>6. \A j \in Len(s.list) + 1 .. Len(s.list) : c.end <= s.list[j].start
  BY <1>2
<1>7. PutAt(s.list, Len(s.list) + 1, c, m) /\ Len(s.list) + 1 \in 1 .. Len(s.list) + 1
  BY <1>2, <1>3, AppendPuts
<1>8. AreaList(m) /\ Range(m) = Range(s.list) \cup {c}
  BY <1>1, <1>3, <1>5, <1>6, <1>7, PutFacts
<1>9. ASSUME NEW b \in Range(m), NEW j \in (i + 1) + 1 .. Len(al) PROVE b.end <= al[j].start
  <2>1. j \in i + 1 .. Len(al) /\ a.end <= al[j].start /\ j \in 1 .. Len(al)
    BY TurnSets
  <2>2. al[j].start \in Nat
    BY <1>1, <2>1, ListFacts
  <2>3. CASE b = c
    BY <1>3, <1>4, <2>1, <2>2, <2>3
  <2>4. CASE b \in Range(s.list)
    BY <1>1, <2>1, <2>4 DEF LoopList
  <2> QED BY <1>8, <2>3, <2>4
<1> QED BY <1>8, <1>9 DEF Appended

(* A turn that keeps its area, or a piece of it, preserves LoopInv. *)
LEMMA KeepPreserves ==
  ASSUME NEW al, NEW rf, NEW lo, NEW hi, NEW i, NEW s, NEW a, Turn(al, rf, lo, hi, i, s, a),
         NEW t, Shaped(t), NEW c, Keeps(s, t, a, lo, hi, c)
  PROVE  LoopInv(al, rf, lo, hi, i + 1, t)
<1>1. LoopList(al, i, s) /\ LoopCount(al, rf, i, s) /\ LoopCut(al, lo, hi, i, s)
  BY DEF Turn, LoopInv
<1>2. /\ Piece(c, a) /\ (c.end <= lo \/ hi <= c.start)
      /\ t.list = Append(s.list, c) /\ t.split = s.split /\ t.refs = s.refs
      /\ t.unmapped = s.unmapped \cup CutPages(a, lo, hi)
      /\ t.done \in BOOLEAN /\ (t.done => s.done \/ hi <= a.end) /\ (s.done => t.done)
  BY DEF Keeps
<1>3. /\ AreaList(t.list) /\ Range(t.list) = Range(s.list) \cup {c}
      /\ \A b \in Range(t.list), j \in (i + 1) + 1 .. Len(al) : b.end <= al[j].start
  <2>1. Turn(al, rf, lo, hi, i, s, a) /\ Piece(c, a) /\ t.list = Append(s.list, c)
    BY <1>2
  <2>2. Appended(al, i, s, c, t.list)
    BY ONLY <2>1, TurnAppends
  <2> QED BY <2>2 DEF Appended
<1>4. Half(t) = Half(s)
  BY <1>2 DEF Half
<1>5. LoopList(al, i + 1, t)
  <2>1. t.list \in Seq(Area)
    BY <1>3 DEF AreaList
  <2>2. CutPages(a, lo, hi) \subseteq Int
    BY DEF CutPages
  <2>3. s.refs \in [Objs \cup {Junk} -> Nat] /\ s.split \in Seq(Area) /\ s.unmapped \subseteq Int
    BY <1>1 DEF LoopList, LoopState
  <2>4. t \in LoopState
    BY <1>2, <2>1, <2>2, <2>3 DEF LoopState, Shaped
  <2>5. t.split # <<>> => t.done
    BY <1>1, <1>2 DEF LoopList
  <2> QED BY <1>3, <2>4, <2>5 DEF LoopList
<1>6. LoopCount(al, rf, i + 1, t)
  <2> DEFINE M == Mixed(al, i, s)
             K == M \ {a}
             N == Mixed(al, i + 1, t)
  <2>1. a \in M /\ K = Range(s.list) \cup Half(s) \cup Rest(al, i + 1)
    BY TurnSets
  <2>2. N = K \cup {c}
    BY <1>3, <1>4, <2>1 DEF Mixed
  <2>3. AreaSet(M) /\ IsFiniteSet(M) /\ s.refs[Junk] = rf[Junk] /\ \A o \in Objs : s.refs[o] = CountOf(M, o)
    BY <1>1 DEF LoopCount
  <2> HIDE DEF M, N
  <2>4. AreaSet(K \cup {c}) /\ c \notin K
    <3>1. \A x \in {c} : Piece(x, a)
      BY <1>2
    <3>2. \A x, y \in {c} : x = y \/ Apart(x, y)
      OBVIOUS
    <3>3. AreaSet((M \ {a}) \cup {c}) /\ \A x \in {c} : x \notin M \ {a}
      BY <2>1, <2>3, <3>1, <3>2, ReplaceMember
    <3> QED BY <3>3
  <2>5. IsFiniteSet(K) /\ \A o : CountOf(K, o) \in Nat /\ CountOf(M, o) = CountOf(K, o) + (IF a.obj = o THEN 1 ELSE 0)
    BY <2>1, <2>3, CountDrop
  <2>6. IsFiniteSet(K \cup {c}) /\ \A o : CountOf(K \cup {c}, o) = CountOf(K, o) + (IF c.obj = o THEN 1 ELSE 0)
    BY <2>4, <2>5, CountAdd
  <2>7. c.obj = a.obj
    BY <1>2 DEF Piece
  <2>8. \A o \in Objs : t.refs[o] = CountOf(K \cup {c}, o)
    <3> TAKE o \in Objs
    <3>1. t.refs[o] = CountOf(M, o)
      BY <1>2, <2>3
    <3>2. CountOf(M, o) = CountOf(K, o) + (IF a.obj = o THEN 1 ELSE 0)
      BY <2>5
    <3>3. CountOf(K \cup {c}, o) = CountOf(K, o) + (IF c.obj = o THEN 1 ELSE 0)
      BY <2>6
    <3> QED BY <2>7, <3>1, <3>2, <3>3
  <2>9. t.refs[Junk] = rf[Junk]
    BY <1>2, <2>3
  <2>10. AreaSet(N) /\ IsFiniteSet(N) /\ \A o \in Objs : t.refs[o] = CountOf(N, o)
    BY <2>2, <2>4, <2>6, <2>8
  <2>11. Range(t.list) \cap Half(t) = {}
    <3>1. c \notin Half(s) /\ Range(s.list) \cap Half(s) = {}
      BY <1>1, <2>1, <2>4 DEF LoopCount
    <3> QED BY <1>3, <1>4, <3>1
  <2> QED BY <2>9, <2>10, <2>11 DEF LoopCount, N
<1>7. LoopCut(al, lo, hi, i + 1, t)
  <2>1. ASSUME NEW b \in Range(t.list) \cup Half(t)
        PROVE  (b.end <= lo \/ hi <= b.start) /\ \E j \in 1 .. i + 1 : Piece(b, al[j])
    <3>1. CASE b = c
      <4>1. i + 1 \in 1 .. i + 1 /\ al[i + 1] = a
        BY TurnSets DEF Turn
      <4> QED BY <1>2, <3>1, <4>1
    <3>2. CASE b \in Range(s.list) \cup Half(s)
      <4>1. (b.end <= lo \/ hi <= b.start) /\ \E j \in 1 .. i : Piece(b, al[j])
        BY <1>1, <3>2 DEF LoopCut
      <4> QED BY <4>1, TurnSets
    <3> QED BY <1>3, <1>4, <3>1, <3>2
  <2>2. ASSUME NEW j \in 1 .. i + 1, NEW p \in Int, Covers(al[j], p), ~Inside(lo, hi, p)
        PROVE  \E b \in Range(t.list) \cup Half(t) : Covers(b, p)
    <3>1. CASE j \in 1 .. i
      <4>1. \E b \in Range(s.list) \cup Half(s) : Covers(b, p)
        BY <1>1, <2>2, <3>1 DEF LoopCut
      <4> QED BY <1>3, <1>4, <4>1
    <3>2. CASE al[j] = a
      <4>1. Covers(c, p)
        BY <2>2, <3>2 DEF Keeps
      <4> QED BY <1>3, <4>1
    <3> QED BY <3>1, <3>2, TurnSets
  <2>3. t.unmapped = UNION {CutPages(al[j], lo, hi) : j \in 1 .. i + 1}
    BY <1>2, TurnUnmaps
  <2>4. ASSUME t.done, NEW j \in (i + 1) + 1 .. Len(al) PROVE hi <= al[j].start
    <3>1. j \in i + 1 .. Len(al) /\ j \in 1 .. Len(al) /\ a.end <= al[j].start
      BY TurnSets
    <3>2. al[j].start \in Nat /\ a.end \in Nat /\ hi \in Int
      BY <3>1, TurnSets, AreaFacts, ListFacts DEF Turn
    <3>3. CASE s.done
      BY <1>1, <3>1, <3>3 DEF LoopCut
    <3>4. CASE hi <= a.end
      BY <3>1, <3>2, <3>4
    <3> QED BY <1>2, <2>4, <3>3, <3>4
  <2> QED BY <2>1, <2>2, <2>3, <2>4 DEF LoopCut
<1> QED BY <1>5, <1>6, <1>7 DEF LoopInv

(* A turn that drops its area preserves LoopInv. *)
LEMMA DropPreserves ==
  ASSUME NEW al, NEW rf, NEW lo, NEW hi, NEW i, NEW s, NEW a, Turn(al, rf, lo, hi, i, s, a),
         NEW t, Shaped(t), Drops(s, t, a, lo, hi)
  PROVE  LoopInv(al, rf, lo, hi, i + 1, t)
<1>1. LoopList(al, i, s) /\ LoopCount(al, rf, i, s) /\ LoopCut(al, lo, hi, i, s)
  BY DEF Turn, LoopInv
<1>2. /\ a.obj # Junk /\ lo <= a.start /\ a.end <= hi
      /\ t.list = s.list /\ t.split = s.split /\ t.refs = [s.refs EXCEPT ![a.obj] = @ - 1]
      /\ t.unmapped = s.unmapped \cup CutPages(a, lo, hi)
      /\ t.done = s.done
  BY DEF Drops
<1>3. Half(t) = Half(s)
  BY <1>2 DEF Half
<1>4. /\ s.refs \in [Objs \cup {Junk} -> Nat] /\ s.split \in Seq(Area) /\ s.unmapped \subseteq Int
      /\ s.list \in Seq(Area) /\ s.done \in BOOLEAN
  BY <1>1 DEF LoopList, LoopState
<1>5. a.obj \in Objs
  BY <1>2, TurnSets, AreaFacts
<1> DEFINE M == Mixed(al, i, s)
           K == M \ {a}
<1>6. a \in M /\ K = Range(s.list) \cup Half(s) \cup Rest(al, i + 1)
  BY TurnSets
<1>7. Mixed(al, i + 1, t) = K
  BY <1>2, <1>3, <1>6 DEF Mixed
<1>8. AreaSet(M) /\ IsFiniteSet(M) /\ s.refs[Junk] = rf[Junk] /\ \A o \in Objs : s.refs[o] = CountOf(M, o)
  BY <1>1 DEF LoopCount
<1> HIDE DEF M
<1>9. IsFiniteSet(K) /\ \A o : CountOf(K, o) \in Nat /\ CountOf(M, o) = CountOf(K, o) + (IF a.obj = o THEN 1 ELSE 0)
  BY <1>6, <1>8, CountDrop
<1>10. \A o \in Objs : t.refs[o] = CountOf(K, o)
  <2> TAKE o \in Objs
  <2>1. CountOf(K, o) \in Nat /\ s.refs[o] = CountOf(K, o) + (IF a.obj = o THEN 1 ELSE 0)
    BY <1>8, <1>9
  <2>2. t.refs[o] = IF a.obj = o THEN s.refs[o] - 1 ELSE s.refs[o]
    BY <1>2, <1>4, <1>5
  <2> HIDE DEF K
  <2> QED BY <2>1, <2>2
<1>11. t.refs \in [Objs \cup {Junk} -> Nat] /\ t.refs[Junk] = rf[Junk]
  <2>1. s.refs[a.obj] - 1 \in Nat
    <3>1. t.refs[a.obj] = s.refs[a.obj] - 1
      BY <1>2, <1>4, <1>5
    <3> QED BY <1>5, <1>9, <1>10, <3>1
  <2> QED BY <1>2, <1>4, <1>5, <1>8, <2>1
<1>12. LoopList(al, i + 1, t)
  <2>1. CutPages(a, lo, hi) \subseteq Int
    BY DEF CutPages
  <2>2. t \in LoopState
    BY <1>2, <1>4, <1>11, <2>1 DEF LoopState, Shaped
  <2>3. \A b \in Range(t.list), j \in (i + 1) + 1 .. Len(al) : b.end <= al[j].start
    BY <1>1, <1>2, TurnSets DEF LoopList
  <2> QED BY <1>1, <1>2, <2>2, <2>3 DEF LoopList
<1>13. LoopCount(al, rf, i + 1, t)
  <2>1. AreaSet(K)
    BY <1>8 DEF AreaSet
  <2>2. Range(t.list) \cap Half(t) = {}
    BY <1>1, <1>2, <1>3 DEF LoopCount
  <2> HIDE DEF K
  <2> QED BY <1>7, <1>9, <1>10, <1>11, <2>1, <2>2 DEF LoopCount
<1>14. LoopCut(al, lo, hi, i + 1, t)
  <2>1. ASSUME NEW b \in Range(t.list) \cup Half(t)
        PROVE  (b.end <= lo \/ hi <= b.start) /\ \E j \in 1 .. i + 1 : Piece(b, al[j])
    <3>1. (b.end <= lo \/ hi <= b.start) /\ \E j \in 1 .. i : Piece(b, al[j])
      BY <1>1, <1>2, <1>3 DEF LoopCut
    <3> QED BY <3>1, TurnSets
  <2>2. ASSUME NEW j \in 1 .. i + 1, NEW p \in Int, Covers(al[j], p), ~Inside(lo, hi, p)
        PROVE  \E b \in Range(t.list) \cup Half(t) : Covers(b, p)
    <3>1. CASE j \in 1 .. i
      BY <1>1, <1>2, <1>3, <2>2, <3>1 DEF LoopCut
    <3>2. CASE al[j] = a
      <4>1. a.start \in Nat /\ a.end \in Nat /\ lo \in Int /\ hi \in Int
        BY TurnSets, AreaFacts DEF Turn
      <4>2. a.start <= p /\ p < a.end /\ ~(lo <= p /\ p < hi)
        BY <2>2, <3>2 DEF Covers, Inside
      <4>3. lo <= p /\ p < hi
        BY ONLY <1>2, <4>1, <4>2, p \in Int
      <4> QED BY <4>2, <4>3
    <3> QED BY <3>1, <3>2, TurnSets
  <2>3. t.unmapped = UNION {CutPages(al[j], lo, hi) : j \in 1 .. i + 1}
    BY <1>2, TurnUnmaps
  <2>4. t.done => \A j \in (i + 1) + 1 .. Len(al) : hi <= al[j].start
    BY <1>1, <1>2, TurnSets DEF LoopCut
  <2> QED BY <2>1, <2>2, <2>3, <2>4 DEF LoopCut
<1> QED BY <1>12, <1>13, <1>14 DEF LoopInv

(* A turn that splits its area preserves LoopInv. *)
LEMMA SplitPreserves ==
  ASSUME NEW al, NEW rf, NEW lo, NEW hi, NEW i, NEW s, NEW a, Turn(al, rf, lo, hi, i, s, a),
         NEW t, Shaped(t), NEW c, NEW d, Splits(s, t, a, lo, hi, c, d)
  PROVE  LoopInv(al, rf, lo, hi, i + 1, t)
<1>1. LoopList(al, i, s) /\ LoopCount(al, rf, i, s) /\ LoopCut(al, lo, hi, i, s)
  BY DEF Turn, LoopInv
<1>2. /\ ~s.done /\ a.obj # Junk
      /\ Piece(c, a) /\ c.start = a.start /\ c.end = lo
      /\ Piece(d, a) /\ d.start = hi /\ d.end = a.end
      /\ t.list = Append(s.list, c) /\ t.split = <<d>>
      /\ t.refs = [s.refs EXCEPT ![a.obj] = @ + 1]
      /\ t.unmapped = s.unmapped \cup CutPages(a, lo, hi)
      /\ t.done = TRUE
  BY DEF Splits
<1>3. /\ AreaList(t.list) /\ Range(t.list) = Range(s.list) \cup {c}
      /\ \A b \in Range(t.list), j \in (i + 1) + 1 .. Len(al) : b.end <= al[j].start
  <2>1. Turn(al, rf, lo, hi, i, s, a) /\ Piece(c, a) /\ t.list = Append(s.list, c)
    BY <1>2
  <2>2. Appended(al, i, s, c, t.list)
    BY ONLY <2>1, TurnAppends
  <2> QED BY <2>2 DEF Appended
<1>4. Half(t) = {d} /\ Half(s) = {}
  <2>1. t.split # <<>> /\ t.split[1] = d
    BY <1>2
  <2>2. s.split = <<>>
    BY <1>1, <1>2 DEF LoopList
  <2> QED BY <2>1, <2>2 DEF Half
<1>5. /\ s.refs \in [Objs \cup {Junk} -> Nat] /\ s.unmapped \subseteq Int
  BY <1>1 DEF LoopList, LoopState
<1>6. a.obj \in Objs /\ a.start \in Nat /\ a.end \in Nat
  BY <1>2, TurnSets, AreaFacts
<1>7. lo \in Int /\ hi \in Int /\ lo <= hi
  BY DEF Turn
<1>8. c.start < c.end /\ d.start < d.end /\ d \in Area
  BY <1>2 DEF Piece
<1>9. Apart(c, d) /\ Apart(d, c) /\ c # d
  <2>1. c.end <= d.start /\ c.start < d.start
    BY <1>2, <1>6, <1>7, <1>8
  <2>2. c # d
    BY <1>2, <1>6, <1>7, <1>8
  <2> QED BY <2>1, <2>2 DEF Apart
<1> DEFINE M == Mixed(al, i, s)
           K == M \ {a}
           P == {c, d}
<1>10. a \in M /\ K = Range(s.list) \cup Rest(al, i + 1)
  BY <1>4, TurnSets
<1>11. Mixed(al, i + 1, t) = K \cup P
  BY <1>3, <1>4, <1>10 DEF Mixed
<1>12. AreaSet(M) /\ IsFiniteSet(M) /\ s.refs[Junk] = rf[Junk] /\ \A o \in Objs : s.refs[o] = CountOf(M, o)
  BY <1>1 DEF LoopCount
<1> HIDE DEF M
<1>13. AreaSet(K \cup P) /\ c \notin K /\ d \notin K
  <2>1. \A x \in P : Piece(x, a)
    BY <1>2
  <2>2. \A x, y \in P : x = y \/ Apart(x, y)
    BY <1>9
  <2>3. AreaSet((M \ {a}) \cup P) /\ \A x \in P : x \notin M \ {a}
    <3> HIDE DEF P
    <3> QED BY <1>10, <1>12, <2>1, <2>2, ReplaceMember
  <2> QED BY <2>3
<1>14. IsFiniteSet(K) /\ \A o : CountOf(K, o) \in Nat /\ CountOf(M, o) = CountOf(K, o) + (IF a.obj = o THEN 1 ELSE 0)
  BY <1>10, <1>12, CountDrop
<1>15. IsFiniteSet(K \cup {c}) /\ \A o : CountOf(K \cup {c}, o) = CountOf(K, o) + (IF c.obj = o THEN 1 ELSE 0)
  <2> HIDE DEF K, P
  <2> QED BY <1>13, <1>14, CountAdd
<1>16. /\ IsFiniteSet((K \cup {c}) \cup {d})
       /\ \A o : CountOf((K \cup {c}) \cup {d}, o) = CountOf(K \cup {c}, o) + (IF d.obj = o THEN 1 ELSE 0)
  <2>1. d \notin K \cup {c}
    BY <1>9, <1>13
  <2> DEFINE Q == K \cup {c}
  <2>2. IsFiniteSet(Q) /\ d \notin Q
    BY <1>15, <2>1
  <2> HIDE DEF Q
  <2>3. IsFiniteSet(Q \cup {d}) /\ \A o : CountOf(Q \cup {d}, o) = CountOf(Q, o) + (IF d.obj = o THEN 1 ELSE 0)
    BY <2>2, CountAdd
  <2> QED BY <2>3 DEF Q
<1>17. (K \cup {c}) \cup {d} = K \cup P
  OBVIOUS
<1>18. c.obj = a.obj /\ d.obj = a.obj
  BY <1>2 DEF Piece
<1>19. \A o \in Objs : t.refs[o] = CountOf(K \cup P, o)
  <2> TAKE o \in Objs
  <2>1. CountOf(K, o) \in Nat /\ s.refs[o] = CountOf(K, o) + (IF a.obj = o THEN 1 ELSE 0)
    BY <1>12, <1>14
  <2>2. t.refs[o] = IF a.obj = o THEN s.refs[o] + 1 ELSE s.refs[o]
    BY <1>2, <1>5, <1>6
  <2>3. CountOf(K \cup {c}, o) = CountOf(K, o) + (IF a.obj = o THEN 1 ELSE 0)
    BY <1>15, <1>18
  <2>4. CountOf(K \cup P, o) = CountOf(K \cup {c}, o) + (IF a.obj = o THEN 1 ELSE 0)
    BY <1>16, <1>17, <1>18
  <2> HIDE DEF K, P
  <2> QED BY <2>1, <2>2, <2>3, <2>4
<1>20. t.refs \in [Objs \cup {Junk} -> Nat] /\ t.refs[Junk] = rf[Junk]
  <2>1. s.refs[a.obj] + 1 \in Nat
    BY <1>5, <1>6
  <2> QED BY <1>2, <1>5, <1>6, <1>12, <2>1
<1>21. LoopList(al, i + 1, t)
  <2>1. CutPages(a, lo, hi) \subseteq Int
    BY DEF CutPages
  <2>2. t.list \in Seq(Area) /\ t.split \in Seq(Area)
    BY <1>2, <1>3, <1>8 DEF AreaList
  <2>3. t \in LoopState
    BY <1>2, <1>5, <1>20, <2>1, <2>2 DEF LoopState, Shaped
  <2> QED BY <1>2, <1>3, <2>3 DEF LoopList
<1>22. LoopCount(al, rf, i + 1, t)
  <2>1. IsFiniteSet(K \cup P)
    BY <1>16, <1>17
  <2>2. Range(t.list) \cap Half(t) = {}
    BY <1>3, <1>4, <1>9, <1>10, <1>13
  <2> HIDE DEF K, P
  <2> QED BY <1>11, <1>13, <1>19, <1>20, <2>1, <2>2 DEF LoopCount
<1>23. LoopCut(al, lo, hi, i + 1, t)
  <2>1. ASSUME NEW b \in Range(t.list) \cup Half(t)
        PROVE  (b.end <= lo \/ hi <= b.start) /\ \E j \in 1 .. i + 1 : Piece(b, al[j])
    <3>1. CASE b \in P
      <4>1. i + 1 \in 1 .. i + 1 /\ al[i + 1] = a
        BY TurnSets DEF Turn
      <4>2. Piece(b, a) /\ (b.end <= lo \/ hi <= b.start)
        BY <1>2, <1>7, <3>1
      <4> QED BY <4>1, <4>2
    <3>2. CASE b \in Range(s.list)
      <4>1. (b.end <= lo \/ hi <= b.start) /\ \E j \in 1 .. i : Piece(b, al[j])
        BY <1>1, <3>2 DEF LoopCut
      <4> QED BY <4>1, TurnSets
    <3> QED BY <1>3, <1>4, <3>1, <3>2
  <2>2. ASSUME NEW j \in 1 .. i + 1, NEW p \in Int, Covers(al[j], p), ~Inside(lo, hi, p)
        PROVE  \E b \in Range(t.list) \cup Half(t) : Covers(b, p)
    <3>1. CASE j \in 1 .. i
      <4>1. \E b \in Range(s.list) \cup Half(s) : Covers(b, p)
        BY <1>1, <2>2, <3>1 DEF LoopCut
      <4> QED BY <1>3, <1>4, <4>1
    <3>2. CASE al[j] = a
      <4>1. a.start <= p /\ p < a.end /\ ~(lo <= p /\ p < hi)
        BY <2>2, <3>2 DEF Covers, Inside
      <4>2. (c.start <= p /\ p < c.end) \/ (d.start <= p /\ p < d.end)
        BY <1>2, <1>6, <1>7, <4>1
      <4> QED BY <1>3, <1>4, <4>2 DEF Covers
    <3> QED BY <3>1, <3>2, TurnSets
  <2>3. t.unmapped = UNION {CutPages(al[j], lo, hi) : j \in 1 .. i + 1}
    BY <1>2, TurnUnmaps
  <2>4. ASSUME NEW j \in (i + 1) + 1 .. Len(al) PROVE hi <= al[j].start
    <3>1. j \in 1 .. Len(al) /\ a.end <= al[j].start
      BY TurnSets
    <3>2. al[j].start \in Nat
      BY <3>1, ListFacts DEF Turn
    <3> QED BY <1>2, <1>6, <1>7, <1>8, <3>1, <3>2
  <2> QED BY <2>1, <2>2, <2>3, <2>4 DEF LoopCut
<1> QED BY <1>21, <1>22, <1>23 DEF LoopInv

(* Every turn of the loop keeps the invariant. *)
LEMMA TurnPreserves ==
  ASSUME NEW al, NEW rf, NEW lo, NEW hi, NEW i, NEW s, NEW a, Turn(al, rf, lo, hi, i, s, a),
         ~JunkHit(a, lo, hi), NEW t, t = RemoveArea(lo, hi, s, a)
  PROVE  LoopInv(al, rf, lo, hi, i + 1, t)
<1>1. s \in LoopState /\ a \in Area /\ a.start < a.end /\ lo \in Int /\ hi \in Int /\ lo <= hi
  BY TurnSets DEF Turn, LoopInv, LoopList
<1>2. s.done => hi <= a.start
  <2>1. i + 1 \in i + 1 .. Len(al) /\ a = al[i + 1]
    <3>1. i \in Nat /\ i + 1 \in 1 .. Len(al) /\ a = al[i + 1] /\ Len(al) \in Nat
      BY ListFacts DEF Turn
    <3> QED BY <3>1
  <2> QED BY <2>1 DEF Turn, LoopInv, LoopCut
<1>3. /\ Shaped(t)
      /\ \/ \E c : Keeps(s, t, a, lo, hi, c)
         \/ Drops(s, t, a, lo, hi)
         \/ \E c, d : Splits(s, t, a, lo, hi, c, d)
  <2>1. ~JunkHit(a, lo, hi) /\ t = RemoveArea(lo, hi, s, a)
    OBVIOUS
  <2> QED BY ONLY <1>1, <1>2, <2>1, TurnCases
<1> QED BY <1>3, KeepPreserves, DropPreserves, SplitPreserves

(***************************************************************************)
(* The whole loop.                                                         *)
(***************************************************************************)
LoopOf(al, rf, lo, hi, n, f) ==
  f = [i \in 0 .. n |->
        IF i = 0 THEN [list |-> <<>>, refs |-> rf, split |-> <<>>, unmapped |-> {}, done |-> FALSE]
        ELSE RemoveArea(lo, hi, f[i - 1], al[i])]

(* The recursion of vmmap_remove has a solution. *)
LEMMA LoopExists ==
  ASSUME NEW al, NEW rf, NEW lo, NEW hi, NEW n \in Nat
  PROVE  \E f : LoopOf(al, rf, lo, hi, n, f)
<1> DEFINE T == {k \in Nat : \E f : LoopOf(al, rf, lo, hi, k, f)}
           base == [list |-> <<>>, refs |-> rf, split |-> <<>>, unmapped |-> {}, done |-> FALSE]
           step(i, x) == RemoveArea(lo, hi, x, al[i])
<1>1. 0 \in T
  <2> DEFINE f == [i \in 0 .. 0 |-> base]
  <2>1. LoopOf(al, rf, lo, hi, 0, f)
    BY DEF LoopOf
  <2> QED BY <2>1
<1>2. ASSUME NEW k \in Nat, k \in T PROVE k + 1 \in T
  <2>1. PICK f : LoopOf(al, rf, lo, hi, k, f)
    BY <1>2
  <2>2. f = [i \in 0 .. k |-> IF i = 0 THEN base ELSE step(i, f[i - 1])]
    BY <2>1 DEF LoopOf
  <2> HIDE DEF base, step
  <2> DEFINE g == [i \in 0 .. k + 1 |-> IF i <= k THEN f[i] ELSE step(i, f[k])]
             h == [i \in 0 .. k + 1 |-> IF i = 0 THEN base ELSE step(i, g[i - 1])]
  <2>3. ASSUME NEW i \in 0 .. k + 1 PROVE g[i] = h[i]
    <3>1. CASE i = 0
      BY <2>2, <3>1
    <3>2. CASE i = k + 1
      <4>1. i # 0 /\ i - 1 = k /\ k \in 0 .. k + 1 /\ k <= k /\ ~(k + 1 <= k)
        BY <3>2
      <4> QED BY <3>2, <4>1
    <3>3. CASE i # 0 /\ i # k + 1
      <4>1. i \in 0 .. k /\ i - 1 \in 0 .. k /\ i - 1 \in 0 .. k + 1 /\ i <= k /\ i - 1 <= k
        BY <3>3
      <4>2. f[i] = step(i, f[i - 1])
        BY <2>2, <3>3, <4>1
      <4> QED BY <3>3, <4>1, <4>2
    <3> QED BY <3>1, <3>2, <3>3
  <2>4. g = h
    BY <2>3
  <2>5. LoopOf(al, rf, lo, hi, k + 1, g)
    BY <2>4 DEF LoopOf, base, step
  <2> QED BY <2>5
<1>3. Nat \subseteq T
  <2> HIDE DEF T
  <2> QED BY <1>1, <1>2, SetInduction
<1> QED BY <1>3

(* What vmmap_remove starts from: a list and the references that count it. *)
Held(al, rf) ==
  /\ AreaList(al)
  /\ rf \in [Objs \cup {Junk} -> Nat]
  /\ \A o \in Objs : rf[o] = CountOf(Range(al), o)

(* LoopInv holds before the first turn. *)
LEMMA LoopStarts ==
  ASSUME NEW al, NEW rf, Held(al, rf), NEW lo \in Int, NEW hi \in Int,
         NEW s, s = [list |-> <<>>, refs |-> rf, split |-> <<>>, unmapped |-> {}, done |-> FALSE]
  PROVE  LoopInv(al, rf, lo, hi, 0, s)
<1>1. /\ s.list = <<>> /\ s.refs = rf /\ s.split = <<>> /\ s.unmapped = {} /\ s.done = FALSE
  OBVIOUS
<1>2. AreaList(s.list) /\ Range(s.list) = {}
  <2>1. <<>> \in Seq(Area) /\ Len(<<>>) = 0 /\ DOMAIN <<>> = {}
    OBVIOUS
  <2> QED BY <1>1, <2>1 DEF AreaList, Range
<1>3. Half(s) = {} /\ 1 .. 0 = {}
  BY <1>1 DEF Half
<1>4. s \in LoopState
  <2>1. <<>> \in Seq(Area)
    OBVIOUS
  <2> QED BY <2>1 DEF LoopState, Held
<1>5. Mixed(al, 0, s) = Range(al)
  <2>1. Rest(al, 0) = Range(al)
    <3>1. DOMAIN al = 1 .. Len(al) /\ 0 + 1 = 1
      BY ListFacts DEF Held
    <3> QED BY <3>1 DEF Rest, Range
  <2> QED BY <1>2, <1>3, <2>1 DEF Mixed
<1>6. LoopList(al, 0, s)
  BY <1>1, <1>2, <1>4 DEF LoopList
<1>7. LoopCount(al, rf, 0, s)
  <2>1. AreaSet(Range(al)) /\ IsFiniteSet(Range(al)) /\ \A o \in Objs : rf[o] = CountOf(Range(al), o)
    BY ListIsSet, CountByIndex DEF Held
  <2> QED BY <1>1, <1>2, <1>5, <2>1 DEF LoopCount
<1>8. LoopCut(al, lo, hi, 0, s)
  BY <1>1, <1>2, <1>3 DEF LoopCut
<1> QED BY <1>6, <1>7, <1>8 DEF LoopInv

(* LoopInv holds after every turn. *)
LEMMA LoopRuns ==
  ASSUME NEW al, NEW rf, Held(al, rf), NEW lo \in Int, NEW hi \in Int, lo <= hi,
         ~TouchesJunk(al, lo, hi), NEW f, LoopOf(al, rf, lo, hi, Len(al), f)
  PROVE  LoopInv(al, rf, lo, hi, Len(al), f[Len(al)])
<1> DEFINE T == {k \in Nat : k <= Len(al) => LoopInv(al, rf, lo, hi, k, f[k])}
           base == [list |-> <<>>, refs |-> rf, split |-> <<>>, unmapped |-> {}, done |-> FALSE]
<1>1. AreaList(al) /\ Len(al) \in Nat
  BY ListFacts DEF Held
<1>2. f = [i \in 0 .. Len(al) |-> IF i = 0 THEN base ELSE RemoveArea(lo, hi, f[i - 1], al[i])]
  BY DEF LoopOf
<1>3. 0 \in T
  <2>1. 0 \in 0 .. Len(al)
    BY <1>1
  <2>2. f[0] = base
    BY <1>2, <2>1
  <2>3. LoopInv(al, rf, lo, hi, 0, f[0])
    BY <2>2, LoopStarts
  <2> QED BY <2>3
<1>4. ASSUME NEW k \in Nat, k \in T PROVE k + 1 \in T
  <2> SUFFICES ASSUME k + 1 <= Len(al) PROVE LoopInv(al, rf, lo, hi, k + 1, f[k + 1])
    OBVIOUS
  <2>1. k + 1 \in 1 .. Len(al) /\ k + 1 \in 0 .. Len(al) /\ k + 1 # 0 /\ (k + 1) - 1 = k /\ k <= Len(al)
    BY <1>1
  <2>2. f[k + 1] = RemoveArea(lo, hi, f[k], al[k + 1])
    BY <1>2, <2>1
  <2>3. LoopInv(al, rf, lo, hi, k, f[k])
    BY <1>4, <2>1
  <2>4. Turn(al, rf, lo, hi, k, f[k], al[k + 1])
    BY <1>1, <2>1, <2>3 DEF Turn
  <2>5. ~JunkHit(al[k + 1], lo, hi)
    BY <2>1 DEF JunkHit, TouchesJunk
  <2>6. PICK s, a, t : s = f[k] /\ a = al[k + 1] /\ t = f[k + 1]
    OBVIOUS
  <2>7. Turn(al, rf, lo, hi, k, s, a) /\ ~JunkHit(a, lo, hi) /\ t = RemoveArea(lo, hi, s, a)
    BY <2>2, <2>4, <2>5, <2>6
  <2>8. LoopInv(al, rf, lo, hi, k + 1, t)
    BY ONLY <2>7, TurnPreserves
  <2> QED BY <2>6, <2>8
<1>5. Nat \subseteq T
  <2> HIDE DEF T
  <2> QED BY <1>3, <1>4, SetInduction
<1>6. Len(al) \in T /\ Len(al) <= Len(al)
  BY <1>1, <1>5
<1> QED BY <1>6

(***************************************************************************)
(* What vmmap_remove returns: the areas' pieces outside lo .. hi - 1, the  *)
(* references that count them, and no page table entry for what it took.   *)
(***************************************************************************)
RemovedFrom(al, rf, pt, lo, hi, r) ==
  /\ Held(r.areas, r.refs) /\ r.refs[Junk] = rf[Junk]
  /\ \A b \in Range(r.areas) :
       /\ b.end <= lo \/ hi <= b.start
       /\ \E a \in Range(al) : Piece(b, a)
  /\ \A a \in Range(al), p \in Int : Covers(a, p) /\ ~Inside(lo, hi, p) =>
       \E b \in Range(r.areas) : Covers(b, p)
  /\ r.pte = [p \in UserPages |->
               IF Inside(lo, hi, p) /\ \E a \in Range(al) : Covers(a, p) THEN Nil ELSE pt[p]]

(* vmmap_remove does what RemovedFrom says, whichever of its cases arise. *)
LEMMA RemoveCorrect ==
  ASSUME NEW al, NEW rf, Held(al, rf), NEW pt, NEW lo \in Int, NEW n \in Nat,
         ~TouchesJunk(al, lo, lo + n), NEW r, r = vmmap_remove(al, rf, pt, lo, n)
  PROVE  RemovedFrom(al, rf, pt, lo, lo + n, r)
<1> DEFINE hi == lo + n
           loop == CHOOSE f : LoopOf(al, rf, lo, hi, Len(al), f)
           st == loop[Len(al)]
<1>1. AreaList(al) /\ Len(al) \in Nat
  BY ListFacts DEF Held
<1>2. LoopOf(al, rf, lo, hi, Len(al), loop)
  BY <1>1, LoopExists
<1>3. r = [areas |-> IF st.split = <<>> THEN st.list ELSE vmmap_insert(st.list, st.split[1]),
           refs |-> st.refs,
           pte |-> [p \in UserPages |-> IF p \in st.unmapped THEN Nil ELSE pt[p]]]
  BY DEF vmmap_remove, LoopOf
<1> HIDE DEF loop
<1>4. PICK s : s = st
  OBVIOUS
<1>5. r.refs = s.refs /\ r.pte = [p \in UserPages |-> IF p \in s.unmapped THEN Nil ELSE pt[p]]
  BY <1>3, <1>4
<1>6. r.areas = IF s.split = <<>> THEN s.list ELSE vmmap_insert(s.list, s.split[1])
  BY <1>3, <1>4
<1>7. hi \in Int /\ lo <= hi
  OBVIOUS
<1> HIDE DEF hi
<1>8. LoopInv(al, rf, lo, hi, Len(al), s)
  <2>1. LoopInv(al, rf, lo, hi, Len(al), loop[Len(al)])
    BY <1>2, <1>7, LoopRuns DEF hi
  <2> QED BY <1>4, <2>1
<1>9. LoopList(al, Len(al), s) /\ LoopCount(al, rf, Len(al), s) /\ LoopCut(al, lo, hi, Len(al), s)
  BY <1>8 DEF LoopInv
<1>10. Mixed(al, Len(al), s) = Range(s.list) \cup Half(s)
  <2>1. Len(al) + 1 .. Len(al) = {}
    BY <1>1
  <2>2. Rest(al, Len(al)) = {}
    BY <2>1 DEF Rest
  <2> QED BY <2>2 DEF Mixed
<1>11. AreaList(r.areas) /\ Range(r.areas) = Range(s.list) \cup Half(s)
  <2>1. CASE s.split = <<>>
    BY <1>6, <1>9, <2>1 DEF LoopList, Half
  <2>2. CASE s.split # <<>>
    <3> DEFINE d == s.split[1]
    <3>1. d \in Mixed(al, Len(al), s) /\ Half(s) = {d}
      BY <1>10, <2>2 DEF Half
    <3>2. AreaSet(Mixed(al, Len(al), s)) /\ Range(s.list) \subseteq Mixed(al, Len(al), s)
      BY <1>9, <1>10 DEF LoopCount
    <3>3. d \in Area /\ d.start < d.end
      BY <3>1, <3>2 DEF AreaSet
    <3>4. \A a \in Range(s.list) : Apart(a, d)
      <4>1. d \notin Range(s.list)
        BY <1>9, <3>1 DEF LoopCount
      <4> QED BY <3>1, <3>2, <4>1 DEF AreaSet
    <3> HIDE DEF d
    <3>5. r.areas = vmmap_insert(s.list, d)
      BY <1>6, <2>2 DEF d
    <3>6. AreaList(s.list)
      BY <1>9 DEF LoopList
    <3>7. AreaList(vmmap_insert(s.list, d)) /\ Range(vmmap_insert(s.list, d)) = Range(s.list) \cup {d}
      BY ONLY <3>3, <3>4, <3>6, InsertFacts
    <3> QED BY <3>1, <3>5, <3>7
  <2> QED BY <2>1, <2>2
<1>12. Held(r.areas, r.refs) /\ r.refs[Junk] = rf[Junk]
  <2>1. s.refs \in [Objs \cup {Junk} -> Nat]
    BY <1>9 DEF LoopList, LoopState
  <2> QED BY <1>5, <1>9, <1>10, <1>11, <2>1 DEF Held, LoopCount
<1>13. \A j \in 1 .. Len(al) : al[j] \in Range(al)
  BY <1>1, RangeMembers
<1>14. \A b \in Range(r.areas) :
         /\ b.end <= lo \/ hi <= b.start
         /\ \E a \in Range(al) : Piece(b, a)
  BY <1>9, <1>11, <1>13 DEF LoopCut
<1>15. \A a \in Range(al), p \in Int : Covers(a, p) /\ ~Inside(lo, hi, p) =>
         \E b \in Range(r.areas) : Covers(b, p)
  <2> SUFFICES ASSUME NEW a \in Range(al), NEW p \in Int, Covers(a, p), ~Inside(lo, hi, p)
               PROVE  \E b \in Range(r.areas) : Covers(b, p)
    OBVIOUS
  <2>1. PICK j \in 1 .. Len(al) : a = al[j]
    BY <1>1, RangeMembers
  <2> QED BY <1>9, <1>11, <2>1 DEF LoopCut
<1>16. \A p \in Int : p \in s.unmapped <=> Inside(lo, hi, p) /\ \E a \in Range(al) : Covers(a, p)
  <2> TAKE p \in Int
  <2>1. p \in s.unmapped <=> \E j \in 1 .. Len(al) : p \in CutPages(al[j], lo, hi)
    BY <1>9 DEF LoopCut
  <2>2. \A j : p \in CutPages(al[j], lo, hi) <=> Covers(al[j], p) /\ Inside(lo, hi, p)
    BY DEF CutPages
  <2>3. (\E a \in Range(al) : Covers(a, p)) <=> \E j \in 1 .. Len(al) : Covers(al[j], p)
    BY <1>1, RangeMembers
  <2> QED BY <2>1, <2>2, <2>3
<1>17. r.pte = [p \in UserPages |->
                 IF Inside(lo, hi, p) /\ \E a \in Range(al) : Covers(a, p) THEN Nil ELSE pt[p]]
  <2>1. UserPages \subseteq Int
    BY DEF UserPages
  <2> QED BY <1>5, <1>16, <2>1
<1>18. RemovedFrom(al, rf, pt, lo, hi, r)
  BY <1>12, <1>14, <1>15, <1>17 DEF RemovedFrom
<1> QED BY <1>18 DEF hi

----------------------------------------------------------------------------
(***************************************************************************)
(* What a list shows at a page.                                            *)
(***************************************************************************)
Shown(al, p) ==
  LET i == vmmap_lookup(al, p) IN IF i = 0 THEN Nil ELSE PageIn(al[i], p)

(* A page is shown by the area that covers it, if there is one. *)
LEMMA ShownFacts ==
  ASSUME NEW al, AreaList(al), NEW p \in Int
  PROVE  /\ \A a \in Range(al) : Covers(a, p) => Shown(al, p) = PageIn(a, p)
         /\ (\A a \in Range(al) : ~Covers(a, p)) => Shown(al, p) = Nil
         /\ vmmap_lookup(al, p) = 0 <=> \A a \in Range(al) : ~Covers(a, p)
         /\ vmmap_lookup(al, p) # 0 =>
              /\ vmmap_lookup(al, p) \in 1 .. Len(al)
              /\ al[vmmap_lookup(al, p)] \in Range(al)
              /\ Covers(al[vmmap_lookup(al, p)], p)
<1> DEFINE i == vmmap_lookup(al, p)
<1>1. /\ i \in 0 .. Len(al) /\ (i # 0 => Covers(al[i], p))
      /\ \A j \in 1 .. Len(al) : Covers(al[j], p) => i = j
  BY LookupCorrect DEF LookupFacts
<1>2. Shown(al, p) = IF i = 0 THEN Nil ELSE PageIn(al[i], p)
  BY DEF Shown
<1>3. Len(al) \in Nat
  BY ListFacts
<1> HIDE DEF i
<1>4. i # 0 => i \in 1 .. Len(al)
  BY <1>1, <1>3
<1>5. ASSUME NEW a \in Range(al), Covers(a, p) PROVE i # 0 /\ a = al[i]
  <2>1. PICK j \in 1 .. Len(al) : a = al[j]
    BY RangeMembers
  <2>2. i = j
    BY <1>1, <1>5, <2>1
  <2> QED BY <1>3, <2>1, <2>2
<1>6. i # 0 => al[i] \in Range(al)
  BY <1>4, RangeMembers
<1>7. i = 0 <=> \A a \in Range(al) : ~Covers(a, p)
  BY <1>1, <1>5, <1>6
<1>8. \A a \in Range(al) : Covers(a, p) => Shown(al, p) = PageIn(a, p)
  BY <1>2, <1>5
<1>9. (\A a \in Range(al) : ~Covers(a, p)) => Shown(al, p) = Nil
  BY <1>2, <1>7
<1> QED BY <1>1, <1>4, <1>6, <1>7, <1>8, <1>9 DEF i

(* A removal takes its range away and leaves what the other pages show. *)
LEMMA RemoveShows ==
  ASSUME NEW al, AreaList(al), NEW rf, NEW pt, NEW lo \in Int, NEW hi \in Int, lo <= hi,
         NEW r, RemovedFrom(al, rf, pt, lo, hi, r), NEW p \in Int
  PROVE  Shown(r.areas, p) = IF Inside(lo, hi, p) THEN Nil ELSE Shown(al, p)
<1>1. AreaList(r.areas)
  BY DEF RemovedFrom, Held
<1>2. ASSUME NEW b \in Range(r.areas), Covers(b, p)
      PROVE  ~Inside(lo, hi, p) /\ Shown(al, p) = PageIn(b, p)
  <2>1. PICK a \in Range(al) : Piece(b, a)
    BY DEF RemovedFrom
  <2>2. a \in Area
    BY RangeMembers, ListFacts
  <2>3. Covers(a, p) /\ PageIn(b, p) = PageIn(a, p)
    BY <1>2, <2>1, <2>2, PieceShows
  <2>4. b.end <= lo \/ hi <= b.start
    BY DEF RemovedFrom
  <2>5. b.start \in Nat /\ b.end \in Nat
    BY <2>1, AreaFacts DEF Piece
  <2>6. ~Inside(lo, hi, p)
    BY <1>2, <2>4, <2>5 DEF Covers, Inside
  <2> QED BY <2>3, <2>6, ShownFacts
<1>3. CASE \E b \in Range(r.areas) : Covers(b, p)
  <2>1. PICK b \in Range(r.areas) : Covers(b, p)
    BY <1>3
  <2> QED BY <1>1, <1>2, <2>1, ShownFacts
<1>4. CASE \A b \in Range(r.areas) : ~Covers(b, p)
  <2>1. Shown(r.areas, p) = Nil
    BY <1>1, <1>4, ShownFacts
  <2>2. ~Inside(lo, hi, p) => \A a \in Range(al) : ~Covers(a, p)
    BY <1>4 DEF RemovedFrom
  <2>3. ~Inside(lo, hi, p) => Shown(al, p) = Nil
    BY <2>2, ShownFacts
  <2> QED BY <2>1, <2>3
<1> QED BY <1>3, <1>4

(* An inserted area shows its pages and leaves what the others show. *)
LEMMA InsertShows ==
  ASSUME NEW al, AreaList(al), NEW m, AreaList(m), NEW c, Range(m) = Range(al) \cup {c}, NEW p \in Int
  PROVE  Shown(m, p) = IF Covers(c, p) THEN PageIn(c, p) ELSE Shown(al, p)
<1>1. CASE Covers(c, p)
  BY <1>1, ShownFacts
<1>2. CASE ~Covers(c, p) /\ \E a \in Range(al) : Covers(a, p)
  BY <1>2, ShownFacts
<1>3. CASE ~Covers(c, p) /\ \A a \in Range(al) : ~Covers(a, p)
  BY <1>3, ShownFacts
<1> QED BY <1>1, <1>2, <1>3

(***************************************************************************)
(* The page table agrees with the areas.                                   *)
(***************************************************************************)
Entry == [obj : Objs, pg : Nat, write : BOOLEAN]

(* An entry for page p that agrees with the area that covers it. *)
Shows(e, a, p) ==
  e.obj = a.obj /\ e.pg = a.off + p - a.start /\ (e.write => "w" \in a.prot)

(* A page table all of whose entries agree with the list. *)
PteOf(al, pt) ==
  /\ pt \in [UserPages -> {Nil} \cup Entry]
  /\ \A p \in UserPages : pt[p] # Nil =>
       \E a \in Range(al) : Covers(a, p) /\ Shows(pt[p], a, p)

(* The areas, references and page table of VmmapInv. *)
Space(al, rf, pt) == Held(al, rf) /\ PteOf(al, pt)

(* No page table entry is left in the range, and the others still agree
   with the areas. *)
LEMMA RemoveKeepsPte ==
  ASSUME NEW al, AreaList(al), NEW rf, NEW pt, PteOf(al, pt), NEW lo \in Int, NEW hi \in Int, lo <= hi,
         NEW r, RemovedFrom(al, rf, pt, lo, hi, r)
  PROVE  /\ PteOf(r.areas, r.pte)
         /\ \A p \in UserPages : Inside(lo, hi, p) => r.pte[p] = Nil
<1>1. r.pte = [p \in UserPages |->
                 IF Inside(lo, hi, p) /\ \E a \in Range(al) : Covers(a, p) THEN Nil ELSE pt[p]]
  BY DEF RemovedFrom
<1>2. r.pte \in [UserPages -> {Nil} \cup Entry]
  BY <1>1 DEF PteOf
<1>3. ASSUME NEW p \in UserPages, r.pte[p] # Nil
      PROVE  /\ ~Inside(lo, hi, p)
             /\ \E b \in Range(r.areas) : Covers(b, p) /\ Shows(r.pte[p], b, p)
  <2>1. r.pte[p] = pt[p] /\ ~(Inside(lo, hi, p) /\ \E a \in Range(al) : Covers(a, p))
    BY <1>1, <1>3
  <2>2. PICK a \in Range(al) : Covers(a, p) /\ Shows(pt[p], a, p)
    BY <1>3, <2>1 DEF PteOf
  <2>3. ~Inside(lo, hi, p) /\ p \in Int
    BY <2>1, <2>2 DEF UserPages
  <2>4. PICK b \in Range(r.areas) : Covers(b, p)
    BY <2>2, <2>3 DEF RemovedFrom
  <2>5. PICK d \in Range(al) : Piece(b, d)
    BY DEF RemovedFrom
  <2>6. d \in Area
    BY RangeMembers, ListFacts
  <2>7. Covers(d, p) /\ PageIn(b, p) = PageIn(d, p)
    BY <2>3, <2>4, <2>5, <2>6, PieceShows
  <2>8. PageIn(d, p) = PageIn(a, p)
    BY <2>2, <2>3, <2>7, ShownFacts
  <2>9. b.obj = a.obj /\ b.off + p - b.start = a.off + p - a.start /\ b.prot = a.prot
    BY <2>7, <2>8 DEF PageIn
  <2> QED BY <2>1, <2>2, <2>3, <2>4, <2>9 DEF Shows
<1> QED BY <1>2, <1>3 DEF PteOf

(* A removal that meets no area without an object keeps the areas, the
   references and the page table in agreement. *)
LEMMA RemoveKeepsSpace ==
  ASSUME NEW al, NEW rf, NEW pt, Space(al, rf, pt), NEW lo \in Int, NEW n \in Nat,
         ~TouchesJunk(al, lo, lo + n), NEW r, r = vmmap_remove(al, rf, pt, lo, n)
  PROVE  /\ RemovedFrom(al, rf, pt, lo, lo + n, r)
         /\ Space(r.areas, r.refs, r.pte)
         /\ \A p \in UserPages : Inside(lo, lo + n, p) => r.pte[p] = Nil
<1>1. RemovedFrom(al, rf, pt, lo, lo + n, r)
  BY RemoveCorrect DEF Space
<1>2. AreaList(al) /\ PteOf(al, pt) /\ lo + n \in Int /\ lo <= lo + n
  BY DEF Space, Held
<1>3. /\ PteOf(r.areas, r.pte)
      /\ \A p \in UserPages : Inside(lo, lo + n, p) => r.pte[p] = Nil
  <2>1. PICK hi \in Int : hi = lo + n
    OBVIOUS
  <2>2. /\ AreaList(al) /\ PteOf(al, pt) /\ lo \in Int /\ hi \in Int /\ lo <= hi
        /\ RemovedFrom(al, rf, pt, lo, hi, r)
    BY <1>1, <1>2, <2>1
  <2>3. /\ PteOf(r.areas, r.pte)
        /\ \A p \in UserPages : Inside(lo, hi, p) => r.pte[p] = Nil
    BY ONLY <2>2, RemoveKeepsPte, SMTT(60)
  <2>4. \A p \in UserPages : Inside(lo, lo + n, p) => r.pte[p] = Nil
    <3> TAKE p \in UserPages
    <3>1. Inside(lo, hi, p) => r.pte[p] = Nil
      BY ONLY <2>3
    <3>2. Inside(lo, lo + n, p) => Inside(lo, hi, p)
      BY ONLY <2>1
    <3> QED BY ONLY <3>1, <3>2
  <2> QED BY ONLY <2>3, <2>4
<1> QED BY <1>1, <1>3 DEF Space, RemovedFrom

----------------------------------------------------------------------------
(***************************************************************************)
(* vmmap_destroy removes area after area until none is left.               *)
(***************************************************************************)
DestroyOf(al, rf, pt, n, f) ==
  f = [i \in 0 .. n |->
        IF i = 0 THEN [areas |-> al, refs |-> rf, pte |-> pt]
        ELSE vmmap_remove(f[i - 1].areas, f[i - 1].refs, f[i - 1].pte,
                          al[i].start, al[i].end - al[i].start)]

(* The recursion of vmmap_destroy has a solution. *)
LEMMA DestroyExists ==
  ASSUME NEW al, NEW rf, NEW pt, NEW n \in Nat
  PROVE  \E f : DestroyOf(al, rf, pt, n, f)
<1> DEFINE T == {k \in Nat : \E f : DestroyOf(al, rf, pt, k, f)}
           base == [areas |-> al, refs |-> rf, pte |-> pt]
           step(i, x) == vmmap_remove(x.areas, x.refs, x.pte, al[i].start, al[i].end - al[i].start)
<1>1. 0 \in T
  <2> DEFINE f == [i \in 0 .. 0 |-> base]
  <2>1. DestroyOf(al, rf, pt, 0, f)
    BY DEF DestroyOf
  <2> QED BY <2>1
<1>2. ASSUME NEW k \in Nat, k \in T PROVE k + 1 \in T
  <2>1. PICK f : DestroyOf(al, rf, pt, k, f)
    BY <1>2
  <2>2. f = [i \in 0 .. k |-> IF i = 0 THEN base ELSE step(i, f[i - 1])]
    BY <2>1 DEF DestroyOf
  <2> HIDE DEF base, step
  <2> DEFINE g == [i \in 0 .. k + 1 |-> IF i <= k THEN f[i] ELSE step(i, f[k])]
             h == [i \in 0 .. k + 1 |-> IF i = 0 THEN base ELSE step(i, g[i - 1])]
  <2>3. ASSUME NEW i \in 0 .. k + 1 PROVE g[i] = h[i]
    <3>1. CASE i = 0
      BY <2>2, <3>1
    <3>2. CASE i = k + 1
      <4>1. i # 0 /\ i - 1 = k /\ k \in 0 .. k + 1 /\ k <= k /\ ~(k + 1 <= k)
        BY <3>2
      <4> QED BY <3>2, <4>1
    <3>3. CASE i # 0 /\ i # k + 1
      <4>1. i \in 0 .. k /\ i - 1 \in 0 .. k /\ i - 1 \in 0 .. k + 1 /\ i <= k /\ i - 1 <= k
        BY <3>3
      <4>2. f[i] = step(i, f[i - 1])
        BY <2>2, <3>3, <4>1
      <4> QED BY <3>3, <4>1, <4>2
    <3> QED BY <3>1, <3>2, <3>3
  <2>4. g = h
    BY <2>3
  <2>5. DestroyOf(al, rf, pt, k + 1, g)
    BY <2>4 DEF DestroyOf, base, step
  <2> QED BY <2>5
<1>3. Nat \subseteq T
  <2> HIDE DEF T
  <2> QED BY <1>1, <1>2, SetInduction
<1> QED BY <1>3

(* After i removals nothing is left of the first i areas. *)
DestroyInv(al, i, s) ==
  /\ Space(s.areas, s.refs, s.pte)
  /\ \A b \in Range(s.areas) :
       /\ b.obj # Junk
       /\ \E a \in Range(al) : Piece(b, a)
       /\ \A j \in 1 .. i : b.end <= al[j].start \/ al[j].end <= b.start

(* No area is without an object. *)
NoJunk(al) == \A a \in Range(al) : a.obj # Junk

(* One removal of vmmap_destroy takes its area and no other page. *)
LEMMA DestroyTurn ==
  ASSUME NEW al, AreaList(al), NEW i \in Nat, i + 1 \in 1 .. Len(al),
         NEW s, DestroyInv(al, i, s),
         NEW t, t = vmmap_remove(s.areas, s.refs, s.pte, al[i + 1].start, al[i + 1].end - al[i + 1].start)
  PROVE  DestroyInv(al, i + 1, t)
<1>1. PICK a, lo, n : a = al[i + 1] /\ lo = a.start /\ n = a.end - a.start
  OBVIOUS
<1>2. a \in Area /\ a.start \in Nat /\ a.end \in Nat /\ a.start < a.end
  BY <1>1, ListFacts
<1>3. lo \in Int /\ n \in Nat /\ lo + n = a.end
  BY <1>1, <1>2
<1>4. PICK m, rf, pt : m = s.areas /\ rf = s.refs /\ pt = s.pte
  OBVIOUS
<1>5. Space(m, rf, pt) /\ t = vmmap_remove(m, rf, pt, lo, n)
  BY <1>1, <1>4 DEF DestroyInv
<1>6. AreaList(m)
  BY <1>5 DEF Space, Held
<1>7. \A b \in Range(m) : /\ b.obj # Junk
                          /\ \E d \in Range(al) : Piece(b, d)
                          /\ \A j \in 1 .. i : b.end <= al[j].start \/ al[j].end <= b.start
  BY <1>4 DEF DestroyInv
<1>8. ~TouchesJunk(m, lo, lo + n)
  BY <1>6, <1>7, RangeMembers DEF TouchesJunk
<1>9. RemovedFrom(m, rf, pt, lo, lo + n, t) /\ Space(t.areas, t.refs, t.pte)
  BY ONLY <1>3, <1>5, <1>8, RemoveKeepsSpace
<1>10. ASSUME NEW b \in Range(t.areas)
       PROVE  /\ b.obj # Junk
              /\ \E d \in Range(al) : Piece(b, d)
              /\ \A j \in 1 .. i + 1 : b.end <= al[j].start \/ al[j].end <= b.start
  <2>1. (b.end <= lo \/ lo + n <= b.start) /\ \E c \in Range(m) : Piece(b, c)
    BY <1>9 DEF RemovedFrom
  <2>2. PICK c \in Range(m) : Piece(b, c)
    BY <2>1
  <2>3. PICK d \in Range(al) : Piece(c, d)
    BY <1>7
  <2>4. d \in Area /\ c \in Area
    BY <2>3, RangeMembers, ListFacts DEF Piece
  <2>5. Piece(b, d)
    BY <2>2, <2>3, <2>4, PieceOfPiece
  <2>6. b.obj # Junk
    BY <1>7, <2>2 DEF Piece
  <2>7. ASSUME NEW j \in 1 .. i + 1 PROVE b.end <= al[j].start \/ al[j].end <= b.start
    <3>1. CASE j = i + 1
      BY <1>1, <1>3, <2>1, <3>1
    <3>2. CASE j \in 1 .. i
      <4>1. c.end <= al[j].start \/ al[j].end <= c.start
        BY <1>7, <3>2
      <4>2. c.start <= b.start /\ b.end <= c.end /\ b \in Area
        BY <2>2 DEF Piece
      <4>3. /\ c.start \in Nat /\ c.end \in Nat /\ b.start \in Nat /\ b.end \in Nat
            /\ al[j].start \in Nat /\ al[j].end \in Nat
        <5>1. j \in 1 .. Len(al)
          <6>1. Len(al) \in Nat
            BY ListFacts
          <6> QED BY <3>2, <6>1
        <5> QED BY <2>4, <4>2, <5>1, AreaFacts, ListFacts
      <4> QED BY <4>1, <4>2, <4>3
    <3> QED BY <3>1, <3>2
  <2> QED BY <2>5, <2>6, <2>7
<1> QED BY <1>9, <1>10 DEF DestroyInv

(* vmmap_destroy leaves no area, and no reference that an area held. *)
LEMMA DestroyCorrect ==
  ASSUME NEW al, NEW rf, NEW pt, Space(al, rf, pt), NoJunk(al),
         NEW r, r = vmmap_destroy(al, rf, pt)
  PROVE  Space(r.areas, r.refs, r.pte) /\ Range(r.areas) = {}
<1> DEFINE loop == CHOOSE f : DestroyOf(al, rf, pt, Len(al), f)
<1>1. AreaList(al) /\ Len(al) \in Nat
  BY ListFacts DEF Space, Held
<1>2. DestroyOf(al, rf, pt, Len(al), loop)
  BY <1>1, DestroyExists
<1>3. r = loop[Len(al)]
  BY DEF vmmap_destroy, DestroyOf
<1> HIDE DEF loop
<1> DEFINE T == {k \in Nat : k <= Len(al) => DestroyInv(al, k, loop[k])}
           base == [areas |-> al, refs |-> rf, pte |-> pt]
<1>4. loop = [i \in 0 .. Len(al) |->
               IF i = 0 THEN base
               ELSE vmmap_remove(loop[i - 1].areas, loop[i - 1].refs, loop[i - 1].pte,
                                 al[i].start, al[i].end - al[i].start)]
  BY <1>2 DEF DestroyOf
<1>5. 0 \in T
  <2>1. 0 \in 0 .. Len(al)
    BY <1>1
  <2>2. loop[0] = base
    BY <1>4, <2>1
  <2>3. \A b \in Range(al) : Piece(b, b) /\ b.obj # Junk
    BY <1>1, RangeMembers, ListFacts, WholePiece DEF NoJunk
  <2>4. DestroyInv(al, 0, base)
    BY <2>3 DEF DestroyInv
  <2> HIDE DEF base
  <2> QED BY <2>2, <2>4
<1>6. ASSUME NEW k \in Nat, k \in T PROVE k + 1 \in T
  <2> SUFFICES ASSUME k + 1 <= Len(al) PROVE DestroyInv(al, k + 1, loop[k + 1])
    OBVIOUS
  <2>1. k + 1 \in 1 .. Len(al) /\ k + 1 \in 0 .. Len(al) /\ k + 1 # 0 /\ (k + 1) - 1 = k /\ k <= Len(al)
    BY <1>1
  <2>2. loop[k + 1] = vmmap_remove(loop[k].areas, loop[k].refs, loop[k].pte,
                                   al[k + 1].start, al[k + 1].end - al[k + 1].start)
    BY <1>4, <2>1
  <2>3. DestroyInv(al, k, loop[k])
    BY <1>6, <2>1
  <2>4. PICK s, t : s = loop[k] /\ t = loop[k + 1]
    OBVIOUS
  <2>5. /\ DestroyInv(al, k, s)
        /\ t = vmmap_remove(s.areas, s.refs, s.pte, al[k + 1].start, al[k + 1].end - al[k + 1].start)
    BY <2>2, <2>3, <2>4
  <2>6. k \in Nat
    OBVIOUS
  <2>7. DestroyInv(al, k + 1, t)
    BY ONLY <1>1, <2>1, <2>5, <2>6, DestroyTurn
  <2> QED BY <2>4, <2>7
<1>7. Nat \subseteq T
  <2> HIDE DEF T
  <2> QED BY <1>5, <1>6, SetInduction
<1>8. DestroyInv(al, Len(al), r)
  <2>1. Len(al) \in T /\ Len(al) <= Len(al)
    BY <1>1, <1>7
  <2> QED BY <1>3, <2>1
<1>9. Range(r.areas) = {}
  <2> SUFFICES ASSUME NEW b \in Range(r.areas) PROVE FALSE
    OBVIOUS
  <2>1. PICK a \in Range(al) : Piece(b, a)
    BY <1>8 DEF DestroyInv
  <2>2. PICK j \in 1 .. Len(al) : a = al[j]
    BY <1>1, RangeMembers
  <2>3. b.end <= a.start \/ a.end <= b.start
    BY <1>8, <2>2 DEF DestroyInv
  <2>4. a \in Area /\ b \in Area
    BY <1>1, <2>1, <2>2, ListFacts DEF Piece
  <2>5. a.start <= b.start /\ b.end <= a.end /\ b.start < b.end
    BY <2>1 DEF Piece
  <2>6. a.start \in Nat /\ a.end \in Nat /\ b.start \in Nat /\ b.end \in Nat
    BY <2>4, AreaFacts
  <2> QED BY <2>3, <2>5, <2>6
<1> QED BY <1>8, <1>9 DEF DestroyInv

----------------------------------------------------------------------------
(***************************************************************************)
(* The invariant, for any list, references and page table.                 *)
(***************************************************************************)
SpaceOf(al, rf, pt) ==
  /\ al \in Seq(Area) /\ rf \in [Objs \cup {Junk} -> Nat]
  /\ pt \in [UserPages -> {Nil} \cup [obj : Objs, pg : Nat, write : BOOLEAN]]
  /\ \A i \in 1 .. Len(al) : al[i].start < al[i].end
  /\ \A i, j \in 1 .. Len(al) : i < j => al[i].end <= al[j].start
  /\ \A o \in Objs : rf[o] = Cardinality({i \in 1 .. Len(al) : al[i].obj = o})
  /\ \A p \in UserPages : pt[p] # Nil =>
       LET i == vmmap_lookup(al, p)
       IN /\ i # 0
          /\ pt[p].obj = al[i].obj
          /\ pt[p].pg = al[i].off + p - al[i].start
          /\ pt[p].write => "w" \in al[i].prot

(* The values of state. *)
Reasons == {"user", "exited", "range", "junk", "nobrk", "brkrange"}

(* Counting areas, or their indices, states the same invariant. *)
LEMMA SpaceIsSpaceOf ==
  ASSUME NEW al, NEW rf, NEW pt
  PROVE  Space(al, rf, pt) <=> SpaceOf(al, rf, pt)
<1>1. AreaList(al) <=> /\ al \in Seq(Area)
                       /\ \A i \in 1 .. Len(al) : al[i].start < al[i].end
                       /\ \A i, j \in 1 .. Len(al) : i < j => al[i].end <= al[j].start
  BY DEF AreaList
<1>2. ASSUME AreaList(al)
      PROVE  /\ Held(al, rf) <=> /\ rf \in [Objs \cup {Junk} -> Nat]
                                 /\ \A o \in Objs : rf[o] = Cardinality({i \in 1 .. Len(al) : al[i].obj = o})
             /\ PteOf(al, pt) <=>
                  /\ pt \in [UserPages -> {Nil} \cup [obj : Objs, pg : Nat, write : BOOLEAN]]
                  /\ \A p \in UserPages : pt[p] # Nil =>
                       LET i == vmmap_lookup(al, p)
                       IN /\ i # 0
                          /\ pt[p].obj = al[i].obj
                          /\ pt[p].pg = al[i].off + p - al[i].start
                          /\ pt[p].write => "w" \in al[i].prot
  <2>1. \A o : CountOf(Range(al), o) = Cardinality({i \in 1 .. Len(al) : al[i].obj = o})
    BY <1>2, CountByIndex
  <2>2. Held(al, rf) <=> /\ rf \in [Objs \cup {Junk} -> Nat]
                         /\ \A o \in Objs : rf[o] = Cardinality({i \in 1 .. Len(al) : al[i].obj = o})
    BY <1>2, <2>1 DEF Held
  <2>3. ASSUME NEW p \in UserPages, NEW e
        PROVE  (\E a \in Range(al) : Covers(a, p) /\ Shows(e, a, p)) <=>
                 vmmap_lookup(al, p) # 0 /\ Shows(e, al[vmmap_lookup(al, p)], p)
    <3>1. p \in Int
      BY DEF UserPages
    <3> DEFINE i == vmmap_lookup(al, p)
    <3>2. /\ i # 0 => i \in 1 .. Len(al) /\ al[i] \in Range(al) /\ Covers(al[i], p)
          /\ i = 0 <=> \A a \in Range(al) : ~Covers(a, p)
      BY <1>2, <3>1, ShownFacts
    <3>3. ASSUME NEW a \in Range(al), Covers(a, p) PROVE a = al[i]
      <4>1. PICK j \in 1 .. Len(al) : a = al[j]
        BY <1>2, RangeMembers
      <4>2. i = j
        BY <1>2, <3>1, <3>3, <4>1, LookupCorrect DEF LookupFacts
      <4> QED BY <4>1, <4>2
    <3> HIDE DEF i
    <3> QED BY <3>2, <3>3 DEF i
  <2>4. PteOf(al, pt) <=>
          /\ pt \in [UserPages -> {Nil} \cup Entry]
          /\ \A p \in UserPages : pt[p] # Nil =>
               vmmap_lookup(al, p) # 0 /\ Shows(pt[p], al[vmmap_lookup(al, p)], p)
    BY <2>3 DEF PteOf
  <2> QED BY <2>2, <2>4 DEF Entry, Shows
<1> QED BY <1>1, <1>2 DEF Space, SpaceOf, Held

(* VmmapInv is Space of the state. *)
LEMMA InvIsSpace ==
  VmmapInv <=> Space(areas, refs, pte) /\ brk \in Addrs /\ startBrk \in Addrs /\ state \in Reasons
<1>1. VmmapInv <=> SpaceOf(areas, refs, pte) /\ brk \in Addrs /\ startBrk \in Addrs /\ state \in Reasons
  BY DEF VmmapInv, VmmapTypeOK, AreasOrdered, RefsMatchAreas, PteMatchesArea, SpaceOf, Reasons
<1> QED BY <1>1, SpaceIsSpaceOf

(* VmmapInv after a step is Space of the state after it. *)
LEMMA InvIsSpaceNext ==
  VmmapInv' <=> Space(areas', refs', pte') /\ brk' \in Addrs /\ startBrk' \in Addrs /\ state' \in Reasons
<1>1. VmmapInv' <=> SpaceOf(areas', refs', pte') /\ brk' \in Addrs /\ startBrk' \in Addrs /\ state' \in Reasons
  BY DEF VmmapInv, VmmapTypeOK, AreasOrdered, RefsMatchAreas, PteMatchesArea, SpaceOf, Reasons
<1> QED BY <1>1, SpaceIsSpaceOf

(***************************************************************************)
(* Into a free range an area goes with one reference to its object.        *)
(***************************************************************************)
(* One reference more to o, unless o is no object. *)
OneMore(rf, o) == [rf EXCEPT ![o] = IF o = Junk THEN @ ELSE @ + 1]

(* An area inserted apart from all others, with a reference to its object,
   keeps the agreement. *)
LEMMA InsertSpace ==
  ASSUME NEW al, NEW rf, NEW pt, Space(al, rf, pt), NEW c \in Area, c.start < c.end,
         \A a \in Range(al) : Apart(a, c), NEW m, m = vmmap_insert(al, c),
         NEW rg, rg = OneMore(rf, c.obj)
  PROVE  Space(m, rg, pt) /\ Range(m) = Range(al) \cup {c}
<1>1. AreaList(al) /\ rf \in [Objs \cup {Junk} -> Nat] /\ \A o \in Objs : rf[o] = CountOf(Range(al), o)
  BY DEF Space, Held
<1>2. AreaList(m) /\ Range(m) = Range(al) \cup {c}
  BY <1>1, InsertFacts
<1>3. c \notin Range(al)
  <2>1. c.start \in Nat /\ c.end \in Nat
    BY AreaFacts
  <2>2. ~Apart(c, c)
    BY <2>1 DEF Apart
  <2> QED BY <2>2
<1>4. IsFiniteSet(Range(al))
  BY <1>1, CountByIndex
<1>5. \A o : CountOf(Range(m), o) = CountOf(Range(al), o) + (IF c.obj = o THEN 1 ELSE 0)
  <2>1. PICK S : S = Range(al)
    OBVIOUS
  <2>2. IsFiniteSet(S) /\ c \notin S
    BY <1>3, <1>4, <2>1
  <2>3. \A o : CountOf(S \cup {c}, o) = CountOf(S, o) + (IF c.obj = o THEN 1 ELSE 0)
    BY ONLY <2>2, CountAdd
  <2> QED BY <1>2, <2>1, <2>3
<1>6. c.obj \in Objs \cup {Junk} /\ Junk \notin Objs
  BY AreaFacts, InputAssumption
<1>7. rg \in [Objs \cup {Junk} -> Nat]
  <2>1. rf[c.obj] \in Nat
    BY <1>1, <1>6
  <2>2. rf[c.obj] + 1 \in Nat
    BY <2>1
  <2> QED BY <1>1, <2>1, <2>2 DEF OneMore
<1>8. ASSUME NEW o \in Objs PROVE rg[o] = CountOf(Range(m), o)
  <2>1. rf[o] \in Nat /\ rf[o] = CountOf(Range(al), o)
    BY <1>1
  <2>2. rg[o] = IF c.obj = o THEN rf[o] + 1 ELSE rf[o]
    BY <1>1, <1>6 DEF OneMore
  <2> QED BY <1>5, <2>1, <2>2
<1>9. PteOf(m, pt)
  BY <1>2 DEF Space, PteOf
<1> QED BY <1>2, <1>7, <1>8, <1>9 DEF Space, Held

----------------------------------------------------------------------------
(***************************************************************************)
(* vmmap_map, and the system calls that end in it.                         *)
(***************************************************************************)

(* m shows what al does, but the n pages of o from page off on at lo; o is
   a file's object, none, or one that al does not show. *)
Mapped(al, m, lo, n, prot, off) ==
  /\ lo \in Int /\ n \in Nat /\ n # 0 /\ LowPage <= lo /\ lo + n <= HighPage
  /\ \E o \in Objs \cup {Junk} :
       /\ o \in Files \cup {Junk} \/ \A a \in Range(al) : a.obj # o
       /\ \A p \in Int :
            Shown(m, p) = IF Inside(lo, lo + n, p)
                          THEN [obj |-> o, pg |-> off + p - lo, prot |-> prot]
                          ELSE Shown(al, p)

(* A list with the range removed, or one where it was free all along. *)
Cleared(al, lo, hi, r) ==
  /\ Space(r.areas, r.refs, r.pte)
  /\ \A b \in Range(r.areas) : b.end <= lo \/ hi <= b.start
  /\ \A p \in Int : ~Inside(lo, hi, p) => Shown(r.areas, p) = Shown(al, p)

(* A removal clears its range. *)
LEMMA ClearedByRemoval ==
  ASSUME NEW al, NEW rf, NEW pt, Space(al, rf, pt), NEW lo \in Int, NEW n \in Nat,
         ~TouchesJunk(al, lo, lo + n), NEW r, r = vmmap_remove(al, rf, pt, lo, n)
  PROVE  Cleared(al, lo, lo + n, r)
<1>1. RemovedFrom(al, rf, pt, lo, lo + n, r) /\ Space(r.areas, r.refs, r.pte)
  BY RemoveKeepsSpace
<1>2. PICK hi \in Int : hi = lo + n /\ lo <= hi
  OBVIOUS
<1>3. RemovedFrom(al, rf, pt, lo, hi, r) /\ AreaList(al)
  BY <1>1, <1>2 DEF Space, Held
<1>4. \A p \in Int : Shown(r.areas, p) = IF Inside(lo, hi, p) THEN Nil ELSE Shown(al, p)
  BY <1>2, <1>3, RemoveShows
<1>5. \A b \in Range(r.areas) : b.end <= lo \/ hi <= b.start
  BY <1>3 DEF RemovedFrom
<1> QED BY <1>1, <1>2, <1>4, <1>5 DEF Cleared

(* An object nobody counts is shown nowhere. *)
LEMMA UncountedUnused ==
  ASSUME NEW al, NEW rf, Held(al, rf), NEW o \in Objs, rf[o] = 0
  PROVE  \A a \in Range(al) : a.obj # o
<1> DEFINE S == {a \in Range(al) : a.obj = o}
<1>1. IsFiniteSet(Range(al)) /\ Cardinality(S) = 0
  BY CountByIndex DEF Held, CountOf
<1>2. IsFiniteSet(S)
  BY <1>1, FS_Subset
<1>3. S = {}
  <2> HIDE DEF S
  <2> QED BY <1>1, <1>2, FS_EmptySet
<1> QED BY <1>3

(* vmmap_map stops the kernel, or shows its object over its range. *)
LEMMA MapStep ==
  ASSUME Space(areas, refs, pte), NEW file, NEW lo \in Int, NEW n \in Nat,
         NEW prot \in Protections, NEW flags \in MapFlags, NEW off \in Nat,
         file = Nil \/ file \in Files,
         vmmap_map(file, lo, n, prot, flags, off)
  PROVE  \/ UNCHANGED <<areas, refs, pte>> /\ state' \in Reasons \ {"user"}
         \/ /\ Space(areas', refs', pte') /\ state' = state
            /\ Mapped(areas, areas', lo, n, prot, off)
<1> SUFFICES ASSUME RangeLegal(lo, lo + n), ~TouchesJunk(areas, lo, lo + n)
             PROVE  /\ Space(areas', refs', pte') /\ state' = state
                    /\ Mapped(areas, areas', lo, n, prot, off)
  BY DEF vmmap_map, Panic, Reasons
<1>1. /\ LowPage \in Nat /\ HighPage \in Nat /\ lo < lo + n /\ LowPage <= lo /\ lo + n <= HighPage
      /\ n # 0 /\ lo + n \in Int
  BY SpaceFacts DEF RangeLegal
<1>2. PICK o \in MapObj(flags, file) :
      \E r \in {IF vmmap_is_range_empty(areas, lo, lo + n)
                THEN [areas |-> areas, refs |-> refs, pte |-> pte]
                ELSE vmmap_remove(areas, refs, pte, lo, n)} :
        /\ SetSpace([r EXCEPT
             !.areas = vmmap_insert(@, [start |-> lo, end |-> lo + n, off |-> off,
                                        prot |-> prot, flags |-> flags, obj |-> o]),
             !.refs[o] = IF o = Junk THEN @ ELSE @ + 1])
        /\ state' = state
  BY DEF vmmap_map
<1>3. PICK r : /\ r = IF vmmap_is_range_empty(areas, lo, lo + n)
                      THEN [areas |-> areas, refs |-> refs, pte |-> pte]
                      ELSE vmmap_remove(areas, refs, pte, lo, n)
               /\ SetSpace([r EXCEPT
                    !.areas = vmmap_insert(@, [start |-> lo, end |-> lo + n, off |-> off,
                                               prot |-> prot, flags |-> flags, obj |-> o]),
                    !.refs[o] = IF o = Junk THEN @ ELSE @ + 1])
               /\ state' = state
  BY <1>2
<1>4. PICK c : c = [start |-> lo, end |-> lo + n, off |-> off, prot |-> prot, flags |-> flags, obj |-> o]
  OBVIOUS
<1>5. r = [areas |-> r.areas, refs |-> r.refs, pte |-> r.pte]
  BY <1>3 DEF vmmap_remove
<1>6. /\ areas' = vmmap_insert(r.areas, c) /\ pte' = r.pte
      /\ refs' = [r.refs EXCEPT ![o] = IF o = Junk THEN @ ELSE @ + 1]
  BY <1>3, <1>4, <1>5 DEF SetSpace
<1>7. /\ o \in Objs \cup {Junk}
      /\ o \in Files \cup {Junk} \/ \A a \in Range(areas) : a.obj # o
  <2>1. CASE o \in Anons /\ refs[o] = 0
    BY <2>1, UncountedUnused DEF Objs, Space
  <2>2. CASE o \in Files \cup {Junk}
    BY <2>2 DEF Objs
  <2> QED BY <1>2, <2>1, <2>2 DEF MapObj
<1>8. c \in Area /\ c.start = lo /\ c.end = lo + n /\ c.obj = o /\ c.off = off /\ c.prot = prot
  <2>1. lo \in UserPages /\ lo + n \in LowPage + 1 .. HighPage
    BY <1>1 DEF UserPages
  <2> QED BY <1>4, <1>7, <2>1 DEF Area
<1>9. AreaList(areas)
  BY DEF Space, Held
<1>10. Cleared(areas, lo, lo + n, r)
  <2>1. CASE vmmap_is_range_empty(areas, lo, lo + n)
    <3>1. r.areas = areas /\ r.refs = refs /\ r.pte = pte
      BY <1>3, <2>1
    <3>2. Free(Range(areas), lo, lo + n)
      BY <1>1, <1>9, <2>1, RangeEmptyExact
    <3> QED BY <3>1, <3>2 DEF Cleared, Free
  <2>2. CASE ~vmmap_is_range_empty(areas, lo, lo + n)
    <3>1. r = vmmap_remove(areas, refs, pte, lo, n)
      BY <1>3, <2>2
    <3> QED BY <3>1, ClearedByRemoval
  <2> QED BY <2>1, <2>2
<1>11. PICK al, rf, pt : al = r.areas /\ rf = r.refs /\ pt = r.pte
  OBVIOUS
<1>12. PICK m, rg : m = areas' /\ rg = refs'
  OBVIOUS
<1>13. Space(al, rf, pt) /\ \A a \in Range(al) : Apart(a, c)
  BY <1>8, <1>10, <1>11 DEF Cleared, Apart
<1>14. /\ c \in Area /\ c.start < c.end /\ m = vmmap_insert(al, c)
       /\ rg = OneMore(rf, c.obj)
  BY <1>1, <1>6, <1>8, <1>11, <1>12 DEF OneMore
<1>15. Space(m, rg, pt) /\ Range(m) = Range(al) \cup {c}
  BY ONLY <1>13, <1>14, InsertSpace
<1>16. Space(areas', refs', pte')
  BY <1>6, <1>11, <1>12, <1>15
<1>17. AreaList(al) /\ AreaList(m)
  BY <1>13, <1>15 DEF Space, Held
<1>18. ASSUME NEW p \in Int
       PROVE  Shown(m, p) = IF Inside(lo, lo + n, p)
                            THEN [obj |-> o, pg |-> off + p - lo, prot |-> prot]
                            ELSE Shown(areas, p)
  <2>1. Shown(m, p) = IF Covers(c, p) THEN PageIn(c, p) ELSE Shown(al, p)
    BY <1>15, <1>17, InsertShows
  <2>2. Covers(c, p) <=> Inside(lo, lo + n, p)
    BY <1>8 DEF Covers, Inside
  <2>3. PageIn(c, p) = [obj |-> o, pg |-> off + p - lo, prot |-> prot]
    BY <1>8 DEF PageIn
  <2>4. ~Inside(lo, lo + n, p) => Shown(al, p) = Shown(areas, p)
    BY <1>10, <1>11 DEF Cleared
  <2> QED BY <2>1, <2>2, <2>3, <2>4
<1>19. Mapped(areas, m, lo, n, prot, off)
  BY <1>1, <1>7, <1>18 DEF Mapped
<1> QED BY <1>3, <1>12, <1>16, <1>19

(***************************************************************************)
(* mmap: what its checks leave, and what it does.                          *)
(***************************************************************************)
LEMMA PageNumbers ==
  ASSUME NEW x \in Nat
  PROVE  PN(x) \in Nat /\ Wrap(x) \in Nat /\ RoundLen(x) \in Nat
<1>1. PageSize \in Nat /\ PageSize > 0 /\ AddrSpace \in Nat /\ AddrSpace > 0
  <2>1. /\ PageSize \in Nat /\ PageSize # 0 /\ HighPage \in Nat /\ AddrSpace \in Nat
        /\ HighPage * PageSize < AddrSpace
    BY SpaceAssumption
  <2>2. HighPage * PageSize \in Nat
    BY <2>1
  <2>3. AddrSpace > 0
    BY <2>1, <2>2
  <2> QED BY <2>1, <2>3
<1>2. \A y \in Nat : y \div PageSize \in Nat /\ y % AddrSpace \in Nat
  BY ONLY <1>1, SMT
<1>3. PN(x) \in Nat /\ Wrap(x) \in Nat
  BY <1>2 DEF PN, Wrap
<1>4. (PN(x) + 1) * PageSize \in Nat
  BY ONLY <1>1, <1>3, SMT
<1>5. Wrap((PN(x) + 1) * PageSize) \in Nat
  BY <1>2, <1>4 DEF Wrap
<1> QED BY <1>3, <1>5 DEF RoundLen

(* No check fails when the first that fails is none. *)
LEMMA NoCheckFails ==
  ASSUME NEW checks, NEW n \in Nat, Len(checks) = n,
         \A k \in 1 .. n : checks[k][2] # "ok",
         NEW i, i = SelectInSeq(checks, LAMBDA c : c[1]),
         (IF i = 0 THEN "ok" ELSE checks[i][2]) = "ok"
  PROVE  \A k \in 1 .. n : ~checks[k][1]
<1> DEFINE I == {k \in 1 .. n : checks[k][1]}
<1>1. i = IF I # {} THEN CHOOSE x \in I : \A y \in I : x =< y ELSE 0
  BY DEF SelectInSeq, Min
<1>2. CASE I # {}
  <2>1. I \subseteq Nat
    OBVIOUS
  <2>2. \E x \in I : \A y \in I : x <= y
    <3> HIDE DEF I
    <3> QED BY <1>2, <2>1, LeastNumber
  <2>3. i \in I
    <3> HIDE DEF I
    <3> QED BY <1>1, <1>2, <2>2
  <2>4. i \in 1 .. n /\ i # 0
    BY <2>3
  <2> QED BY <2>4
<1> QED BY <1>2

(* A mapping that passes the checks and is not anonymous has a file. *)
LEMMA MmapCheckOk ==
  ASSUME NEW addr, NEW len, NEW prot, NEW flags, NEW fd, NEW off,
         MmapCheck(addr, len, prot, flags, fd, off) = "ok"
  PROVE  "anon" \in flags \/ fd # Nil
<1> DEFINE pages == PN(len)
           file == ~("anon" \in flags) /\ fd # Nil
           fixed == "fixed" \in flags
           c1 == ~Aligned(off)
           c2 == len = 0
           c3 == ("shared" \in flags) = ("private" \in flags)
           c4 == ~fixed /\ vmmap_find_range(areas, pages, "lohi") < 0
           c5 == fixed /\ \/ Wrap(addr + len) > USER_MEM_HIGH
                          \/ addr > USER_MEM_HIGH \/ addr < USER_MEM_LOW
                          \/ ~Aligned(addr)
           c6 == ~("anon" \in flags) /\ fd = Nil
           c7 == file /\ NFILES < pages + PN(off)
           c8 == file /\ \/ fd.mode = {"a"} /\ "w" \in prot
                         \/ "private" \in flags /\ "r" \notin fd.mode
                         \/ fd.kind = "dir"
                         \/ "shared" \in flags /\ "w" \in prot /\ fd.mode # {"r", "w"}
           c9 == file /\ fd.kind = "nommap"
           checks == << <<c1, "EINVAL">>, <<c2, "EINVAL">>, <<c3, "EINVAL">>, <<c4, "EINVAL">>,
                        <<c5, "EINVAL">>, <<c6, "EBADF">>, <<c7, "EOVERFLOW">>, <<c8, "EACCES">>,
                        <<c9, "ENODEV">> >>
           i == SelectInSeq(checks, LAMBDA c : c[1])
<1>1. MmapCheck(addr, len, prot, flags, fd, off) = IF i = 0 THEN "ok" ELSE checks[i][2]
  BY DEF MmapCheck
<1> HIDE DEF c1, c2, c3, c4, c5, c7, c8, c9
<1>2. Len(checks) = 9 /\ \A k \in 1 .. 9 : checks[k][2] # "ok"
  OBVIOUS
<1>3. checks[6][1] = c6
  OBVIOUS
<1> HIDE DEF checks
<1>4. \A k \in 1 .. 9 : ~checks[k][1]
  <2> HIDE DEF i
  <2>1. 9 \in Nat /\ (IF i = 0 THEN "ok" ELSE checks[i][2]) = "ok" /\ i = SelectInSeq(checks, LAMBDA c : c[1])
    BY <1>1 DEF i
  <2> QED BY <1>2, <2>1, NoCheckFails
<1> HIDE DEF c6
<1>5. 6 \in 1 .. 9
  OBVIOUS
<1>6. ~checks[6][1]
  BY ONLY <1>4, <1>5, Zenon
<1>7. ~c6
  BY ONLY <1>3, <1>6
<1> QED BY <1>7 DEF c6

(* The search for room answers with a number, whatever it looks for. *)
LEMMA RoomIsInt ==
  ASSUME NEW al, AreaList(al), NEW n \in Nat
  PROVE  vmmap_find_range(al, n, "lohi") \in Int
<1> DEFINE up == {i \in 1 .. Len(al) : n <= al[i].start - GapLow(al, i)}
           last == GapLow(al, Len(al) + 1)
           k == CHOOSE i \in up : \A j \in up : i <= j
<1>1. vmmap_find_range(al, n, "lohi")
        = IF up # {} THEN GapLow(al, k) ELSE IF HighPage < n + last THEN -1 ELSE last
  BY DEF vmmap_find_range, Fits
<1>2. Len(al) \in Nat /\ last \in Nat
  BY ListFacts, GapLowFacts
<1>3. up # {} => GapLow(al, k) \in Nat
  <2> HAVE up # {}
  <2>1. up \subseteq Nat
    BY <1>2
  <2>2. k \in up
    <3> HIDE DEF up
    <3> QED BY <2>1, LeastNumber
  <2>3. k \in 1 .. Len(al) + 1
    BY <1>2, <2>2
  <2> HIDE DEF k
  <2> QED BY <2>3, GapLowFacts
<1> HIDE DEF up, last, k
<1> QED BY <1>1, <1>2, <1>3

(* What mmap, and brk where it maps the starting page, come to. *)
LEMMA MmapStep ==
  ASSUME Space(areas, refs, pte), NEW addr \in Nat, NEW rawlen \in Nat,
         NEW prot \in Protections, NEW flags \in MapFlags, NEW fd \in Fds, NEW off \in Nat,
         do_mmap(addr, rawlen, prot, flags, fd, off)
  PROVE  \/ UNCHANGED <<areas, refs, pte>> /\ (state' = state \/ state' \in Reasons)
         \/ /\ Space(areas', refs', pte') /\ state' = state
            /\ \E lo, n : Mapped(areas, areas', lo, n, prot, off)
<1> DEFINE len == RoundLen(rawlen)
           n == PN(len)
           lo == IF "fixed" \in flags THEN PN(addr) ELSE vmmap_find_range(areas, n, "lohi")
           file == IF "anon" \in flags THEN Nil ELSE fd.obj
<1>1. CASE MmapCheck(addr, len, prot, flags, fd, off) # "ok"
  BY <1>1 DEF do_mmap
<1>2. CASE MmapCheck(addr, len, prot, flags, fd, off) = "ok"
  <2>1. n \in Nat /\ PN(addr) \in Nat
    <3>1. len \in Nat
      BY PageNumbers
    <3> HIDE DEF len
    <3> QED BY <3>1, PageNumbers
  <2>2. lo \in Int
    <3>1. AreaList(areas)
      BY DEF Space, Held
    <3> HIDE DEF n
    <3>2. vmmap_find_range(areas, n, "lohi") \in Int
      BY <2>1, <3>1, RoomIsInt
    <3> QED BY <2>1, <3>2
  <2>3. file = Nil \/ file \in Files
    <3>1. "anon" \in flags \/ fd # Nil
      BY <1>2, MmapCheckOk
    <3>2. fd # Nil => fd.obj \in Files
      BY DEF Fds
    <3> QED BY <3>1, <3>2
  <2>4. vmmap_map(file, lo, n, prot, flags, off)
    BY <1>2 DEF do_mmap
  <2> HIDE DEF file, lo, n
  <2>5. \/ UNCHANGED <<areas, refs, pte>> /\ state' \in Reasons \ {"user"}
        \/ /\ Space(areas', refs', pte') /\ state' = state
           /\ Mapped(areas, areas', lo, n, prot, off)
    BY <2>1, <2>2, <2>3, <2>4, MapStep
  <2> QED BY <2>5
<1> QED BY <1>1, <1>2

(***************************************************************************)
(* The other operations.                                                   *)
(***************************************************************************)

(* m shows what al does but for one range, which it does not show. *)
Removed(al, m) ==
  \E lo, hi \in Int : \A p \in UserPages :
    Shown(m, p) = IF Inside(lo, hi, p) THEN Nil ELSE Shown(al, p)

(* A call of vmmap_remove takes its range away from what pages show and from
   the page table. *)
LEMMA RemovalStep ==
  ASSUME Space(areas, refs, pte), NEW lo \in Int, NEW n \in Nat, ~TouchesJunk(areas, lo, lo + n),
         SetSpace(vmmap_remove(areas, refs, pte, lo, n))
  PROVE  /\ Space(areas', refs', pte') /\ Removed(areas, areas')
         /\ \A p \in Int : Shown(areas', p) = IF Inside(lo, lo + n, p) THEN Nil ELSE Shown(areas, p)
         /\ \A p \in UserPages : Inside(lo, lo + n, p) => pte'[p] = Nil
<1>1. PICK r : r = vmmap_remove(areas, refs, pte, lo, n)
  OBVIOUS
<1>2. areas' = r.areas /\ refs' = r.refs /\ pte' = r.pte
  BY <1>1 DEF SetSpace
<1>3. /\ RemovedFrom(areas, refs, pte, lo, lo + n, r) /\ Space(r.areas, r.refs, r.pte)
      /\ \A p \in UserPages : Inside(lo, lo + n, p) => r.pte[p] = Nil
  BY <1>1, RemoveKeepsSpace
<1>4. PICK hi \in Int : hi = lo + n /\ lo <= hi
  OBVIOUS
<1>5. AreaList(areas) /\ RemovedFrom(areas, refs, pte, lo, hi, r)
  BY <1>3, <1>4 DEF Space, Held
<1>6. \A p \in Int : Shown(r.areas, p) = IF Inside(lo, hi, p) THEN Nil ELSE Shown(areas, p)
  BY <1>4, <1>5, RemoveShows
<1>7. PICK m : m = areas'
  OBVIOUS
<1>8. \A p \in UserPages : p \in Int
  BY SpaceFacts DEF UserPages
<1>9. Removed(areas, m)
  BY <1>2, <1>6, <1>7, <1>8 DEF Removed
<1> QED BY <1>2, <1>3, <1>4, <1>6, <1>7, <1>9

(* munmap keeps the invariant and takes at most a range away. *)
LEMMA MunmapStep ==
  ASSUME VmmapInv, NEW addr \in Addrs, NEW len \in Addrs, do_munmap(addr, len)
  PROVE  VmmapInv' /\ (areas' = areas \/ Removed(areas, areas'))
<1> DEFINE lo == PN(addr)
           n == PN(RoundLen(len))
<1>1. Space(areas, refs, pte) /\ brk \in Addrs /\ startBrk \in Addrs /\ state \in Reasons
  BY InvIsSpace
<1>2. addr \in Nat /\ len \in Nat /\ lo \in Int /\ n \in Nat
  <2>1. addr \in Nat /\ len \in Nat
    BY SpaceFacts DEF Addrs
  <2>2. RoundLen(len) \in Nat /\ lo \in Nat
    BY <2>1, PageNumbers
  <2> QED BY <2>1, <2>2, PageNumbers
<1>3. \/ UNCHANGED vars
      \/ Panic("junk")
      \/ /\ ~TouchesJunk(areas, lo, lo + n)
         /\ SetSpace(vmmap_remove(areas, refs, pte, lo, n))
         /\ UNCHANGED <<brk, startBrk, state>>
  BY DEF do_munmap
<1> HIDE DEF lo, n
<1>4. CASE UNCHANGED vars
  <2>1. /\ areas' = areas /\ refs' = refs /\ pte' = pte
        /\ brk' = brk /\ startBrk' = startBrk /\ state' = state
    BY <1>4 DEF vars
  <2> QED BY <1>1, <2>1, InvIsSpaceNext
<1>5. CASE Panic("junk")
  <2>1. /\ areas' = areas /\ refs' = refs /\ pte' = pte
        /\ brk' = brk /\ startBrk' = startBrk /\ state' \in Reasons
    BY <1>5 DEF Panic, Reasons
  <2> QED BY <1>1, <2>1, InvIsSpaceNext
<1>6. CASE /\ ~TouchesJunk(areas, lo, lo + n)
           /\ SetSpace(vmmap_remove(areas, refs, pte, lo, n))
           /\ UNCHANGED <<brk, startBrk, state>>
  <2>1. Space(areas', refs', pte') /\ Removed(areas, areas')
    BY <1>1, <1>2, <1>6, RemovalStep
  <2> QED BY <1>1, <1>6, <2>1, InvIsSpaceNext
<1> QED BY <1>3, <1>4, <1>5, <1>6

(* A kernel that stops, or a program that stands still, keeps everything. *)
LEMMA StillStep ==
  ASSUME VmmapInv, UNCHANGED <<areas, refs, pte>>, brk' \in Addrs, startBrk' = startBrk,
         state' = state \/ state' \in Reasons
  PROVE  VmmapInv'
<1>1. Space(areas, refs, pte) /\ brk \in Addrs /\ startBrk \in Addrs /\ state \in Reasons
  BY InvIsSpace
<1>2. areas' = areas /\ refs' = refs /\ pte' = pte
  OBVIOUS
<1> QED BY <1>1, <1>2, InvIsSpaceNext

(* exit keeps the invariant; where it does not stop the kernel nothing is
   shown any more. *)
LEMMA ExitStep ==
  ASSUME VmmapInv, Exit
  PROVE  /\ VmmapInv' /\ (areas' = areas \/ Removed(areas, areas'))
         /\ brk' = brk /\ startBrk' = startBrk
<1>1. Space(areas, refs, pte) /\ brk \in Addrs /\ startBrk \in Addrs /\ state \in Reasons
  BY InvIsSpace
<1>2. CASE Panic("junk")
  BY <1>1, <1>2, StillStep DEF Panic, Reasons
<1>3. CASE /\ ~TouchesJunk(areas, LowPage, HighPage)
           /\ SetSpace(vmmap_destroy(areas, refs, pte))
           /\ state' = "exited" /\ UNCHANGED <<brk, startBrk>>
  <2>1. AreaList(areas)
    BY <1>1 DEF Space, Held
  <2>2. NoJunk(areas)
    <3> SUFFICES ASSUME NEW a \in Range(areas), a.obj = Junk PROVE FALSE
      BY DEF NoJunk
    <3>1. PICK i \in 1 .. Len(areas) : a = areas[i]
      BY <2>1, RangeMembers
    <3>2. /\ areas[i].start \in Nat /\ areas[i].end \in Nat /\ LowPage <= areas[i].start
          /\ areas[i].start < areas[i].end /\ areas[i].end <= HighPage
      BY <2>1, ListFacts
    <3>3. areas[i].obj = Junk
      BY <3>1
    <3>4. /\ LowPage < areas[i].end /\ HighPage > areas[i].start
          /\ HighPage >= areas[i].end /\ LowPage <= areas[i].start
      BY <3>2, SpaceFacts
    <3> QED BY <1>3, <3>3, <3>4 DEF TouchesJunk
  <2>3. PICK r : r = vmmap_destroy(areas, refs, pte)
    OBVIOUS
  <2>4. areas' = r.areas /\ refs' = r.refs /\ pte' = r.pte
    BY <1>3, <2>3 DEF SetSpace
  <2>5. Space(r.areas, r.refs, r.pte) /\ Range(r.areas) = {}
    BY <1>1, <2>2, <2>3, DestroyCorrect
  <2>6. PICK m : m = areas'
    OBVIOUS
  <2>7. AreaList(m) /\ Range(m) = {}
    BY <2>4, <2>5, <2>6 DEF Space, Held
  <2>8. ASSUME NEW p \in UserPages
        PROVE  Shown(m, p) = IF Inside(LowPage, HighPage, p) THEN Nil ELSE Shown(areas, p)
    <3>1. p \in Int /\ Inside(LowPage, HighPage, p)
      BY SpaceFacts DEF UserPages, Inside
    <3> QED BY <2>7, <3>1, ShownFacts
  <2>9. Removed(areas, m)
    BY <2>8, SpaceFacts DEF Removed
  <2> QED BY <1>1, <1>3, <2>4, <2>5, <2>6, <2>9, InvIsSpaceNext DEF Reasons
<1> QED BY <1>2, <1>3 DEF Exit

(* A fault enters the page its area shows, allowing no more than the area
   does, or ends the process. *)
LEMMA FaultStep ==
  ASSUME VmmapInv, NEW p \in UserPages, NEW write \in BOOLEAN, handle_pagefault(p, write)
  PROVE  /\ VmmapInv' /\ (areas' = areas \/ Removed(areas, areas'))
         /\ brk' = brk /\ startBrk' = startBrk
<1>1. Space(areas, refs, pte) /\ brk \in Addrs /\ startBrk \in Addrs /\ state \in Reasons
  BY InvIsSpace
<1> DEFINE i == vmmap_lookup(areas, p)
<1>2. p \in Int /\ p \in Nat
  BY SpaceFacts DEF UserPages
<1>3. AreaList(areas) /\ PteOf(areas, pte)
  BY <1>1 DEF Space, Held
<1>4. CASE Exit
  BY <1>4, ExitStep
<1>5. CASE Panic("junk")
  BY <1>1, <1>5, StillStep DEF Panic, Reasons
<1>6. CASE /\ i # 0 /\ addr_perm(p, FaultPerm(p, write)) /\ areas[i].obj # Junk
           /\ pte' = [pte EXCEPT ![p] = [obj |-> areas[i].obj,
                                         pg |-> areas[i].off + p - areas[i].start,
                                         write |-> write]]
           /\ UNCHANGED <<areas, refs, brk, startBrk, state>>
  <2> DEFINE e == [obj |-> areas[i].obj, pg |-> areas[i].off + p - areas[i].start, write |-> write]
  <2>1. i \in 1 .. Len(areas) /\ areas[i] \in Range(areas) /\ Covers(areas[i], p)
    BY <1>2, <1>3, <1>6, ShownFacts
  <2>2. areas[i] \in Area
    BY <1>3, <2>1, ListFacts
  <2>3. PICK a : a = areas[i] /\ a \in Range(areas) /\ a \in Area /\ Covers(a, p)
    BY <2>1, <2>2
  <2>4. write => "w" \in a.prot
    BY <1>6, <2>3 DEF addr_perm, FaultPerm
  <2>5. /\ a.start \in Nat /\ a.off \in Nat /\ a.obj \in Objs \cup {Junk} /\ a.obj # Junk
        /\ a.start <= p
    BY <1>6, <2>3, AreaFacts DEF Covers
  <2>6. a.off + p - a.start \in Nat
    BY <1>2, <2>5
  <2>7. e \in Entry /\ Shows(e, a, p)
    BY <2>3, <2>4, <2>5, <2>6 DEF Entry, Shows
  <2>8. pte \in [UserPages -> {Nil} \cup Entry] /\ pte' = [pte EXCEPT ![p] = e]
    BY <1>3, <1>6 DEF PteOf
  <2> HIDE DEF e
  <2>9. pte' \in [UserPages -> {Nil} \cup Entry]
    BY <2>7, <2>8
  <2>10. ASSUME NEW q \in UserPages, pte'[q] # Nil
         PROVE  \E b \in Range(areas) : Covers(b, q) /\ Shows(pte'[q], b, q)
    <3>1. CASE q = p
      BY <2>3, <2>7, <2>8, <3>1
    <3>2. CASE q # p
      <4>1. pte'[q] = pte[q]
        BY <2>8, <3>2
      <4> QED BY <1>3, <2>10, <4>1 DEF PteOf
    <3> QED BY <3>1, <3>2
  <2>11. PICK pt : pt = pte'
    OBVIOUS
  <2>12. PteOf(areas, pt)
    BY <2>9, <2>10, <2>11 DEF PteOf
  <2>13. Space(areas, refs, pt)
    BY <1>1, <2>12 DEF Space
  <2>14. areas' = areas /\ refs' = refs /\ pte' = pt /\ brk' = brk /\ startBrk' = startBrk /\ state' = state
    BY <1>6, <2>11
  <2> QED BY <1>1, <2>13, <2>14, InvIsSpaceNext
<1> QED BY <1>4, <1>5, <1>6 DEF handle_pagefault

(***************************************************************************)
(* The loader's area.                                                      *)
(***************************************************************************)
LEMMA InitInv ==
  ASSUME Init
  PROVE  VmmapInv
<1>1. PICK o \in Anons :
       /\ areas = <<[start |-> LowPage, end |-> PN(startBrk - 1) + 1, off |-> 0,
                     prot |-> {"r", "w"}, flags |-> {"private", "fixed"}, obj |-> o]>>
       /\ refs = [x \in Objs \cup {Junk} |-> IF x = o THEN 1 ELSE 0]
  BY DEF Init
<1>2. PICK c : c = [start |-> LowPage, end |-> PN(startBrk - 1) + 1, off |-> 0,
                    prot |-> {"r", "w"}, flags |-> {"private", "fixed"}, obj |-> o]
  OBVIOUS
<1>3. startBrk \in Addrs /\ PN(startBrk - 1) \in UserPages /\ brk = startBrk
      /\ state \in Reasons /\ pte = [p \in UserPages |-> Nil]
  BY InputAssumption DEF Init, Reasons
<1>4. areas = <<c>> /\ c.obj = o /\ o \in Objs /\ o # Junk /\ c \in Area /\ c.start < c.end
  <2>1. PICK q : q = PN(startBrk - 1)
    OBVIOUS
  <2>2. q \in Nat /\ LowPage <= q /\ q < HighPage /\ LowPage \in UserPages
        /\ q + 1 \in LowPage + 1 .. HighPage /\ LowPage < q + 1
    BY <1>3, <2>1, SpaceFacts DEF UserPages
  <2>3. o \in Objs /\ o # Junk
    BY InputAssumption DEF Objs
  <2>4. c \in Area
    BY <1>2, <2>1, <2>2, <2>3 DEF Area, Protections, MapFlags
  <2> QED BY <1>1, <1>2, <2>1, <2>2, <2>3, <2>4
<1>5. areas \in Seq(Area) /\ Len(areas) = 1 /\ areas[1] = c
  BY <1>4
<1>6. AreaList(areas) /\ Range(areas) = {c}
  BY <1>4, <1>5 DEF AreaList, Range
<1>7. ASSUME NEW x \in Objs PROVE refs[x] = CountOf({c}, x)
  <2>1. CASE x = o
    <3>1. {a \in {c} : a.obj = x} = {c}
      BY <1>4, <2>1
    <3>2. Cardinality({c}) = 1
      BY FS_Singleton
    <3> QED BY <1>1, <2>1, <3>1, <3>2 DEF CountOf
  <2>2. CASE x # o
    <3>1. {a \in {c} : a.obj = x} = {}
      BY <1>4, <2>2
    <3> QED BY <1>1, <2>2, <3>1, FS_EmptySet DEF CountOf
  <2> QED BY <2>1, <2>2
<1>8. refs \in [Objs \cup {Junk} -> Nat]
  BY <1>1
<1>9. PteOf(areas, pte)
  BY <1>3 DEF PteOf
<1>10. Space(areas, refs, pte)
  BY <1>6, <1>7, <1>8, <1>9 DEF Space, Held
<1> QED BY <1>3, <1>10, InvIsSpace

(***************************************************************************)
(* brk.                                                                    *)
(***************************************************************************)
LEMMA PageOrder ==
  ASSUME NEW x \in Nat, NEW y \in Nat, x <= y
  PROVE  PN(x) \in Nat /\ PN(y) \in Nat /\ PN(x) <= PN(y)
<1>1. PageSize \in Nat /\ PageSize > 0
  BY SpaceFacts
<1>2. PN(x) \in Nat /\ PN(y) \in Nat
  BY PageNumbers
<1>3. ASSUME NEW z \in Nat PROVE z \div PageSize \in Nat /\ (z \div PageSize) * PageSize <= z /\ z < (z \div PageSize + 1) * PageSize
  BY ONLY <1>1, <1>3, SMT
<1>4. PN(x) * PageSize <= x /\ y < (PN(y) + 1) * PageSize
  BY <1>3 DEF PN
<1>5. ASSUME NEW s \in Nat, NEW t \in Nat, t + 1 <= s PROVE (t + 1) * PageSize <= s * PageSize
  BY ONLY <1>1, <1>5, SMT
<1>6. PN(y) + 1 <= PN(x) => (PN(y) + 1) * PageSize <= PN(x) * PageSize
  BY ONLY <1>2, <1>5
<1>7. (PN(y) + 1) * PageSize \in Nat /\ PN(x) * PageSize \in Nat
  BY ONLY <1>1, <1>2, SMT
<1> QED BY ONLY <1>2, <1>4, <1>6, <1>7, x \in Nat, y \in Nat, x <= y, SMT

(* Area i of al goes on to end: nothing else about m differs. *)
Extended(al, m, i, end) ==
  /\ i \in 1 .. Len(al) /\ Len(m) = Len(al)
  /\ m[i] = [al[i] EXCEPT !.end = end]
  /\ \A j \in 1 .. Len(al) : j # i => m[j] = al[j]
  /\ \A p \in Int : vmmap_lookup(m, p) = IF Inside(al[i].end, end, p) THEN i ELSE vmmap_lookup(al, p)

(* An area may go on over free pages. *)
LEMMA ExtendSpace ==
  ASSUME NEW al, NEW rf, NEW pt, Space(al, rf, pt), NEW i \in 1 .. Len(al), NEW end \in Int,
         al[i].end < end, end <= HighPage, Free(Range(al), al[i].end, end),
         NEW m, m = [al EXCEPT ![i].end = end]
  PROVE  Space(m, rf, pt) /\ Extended(al, m, i, end)
<1>1. AreaList(al) /\ al \in Seq(Area) /\ PteOf(al, pt)
      /\ rf \in [Objs \cup {Junk} -> Nat] /\ \A o \in Objs : rf[o] = CountOf(Range(al), o)
  BY DEF Space, Held, AreaList
<1>2. /\ Len(al) \in Nat /\ DOMAIN al = 1 .. Len(al)
      /\ \A j \in 1 .. Len(al) :
           /\ al[j] \in Area /\ al[j].start \in Nat /\ al[j].end \in Nat /\ al[j].off \in Nat
           /\ LowPage <= al[j].start /\ al[j].start < al[j].end /\ al[j].end <= HighPage
      /\ \A j, k \in 1 .. Len(al) : j < k => al[j].end <= al[k].start
  BY <1>1, ListFacts
<1>3. PICK d : d = [al[i] EXCEPT !.end = end]
  OBVIOUS
<1>4. /\ d \in Area /\ d.end = end /\ d.start = al[i].start /\ d.off = al[i].off
      /\ d.obj = al[i].obj /\ d.prot = al[i].prot /\ d.start < end
  <2>1. end \in LowPage + 1 .. HighPage
    BY <1>2, SpaceFacts
  <2>2. al[i] \in Area
    BY <1>2
  <2>3. d = [start |-> al[i].start, end |-> end, off |-> al[i].off,
             prot |-> al[i].prot, flags |-> al[i].flags, obj |-> al[i].obj]
    BY <1>3, <2>2 DEF Area
  <2>4. d \in Area
    BY <2>1, <2>2, <2>3 DEF Area
  <2> QED BY <1>2, <2>3, <2>4
<1>5. m = [al EXCEPT ![i] = d]
  BY <1>3
<1>6. /\ m \in Seq(Area) /\ Len(m) = Len(al) /\ m[i] = d
      /\ \A j \in 1 .. Len(al) : j # i => m[j] = al[j]
  <2>1. al \in Seq(Area) /\ i \in 1 .. Len(al) /\ d \in Area
    BY <1>1, <1>4
  <2>2. [al EXCEPT ![i] = d] \in Seq(Area) /\ Len([al EXCEPT ![i] = d]) = Len(al)
    BY ONLY <2>1, ExceptSeq
  <2>3. m[i] = d /\ \A j \in 1 .. Len(al) : j # i => m[j] = al[j]
    BY <1>2, <1>5
  <2> QED BY <1>5, <2>2, <2>3
<1>7. ASSUME NEW j \in 1 .. Len(al), i < j PROVE end <= al[j].start
  <2>1. al[j] \in Range(al)
    BY <1>1, RangeMembers
  <2>2. al[j].end <= al[i].end \/ end <= al[j].start
    BY <2>1 DEF Free
  <2>3. /\ al[i].end <= al[j].start /\ al[j].start < al[j].end
        /\ al[i].end \in Nat /\ al[j].start \in Nat /\ al[j].end \in Nat
    BY <1>2, <1>7
  <2> QED BY <2>2, <2>3
<1>8. AreaList(m)
  <2>1. \A j \in 1 .. Len(m) : m[j].start < m[j].end
    BY <1>2, <1>4, <1>6
  <2>2. ASSUME NEW j \in 1 .. Len(m), NEW k \in 1 .. Len(m), j < k
        PROVE  m[j].end <= m[k].start
    <3>1. j \in 1 .. Len(al) /\ k \in 1 .. Len(al) /\ al[j].end <= al[k].start
      BY <1>2, <1>6, <2>2
    <3>2. CASE j = i
      <4>1. m[j] = d /\ m[k] = al[k] /\ k # i
        BY <1>2, <1>6, <2>2, <3>1, <3>2
      <4> QED BY <1>4, <1>7, <2>2, <3>1, <3>2, <4>1
    <3>3. CASE j # i
      BY <1>4, <1>6, <3>1, <3>3
    <3> QED BY <3>2, <3>3
  <2> QED BY <1>6, <2>1, <2>2 DEF AreaList
<1>9. \A j \in 1 .. Len(al) : m[j].obj = al[j].obj
  BY <1>4, <1>6
<1>10. ASSUME NEW o PROVE CountOf(Range(m), o) = CountOf(Range(al), o)
  <2>1. {j \in 1 .. Len(m) : m[j].obj = o} = {j \in 1 .. Len(al) : al[j].obj = o}
    BY <1>6, <1>9
  <2>2. CountOf(Range(al), o) = Cardinality({j \in 1 .. Len(al) : al[j].obj = o})
    BY <1>1, CountByIndex
  <2>3. CountOf(Range(m), o) = Cardinality({j \in 1 .. Len(m) : m[j].obj = o})
    BY ONLY <1>8, CountByIndex
  <2> QED BY <2>1, <2>2, <2>3
<1>11. ASSUME NEW p \in Int, NEW j \in 1 .. Len(al)
       PROVE  Covers(m[j], p) <=> Covers(al[j], p) \/ (j = i /\ Inside(al[i].end, end, p))
  <2>1. CASE j = i
    BY <1>2, <1>4, <1>6, <2>1 DEF Covers, Inside
  <2>2. CASE j # i
    BY <1>6, <2>2
  <2> QED BY <2>1, <2>2
<1>12. PteOf(m, pt)
  <2> SUFFICES ASSUME NEW p \in UserPages, pt[p] # Nil
               PROVE  \E b \in Range(m) : Covers(b, p) /\ Shows(pt[p], b, p)
    BY <1>1 DEF PteOf
  <2>1. PICK a \in Range(al) : Covers(a, p) /\ Shows(pt[p], a, p)
    BY <1>1 DEF PteOf
  <2>2. PICK j \in 1 .. Len(al) : a = al[j]
    BY <1>1, RangeMembers
  <2>3. p \in Int
    BY SpaceFacts DEF UserPages
  <2>4. Covers(m[j], p) /\ m[j] \in Range(m)
    BY <1>6, <1>8, <1>11, <2>1, <2>2, <2>3, RangeMembers
  <2>5. m[j].start = a.start /\ m[j].off = a.off /\ m[j].obj = a.obj /\ m[j].prot = a.prot
    BY <1>4, <1>6, <2>2
  <2> QED BY <2>1, <2>4, <2>5 DEF Shows
<1>13. Space(m, rf, pt)
  BY <1>1, <1>8, <1>10, <1>12 DEF Space, Held
<1>14. ASSUME NEW p \in Int
       PROVE  vmmap_lookup(m, p) = IF Inside(al[i].end, end, p) THEN i ELSE vmmap_lookup(al, p)
  <2>1. PICK x : x = vmmap_lookup(m, p)
    OBVIOUS
  <2>2. PICK y : y = vmmap_lookup(al, p)
    OBVIOUS
  <2>3. LookupFacts(m, p, x) /\ LookupFacts(al, p, y)
    BY <1>1, <1>8, <2>1, <2>2, LookupCorrect
  <2>4. /\ x \in 0 .. Len(al) /\ (x # 0 => Covers(m[x], p))
        /\ \A j \in 1 .. Len(al) : Covers(m[j], p) => x = j
    BY <1>6, <2>3 DEF LookupFacts
  <2>5. /\ y \in 0 .. Len(al) /\ (y # 0 => Covers(al[y], p))
        /\ \A j \in 1 .. Len(al) : Covers(al[j], p) => y = j
    BY <2>3 DEF LookupFacts
  <2>6. CASE Inside(al[i].end, end, p)
    BY <1>11, <2>1, <2>4, <2>6
  <2>7. CASE ~Inside(al[i].end, end, p)
    <3>1. \A j \in 1 .. Len(al) : Covers(m[j], p) <=> Covers(al[j], p)
      BY <1>11, <2>7
    <3>2. x # 0 => x \in 1 .. Len(al)
      BY <1>2, <2>4
    <3>3. y # 0 => y \in 1 .. Len(al)
      BY <1>2, <2>5
    <3>4. x = y
      BY <2>4, <2>5, <3>1, <3>2, <3>3
    <3> QED BY <2>1, <2>2, <2>7, <3>4
  <2> QED BY <2>6, <2>7
<1>15. Extended(al, m, i, end)
  BY <1>3, <1>6, <1>14 DEF Extended
<1> QED BY <1>13, <1>15

(* The area of page b goes on, over free pages, to page t. *)
Grown(al, m, b, t) ==
  LET i == vmmap_lookup(al, b)
  IN /\ i # 0 /\ b \in Nat /\ t \in Nat /\ b < t
     /\ al[i].end < t + 1 /\ t + 1 <= HighPage /\ Free(Range(al), al[i].end, t + 1)
     /\ Extended(al, m, i, t + 1)

(* The pages after t and up to b are gone, from the page table too. *)
Shrunk(al, m, pt, b, t) ==
  /\ b \in Nat /\ t \in Nat /\ t < b /\ AreaList(m) /\ Removed(al, m)
  /\ \A p \in Int : Shown(m, p) = IF Inside(t + 1, b + 1, p) THEN Nil ELSE Shown(al, p)
  /\ \A p \in UserPages : Inside(t + 1, b + 1, p) => pt[p] = Nil

(* What brk comes to: nothing, a mapping of the starting page, or a heap
   grown or shrunk to the page of the new break. *)
LEMMA BrkStep ==
  ASSUME VmmapInv, NEW addr \in Brks, do_brk(addr)
  PROVE  /\ VmmapInv' /\ startBrk' = startBrk
         /\ \/ areas' = areas /\ (vmmap_lookup(areas, PN(startBrk)) = 0 \/ brk' = brk)
            \/ areas' = areas /\ brk' = addr /\ PN(addr) = PN(brk)
            \/ /\ vmmap_lookup(areas, PN(startBrk)) = 0
               /\ \E lo, n : Mapped(areas, areas', lo, n, {"r", "w"}, 0)
            \/ brk' = addr /\ Grown(areas, areas', PN(brk), PN(addr))
            \/ brk' = addr /\ Shrunk(areas, areas', pte', PN(brk), PN(addr))
<1>1. Space(areas, refs, pte) /\ brk \in Addrs /\ startBrk \in Addrs /\ state \in Reasons
  BY InvIsSpace
<1>2. addr \in Addrs /\ addr \in Nat /\ brk \in Nat /\ startBrk \in Nat /\ addr >= startBrk
  BY <1>1, InputAssumption, SpaceFacts DEF Addrs, do_brk
<1>3. PN(addr) \in Nat /\ PN(brk) \in Nat /\ PN(startBrk) \in Nat /\ PN(startBrk) <= PN(addr)
  <2>1. startBrk <= addr
    BY <1>2
  <2>2. PN(addr) \in Nat /\ PN(startBrk) \in Nat /\ PN(startBrk) <= PN(addr)
    BY <1>2, <2>1, PageOrder
  <2> QED BY <1>2, <2>2, PageNumbers
<1>4. AreaList(areas)
  BY <1>1 DEF Space, Held
<1>5. CASE vmmap_lookup(areas, PN(startBrk)) = 0 /\ BrkMapsStart(addr)
  <2> DEFINE at == PN(startBrk) * PageSize
             len == (PN(addr) - PN(startBrk)) * PageSize
  <2>1. at \in Nat /\ len \in Nat
    <3>1. PageSize \in Nat
      BY SpaceFacts
    <3>2. PN(addr) - PN(startBrk) \in Nat
      BY <1>3
    <3>3. \A x, y \in Nat : x * y \in Nat
      OBVIOUS
    <3> QED BY <1>3, <3>1, <3>2, <3>3
  <2>2. do_mmap(at, len, {"r", "w"}, {"private", "anon"}, Nil, 0)
    BY <1>5 DEF BrkMapsStart
  <2>3. (brk' = addr \/ brk' = brk) /\ startBrk' = startBrk
    BY <1>5 DEF BrkMapsStart
  <2> HIDE DEF at, len
  <2>4. {"r", "w"} \in Protections /\ {"private", "anon"} \in MapFlags /\ Nil \in Fds /\ 0 \in Nat
    BY DEF Protections, MapFlags, Fds
  <2>5. \/ UNCHANGED <<areas, refs, pte>> /\ (state' = state \/ state' \in Reasons)
        \/ /\ Space(areas', refs', pte') /\ state' = state
           /\ \E lo, n : Mapped(areas, areas', lo, n, {"r", "w"}, 0)
    BY <1>1, <2>1, <2>2, <2>4, MmapStep
  <2>6. brk' \in Addrs
    BY <1>1, <1>2, <2>3
  <2>7. CASE UNCHANGED <<areas, refs, pte>> /\ (state' = state \/ state' \in Reasons)
    BY <1>5, <2>3, <2>6, <2>7, StillStep
  <2>8. CASE /\ Space(areas', refs', pte') /\ state' = state
             /\ \E lo, n : Mapped(areas, areas', lo, n, {"r", "w"}, 0)
    BY <1>1, <1>5, <2>3, <2>6, <2>8, InvIsSpaceNext
  <2> QED BY <2>5, <2>7, <2>8
<1>6. CASE PN(addr) = PN(brk) /\ brk' = addr /\ UNCHANGED <<areas, refs, pte, startBrk, state>>
  BY <1>2, <1>6, StillStep
<1>7. CASE PN(brk) < PN(addr) /\ BrkGrows(addr)
  <2> DEFINE i == vmmap_lookup(areas, PN(brk))
             end == PN(addr) + 1
  <2>1. CASE Panic("nobrk") \/ Panic("brkrange")
    BY <1>1, <2>1, StillStep DEF Panic, Reasons
  <2>2. CASE UNCHANGED vars
    BY <1>1, <2>2, StillStep DEF vars
  <2>3. CASE /\ i # 0 /\ RangeLegal(areas[i].end, end) /\ vmmap_is_range_empty(areas, areas[i].end, end)
             /\ areas' = [areas EXCEPT ![i].end = end] /\ brk' = addr
             /\ UNCHANGED <<refs, pte, startBrk, state>>
    <3>1. i \in 1 .. Len(areas) /\ PN(brk) \in Int
      BY <1>3, <1>4, <2>3, ShownFacts
    <3>2. areas[i].end \in Nat /\ end \in Int /\ LowPage <= areas[i].end /\ areas[i].end < end /\ end <= HighPage
      BY <1>3, <1>4, <2>3, <3>1, ListFacts DEF RangeLegal
    <3>3. Free(Range(areas), areas[i].end, end)
      BY <1>4, <2>3, <3>2, RangeEmptyExact
    <3>4. PICK m : m = areas'
      OBVIOUS
    <3>5. PICK x : x = i
      OBVIOUS
    <3>6. PICK e \in Int : e = end
      BY <3>2
    <3>7. /\ Space(areas, refs, pte) /\ x \in 1 .. Len(areas) /\ areas[x].end < e /\ e <= HighPage
          /\ Free(Range(areas), areas[x].end, e) /\ m = [areas EXCEPT ![x].end = e]
      BY <1>1, <2>3, <3>1, <3>2, <3>3, <3>4, <3>5, <3>6
    <3>8. Space(m, refs, pte) /\ Extended(areas, m, x, e)
      BY ONLY <3>6, <3>7, ExtendSpace
    <3>9. Grown(areas, m, PN(brk), PN(addr))
      BY <1>3, <1>7, <2>3, <3>2, <3>3, <3>5, <3>6, <3>8 DEF Grown
    <3>10. areas' = m /\ refs' = refs /\ pte' = pte /\ brk' = addr /\ startBrk' = startBrk /\ state' = state
      BY <2>3, <3>4
    <3> QED BY <1>1, <1>2, <3>8, <3>9, <3>10, InvIsSpaceNext
  <2> QED BY <1>7, <2>1, <2>2, <2>3 DEF BrkGrows
<1>8. CASE PN(addr) < PN(brk) /\ BrkShrinks(addr)
  <2> DEFINE lo == PN(addr) + 1
             n == PN(brk) - PN(addr)
  <2>1. CASE Panic("junk")
    BY <1>1, <2>1, StillStep DEF Panic, Reasons
  <2>2. CASE /\ ~TouchesJunk(areas, lo, lo + n)
             /\ SetSpace(vmmap_remove(areas, refs, pte, lo, n))
             /\ brk' = addr /\ UNCHANGED <<startBrk, state>>
    <3>1. lo \in Int /\ n \in Nat /\ lo + n = PN(brk) + 1
      BY <1>3, <1>8
    <3>2. /\ Space(areas', refs', pte') /\ Removed(areas, areas')
          /\ \A p \in Int : Shown(areas', p) = IF Inside(lo, lo + n, p) THEN Nil ELSE Shown(areas, p)
          /\ \A p \in UserPages : Inside(lo, lo + n, p) => pte'[p] = Nil
      <4> HIDE DEF lo, n
      <4> QED BY <1>1, <2>2, <3>1, RemovalStep
    <3>3. PICK m, pt : m = areas' /\ pt = pte'
      OBVIOUS
    <3>4. AreaList(m)
      BY <3>2, <3>3 DEF Space, Held
    <3>5. Shrunk(areas, m, pt, PN(brk), PN(addr))
      BY <1>3, <1>8, <3>1, <3>2, <3>3, <3>4 DEF Shrunk
    <3> QED BY <1>1, <1>2, <2>2, <3>2, <3>3, <3>5, InvIsSpaceNext
  <2> QED BY <1>8, <2>1, <2>2 DEF BrkShrinks
<1>9. \/ vmmap_lookup(areas, PN(startBrk)) = 0 /\ BrkMapsStart(addr)
      \/ PN(addr) = PN(brk) /\ brk' = addr /\ UNCHANGED <<areas, refs, pte, startBrk, state>>
      \/ PN(brk) < PN(addr) /\ BrkGrows(addr)
      \/ PN(addr) < PN(brk) /\ BrkShrinks(addr)
  <2>1. PN(addr) = PN(brk) \/ PN(brk) < PN(addr) \/ PN(addr) < PN(brk)
    BY <1>3
  <2>2. PN(brk) < PN(addr) => ~(PN(addr) < PN(brk))
    BY <1>3
  <2> QED BY <2>1, <2>2 DEF do_brk
<1> QED BY <1>5, <1>6, <1>7, <1>8, <1>9

----------------------------------------------------------------------------
(***************************************************************************)
(* Every step keeps the invariant and changes what is shown in one way.    *)
(***************************************************************************)
Offs == {q.off : q \in Requests} \cup {0}

(* Mapped at some place, some pages taken away, or the area of a break's page
   grown; or nothing changed. *)
Changed(al, m) ==
  \/ m = al
  \/ \E lo, n : \E prot \in Protections, off \in Offs : Mapped(al, m, lo, n, prot, off)
  \/ Removed(al, m)
  \/ \E b, t : Grown(al, m, b, t)

(* mmap keeps the invariant and maps at most one range. *)
LEMMA MmapChanges ==
  ASSUME VmmapInv, NEW q \in Requests, Mmap(q)
  PROVE  VmmapInv' /\ Changed(areas, areas')
<1>1. Space(areas, refs, pte) /\ brk \in Addrs /\ startBrk \in Addrs /\ state \in Reasons
  BY InvIsSpace
<1>2. /\ q.addr \in Nat /\ q.len \in Nat /\ q.prot \in Protections /\ q.flags \in MapFlags
      /\ q.fd \in Fds /\ q.off \in Nat /\ q.off \in Offs
  <2>1. Addrs \subseteq Nat
    BY SpaceFacts DEF Addrs
  <2> QED BY <2>1, InputAssumption DEF Offs
<1>3. do_mmap(q.addr, q.len, q.prot, q.flags, q.fd, q.off) /\ UNCHANGED <<brk, startBrk>>
  BY DEF Mmap
<1>4. \/ UNCHANGED <<areas, refs, pte>> /\ (state' = state \/ state' \in Reasons)
      \/ /\ Space(areas', refs', pte') /\ state' = state
         /\ \E lo, n : Mapped(areas, areas', lo, n, q.prot, q.off)
  <2>1. PICK ad, le, pr, fl, fd, of : /\ ad = q.addr /\ le = q.len /\ pr = q.prot
                                      /\ fl = q.flags /\ fd = q.fd /\ of = q.off
    OBVIOUS
  <2>2. /\ ad \in Nat /\ le \in Nat /\ pr \in Protections /\ fl \in MapFlags
        /\ fd \in Fds /\ of \in Nat /\ do_mmap(ad, le, pr, fl, fd, of)
    BY <1>2, <1>3, <2>1
  <2>3. \/ UNCHANGED <<areas, refs, pte>> /\ (state' = state \/ state' \in Reasons)
        \/ /\ Space(areas', refs', pte') /\ state' = state
           /\ \E lo, n : Mapped(areas, areas', lo, n, pr, of)
    BY ONLY <1>1, <2>2, MmapStep
  <2> QED BY <2>1, <2>3
<1>5. CASE UNCHANGED <<areas, refs, pte>> /\ (state' = state \/ state' \in Reasons)
  BY <1>1, <1>3, <1>5, StillStep DEF Changed
<1>6. CASE /\ Space(areas', refs', pte') /\ state' = state
           /\ \E lo, n : Mapped(areas, areas', lo, n, q.prot, q.off)
  <2>1. PICK m : m = areas'
    OBVIOUS
  <2>2. Changed(areas, m)
    BY <1>2, <1>6, <2>1 DEF Changed
  <2> QED BY <1>1, <1>3, <1>6, <2>1, <2>2, InvIsSpaceNext
<1> QED BY <1>4, <1>5, <1>6

(* brk keeps the invariant and changes what is shown in one way. *)
LEMMA BrkChanges ==
  ASSUME VmmapInv, NEW addr \in Brks, do_brk(addr)
  PROVE  VmmapInv' /\ Changed(areas, areas')
<1>1. PICK m, pt : m = areas' /\ pt = pte'
  OBVIOUS
<1>2. /\ VmmapInv'
      /\ \/ m = areas
         \/ \E lo, n : Mapped(areas, m, lo, n, {"r", "w"}, 0)
         \/ Grown(areas, m, PN(brk), PN(addr))
         \/ Shrunk(areas, m, pt, PN(brk), PN(addr))
  BY <1>1, BrkStep
<1>3. {"r", "w"} \in Protections /\ 0 \in Offs
  BY DEF Protections, Offs
<1>4. Changed(areas, m)
  BY <1>2, <1>3 DEF Changed, Shrunk
<1> QED BY <1>1, <1>2, <1>4

(* Each of the actions does, and so does standing still. *)
LEMMA StepChanges ==
  ASSUME VmmapInv, [Next]_vars
  PROVE  VmmapInv' /\ Changed(areas, areas')
<1>1. ASSUME NEW q \in Requests, Mmap(q) PROVE VmmapInv' /\ Changed(areas, areas')
  BY <1>1, MmapChanges
<1>2. ASSUME NEW addr \in Addrs, NEW len \in Lens, do_munmap(addr, len)
      PROVE  VmmapInv' /\ Changed(areas, areas')
  <2>1. len \in Addrs
    BY InputAssumption
  <2>2. VmmapInv' /\ (areas' = areas \/ Removed(areas, areas'))
    BY <1>2, <2>1, MunmapStep
  <2> QED BY <2>2 DEF Changed
<1>3. ASSUME NEW addr \in Brks, do_brk(addr) PROVE VmmapInv' /\ Changed(areas, areas')
  BY <1>3, BrkChanges
<1>4. ASSUME NEW p \in Touches, NEW write \in BOOLEAN, handle_pagefault(p, write)
      PROVE  VmmapInv' /\ Changed(areas, areas')
  <2>1. p \in UserPages
    BY InputAssumption
  <2>2. VmmapInv' /\ (areas' = areas \/ Removed(areas, areas'))
    BY <1>4, <2>1, FaultStep
  <2> QED BY <2>2 DEF Changed
<1>5. CASE Exit
  <2>1. VmmapInv' /\ (areas' = areas \/ Removed(areas, areas'))
    BY <1>5, ExitStep
  <2> QED BY <2>1 DEF Changed
<1>6. CASE UNCHANGED vars
  <2>1. state' = state /\ brk' = brk /\ startBrk' = startBrk /\ UNCHANGED <<areas, refs, pte>>
    BY <1>6 DEF vars
  <2>2. brk' \in Addrs
    BY <2>1, InvIsSpace
  <2> QED BY <2>1, <2>2, StillStep DEF Changed
<1> QED BY <1>1, <1>2, <1>3, <1>4, <1>5, <1>6 DEF Next, Halted

(* The areas, the references they hold and the page table agree for every
   size of the address space and every sequence of mmap, munmap, brk, faults
   and exit; the list is ordered and no area is empty or outside user memory. *)
THEOREM AddressSpaceConsistent == Spec => []VmmapInv
<1>1. Init => VmmapInv
  BY InitInv
<1>2. VmmapInv /\ [Next]_vars => VmmapInv'
  BY StepChanges
<1> QED BY <1>1, <1>2, PTL DEF Spec

(* vmmap_is_range_empty and vmmap_find_range answer in one pass what a search
   of all pages would, in every reachable list of areas. *)
THEOREM ScansAnswerExactly == Spec => []ScansExact
<1>1. VmmapInv => ScansExact
  <2> HAVE VmmapInv
  <2>1. AreaList(areas)
    BY InvIsSpace DEF Space, Held
  <2> QED BY <2>1, ListScans
<1> QED BY <1>1, AddressSpaceConsistent, PTL

(***************************************************************************)
(* brk moves the heap's end.                                               *)
(***************************************************************************)
(* What a page of an area shows is a page, so a page shows Nil only when it
   is in no area. *)
LEMMA ShownNil ==
  ASSUME NEW al, AreaList(al), NEW p \in Int
  PROVE  /\ Shown(al, p) = Nil <=> vmmap_lookup(al, p) = 0
         /\ Shown(al, p) # Nil => Shown(al, p) \in Page
<1>1. ASSUME NEW a \in Area, Covers(a, p) PROVE PageIn(a, p) \in Page
  <2>1. a.start \in Nat /\ a.off \in Nat /\ a.start <= p /\ a.obj \in Objs \cup {Junk} /\ a.prot \in Protections
    BY <1>1, AreaFacts DEF Covers
  <2>2. a.off + p - a.start \in Nat
    BY <2>1
  <2> QED BY <2>1, <2>2 DEF PageIn, Page
<1>2. CASE vmmap_lookup(al, p) = 0
  BY <1>2 DEF Shown
<1>3. CASE vmmap_lookup(al, p) # 0
  <2>1. PICK i : i = vmmap_lookup(al, p) /\ i \in 1 .. Len(al) /\ Covers(al[i], p)
    BY <1>3, ShownFacts
  <2>2. al[i] \in Area
    BY <2>1, ListFacts
  <2>3. PageIn(al[i], p) \in Page
    BY <1>1, <2>1, <2>2
  <2>4. Shown(al, p) = PageIn(al[i], p)
    BY <1>3, <2>1 DEF Shown
  <2> QED BY <1>3, <2>3, <2>4, InputAssumption
<1> QED BY <1>2, <1>3

(* The heap's area shows the pages it gained as it showed its own. *)
LEMMA GrownShows ==
  ASSUME NEW al, AreaList(al), NEW m, NEW b, NEW t, Grown(al, m, b, t), NEW p \in Int,
         NEW i, i = vmmap_lookup(al, b)
  PROVE  /\ b < p /\ p <= t =>
              /\ vmmap_lookup(m, p) = i /\ i # 0
              /\ m[i].obj = al[i].obj /\ m[i].start = al[i].start /\ m[i].off = al[i].off
              /\ vmmap_lookup(al, p) \in {0, i}
         /\ ~(b < p /\ p <= t) => vmmap_lookup(m, p) = vmmap_lookup(al, p)
<1>1. /\ i # 0 /\ b \in Nat /\ t \in Nat /\ b < t /\ Free(Range(al), al[i].end, t + 1)
      /\ i \in 1 .. Len(al) /\ m[i] = [al[i] EXCEPT !.end = t + 1]
      /\ \A q \in Int : vmmap_lookup(m, q) = IF Inside(al[i].end, t + 1, q) THEN i ELSE vmmap_lookup(al, q)
  BY DEF Grown, Extended
<1>2. al[i] \in Area /\ al[i].start \in Nat /\ al[i].end \in Nat
  BY <1>1, ListFacts
<1>3. m[i].obj = al[i].obj /\ m[i].start = al[i].start /\ m[i].off = al[i].off
  BY <1>1, <1>2 DEF Area
<1>4. al[i].start <= b /\ b < al[i].end
  BY <1>1, ShownFacts DEF Covers
<1>5. vmmap_lookup(m, p) = IF Inside(al[i].end, t + 1, p) THEN i ELSE vmmap_lookup(al, p)
  BY <1>1
<1>6. CASE Inside(al[i].end, t + 1, p)
  <2>1. b < p /\ p <= t
    BY <1>1, <1>2, <1>4, <1>6 DEF Inside
  <2>2. ASSUME NEW a \in Range(al), Covers(a, p) PROVE FALSE
    <3>1. a.start \in Nat /\ a.end \in Nat
      BY RangeMembers, ListFacts
    <3>2. a.end <= al[i].end \/ t + 1 <= a.start
      BY <1>1 DEF Free
    <3> QED BY <1>1, <1>2, <1>6, <2>2, <3>1, <3>2 DEF Covers, Inside
  <2>3. vmmap_lookup(al, p) = 0
    BY <2>2, ShownFacts
  <2> QED BY <1>1, <1>3, <1>5, <1>6, <2>1, <2>3
<1>7. CASE ~Inside(al[i].end, t + 1, p) /\ b < p /\ p <= t
  <2>1. Covers(al[i], p)
    BY <1>1, <1>2, <1>4, <1>7 DEF Covers, Inside
  <2>2. vmmap_lookup(al, p) = i
    BY <1>1, <2>1, LookupCorrect DEF LookupFacts
  <2> QED BY <1>1, <1>3, <1>5, <1>7, <2>2
<1>8. CASE ~Inside(al[i].end, t + 1, p) /\ ~(b < p /\ p <= t)
  BY <1>5, <1>8
<1> QED BY <1>6, <1>7, <1>8

(* BrkMovesHeap, for one step and one page. *)
LEMMA HeapStep ==
  ASSUME VmmapInv, [Next]_vars, brk' # brk, vmmap_lookup(areas, PN(startBrk)) # 0,
         NEW p \in UserPages
  PROVE  LET was == vmmap_lookup(areas, p)
             is == vmmap_lookup(areas', p)
             heap == vmmap_lookup(areas, PN(brk))
         IN IF p > PN(brk) /\ p <= PN(brk')
            THEN /\ is # 0
                 /\ areas'[is].obj = areas[heap].obj
                 /\ areas'[is].off + p - areas'[is].start = areas[heap].off + p - areas[heap].start
                 /\ was \in {0, heap}
            ELSE IF p > PN(brk') /\ p <= PN(brk)
            THEN is = 0 /\ pte'[p] = Nil
            ELSE (was = 0) = (is = 0)
<1>1. PICK addr \in Brks : do_brk(addr)
  <2>1. ~(UNCHANGED vars)
    BY DEF vars
  <2>2. ASSUME NEW q \in Requests, Mmap(q) PROVE FALSE
    BY <2>2 DEF Mmap
  <2>3. ASSUME NEW addr \in Addrs, NEW len \in Lens, do_munmap(addr, len) PROVE FALSE
    BY <2>1, <2>3 DEF do_munmap, Panic
  <2>4. ASSUME NEW q \in Touches, NEW write \in BOOLEAN, handle_pagefault(q, write) PROVE FALSE
    <3>1. q \in UserPages
      BY InputAssumption
    <3> QED BY <2>4, <3>1, FaultStep
  <2>5. ~Exit
    BY ExitStep
  <2> QED BY <2>1, <2>2, <2>3, <2>4, <2>5 DEF Next, Halted
<1>2. PICK m, pt : m = areas' /\ pt = pte'
  OBVIOUS
<1>3. PICK b, t : b = PN(brk) /\ t = PN(addr)
  OBVIOUS
<1>4. /\ brk' = addr
      /\ \/ m = areas /\ b = t
         \/ Grown(areas, m, b, t)
         \/ Shrunk(areas, m, pt, b, t)
  BY <1>1, <1>2, <1>3, BrkStep
<1>5. AreaList(areas) /\ p \in Int
  BY InvIsSpace, SpaceFacts DEF Space, Held, UserPages
<1>6. b \in Nat /\ t \in Nat
  <2>1. Addrs \subseteq Nat /\ addr \in Addrs /\ brk \in Addrs
    BY InvIsSpace, InputAssumption, SpaceFacts DEF Addrs
  <2> QED BY <1>3, <2>1, PageNumbers
<1> DEFINE was == vmmap_lookup(areas, p)
           is == vmmap_lookup(m, p)
           heap == vmmap_lookup(areas, b)
<1>7. IF p > b /\ p <= t
      THEN /\ is # 0 /\ m[is].obj = areas[heap].obj
           /\ m[is].off + p - m[is].start = areas[heap].off + p - areas[heap].start
           /\ was \in {0, heap}
      ELSE IF p > t /\ p <= b THEN is = 0 /\ pt[p] = Nil
      ELSE (was = 0) = (is = 0)
  <2>1. CASE m = areas /\ b = t
    BY <1>5, <1>6, <2>1
  <2>2. CASE Grown(areas, m, b, t)
    <3>1. b < t
      BY <2>2 DEF Grown
    <3>2. PICK i : i = vmmap_lookup(areas, b)
      OBVIOUS
    <3>3. /\ b < p /\ p <= t =>
               /\ is = i /\ i # 0
               /\ m[i].obj = areas[i].obj /\ m[i].start = areas[i].start /\ m[i].off = areas[i].off
               /\ was \in {0, i}
          /\ ~(b < p /\ p <= t) => is = was
      BY <1>5, <2>2, <3>2, GrownShows
    <3> HIDE DEF is, was
    <3> QED BY <1>5, <1>6, <3>1, <3>2, <3>3
  <2>3. CASE Shrunk(areas, m, pt, b, t)
    <3>1. /\ t < b /\ AreaList(m)
          /\ Shown(m, p) = IF Inside(t + 1, b + 1, p) THEN Nil ELSE Shown(areas, p)
          /\ Inside(t + 1, b + 1, p) => pt[p] = Nil
      BY <1>5, <2>3 DEF Shrunk
    <3>2. (Shown(m, p) = Nil <=> is = 0) /\ (Shown(areas, p) = Nil <=> was = 0)
      BY <1>5, <3>1, ShownNil
    <3>3. Inside(t + 1, b + 1, p) <=> p > t /\ p <= b
      BY <1>5, <1>6 DEF Inside
    <3> HIDE DEF is, was
    <3>4. ~(p > b /\ p <= t)
      BY <1>5, <1>6, <3>1
    <3> QED BY <3>1, <3>2, <3>3, <3>4
  <2> QED BY <1>4, <2>1, <2>2, <2>3
<1> QED BY <1>2, <1>3, <1>4, <1>7

(* brk, in every address space, gives the heap pages that continue its area
   over free pages, or takes its last pages away with their page table
   entries, and maps or unmaps nothing else. *)
THEOREM BreakMovesHeapOnly == Spec => BrkMovesHeap
<1>1. VmmapInv /\ [Next]_vars =>
        [ (brk' # brk /\ vmmap_lookup(areas, PN(startBrk)) # 0) =>
          \A p \in UserPages :
            LET was == vmmap_lookup(areas, p)
                is == vmmap_lookup(areas', p)
                heap == vmmap_lookup(areas, PN(brk))
            IN IF p > PN(brk) /\ p <= PN(brk')
               THEN /\ is # 0
                    /\ areas'[is].obj = areas[heap].obj
                    /\ areas'[is].off + p - areas'[is].start = areas[heap].off + p - areas[heap].start
                    /\ was \in {0, heap}
               ELSE IF p > PN(brk') /\ p <= PN(brk)
               THEN is = 0 /\ pte'[p] = Nil
               ELSE (was = 0) = (is = 0) ]_vars
  BY HeapStep
<1> QED BY <1>1, AddressSpaceConsistent, PTL DEF Spec, BrkMovesHeap

----------------------------------------------------------------------------
(***************************************************************************)
(* The list of areas implements the page map.                              *)
(***************************************************************************)
(* What each user page shows. *)
Pages(al) == [p \in UserPages |-> Shown(al, p)]

(* The refinement mapping is what the list shows. *)
LEMMA PagesShown == [p \in UserPages |-> PageOf(p)] = Pages(areas)
BY DEF Pages, PageOf, Shown, PageIn

(* It is so after a step too. *)
LEMMA PagesShownNext == [p \in UserPages |-> PageOf(p)]' = Pages(areas')
BY DEF Pages, PageOf, Shown, PageIn

(* A page of a user range of pages. *)
LEMMA SpanIsInside ==
  ASSUME NEW lo \in Int, NEW n \in Int, NEW p \in UserPages
  PROVE  p \in Int /\ (p \in PM!Span(lo, n) <=> Inside(lo, lo + n, p))
BY SpaceFacts DEF UserPages, PM!Span, PM!UserPages, Inside

(* A mapping is one of the page map. *)
LEMMA MappedMaps ==
  ASSUME NEW al, AreaList(al), NEW m, NEW lo, NEW n, NEW prot \in Protections, NEW off \in Offs,
         Mapped(al, m, lo, n, prot, off)
  PROVE  lo \in UserPages /\ n \in 1 .. HighPage - LowPage /\ PM!Map(Pages(al), Pages(m), lo, n)
<1>1. /\ lo \in Int /\ n \in Nat /\ n # 0 /\ LowPage <= lo /\ lo + n <= HighPage
      /\ LowPage \in Nat /\ HighPage \in Nat
  BY SpaceFacts DEF Mapped
<1>2. PICK o \in Objs \cup {Junk} :
        /\ o \in Files \cup {Junk} \/ \A a \in Range(al) : a.obj # o
        /\ \A p \in Int :
             Shown(m, p) = IF Inside(lo, lo + n, p)
                           THEN [obj |-> o, pg |-> off + p - lo, prot |-> prot]
                           ELSE Shown(al, p)
  BY DEF Mapped
<1>3. lo \in UserPages /\ n \in 1 .. HighPage - LowPage /\ Inside(lo, lo + n, lo)
  BY <1>1 DEF UserPages, Inside
<1>4. off \in Nat
  BY InputAssumption DEF Offs
<1>5. Pages(m)[lo] = [obj |-> o, pg |-> off, prot |-> prot]
  <2>1. Shown(m, lo) = [obj |-> o, pg |-> off + lo - lo, prot |-> prot]
    BY <1>1, <1>2, <1>3
  <2>2. off + lo - lo = off
    BY <1>1, <1>4
  <2> QED BY <1>3, <2>1, <2>2 DEF Pages
<1>6. PICK f : f = Pages(m)[lo]
  OBVIOUS
<1>7. f \in [obj : Objs \cup {Junk}, pg : Offs, prot : Protections]
  BY <1>5, <1>6
<1>8. PM!Fresh(Pages(al), o)
  <2>1. ASSUME NEW p \in UserPages, \A a \in Range(al) : a.obj # o, Pages(al)[p] # Nil
        PROVE  Pages(al)[p].obj # o
    <3>1. p \in Int /\ Shown(al, p) # Nil
      BY <2>1, SpaceFacts DEF Pages, UserPages
    <3>2. PICK i : i = vmmap_lookup(al, p)
      OBVIOUS
    <3>3. i # 0 /\ al[i] \in Range(al) /\ Shown(al, p) = PageIn(al[i], p)
      BY <3>1, <3>2, ShownFacts DEF Shown
    <3> QED BY <2>1, <3>3 DEF Pages, PageIn
  <2> QED BY <1>2, <2>1 DEF PM!Fresh, PM!UserPages, UserPages
<1>9. ASSUME NEW p \in UserPages
      PROVE  Shown(m, p) = IF p \in PM!Span(lo, n) THEN [f EXCEPT !.pg = @ + p - lo] ELSE Pages(al)[p]
  <2>1. p \in Int /\ (p \in PM!Span(lo, n) <=> Inside(lo, lo + n, p))
    BY <1>1, SpanIsInside
  <2>2. [f EXCEPT !.pg = @ + p - lo] = [obj |-> o, pg |-> off + p - lo, prot |-> prot]
    BY <1>5, <1>6
  <2> QED BY <1>2, <2>1, <2>2 DEF Pages
<1>10. Pages(m) = [p \in UserPages |-> IF p \in PM!Span(lo, n)
                                       THEN [f EXCEPT !.pg = @ + p - lo] ELSE Pages(al)[p]]
  BY <1>9 DEF Pages
<1>11. f.obj = o
  BY <1>5, <1>6
<1>12. PM!Map(Pages(al), Pages(m), lo, n)
  <2>1. f \in [obj : Objs \cup {Junk}, pg : {q.off : q \in Requests} \cup {0}, prot : Protections]
    BY <1>7 DEF Offs
  <2> QED BY <1>1, <1>6, <1>8, <1>10, <1>11, <2>1 DEF PM!Map, PM!UserPages, UserPages
<1> QED BY <1>3, <1>12

(* A removal is one of the page map, or removes nothing there is. *)
LEMMA RemovedUnmaps ==
  ASSUME NEW al, NEW m, Removed(al, m)
  PROVE  \/ Pages(m) = Pages(al)
         \/ \E lo \in UserPages, n \in 1 .. HighPage - LowPage : PM!Unmap(Pages(al), Pages(m), lo, n)
<1>1. PICK lo \in Int, hi \in Int : \A p \in UserPages :
        Shown(m, p) = IF Inside(lo, hi, p) THEN Nil ELSE Shown(al, p)
  BY DEF Removed
<1>2. LowPage \in Nat /\ HighPage \in Nat /\ LowPage < HighPage
  BY SpaceFacts
<1>3. PICK s \in Int : s = IF lo < LowPage THEN LowPage ELSE lo
  BY <1>2
<1>4. PICK e \in Int : e = IF hi > HighPage THEN HighPage ELSE hi
  BY <1>2
<1>5. \A p \in UserPages : p \in Int /\ (Inside(lo, hi, p) <=> s <= p /\ p < e)
  BY <1>2, <1>3, <1>4 DEF UserPages, Inside
<1>6. CASE e <= s
  <2>1. \A p \in UserPages : Shown(m, p) = Shown(al, p)
    BY <1>1, <1>5, <1>6
  <2> QED BY <2>1 DEF Pages
<1>7. CASE s < e
  <2>1. s \in UserPages /\ e - s \in 1 .. HighPage - LowPage /\ s + (e - s) = e
    BY <1>2, <1>3, <1>4, <1>7 DEF UserPages
  <2>2. PICK n : n = e - s /\ n \in 1 .. HighPage - LowPage /\ n \in Int /\ s + n = e
    BY <2>1
  <2>3. \A p \in UserPages : p \in PM!Span(s, n) <=> Inside(lo, hi, p)
    BY <1>5, <2>2, SpanIsInside DEF Inside
  <2>4. Pages(m) = [p \in UserPages |-> IF p \in PM!Span(s, n) THEN Nil ELSE Pages(al)[p]]
    BY <1>1, <2>3 DEF Pages
  <2>5. PM!Unmap(Pages(al), Pages(m), s, n)
    BY <2>4 DEF PM!Unmap, PM!UserPages, UserPages
  <2> QED BY <2>1, <2>2, <2>5
<1> QED BY <1>6, <1>7

(* A grown heap is a growth of the page map. *)
LEMMA GrownGrows ==
  ASSUME NEW al, AreaList(al), NEW m, NEW b, NEW t, Grown(al, m, b, t)
  PROVE  \E lo \in UserPages, n \in 1 .. HighPage - LowPage : PM!Grow(Pages(al), Pages(m), lo, n)
<1>1. PICK i : i = vmmap_lookup(al, b)
  OBVIOUS
<1>2. /\ i # 0 /\ b \in Nat /\ t \in Nat /\ b < t /\ Free(Range(al), al[i].end, t + 1)
      /\ al[i].end < t + 1 /\ t + 1 <= HighPage
      /\ i \in 1 .. Len(al) /\ m[i] = [al[i] EXCEPT !.end = t + 1]
      /\ \A j \in 1 .. Len(al) : j # i => m[j] = al[j]
      /\ \A q \in Int : vmmap_lookup(m, q) = IF Inside(al[i].end, t + 1, q) THEN i ELSE vmmap_lookup(al, q)
  BY <1>1 DEF Grown, Extended
<1>3. PICK a : a = al[i]
  OBVIOUS
<1>4. /\ a \in Area /\ a \in Range(al) /\ a.start \in Nat /\ a.end \in Nat /\ a.off \in Nat
      /\ LowPage <= a.start /\ a.start < a.end /\ LowPage \in Nat /\ HighPage \in Nat
  BY <1>2, <1>3, ListFacts, RangeMembers, SpaceFacts
<1>5. m[i].obj = a.obj /\ m[i].start = a.start /\ m[i].off = a.off /\ m[i].prot = a.prot
  BY <1>2, <1>3, <1>4 DEF Area
<1>6. PICK lo : lo = a.end /\ lo \in Nat
  BY <1>4
<1>7. PICK n : n = t + 1 - lo /\ n \in 1 .. HighPage - LowPage /\ n \in Int /\ lo + n = t + 1
  BY <1>2, <1>3, <1>4, <1>6
<1>8. lo \in UserPages /\ lo - 1 \in UserPages /\ lo > LowPage /\ lo + n <= HighPage /\ lo - 1 \in Int
  <2>1. lo < t + 1 /\ t + 1 <= HighPage /\ lo > LowPage
    BY <1>2, <1>3, <1>4, <1>6
  <2>2. lo \in Nat /\ t \in Nat /\ LowPage \in Nat /\ HighPage \in Nat /\ lo + n = t + 1
    BY <1>2, <1>4, <1>6, <1>7
  <2> QED BY ONLY <2>1, <2>2, SMT DEF UserPages
<1>9. PICK f : f = Pages(al)[lo - 1]
  OBVIOUS
<1>10. f = PageIn(a, lo - 1) /\ f # Nil
  <2>1. Covers(a, lo - 1)
    BY <1>4, <1>6 DEF Covers
  <2>2. Shown(al, lo - 1) = PageIn(a, lo - 1) /\ vmmap_lookup(al, lo - 1) # 0
    BY <1>4, <1>8, <2>1, ShownFacts
  <2>3. Shown(al, lo - 1) # Nil
    BY <1>8, <2>2, ShownNil
  <2> QED BY <1>8, <1>9, <2>2, <2>3 DEF Pages
<1>11. \A p \in UserPages : p \in Int /\ (p \in PM!Span(lo, n) <=> Inside(a.end, t + 1, p))
  BY <1>6, <1>7, SpanIsInside
<1>12. ASSUME NEW p \in PM!Span(lo, n) PROVE Pages(al)[p] = Nil
  <2>1. p \in UserPages
    BY DEF PM!Span, PM!UserPages, UserPages
  <2>2. p \in Int /\ Inside(a.end, t + 1, p)
    BY <1>11, <2>1
  <2>3. ASSUME NEW c \in Range(al) PROVE ~Covers(c, p)
    <3>1. c.start \in Nat /\ c.end \in Nat
      BY RangeMembers, ListFacts
    <3>2. c.end <= a.end \/ t + 1 <= c.start
      BY <1>2, <1>3 DEF Free
    <3> QED BY <1>2, <1>4, <2>2, <3>1, <3>2 DEF Covers, Inside
  <2>4. Shown(al, p) = Nil
    BY <2>2, <2>3, ShownFacts
  <2> QED BY <2>1, <2>4 DEF Pages
<1>13. ASSUME NEW p \in UserPages
       PROVE  Shown(m, p) = IF p \in PM!Span(lo, n) THEN [f EXCEPT !.pg = @ + 1 + p - lo] ELSE Pages(al)[p]
  <2>1. p \in Int /\ (p \in PM!Span(lo, n) <=> Inside(a.end, t + 1, p))
    BY <1>11
  <2>2. vmmap_lookup(m, p) = IF Inside(a.end, t + 1, p) THEN i ELSE vmmap_lookup(al, p)
    BY <1>2, <1>3, <2>1
  <2>3. CASE Inside(a.end, t + 1, p)
    <3>1. Shown(m, p) = PageIn(m[i], p)
      BY <1>2, <2>2, <2>3 DEF Shown
    <3>2. PageIn(m[i], p) = [obj |-> a.obj, pg |-> a.off + p - a.start, prot |-> a.prot]
      BY <1>5 DEF PageIn
    <3>3. f = [obj |-> a.obj, pg |-> a.off + (lo - 1) - a.start, prot |-> a.prot]
      BY <1>10 DEF PageIn
    <3>4. (a.off + (lo - 1) - a.start) + 1 + p - lo = a.off + p - a.start
      <4>1. \A x, y, z, w \in Int : (x + (y - 1) - z) + 1 + w - y = x + w - z
        OBVIOUS
      <4>2. a.off \in Int /\ a.start \in Int /\ lo \in Int /\ p \in Int
        BY <1>4, <1>6, <2>1
      <4> QED BY ONLY <4>1, <4>2
    <3>5. [f EXCEPT !.pg = @ + 1 + p - lo]
            = [obj |-> a.obj, pg |-> (a.off + (lo - 1) - a.start) + 1 + p - lo, prot |-> a.prot]
      BY ONLY <3>3
    <3> QED BY <2>1, <2>3, <3>1, <3>2, <3>4, <3>5
  <2>4. CASE ~Inside(a.end, t + 1, p)
    <3>1. PICK y : y = vmmap_lookup(al, p)
      OBVIOUS
    <3>2. y # 0 => y \in 1 .. Len(al)
      BY <2>1, <3>1, ShownFacts
    <3>3. y # 0 => PageIn(m[y], p) = PageIn(al[y], p)
      <4>1. CASE y = i
        BY <1>3, <1>5, <4>1 DEF PageIn
      <4>2. CASE y # i
        BY <1>2, <3>2, <4>2
      <4> QED BY <4>1, <4>2
    <3>4. Shown(m, p) = Shown(al, p)
      BY <2>2, <2>4, <3>1, <3>3 DEF Shown
    <3> QED BY <2>1, <2>4, <3>4 DEF Pages
  <2> QED BY <2>3, <2>4
<1>14. Pages(m) = [p \in UserPages |-> IF p \in PM!Span(lo, n)
                                       THEN [f EXCEPT !.pg = @ + 1 + p - lo] ELSE Pages(al)[p]]
  BY <1>13 DEF Pages
<1>15. PM!Grow(Pages(al), Pages(m), lo, n)
  BY <1>8, <1>9, <1>10, <1>12, <1>14 DEF PM!Grow, PM!UserPages, UserPages
<1> QED BY <1>7, <1>8, <1>15

(* A step is one of the page map, or changes nothing it shows. *)
LEMMA StepInMap ==
  ASSUME VmmapInv, [Next]_vars
  PROVE  [PM!Next]_([p \in UserPages |-> PageOf(p)])
<1>1. PICK m : m = areas'
  OBVIOUS
<1>2. [p \in UserPages |-> PageOf(p)] = Pages(areas) /\ [p \in UserPages |-> PageOf(p)]' = Pages(m)
  BY <1>1, PagesShown, PagesShownNext
<1>3. AreaList(areas)
  BY InvIsSpace DEF Space, Held
<1>4. Changed(areas, m)
  BY <1>1, StepChanges
<1>5. CASE Pages(m) = Pages(areas)
  BY <1>2, <1>5
<1>6. ASSUME NEW lo \in UserPages, NEW n \in 1 .. HighPage - LowPage,
             \/ PM!Map(Pages(areas), Pages(m), lo, n)
             \/ PM!Unmap(Pages(areas), Pages(m), lo, n)
             \/ PM!Grow(Pages(areas), Pages(m), lo, n)
      PROVE  PM!Next
  BY <1>2, <1>6 DEF PM!Next, PM!UserPages, UserPages
<1>7. ASSUME NEW lo, NEW n, NEW prot \in Protections, NEW off \in Offs, Mapped(areas, m, lo, n, prot, off)
      PROVE  PM!Next
  <2>1. lo \in UserPages /\ n \in 1 .. HighPage - LowPage /\ PM!Map(Pages(areas), Pages(m), lo, n)
    BY <1>3, <1>7, MappedMaps
  <2> QED BY <1>6, <2>1
<1>8. CASE Removed(areas, m)
  <2>1. \/ Pages(m) = Pages(areas)
        \/ \E lo \in UserPages, n \in 1 .. HighPage - LowPage : PM!Unmap(Pages(areas), Pages(m), lo, n)
    BY <1>8, RemovedUnmaps
  <2> QED BY <1>5, <1>6, <2>1
<1>9. ASSUME NEW b, NEW t, Grown(areas, m, b, t)
      PROVE  PM!Next
  <2>1. \E lo \in UserPages, n \in 1 .. HighPage - LowPage : PM!Grow(Pages(areas), Pages(m), lo, n)
    BY <1>3, <1>9, GrownGrows
  <2> QED BY <1>6, <2>1
<1> QED BY <1>4, <1>5, <1>7, <1>8, <1>9 DEF Changed

(* The loader's area is an initial page map. *)
LEMMA InitInMap ==
  ASSUME Init
  PROVE  PM!Init
<1> DEFINE pages == [p \in UserPages |-> PageOf(p)]
<1>1. VmmapInv
  BY InitInv
<1>2. AreaList(areas)
  BY <1>1, InvIsSpace DEF Space, Held
<1>3. PICK o \in Anons :
        areas = <<[start |-> LowPage, end |-> PN(startBrk - 1) + 1, off |-> 0,
                   prot |-> {"r", "w"}, flags |-> {"private", "fixed"}, obj |-> o]>>
  BY DEF Init
<1>4. PICK c : c = [start |-> LowPage, end |-> PN(startBrk - 1) + 1, off |-> 0,
                    prot |-> {"r", "w"}, flags |-> {"private", "fixed"}, obj |-> o]
  OBVIOUS
<1>5. Range(areas) = {c}
  BY <1>3, <1>4 DEF Range
<1>6. PICK n : n = PN(startBrk - 1) + 1 - LowPage
  OBVIOUS
<1>7. /\ LowPage \in Nat /\ HighPage \in Nat /\ LowPage \in UserPages
      /\ n \in 1 .. HighPage - LowPage /\ n \in Int /\ LowPage + n = PN(startBrk - 1) + 1
      /\ LowPage + n <= HighPage
  <2>1. PN(startBrk - 1) \in UserPages
    BY InputAssumption DEF Init
  <2> QED BY <1>6, <2>1, SpaceFacts DEF UserPages
<1>8. ASSUME NEW p \in UserPages
      PROVE  pages[p] = IF p \in PM!Span(LowPage, n)
                        THEN [obj |-> o, pg |-> p - LowPage, prot |-> {"r", "w"}] ELSE Nil
  <2>1. p \in Int /\ (p \in PM!Span(LowPage, n) <=> Inside(LowPage, LowPage + n, p))
    BY <1>7, SpanIsInside
  <2>2. pages[p] = Shown(areas, p)
    BY PagesShown DEF Pages
  <2>3. Covers(c, p) <=> Inside(LowPage, LowPage + n, p)
    BY <1>4, <1>7 DEF Covers, Inside
  <2>4. PageIn(c, p) = [obj |-> o, pg |-> p - LowPage, prot |-> {"r", "w"}]
    <3>1. 0 + p - LowPage = p - LowPage
      BY <1>7, <2>1
    <3> QED BY <1>4, <3>1 DEF PageIn
  <2>5. Covers(c, p) => Shown(areas, p) = PageIn(c, p)
    BY <1>2, <1>5, <2>1, ShownFacts
  <2>6. ~Covers(c, p) => Shown(areas, p) = Nil
    BY <1>2, <1>5, <2>1, ShownFacts
  <2> HIDE DEF pages
  <2> QED BY <2>1, <2>2, <2>3, <2>4, <2>5, <2>6
<1>9. pages[LowPage] = [obj |-> o, pg |-> 0, prot |-> {"r", "w"}]
  <2>1. LowPage \in PM!Span(LowPage, n)
    BY <1>7, SpanIsInside DEF Inside
  <2> HIDE DEF pages
  <2> QED BY <1>7, <1>8, <2>1
<1>10. PICK f : f = pages[LowPage]
  OBVIOUS
<1>11. f \in [obj : Objs \cup {Junk}, pg : {0}, prot : Protections]
  BY <1>9, <1>10 DEF Objs, Protections
<1>12. pages = [p \in UserPages |-> IF p \in PM!Span(LowPage, n) THEN [f EXCEPT !.pg = p - LowPage] ELSE Nil]
  <2>1. \A p \in UserPages : [f EXCEPT !.pg = p - LowPage] = [obj |-> o, pg |-> p - LowPage, prot |-> {"r", "w"}]
    BY <1>9, <1>10
  <2> QED BY <1>8, <2>1
<1>13. \E lo \in UserPages, k \in 1 .. HighPage - LowPage :
         /\ lo + k <= HighPage
         /\ pages[lo] \in [obj : Objs \cup {Junk}, pg : {0}, prot : Protections]
         /\ pages = [p \in UserPages |-> IF p \in PM!Span(lo, k)
                                         THEN [pages[lo] EXCEPT !.pg = p - lo] ELSE Nil]
  <2> HIDE DEF pages
  <2> QED BY <1>7, <1>10, <1>11, <1>12
<1> QED BY <1>13 DEF PM!Init, PM!UserPages, UserPages

(* The list of areas, in every address space, implements the page map: mmap
   shows one object's pages over exactly its range, munmap and exit show
   nothing where they removed, brk goes on with the heap's mapping, and no
   step changes what another page shows. *)
THEOREM AreasImplementPageMap == Spec => ImplementsPageMap
<1>1. Init => PM!Init
  BY InitInMap
<1>2. VmmapInv /\ [Next]_vars => [PM!Next]_([p \in UserPages |-> PageOf(p)])
  BY StepInMap
<1> QED BY <1>1, <1>2, AddressSpaceConsistent, PTL DEF Spec, ImplementsPageMap, PM!Spec

----------------------------------------------------------------------------
(***************************************************************************)
(* Copies between the kernel and user memory.                              *)
(***************************************************************************)
(* Quotient and remainder by the page size. *)
LEMMA PageParts ==
  ASSUME NEW x \in Nat
  PROVE  /\ PN(x) \in Nat /\ x % PageSize \in Nat /\ x % PageSize < PageSize
         /\ PN(x) * PageSize \in Nat
         /\ x = (PN(x) * PageSize) + (x % PageSize)
<1>1. PageSize \in Nat /\ PageSize > 0
  BY SpaceFacts
<1>2. /\ x \div PageSize \in Nat /\ x % PageSize \in Nat /\ x % PageSize < PageSize
      /\ (x \div PageSize) * PageSize \in Nat
      /\ x = ((x \div PageSize) * PageSize) + (x % PageSize)
  BY ONLY <1>1, x \in Nat, SMTT(30)
<1> QED BY <1>2 DEF PN

(* The pages one and two further begin one and two pages' bytes further. *)
LEMMA PageStarts ==
  ASSUME NEW q \in Nat
  PROVE  /\ q * PageSize \in Nat
         /\ (q + 1) * PageSize = q * PageSize + PageSize
         /\ (q + 2) * PageSize = q * PageSize + PageSize + PageSize
<1>1. PageSize \in Nat
  BY SpaceFacts
<1> QED BY ONLY <1>1, q \in Nat, SMTT(30)

(* They are the only ones. *)
LEMMA PartsUnique ==
  ASSUME NEW q \in Nat, NEW r \in Nat, r < PageSize
  PROVE  PN(q * PageSize + r) = q /\ (q * PageSize + r) % PageSize = r
<1>1. PageSize \in Nat /\ PageSize > 0
  BY SpaceFacts
<1>2. q * PageSize \in Nat /\ q * PageSize + r \in Nat
  BY ONLY <1>1, q \in Nat, r \in Nat, SMTT(30)
<1>3. PICK x \in Nat : x = q * PageSize + r
  BY <1>2
<1>4. PICK p, s : p = PN(x) /\ s = x % PageSize
  OBVIOUS
<1>5. p \in Nat /\ s \in Nat /\ s < PageSize /\ p * PageSize \in Nat /\ x = p * PageSize + s
  BY <1>4, PageParts
<1>6. ASSUME NEW y \in Nat, NEW z \in Nat, y < z PROVE y * PageSize + PageSize <= z * PageSize
  BY ONLY <1>1, <1>6, SMTT(30)
<1>7. ~(p < q)
  <2> SUFFICES ASSUME p < q PROVE FALSE
    OBVIOUS
  <2>1. p * PageSize + PageSize <= q * PageSize
    BY <1>5, <1>6
  <2> QED BY ONLY <1>1, <1>2, <1>3, <1>5, <2>1, r \in Nat
<1>8. ~(q < p)
  <2> SUFFICES ASSUME q < p PROVE FALSE
    OBVIOUS
  <2>1. q * PageSize + PageSize <= p * PageSize
    BY <1>5, <1>6
  <2> QED BY ONLY <1>1, <1>2, <1>3, <1>5, <2>1, r \in Nat, r < PageSize
<1>9. p = q
  BY <1>5, <1>7, <1>8
<1>10. s = r
  BY ONLY <1>2, <1>3, <1>5, <1>9, r \in Nat
<1> QED BY <1>3, <1>4, <1>9, <1>10

(* The first byte of a page. *)
Base(q) == q * PageSize

(* The first byte of a page, of the pages after it, and its bytes. *)
LEMMA BaseFacts ==
  ASSUME NEW q \in Nat
  PROVE  /\ Base(q) \in Nat
         /\ Base(q + 1) = Base(q) + PageSize /\ Base(q + 2) = Base(q) + PageSize + PageSize
         /\ PN(Base(q)) = q /\ Base(q) % PageSize = 0
         /\ \A r \in Nat : r < PageSize => PN(Base(q) + r) = q /\ (Base(q) + r) % PageSize = r
<1>1. PageSize \in Nat /\ 0 < PageSize
  BY SpaceFacts
<1>2. /\ Base(q) \in Nat
      /\ Base(q + 1) = Base(q) + PageSize /\ Base(q + 2) = Base(q) + PageSize + PageSize
  BY PageStarts DEF Base
<1>3. ASSUME NEW r \in Nat, r < PageSize PROVE PN(Base(q) + r) = q /\ (Base(q) + r) % PageSize = r
  BY <1>3, PartsUnique DEF Base
<1>4. PN(Base(q) + 0) = q /\ (Base(q) + 0) % PageSize = 0
  BY <1>1, <1>3
<1>5. PICK y \in Nat : y = Base(q)
  BY <1>2
<1>6. y + 0 = y
  OBVIOUS
<1> QED BY <1>2, <1>3, <1>4, <1>5, <1>6

(* The byte k of a range, with its place in the buffer: in an area, and in
   the area list. *)
ByteIn(a, addr, k) ==
  <<<<a.obj, a.off + PN(addr + k) - a.start, (addr + k) % PageSize>>, k>>
Byte(addr, k) == ByteIn(areas[vmmap_lookup(areas, PN(addr + k))], addr, k)

(* The bytes copied when the pages before v are. *)
BytesBefore(addr, count, v) ==
  IF v = PN(addr) THEN 0
  ELSE IF count < Base(v) - addr THEN count ELSE Base(v) - addr

(* A copy that has visited exactly the pages before v. *)
Copied(addr, count, v, st) ==
  /\ st = [uaddr |-> st.uaddr, buf |-> st.buf, temp |-> st.temp, moved |-> st.moved]
  /\ st.uaddr = IF v = PN(addr) THEN addr ELSE Base(v)
  /\ st.temp = BytesBefore(addr, count, v)
  /\ v <= PN(addr) + 1 => st.buf = 0
  /\ st.moved = {Byte(addr, k) : k \in 0 .. BytesBefore(addr, count, v) - 1}

(* A range of bytes on at most two pages. *)
ShortRange(addr, count) ==
  /\ addr \in Nat /\ count \in Nat /\ count # 0 /\ PN(addr + count - 1) <= PN(addr) + 1

(* Where the pages of a short range begin and end. *)
LEMMA ShortFacts ==
  ASSUME NEW addr, NEW count, ShortRange(addr, count),
         NEW f, f = PN(addr), NEW o, o = addr % PageSize, NEW X, X = Base(f)
  PROVE  /\ f \in Nat /\ o \in Nat /\ o < PageSize /\ X \in Nat /\ addr = X + o /\ PageSize \in Nat
         /\ PageSize > 0
         /\ Base(f + 1) = X + PageSize /\ Base(f + 2) = X + PageSize + PageSize
         /\ o + count <= PageSize + PageSize
         /\ PN(addr + count) \in Nat /\ PN(addr + count) <= f + 2
<1>1. PageSize \in Nat /\ PageSize > 0
  BY SpaceFacts
<1>2. /\ addr \in Nat /\ count \in Nat /\ count # 0 /\ addr + count - 1 \in Nat /\ addr + count \in Nat
      /\ PN(addr + count - 1) <= f + 1
  BY DEF ShortRange
<1>3. f \in Nat /\ o \in Nat /\ o < PageSize /\ X \in Nat /\ addr = X + o
  BY <1>2, PageParts DEF Base
<1>4. Base(f + 1) = X + PageSize /\ Base(f + 2) = X + PageSize + PageSize
  BY <1>3, BaseFacts
<1>5. PICK y \in Nat : y = Base(f + 2)
  BY <1>1, <1>3, <1>4
<1>6. f + 2 \in Nat /\ y = X + PageSize + PageSize
  BY ONLY <1>3, <1>4, <1>5
<1>7. PN(y) = f + 2
  BY <1>5, <1>6, BaseFacts
<1>8. o + count <= PageSize + PageSize
  <2> SUFFICES ASSUME ~(o + count <= PageSize + PageSize) PROVE FALSE
    OBVIOUS
  <2>1. y <= addr + count - 1
    BY ONLY <1>1, <1>2, <1>3, <1>6, ~(o + count <= PageSize + PageSize)
  <2>2. PN(y) <= PN(addr + count - 1) /\ PN(addr + count - 1) \in Nat
    BY <1>2, <2>1, PageOrder
  <2> QED BY ONLY <1>2, <1>3, <1>7, <2>2
<1>9. PN(addr + count) \in Nat /\ PN(addr + count) <= f + 2
  <2>1. addr + count <= y
    BY ONLY <1>1, <1>2, <1>3, <1>6, <1>8
  <2>2. PN(addr + count) \in Nat /\ PN(addr + count) <= PN(y)
    BY <1>2, <2>1, PageOrder
  <2> QED BY <2>2, <1>7
<1> QED BY <1>1, <1>3, <1>4, <1>8, <1>9

(* What is left of a short range at page v, and where the copy of v begins. *)
LEMMA PageCopied ==
  ASSUME NEW addr, NEW count, ShortRange(addr, count), NEW v \in PN(addr) .. PN(addr + count),
         NEW u, u = IF v = PN(addr) THEN addr ELSE Base(v),
         NEW m, m = BytesBefore(addr, count, v),
         NEW n, n = IF count - m < PageRoom(u) THEN count - m ELSE PageRoom(u)
  PROVE  /\ m \in Nat /\ n \in Nat /\ u \in Nat
         /\ m + n = BytesBefore(addr, count, v + 1)
         /\ \A k \in 0 .. n - 1 : PN(addr + m + k) = v /\ (addr + m + k) % PageSize = (u % PageSize) + k
         /\ v > PN(addr) + 1 => n = 0
<1>1. PICK f, o, X : f = PN(addr) /\ o = addr % PageSize /\ X = Base(f)
  OBVIOUS
<1>2. /\ f \in Nat /\ o \in Nat /\ o < PageSize /\ X \in Nat /\ addr = X + o /\ PageSize \in Nat
      /\ PageSize > 0
      /\ Base(f + 1) = X + PageSize /\ Base(f + 2) = X + PageSize + PageSize
      /\ o + count <= PageSize + PageSize
      /\ PN(addr + count) \in Nat /\ PN(addr + count) <= f + 2
  BY <1>1, ShortFacts
<1>3. addr \in Nat /\ count \in Nat /\ count # 0
  BY DEF ShortRange
<1>4. v \in Nat /\ v \in {f, f + 1, f + 2}
  <2>1. v \in f .. PN(addr + count)
    BY <1>1
  <2> QED BY ONLY <1>2, <2>1
<1>5. Base(f + 3) = X + PageSize + PageSize + PageSize
  <2>1. f + 2 \in Nat /\ (f + 2) + 1 = f + 3
    BY <1>2
  <2>2. Base((f + 2) + 1) = Base(f + 2) + PageSize
    BY <2>1, BaseFacts
  <2> QED BY <1>2, <2>1, <2>2
<1>6. Base(f + 1) \in Nat /\ Base(f + 2) \in Nat
  BY <1>2
<1>7. CASE v = f
  <2>1. u = addr /\ m = 0 /\ u % PageSize = o
    BY <1>1, <1>7 DEF BytesBefore
  <2>2. n = IF count < PageSize - o THEN count ELSE PageSize - o
    BY <1>2, <1>3, <2>1 DEF PageRoom
  <2>3. BytesBefore(addr, count, v + 1) = IF count < X + PageSize - addr THEN count ELSE X + PageSize - addr
    <3>1. PICK w : w = v + 1
      OBVIOUS
    <3>2. w # f /\ w = f + 1
      BY ONLY <1>2, <1>7, <3>1
    <3>3. Base(w) = X + PageSize
      BY <1>2, <3>2
    <3>4. w # PN(addr)
      BY <1>1, <3>2
    <3>5. BytesBefore(addr, count, w) = IF count < Base(w) - addr THEN count ELSE Base(w) - addr
      BY ONLY <3>4 DEF BytesBefore
    <3> QED BY ONLY <1>2, <1>3, <3>1, <3>3, <3>5
  <2>4. m + n = BytesBefore(addr, count, v + 1) /\ n \in Nat /\ n <= PageSize - o
    BY ONLY <1>2, <1>3, <2>1, <2>2, <2>3
  <2>5. ASSUME NEW k \in 0 .. n - 1
        PROVE PN(addr + m + k) = v /\ (addr + m + k) % PageSize = (u % PageSize) + k
    <3>1. PICK s \in Nat : s = o + k /\ s < PageSize
      BY ONLY <1>2, <2>4, <2>5
    <3>2. PN(Base(f) + s) = f /\ (Base(f) + s) % PageSize = s
      BY <1>2, <3>1, BaseFacts
    <3>3. addr + m + k = X + s
      BY ONLY <1>2, <1>3, <2>1, <2>4, <2>5, <3>1
    <3> QED BY <1>1, <1>7, <2>1, <3>1, <3>2, <3>3
  <2> QED BY <1>1, <1>2, <1>3, <1>7, <2>1, <2>4, <2>5
<1>8. CASE v = f + 1
  <2>1. v # f /\ u = X + PageSize /\ u % PageSize = 0
    <3>1. v # f
      BY ONLY <1>2, <1>8
    <3> QED BY <1>1, <1>2, <1>4, <1>8, <3>1, BaseFacts
  <2>2. m = IF count < X + PageSize - addr THEN count ELSE X + PageSize - addr
    BY <1>1, <1>2, <1>8, <2>1 DEF BytesBefore
  <2>3. n = IF count - m < PageSize THEN count - m ELSE PageSize
    BY <1>2, <2>1 DEF PageRoom
  <2>4. v + 1 # f /\ v + 1 = f + 2
    BY <1>2, <1>8
  <2>5. BytesBefore(addr, count, v + 1) = IF count < X + PageSize + PageSize - addr THEN count ELSE X + PageSize + PageSize - addr
    BY <1>1, <1>2, <2>4 DEF BytesBefore
  <2>6. m + n = BytesBefore(addr, count, v + 1) /\ m \in Nat /\ n \in Nat /\ n <= PageSize
    BY ONLY <1>2, <1>3, <2>2, <2>3, <2>5
  <2>7. ASSUME NEW k \in 0 .. n - 1
        PROVE PN(addr + m + k) = v /\ (addr + m + k) % PageSize = (u % PageSize) + k
    <3>1. k \in Nat /\ k < PageSize
      BY ONLY <1>2, <2>6, <2>7
    <3>2. PN(Base(v) + k) = v /\ (Base(v) + k) % PageSize = k
      BY <1>4, <3>1, BaseFacts
    <3>3. addr + m + k = X + PageSize + k
      BY ONLY <1>2, <1>3, <2>2, <2>3, <2>7
    <3>4. Base(v) + k = X + PageSize + k
      BY <1>2, <1>8
    <3> QED BY <2>1, <3>1, <3>2, <3>3, <3>4
  <2>8. u \in Nat /\ ~(v > PN(addr) + 1)
    <3>1. u \in Nat /\ ~(v > f + 1)
      BY ONLY <1>2, <1>8, <2>1
    <3> QED BY <1>1, <3>1
  <2> QED BY <2>6, <2>7, <2>8
<1>9. CASE v = f + 2
  <2>1. v # f /\ u = X + PageSize + PageSize /\ u % PageSize = 0
    <3>1. v # f
      BY ONLY <1>2, <1>9
    <3> QED BY <1>1, <1>2, <1>4, <1>9, <3>1, BaseFacts
  <2>2. m = IF count < X + PageSize + PageSize - addr THEN count ELSE X + PageSize + PageSize - addr
    BY <1>1, <1>2, <1>9, <2>1 DEF BytesBefore
  <2>3. n = IF count - m < PageSize THEN count - m ELSE PageSize
    BY <1>2, <2>1 DEF PageRoom
  <2>4. v + 1 # f /\ v + 1 = f + 3
    BY <1>2, <1>9
  <2>5. BytesBefore(addr, count, v + 1) =
          IF count < X + PageSize + PageSize + PageSize - addr THEN count ELSE X + PageSize + PageSize + PageSize - addr
    <3>1. PICK w : w = v + 1
      OBVIOUS
    <3>2. Base(w) = X + PageSize + PageSize + PageSize
      BY <1>5, <2>4, <3>1
    <3>3. w # PN(addr)
      BY <1>1, <2>4, <3>1
    <3>4. BytesBefore(addr, count, w) = IF count < Base(w) - addr THEN count ELSE Base(w) - addr
      BY ONLY <3>3 DEF BytesBefore
    <3> QED BY ONLY <1>2, <1>3, <3>1, <3>2, <3>4
  <2>6. m + n = BytesBefore(addr, count, v + 1) /\ m \in Nat /\ n = 0
    BY ONLY <1>2, <1>3, <2>2, <2>3, <2>5
  <2> QED BY <1>2, <2>1, <2>6
<1> QED BY <1>4, <1>7, <1>8, <1>9

(* The copy of a page of area i takes the copy on to the next page. *)
LEMMA CopyPageStep ==
  ASSUME NEW addr, NEW count, ShortRange(addr, count), NEW v \in PN(addr) .. PN(addr + count),
         NEW i, vmmap_lookup(areas, v) = i,
         NEW st, Copied(addr, count, v, st)
  PROVE  Copied(addr, count, v + 1, CopyPage(areas[i], count, st, v))
<1>1. PICK a : a = areas[i]
  OBVIOUS
<1>2. PICK u : u = st.uaddr
  OBVIOUS
<1>3. PICK m : m = st.temp
  OBVIOUS
<1>4. PICK n : n = IF count - m < PageRoom(u) THEN count - m ELSE PageRoom(u)
  OBVIOUS
<1>5. PICK g : g = u % PageSize
  OBVIOUS
<1>6. PICK at : at = st.buf + m
  OBVIOUS
<1>7. PICK t : t = CopyPage(a, count, st, v)
  OBVIOUS
<1>8. t = [uaddr |-> (v + 1) * PageSize, buf |-> at, temp |-> m + n,
           moved |-> st.moved \cup {<<<<a.obj, a.off + v - a.start, g + k>>, at + k>> : k \in 0 .. n - 1}]
  BY <1>2, <1>3, <1>4, <1>5, <1>6, <1>7 DEF CopyPage
<1>9. /\ u = IF v = PN(addr) THEN addr ELSE Base(v)
      /\ m = BytesBefore(addr, count, v)
      /\ v <= PN(addr) + 1 => st.buf = 0
      /\ st.moved = {Byte(addr, k) : k \in 0 .. m - 1}
  BY <1>2, <1>3 DEF Copied
<1>10. /\ m \in Nat /\ n \in Nat /\ u \in Nat
       /\ m + n = BytesBefore(addr, count, v + 1)
       /\ \A k \in 0 .. n - 1 : PN(addr + m + k) = v /\ (addr + m + k) % PageSize = g + k
       /\ v > PN(addr) + 1 => n = 0
  BY <1>4, <1>5, <1>9, PageCopied
<1>11. /\ addr \in Nat /\ count \in Nat /\ PN(addr) \in Nat /\ v \in Nat /\ PN(addr) <= v
  <2>1. addr \in Nat /\ count \in Nat /\ addr + count \in Nat
    BY DEF ShortRange
  <2>2. PN(addr) \in Nat /\ PN(addr + count) \in Nat
    BY <2>1, PageParts
  <2> QED BY <2>1, <2>2
<1>12. n # 0 => at = m
  BY ONLY <1>6, <1>9, <1>10, <1>11
<1>13. ASSUME NEW k \in 0 .. n - 1
       PROVE <<<<a.obj, a.off + v - a.start, g + k>>, at + k>> = Byte(addr, m + k)
  <2>1. k \in Nat /\ n # 0 /\ at = m
    BY ONLY <1>10, <1>12, <1>13
  <2>2. PICK x : x = addr + (m + k)
    OBVIOUS
  <2>3. x = addr + m + k
    BY ONLY <1>10, <1>11, <2>1, <2>2
  <2>4. PN(x) = v /\ x % PageSize = g + k
    BY <1>10, <2>3
  <2>5. Byte(addr, m + k) = ByteIn(areas[vmmap_lookup(areas, PN(x))], addr, m + k)
    BY ONLY <2>2 DEF Byte
  <2>6. Byte(addr, m + k) = ByteIn(a, addr, m + k)
    BY ONLY <1>1, <2>4, <2>5, vmmap_lookup(areas, v) = i
  <2>7. ByteIn(a, addr, m + k) = <<<<a.obj, a.off + PN(x) - a.start, x % PageSize>>, m + k>>
    BY ONLY <2>2 DEF ByteIn
  <2> QED BY ONLY <2>1, <2>4, <2>6, <2>7
<1>14. t.moved = {Byte(addr, k) : k \in 0 .. (m + n) - 1}
  <2>1. t.moved = st.moved \cup {Byte(addr, m + k) : k \in 0 .. n - 1}
    BY ONLY <1>8, <1>13
  <2>2. ASSUME NEW k \in 0 .. m - 1 PROVE k \in 0 .. (m + n) - 1
    BY ONLY <1>10, <2>2
  <2>3. ASSUME NEW k \in 0 .. n - 1 PROVE m + k \in 0 .. (m + n) - 1
    BY ONLY <1>10, <2>3
  <2>4. ASSUME NEW k \in 0 .. (m + n) - 1
        PROVE k \in 0 .. m - 1 \/ \E j \in 0 .. n - 1 : k = m + j
    <3>1. CASE k < m
      BY ONLY <1>10, <2>4, <3>1
    <3>2. CASE ~(k < m)
      <4>1. k - m \in 0 .. n - 1 /\ k = m + (k - m)
        BY ONLY <1>10, <2>4, <3>2
      <4> QED BY ONLY <4>1
    <3> QED BY <3>1, <3>2
  <2> QED BY ONLY <1>9, <2>1, <2>2, <2>3, <2>4
<1>15. v + 1 # PN(addr) /\ (v + 1 <= PN(addr) + 1 => at = 0)
  <2>1. v = PN(addr) => m = 0
    BY <1>9 DEF BytesBefore
  <2> QED BY ONLY <1>6, <1>9, <1>11, <2>1
<1>16. t.uaddr = Base(v + 1) /\ t.buf = at /\ t.temp = m + n
  BY <1>8 DEF Base
<1>17. t = [uaddr |-> t.uaddr, buf |-> t.buf, temp |-> t.temp, moved |-> t.moved]
  BY <1>8
<1>18. Copied(addr, count, v + 1, t)
  BY ONLY <1>10, <1>14, <1>15, <1>16, <1>17 DEF Copied
<1> QED BY <1>1, <1>7, <1>18

(* The loop of CopyArea over pages lo and up. *)
PagesOf(a, count, lo, st, n, f) ==
  f = [i \in 0 .. n |-> IF i = 0 THEN st ELSE CopyPage(a, count, f[i - 1], lo + i - 1)]

(* The recursion of CopyArea has a solution. *)
LEMMA PagesExist ==
  ASSUME NEW a, NEW count, NEW lo, NEW st, NEW n \in Nat
  PROVE  \E f : PagesOf(a, count, lo, st, n, f)
<1> DEFINE T == {k \in Nat : \E f : PagesOf(a, count, lo, st, k, f)}
           step(i, x) == CopyPage(a, count, x, lo + i - 1)
<1>1. 0 \in T
  <2> DEFINE f == [i \in 0 .. 0 |-> st]
  <2>1. PagesOf(a, count, lo, st, 0, f)
    BY DEF PagesOf
  <2> QED BY <2>1
<1>2. ASSUME NEW k \in Nat, k \in T PROVE k + 1 \in T
  <2>1. PICK f : PagesOf(a, count, lo, st, k, f)
    BY <1>2
  <2>2. f = [i \in 0 .. k |-> IF i = 0 THEN st ELSE step(i, f[i - 1])]
    BY <2>1 DEF PagesOf
  <2> HIDE DEF step
  <2> DEFINE g == [i \in 0 .. k + 1 |-> IF i <= k THEN f[i] ELSE step(i, f[k])]
             h == [i \in 0 .. k + 1 |-> IF i = 0 THEN st ELSE step(i, g[i - 1])]
  <2>3. ASSUME NEW i \in 0 .. k + 1 PROVE g[i] = h[i]
    <3>1. CASE i = 0
      BY <2>2, <3>1
    <3>2. CASE i = k + 1
      <4>1. i # 0 /\ i - 1 = k /\ k \in 0 .. k + 1 /\ k <= k /\ ~(k + 1 <= k)
        BY <3>2
      <4> QED BY <3>2, <4>1
    <3>3. CASE i # 0 /\ i # k + 1
      <4>1. i \in 0 .. k /\ i - 1 \in 0 .. k /\ i - 1 \in 0 .. k + 1 /\ i <= k /\ i - 1 <= k
        BY <3>3
      <4>2. f[i] = step(i, f[i - 1])
        BY <2>2, <3>3, <4>1
      <4> QED BY <3>3, <4>1, <4>2
    <3> QED BY <3>1, <3>2, <3>3
  <2>4. g = h
    BY <2>3
  <2>5. PagesOf(a, count, lo, st, k + 1, g)
    BY <2>4 DEF PagesOf, step
  <2> QED BY <2>5
<1>3. Nat \subseteq T
  <2> HIDE DEF T
  <2> QED BY <1>1, <1>2, SetInduction
<1> QED BY <1>3

(* A copy that has visited the pages before lo goes on through area i. *)
LEMMA PagesCopied ==
  ASSUME NEW addr, NEW count, ShortRange(addr, count), NEW i,
         NEW lo \in Nat, NEW n \in Nat, PN(addr) <= lo, lo + n <= PN(addr + count) + 1,
         \A p \in lo .. lo + n - 1 : vmmap_lookup(areas, p) = i,
         NEW st, Copied(addr, count, lo, st),
         NEW f, PagesOf(areas[i], count, lo, st, n, f)
  PROVE  Copied(addr, count, lo + n, f[n])
<1>1. PICK a : a = areas[i]
  OBVIOUS
<1>2. f = [j \in 0 .. n |-> IF j = 0 THEN st ELSE CopyPage(a, count, f[j - 1], lo + j - 1)]
  BY <1>1 DEF PagesOf
<1>3. PN(addr) \in Nat /\ PN(addr + count) \in Nat
  <2>1. addr \in Nat /\ addr + count \in Nat
    BY DEF ShortRange
  <2> QED BY <2>1, PageParts
<1> DEFINE T == {k \in Nat : k <= n => Copied(addr, count, lo + k, f[k])}
<1>4. 0 \in T
  <2>1. f[0] = st /\ lo + 0 = lo
    BY <1>2
  <2> QED BY <2>1
<1>5. ASSUME NEW k \in Nat, k \in T PROVE k + 1 \in T
  <2> SUFFICES ASSUME k + 1 <= n PROVE Copied(addr, count, lo + (k + 1), f[k + 1])
    OBVIOUS
  <2>1. /\ k + 1 \in 0 .. n /\ k + 1 # 0 /\ (k + 1) - 1 = k /\ k <= n /\ lo + (k + 1) - 1 = lo + k
        /\ lo + k \in lo .. lo + n - 1 /\ lo + (k + 1) = (lo + k) + 1
    OBVIOUS
  <2>2. f[k + 1] = CopyPage(a, count, f[k], lo + k)
    BY <1>2, <2>1
  <2>3. PICK v : v = lo + k
    OBVIOUS
  <2>4. v \in PN(addr) .. PN(addr + count)
    BY ONLY <1>3, <2>3, k \in Nat, n \in Nat, lo \in Nat, k + 1 <= n, PN(addr) <= lo,
            lo + n <= PN(addr + count) + 1
  <2>5. PICK s : s = f[k]
    OBVIOUS
  <2>6. Copied(addr, count, v, s) /\ vmmap_lookup(areas, v) = i
    BY <1>5, <2>1, <2>3, <2>5
  <2>7. Copied(addr, count, v + 1, CopyPage(a, count, s, v))
    BY <1>1, <2>4, <2>6, CopyPageStep
  <2> QED BY <2>1, <2>2, <2>3, <2>5, <2>7
<1>6. Nat \subseteq T
  <2> HIDE DEF T
  <2> QED BY <1>4, <1>5, SetInduction
<1>7. n \in T /\ n <= n
  BY <1>6
<1> QED BY <1>7

(* CopyArea from the page the copy has reached. *)
LEMMA AreaCopied ==
  ASSUME NEW addr, NEW count, ShortRange(addr, count), FinalPage(addr, count) = PN(addr + count) + 1,
         AreaList(areas), NEW i \in 1 .. Len(areas),
         NEW v \in Nat, PN(addr) <= v,
         v = IF areas[i].start <= PN(addr) THEN PN(addr) ELSE areas[i].start,
         NEW w, w = IF areas[i].end > FinalPage(addr, count) THEN FinalPage(addr, count) ELSE areas[i].end,
         v <= w,
         NEW st, Copied(addr, count, v, st)
  PROVE  Copied(addr, count, w, CopyArea(areas[i], addr, count, st))
<1>1. PICK a : a = areas[i]
  OBVIOUS
<1>2. a.start \in Nat /\ a.end \in Nat
  BY <1>1, ListFacts
<1>3. PN(addr) \in Nat /\ PN(addr + count) \in Nat
  <2>1. addr \in Nat /\ addr + count \in Nat
    BY DEF ShortRange
  <2> QED BY <2>1, PageParts
<1>4. PICK n : n = w - v
  OBVIOUS
<1>5. n \in Nat /\ v + n = w /\ v + n <= PN(addr + count) + 1 /\ w <= a.end /\ a.start <= v
  BY <1>1, <1>2, <1>3, <1>4
<1> DEFINE loop == CHOOSE f : PagesOf(a, count, v, st, n, f)
<1>6. PagesOf(a, count, v, st, n, loop)
  BY <1>5, PagesExist
<1>7. CopyArea(a, addr, count, st) = loop[n]
  BY <1>1, <1>4 DEF CopyArea, PagesOf
<1> HIDE DEF loop
<1>8. ASSUME NEW p \in v .. v + n - 1 PROVE vmmap_lookup(areas, p) = i
  <2>1. p \in Int /\ Covers(areas[i], p)
    BY <1>1, <1>2, <1>5, <1>8 DEF Covers
  <2> QED BY <2>1, LookupCorrect DEF LookupFacts
<1>9. Copied(addr, count, v + n, loop[n])
  BY <1>1, <1>5, <1>6, <1>8, PagesCopied
<1> QED BY <1>1, <1>5, <1>7, <1>9

(* A short range of mapped pages whose end does not wrap. *)
WholeRange(addr, count) ==
  /\ ShortRange(addr, count) /\ AreaList(areas)
  /\ FinalPage(addr, count) = PN(addr + count) + 1
  /\ \A p \in PN(addr) .. PN(addr + count - 1) : vmmap_lookup(areas, p) # 0

(* Its first and last page, and the last one looked at. *)
LEMMA WholeFacts ==
  ASSUME NEW addr, NEW count, WholeRange(addr, count),
         NEW f, f = PN(addr), NEW last, last = PN(addr + count - 1), NEW z, z = FinalPage(addr, count)
  PROVE  /\ f \in Nat /\ last \in Nat /\ z \in Nat /\ f <= last /\ last < z /\ z <= last + 2
         /\ z = PN(addr + count) + 1
         /\ \A p \in f .. last : \E k \in 1 .. Len(areas) : areas[k].start <= p /\ p < areas[k].end
<1>1. PageSize \in Nat /\ PageSize > 0
  BY SpaceFacts
<1>2. PICK x, y : x = addr + count - 1 /\ y = addr + count
  OBVIOUS
<1>3. /\ addr \in Nat /\ x \in Nat /\ y \in Nat /\ addr <= x /\ y = x + 1
      /\ z = PN(y) + 1 /\ last = PN(x)
  BY <1>2 DEF WholeRange, ShortRange
<1>4. f \in Nat /\ last \in Nat /\ PN(y) \in Nat /\ f <= last /\ last <= PN(y)
  BY <1>3, PageOrder
<1>5. PN(y) <= last + 1
  <2>1. PICK b : b = Base(last)
    OBVIOUS
  <2>2. b \in Nat /\ x = b + (x % PageSize) /\ x % PageSize \in Nat /\ x % PageSize < PageSize
    BY <1>3, <2>1, PageParts DEF Base
  <2>3. PICK c : c = Base(last + 1)
    OBVIOUS
  <2>4. c = b + PageSize /\ PN(c) = last + 1
    BY <1>4, <2>1, <2>3, BaseFacts
  <2>5. c \in Nat /\ y <= c
    BY ONLY <1>1, <1>3, <2>2, <2>4
  <2> QED BY <1>3, <2>4, <2>5, PageOrder
<1>6. ASSUME NEW p \in f .. last PROVE \E k \in 1 .. Len(areas) : areas[k].start <= p /\ p < areas[k].end
  <2>1. p \in Int /\ vmmap_lookup(areas, p) # 0 /\ AreaList(areas)
    BY <1>4, <1>6 DEF WholeRange
  <2> QED BY <2>1, LookupCorrect DEF LookupFacts, Covers
<1>7. z \in Nat /\ last < z /\ z <= last + 2
  BY ONLY <1>3, <1>4, <1>5
<1>8. z = PN(addr + count) + 1
  BY <1>2, <1>3
<1> QED BY ONLY <1>4, <1>6, <1>7, <1>8

(* After the first i areas the copy has visited the pages before v. *)
CopyAt(addr, count, i, v) ==
  /\ PN(addr) <= v /\ v <= FinalPage(addr, count)
  /\ \A j \in 1 .. i :
       v = FinalPage(addr, count) \/ areas[j].end <= v \/ areas[j].start >= FinalPage(addr, count)
  /\ \A j \in i + 1 .. Len(areas) : v = PN(addr) \/ v <= areas[j].start
  /\ v # PN(addr) => \E j \in 1 .. i : j \in Touched(addr, count)

(* An area that is not touched leaves the copy where it is; one that is touched
   continues it at the page it had reached. *)
LEMMA CopyAtNext ==
  ASSUME NEW addr, NEW count, WholeRange(addr, count),
         NEW i \in 1 .. Len(areas), NEW v \in Nat, CopyAt(addr, count, i - 1, v)
  PROVE  /\ i \notin Touched(addr, count) => CopyAt(addr, count, i, v)
         /\ i \in Touched(addr, count) =>
              /\ v = IF areas[i].start <= PN(addr) THEN PN(addr) ELSE areas[i].start
              /\ \A w : w = (IF areas[i].end > FinalPage(addr, count)
                             THEN FinalPage(addr, count) ELSE areas[i].end)
                        => w \in Nat /\ v < w /\ CopyAt(addr, count, i, w)
<1>1. PICK f, last, z : f = PN(addr) /\ last = PN(addr + count - 1) /\ z = FinalPage(addr, count)
  OBVIOUS
<1>2. /\ f \in Nat /\ last \in Nat /\ z \in Nat /\ f <= last /\ last < z /\ z <= last + 2
      /\ \A p \in f .. last : \E k \in 1 .. Len(areas) : areas[k].start <= p /\ p < areas[k].end
  BY <1>1, WholeFacts
<1>3. /\ Len(areas) \in Nat
      /\ \A k \in 1 .. Len(areas) :
           areas[k].start \in Nat /\ areas[k].end \in Nat /\ areas[k].start < areas[k].end
      /\ \A j, k \in 1 .. Len(areas) : j < k => areas[j].end <= areas[k].start
  BY ListFacts DEF WholeRange
<1>4. /\ f <= v /\ v <= z
      /\ \A j \in 1 .. i - 1 : v = z \/ areas[j].end <= v \/ areas[j].start >= z
      /\ \A j \in i - 1 + 1 .. Len(areas) : v = f \/ v <= areas[j].start
      /\ v # f => \E j \in 1 .. i - 1 : j \in Touched(addr, count)
  BY <1>1 DEF CopyAt
<1>5. \A k : k \in Touched(addr, count) <=> k \in 1 .. Len(areas) /\ areas[k].end > f /\ areas[k].start < z
  BY <1>1 DEF Touched, Reached
<1>6. i \in Nat /\ i - 1 + 1 = i /\ i <= Len(areas)
  BY <1>3
<1>7. ASSUME i \notin Touched(addr, count) PROVE CopyAt(addr, count, i, v)
  <2>1. areas[i].end <= v \/ areas[i].start >= z
    BY <1>2, <1>3, <1>4, <1>5, <1>7
  <2>2. ASSUME NEW j \in 1 .. i PROVE v = z \/ areas[j].end <= v \/ areas[j].start >= z
    <3>1. j = i \/ j \in 1 .. i - 1
      BY <1>6
    <3> QED BY <1>4, <2>1, <3>1
  <2>3. ASSUME NEW j \in i + 1 .. Len(areas) PROVE v = f \/ v <= areas[j].start
    <3>1. j \in i - 1 + 1 .. Len(areas)
      BY <1>3, <1>6
    <3> QED BY <1>4, <3>1
  <2>4. \A j \in 1 .. i - 1 : j \in 1 .. i
    BY <1>6
  <2> QED BY <1>1, <1>4, <2>2, <2>3, <2>4 DEF CopyAt
<1>8. ASSUME i \in Touched(addr, count)
      PROVE  v = IF areas[i].start <= f THEN f ELSE areas[i].start
  <2>1. areas[i].end > f /\ areas[i].start < z
    BY <1>5, <1>8
  <2>2. ASSUME v <= last, v < z PROVE areas[i].start <= v
    <3>1. v \in f .. last
      BY <1>2, <1>4, <2>2
    <3>2. PICK k \in 1 .. Len(areas) : areas[k].start <= v /\ v < areas[k].end
      BY <1>2, <3>1
    <3>3. k \notin 1 .. i - 1
      BY <1>2, <1>3, <1>4, <2>2, <3>2
    <3>4. ~(i < k)
      <4> SUFFICES ASSUME i < k PROVE FALSE
        OBVIOUS
      <4>1. areas[i].end <= areas[k].start
        BY <1>3
      <4>2. v # f
        BY <1>2, <1>3, <2>1, <3>2, <4>1
      <4>3. v <= areas[i].start
        BY <1>4, <1>6, <4>2
      <4> QED BY <1>3, <3>2, <4>1, <4>3
    <3>5. k = i
      BY <1>6, <3>3, <3>4
    <3> QED BY <3>2, <3>5
  <2>3. CASE v = f
    BY <1>2, <1>3, <2>2, <2>3
  <2>4. CASE v # f
    <3>1. v <= areas[i].start /\ f < v /\ v < z
      BY <1>2, <1>3, <1>4, <1>6, <2>1, <2>4
    <3>2. areas[i].start <= v
      BY <1>2, <1>3, <2>1, <2>2, <3>1
    <3> QED BY <1>2, <1>3, <3>1, <3>2
  <2> QED BY <2>3, <2>4
<1>9. ASSUME i \in Touched(addr, count),
             NEW w, w = IF areas[i].end > z THEN z ELSE areas[i].end
      PROVE  w \in Nat /\ v < w /\ CopyAt(addr, count, i, w)
  <2>1. areas[i].end > f /\ areas[i].start < z
    BY <1>5, <1>9
  <2>2. v = IF areas[i].start <= f THEN f ELSE areas[i].start
    BY <1>8, <1>9
  <2>3. w \in Nat /\ v < w /\ w <= z /\ f < w
    BY <1>2, <1>3, <1>4, <1>9, <2>1, <2>2
  <2>4. ASSUME NEW j \in 1 .. i PROVE w = z \/ areas[j].end <= w \/ areas[j].start >= z
    <3>1. CASE j = i
      BY <1>3, <1>9, <3>1
    <3>2. CASE j # i
      <4>1. j \in 1 .. i - 1 /\ j \in 1 .. Len(areas)
        BY <1>6, <3>2
      <4>2. v = z \/ areas[j].end <= v \/ areas[j].start >= z
        BY <1>4, <4>1
      <4> QED BY <1>2, <1>3, <2>3, <4>1, <4>2
    <3> QED BY <3>1, <3>2
  <2>5. ASSUME NEW j \in i + 1 .. Len(areas) PROVE w <= areas[j].start
    <3>1. j \in 1 .. Len(areas) /\ i < j
      BY <1>3, <1>6
    <3>2. areas[i].end <= areas[j].start
      BY <1>3, <3>1
    <3> QED BY <1>2, <1>3, <1>9, <3>1, <3>2
  <2>6. i \in 1 .. i
    BY <1>6
  <2>7. CopyAt(addr, count, i, w)
    BY <1>1, <1>2, <1>9, <2>3, <2>4, <2>5, <2>6 DEF CopyAt
  <2> QED BY <2>3, <2>7
<1> QED BY <1>1, <1>7, <1>8, <1>9

(* One turn of the loop over the areas: a read sets the count of bytes back. *)
CopyTurn(addr, count, reads, i, st) ==
  IF i \in Touched(addr, count)
  THEN CopyArea(areas[i], addr, count, IF reads THEN [st EXCEPT !.temp = 0] ELSE st)
  ELSE st

CopyOf(addr, count, reads, n, f) ==
  f = [i \in 0 .. n |-> IF i = 0 THEN CopyStart(addr) ELSE CopyTurn(addr, count, reads, i, f[i - 1])]

(* The recursion of vmmap_read and vmmap_write has a solution. *)
LEMMA CopyExists ==
  ASSUME NEW addr, NEW count, NEW reads, NEW n \in Nat
  PROVE  \E f : CopyOf(addr, count, reads, n, f)
<1> DEFINE T == {k \in Nat : \E f : CopyOf(addr, count, reads, k, f)}
           base == CopyStart(addr)
           step(i, x) == CopyTurn(addr, count, reads, i, x)
<1>1. 0 \in T
  <2> DEFINE f == [i \in 0 .. 0 |-> base]
  <2>1. CopyOf(addr, count, reads, 0, f)
    BY DEF CopyOf
  <2> QED BY <2>1
<1>2. ASSUME NEW k \in Nat, k \in T PROVE k + 1 \in T
  <2>1. PICK f : CopyOf(addr, count, reads, k, f)
    BY <1>2
  <2>2. f = [i \in 0 .. k |-> IF i = 0 THEN base ELSE step(i, f[i - 1])]
    BY <2>1 DEF CopyOf
  <2> HIDE DEF base, step
  <2> DEFINE g == [i \in 0 .. k + 1 |-> IF i <= k THEN f[i] ELSE step(i, f[k])]
             h == [i \in 0 .. k + 1 |-> IF i = 0 THEN base ELSE step(i, g[i - 1])]
  <2>3. ASSUME NEW i \in 0 .. k + 1 PROVE g[i] = h[i]
    <3>1. CASE i = 0
      BY <2>2, <3>1
    <3>2. CASE i = k + 1
      <4>1. i # 0 /\ i - 1 = k /\ k \in 0 .. k + 1 /\ k <= k /\ ~(k + 1 <= k)
        BY <3>2
      <4> QED BY <3>2, <4>1
    <3>3. CASE i # 0 /\ i # k + 1
      <4>1. i \in 0 .. k /\ i - 1 \in 0 .. k /\ i - 1 \in 0 .. k + 1 /\ i <= k /\ i - 1 <= k
        BY <3>3
      <4>2. f[i] = step(i, f[i - 1])
        BY <2>2, <3>3, <4>1
      <4> QED BY <3>3, <4>1, <4>2
    <3> QED BY <3>1, <3>2, <3>3
  <2>4. g = h
    BY <2>3
  <2>5. CopyOf(addr, count, reads, k + 1, g)
    BY <2>4 DEF CopyOf, base, step
  <2> QED BY <2>5
<1>3. Nat \subseteq T
  <2> HIDE DEF T
  <2> QED BY <1>1, <1>2, SetInduction
<1> QED BY <1>3

(* Setting the count back to 0 changes nothing before the first page. *)
LEMMA RestartHarmless ==
  ASSUME NEW addr, NEW count, NEW st, Copied(addr, count, PN(addr), st)
  PROVE  [st EXCEPT !.temp = 0] = st
<1>1. PICK u, b, m, x : st = [uaddr |-> u, buf |-> b, temp |-> m, moved |-> x]
  BY DEF Copied
<1>2. st.temp = 0
  BY DEF Copied, BytesBefore
<1> QED BY <1>1, <1>2

(* Where the copy stands after i areas. *)
CopyInv(addr, count, i, st) == \E v \in Nat : CopyAt(addr, count, i, v) /\ Copied(addr, count, v, st)

(* A read that touches one area keeps its place as a write does. *)
OneArea(addr, count) == \A j, k \in Touched(addr, count) : j = k

(* One turn of the loop over the areas. *)
LEMMA CopyTurnStep ==
  ASSUME NEW addr, NEW count, WholeRange(addr, count),
         NEW reads \in BOOLEAN, reads => OneArea(addr, count),
         NEW i \in 1 .. Len(areas), NEW st, CopyInv(addr, count, i - 1, st)
  PROVE  CopyInv(addr, count, i, CopyTurn(addr, count, reads, i, st))
<1>1. PICK v \in Nat : CopyAt(addr, count, i - 1, v) /\ Copied(addr, count, v, st)
  BY DEF CopyInv
<1>2. PICK z : z = FinalPage(addr, count)
  OBVIOUS
<1>3. /\ i \notin Touched(addr, count) => CopyAt(addr, count, i, v)
      /\ i \in Touched(addr, count) =>
           /\ v = IF areas[i].start <= PN(addr) THEN PN(addr) ELSE areas[i].start
           /\ \A w : w = (IF areas[i].end > z THEN z ELSE areas[i].end)
                     => w \in Nat /\ v < w /\ CopyAt(addr, count, i, w)
  BY <1>1, <1>2, CopyAtNext
<1>4. CASE i \notin Touched(addr, count)
  BY <1>1, <1>3, <1>4 DEF CopyTurn, CopyInv
<1>5. CASE i \in Touched(addr, count)
  <2>1. (IF reads THEN [st EXCEPT !.temp = 0] ELSE st) = st
    <3>1. CASE reads
      <4>1. v = PN(addr)
        <5> SUFFICES ASSUME v # PN(addr) PROVE FALSE
          OBVIOUS
        <5>1. PICK j \in 1 .. i - 1 : j \in Touched(addr, count)
          BY <1>1 DEF CopyAt
        <5>2. j = i
          BY <1>5, <3>1, <5>1 DEF OneArea
        <5>3. i \in Int
          OBVIOUS
        <5> QED BY <5>1, <5>2, <5>3
      <4> QED BY <1>1, <4>1, RestartHarmless
    <3>2. CASE ~reads
      BY <3>2
    <3> QED BY <3>1, <3>2
  <2>2. CopyTurn(addr, count, reads, i, st) = CopyArea(areas[i], addr, count, st)
    BY <1>5, <2>1 DEF CopyTurn
  <2>3. PICK w : w = IF areas[i].end > z THEN z ELSE areas[i].end
    OBVIOUS
  <2>4. w \in Nat /\ v < w /\ CopyAt(addr, count, i, w)
    BY <1>3, <1>5, <2>3
  <2>5. /\ ShortRange(addr, count) /\ AreaList(areas)
        /\ FinalPage(addr, count) = PN(addr + count) + 1
        /\ PN(addr) <= v /\ v <= w
    BY <1>1, <2>4 DEF WholeRange, CopyAt
  <2>6. Copied(addr, count, w, CopyArea(areas[i], addr, count, st))
    BY <1>1, <1>2, <1>3, <1>5, <2>3, <2>5, AreaCopied
  <2> QED BY <2>2, <2>4, <2>6 DEF CopyInv
<1> QED BY <1>4, <1>5

(* Before the first area nothing is copied. *)
LEMMA CopyStarts ==
  ASSUME NEW addr, NEW count, WholeRange(addr, count)
  PROVE  CopyInv(addr, count, 0, CopyStart(addr))
<1>1. PICK f, z : f = PN(addr) /\ z = FinalPage(addr, count)
  OBVIOUS
<1>2. f \in Nat /\ z \in Nat /\ f <= z
  BY <1>1, WholeFacts
<1>3. CopyAt(addr, count, 0, f)
  BY <1>1, <1>2 DEF CopyAt
<1>4. Copied(addr, count, f, CopyStart(addr))
  BY <1>1 DEF Copied, CopyStart, BytesBefore
<1> QED BY <1>2, <1>3, <1>4 DEF CopyInv

(* After the last area every byte is. *)
LEMMA CopyEnds ==
  ASSUME NEW addr, NEW count, WholeRange(addr, count),
         NEW st, CopyInv(addr, count, Len(areas), st)
  PROVE  st.moved = UserBytes(addr, count)
<1>1. PICK v \in Nat : CopyAt(addr, count, Len(areas), v) /\ Copied(addr, count, v, st)
  BY DEF CopyInv
<1>2. PICK f, last, z : f = PN(addr) /\ last = PN(addr + count - 1) /\ z = FinalPage(addr, count)
  OBVIOUS
<1>3. /\ f \in Nat /\ last \in Nat /\ z \in Nat /\ f <= last /\ last < z
      /\ \A p \in f .. last : \E k \in 1 .. Len(areas) : areas[k].start <= p /\ p < areas[k].end
  BY <1>2, WholeFacts
<1>4. \A k \in 1 .. Len(areas) : areas[k].start \in Nat /\ areas[k].end \in Nat
  BY ListFacts DEF WholeRange
<1>5. last < v
  <2> SUFFICES ASSUME v <= last PROVE FALSE
    BY <1>3
  <2>1. f <= v
    BY <1>1, <1>2 DEF CopyAt
  <2>2. v \in f .. last
    BY <1>3, <2>1
  <2>3. PICK k \in 1 .. Len(areas) : areas[k].start <= v /\ v < areas[k].end
    BY <1>3, <2>2
  <2>4. v = z \/ areas[k].end <= v \/ areas[k].start >= z
    BY <1>1, <1>2 DEF CopyAt
  <2> QED BY <1>3, <1>4, <2>3, <2>4
<1>6. BytesBefore(addr, count, v) = count
  <2>1. PageSize \in Nat /\ PageSize > 0
    BY SpaceFacts
  <2>2. PICK x : x = addr + count - 1
    OBVIOUS
  <2>3. addr \in Nat /\ count \in Nat /\ x \in Nat /\ x = addr + count - 1
    BY <2>2 DEF WholeRange, ShortRange
  <2>4. PICK y : y = Base(v)
    OBVIOUS
  <2>5. y \in Nat /\ PN(y) = v
    BY <2>4, BaseFacts
  <2>6. ~(y <= x)
    <3> SUFFICES ASSUME y <= x PROVE FALSE
      OBVIOUS
    <3>1. PN(y) <= PN(x)
      BY <2>3, <2>5, PageOrder
    <3> QED BY <1>2, <1>3, <1>5, <2>2, <2>5, <3>1
  <2>7. v # PN(addr)
    BY <1>2, <1>3, <1>5
  <2>8. BytesBefore(addr, count, v) = IF count < y - addr THEN count ELSE y - addr
    BY <2>4, <2>7 DEF BytesBefore
  <2> QED BY ONLY <2>3, <2>5, <2>6, <2>8
<1>7. st.moved = {Byte(addr, k) : k \in 0 .. count - 1}
  BY <1>1, <1>6 DEF Copied
<1> QED BY <1>7 DEF Byte, ByteIn, UserBytes

(* The copy moves the bytes of the range. *)
LEMMA CopyRuns ==
  ASSUME NEW addr, NEW count, WholeRange(addr, count),
         NEW reads \in BOOLEAN, reads => OneArea(addr, count),
         NEW f, CopyOf(addr, count, reads, Len(areas), f)
  PROVE  f[Len(areas)].moved = UserBytes(addr, count)
<1>1. Len(areas) \in Nat
  BY ListFacts DEF WholeRange
<1>2. f = [i \in 0 .. Len(areas) |->
            IF i = 0 THEN CopyStart(addr) ELSE CopyTurn(addr, count, reads, i, f[i - 1])]
  BY DEF CopyOf
<1> DEFINE T == {k \in Nat : k <= Len(areas) => CopyInv(addr, count, k, f[k])}
<1>3. 0 \in T
  <2>1. f[0] = CopyStart(addr)
    BY <1>1, <1>2
  <2> QED BY <2>1, CopyStarts
<1>4. ASSUME NEW k \in Nat, k \in T PROVE k + 1 \in T
  <2> SUFFICES ASSUME k + 1 <= Len(areas) PROVE CopyInv(addr, count, k + 1, f[k + 1])
    OBVIOUS
  <2>1. PICK i : i = k + 1
    OBVIOUS
  <2>2. i \in 1 .. Len(areas) /\ i \in 0 .. Len(areas) /\ i # 0 /\ i - 1 = k /\ k <= Len(areas)
    BY <1>1, <2>1
  <2>3. f[i] = CopyTurn(addr, count, reads, i, f[k])
    BY <1>2, <2>2
  <2>4. CopyInv(addr, count, i - 1, f[k])
    BY <1>4, <2>2
  <2>5. CopyInv(addr, count, i, CopyTurn(addr, count, reads, i, f[k]))
    BY <2>2, <2>4, CopyTurnStep
  <2> QED BY <2>1, <2>3, <2>5
<1>5. Nat \subseteq T
  <2> HIDE DEF T
  <2> QED BY <1>3, <1>4, SetInduction
<1>6. Len(areas) \in T /\ Len(areas) <= Len(areas)
  BY <1>1, <1>5
<1> QED BY <1>6, CopyEnds

(* A write moves the bytes of the range, and so does a read of one area. *)
LEMMA CopiesCorrect ==
  ASSUME NEW addr, NEW count, WholeRange(addr, count)
  PROVE  /\ vmmap_write(addr, count) = UserBytes(addr, count)
         /\ OneArea(addr, count) => vmmap_read(addr, count) = UserBytes(addr, count)
<1> DEFINE loop(reads) == CHOOSE f : CopyOf(addr, count, reads, Len(areas), f)
<1>1. Len(areas) \in Nat
  BY ListFacts DEF WholeRange
<1>2. \A reads : CopyOf(addr, count, reads, Len(areas), loop(reads))
  BY <1>1, CopyExists
<1>3. vmmap_write(addr, count) = loop(FALSE)[Len(areas)].moved
  BY DEF vmmap_write, CopyOf, CopyTurn
<1>4. vmmap_read(addr, count) = loop(TRUE)[Len(areas)].moved
  BY DEF vmmap_read, CopyOf, CopyTurn
<1> HIDE DEF loop
<1> QED BY <1>2, <1>3, <1>4, CopyRuns

(* A short range whose pages are mapped ends in user memory: the address after
   it does not wrap. *)
LEMMA EndInSpace ==
  ASSUME NEW addr \in Nat, NEW count \in Nat, count # 0, PN(addr + count - 1) < HighPage
  PROVE  FinalPage(addr, count) = PN(addr + count) + 1
<1>1. PICK x, y : x = addr + count - 1 /\ y = Base(HighPage)
  OBVIOUS
<1>2. x \in Nat /\ addr + count = x + 1 /\ addr + count \in Nat
  BY <1>1
<1>3. HighPage \in Nat /\ y < AddrSpace /\ AddrSpace \in Nat
  BY <1>1, SpaceAssumption DEF Base
<1>4. y \in Nat /\ PN(y) = HighPage
  BY <1>1, <1>3, BaseFacts
<1>5. ~(y <= x)
  <2> SUFFICES ASSUME y <= x PROVE FALSE
    OBVIOUS
  <2>1. PN(y) <= PN(x) /\ PN(x) \in Nat
    BY <1>2, <1>4, PageOrder
  <2> QED BY <1>1, <1>3, <1>4, <2>1
<1>6. PICK e \in Nat : e = addr + count /\ e < AddrSpace
  BY ONLY <1>2, <1>3, <1>4, <1>5
<1>7. e % AddrSpace = e
  BY ONLY <1>3, <1>6, SMT
<1> QED BY <1>6, <1>7 DEF FinalPage, Wrap

(* Copies between the kernel and user memory that reach at most two pages
   move exactly the bytes of the user range, in every reachable list of areas;
   a read that goes over from one area to the next is left out. *)
THEOREM ShortCopiesExact == Spec => []CopyExact
<1>1. VmmapInv => CopyExact
  <2> SUFFICES ASSUME VmmapInv,
                      NEW addr \in USER_MEM_LOW .. USER_MEM_HIGH - 1, NEW count \in 1 .. 2 * PageSize,
                      PN(addr + count - 1) - PN(addr) <= 1,
                      \A p \in PN(addr) .. PN(addr + count - 1) : p < HighPage /\ vmmap_lookup(areas, p) # 0
               PROVE  /\ copy_to_user(addr, count) \in {{}, UserBytes(addr, count)}
                      /\ Cardinality(Touched(addr, count)) = 1 =>
                           copy_from_user(addr, count) \in {{}, UserBytes(addr, count)}
    BY DEF CopyExact
  <2>1. AreaList(areas)
    BY InvIsSpace DEF Space, Held
  <2>2. addr \in Nat /\ count \in Nat /\ count # 0 /\ addr <= addr + count - 1 /\ addr + count - 1 \in Nat
    <3>1. USER_MEM_LOW \in Nat /\ USER_MEM_HIGH \in Nat
      <4>1. Base(LowPage) \in Nat /\ Base(HighPage) \in Nat
        BY SpaceFacts, BaseFacts
      <4> QED BY <4>1 DEF Base, USER_MEM_LOW, USER_MEM_HIGH
    <3>2. count \in Nat /\ count # 0
      BY SpaceFacts
    <3>3. addr \in Nat
      BY ONLY <3>1, addr \in USER_MEM_LOW .. USER_MEM_HIGH - 1
    <3> QED BY ONLY <3>2, <3>3
  <2>3. PN(addr) \in Nat /\ PN(addr + count - 1) \in Nat /\ PN(addr) <= PN(addr + count - 1)
    BY <2>2, PageOrder
  <2>4. PN(addr + count - 1) < HighPage
    BY <2>3
  <2>5. ShortRange(addr, count)
    <3>1. PN(addr + count - 1) <= PN(addr) + 1
      BY ONLY <2>3, PN(addr + count - 1) - PN(addr) <= 1
    <3> QED BY <2>2, <3>1 DEF ShortRange
  <2>6. WholeRange(addr, count)
    BY <2>1, <2>2, <2>4, <2>5, EndInSpace DEF WholeRange
  <2>7. Cardinality(Touched(addr, count)) = 1 => OneArea(addr, count)
    <3>1. Len(areas) \in Nat
      BY <2>1, ListFacts
    <3>2. IsFiniteSet(1 .. Len(areas)) /\ Touched(addr, count) \subseteq 1 .. Len(areas)
      BY <3>1, FS_Interval DEF Touched
    <3>3. IsFiniteSet(Touched(addr, count))
      BY <3>2, FS_Subset
    <3>4. Cardinality(Touched(addr, count)) = 1 => \E i : Touched(addr, count) = {i}
      BY <3>3, FS_Singleton
    <3> QED BY <3>4 DEF OneArea
  <2>8. copy_to_user(addr, count) \in {{}, UserBytes(addr, count)}
    BY <2>6, CopiesCorrect DEF copy_to_user
  <2>9. OneArea(addr, count) => copy_from_user(addr, count) \in {{}, UserBytes(addr, count)}
    BY <2>6, CopiesCorrect DEF copy_from_user
  <2> QED BY <2>7, <2>8, <2>9
<1> QED BY <1>1, AddressSpaceConsistent, PTL
=============================================================================
