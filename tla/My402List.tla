----------------------------- MODULE My402List ------------------------------
(***************************************************************************)
(* The circular doubly linked list of warmup1/my402list.c, at the level of *)
(* its links.  A list is a record: the fields of its cells and of the      *)
(* anchor, the number of members it believes it has, and which cells are   *)
(* allocated.  An operator is the function of the same name: it takes the  *)
(* list before and returns the list after, or a pointer.                   *)
(***************************************************************************)
EXTENDS Integers, Sequences, FiniteSets, FiniteSetsExt

CONSTANT MaxCells    \* bound: cells malloc has to give

ASSUME My402ListAssumption == MaxCells \in Nat \ {0}

Cell == 1 .. MaxCells

Anchor == 0

NULL == -1

Node == Cell \cup {Anchor}

Pointer == Node \cup {NULL}

(* The members of the list, from first to last: the nodes met from node e on
   along next, up to the anchor. *)
Walk(l, e) ==
  LET succ == [n \in Pointer |-> IF n \in Cell THEN l.next[n] ELSE n]
      at[n \in 0 .. MaxCells] == IF n = 0 THEN e ELSE succ[at[n - 1]]
      len == Cardinality({n \in 0 .. MaxCells - 1 : at[n] \in Cell})
  IN [k \in 1 .. len |-> at[k - 1]]

Members(l) == Walk(l, l.next[Anchor])

----------------------------------------------------------------------------

My402ListInit(l) ==
  [l EXCEPT !.num = 0, !.obj[Anchor] = NULL, !.next[Anchor] = Anchor, !.prev[Anchor] = Anchor]

My402ListFirst(l) == IF l.num = 0 THEN NULL ELSE l.next[Anchor]

My402ListLast(l) == IF l.num = 0 THEN NULL ELSE l.prev[Anchor]

My402ListNext(l, e) == IF l.next[e] = Anchor THEN NULL ELSE l.next[e]

My402ListPrev(l, e) == IF l.prev[e] = Anchor THEN NULL ELSE l.prev[e]

MayAllocate(l) == l.live # Cell

malloc(l) == Min(Cell \ l.live)

(* A new cell between p and n. *)
Link(l, o, p, n) ==
  LET c == malloc(l)
  IN [l EXCEPT !.num = @ + 1, !.live = @ \cup {c}, !.obj[c] = o,
               !.next = [@ EXCEPT ![c] = n, ![p] = c],
               !.prev = [@ EXCEPT ![c] = p, ![n] = c]]

My402ListAppend(l, o) == Link(l, o, l.prev[Anchor], Anchor)

My402ListPrepend(l, o) == Link(l, o, Anchor, l.next[Anchor])

My402ListInsertAfter(l, o, e) ==
  IF e = NULL THEN My402ListAppend(l, o) ELSE Link(l, o, l.prev[l.next[e]], l.next[e])

My402ListInsertBefore(l, o, e) ==
  IF e = NULL THEN My402ListPrepend(l, o) ELSE Link(l, o, l.prev[e], e)

free(l, e) ==
  [l EXCEPT !.next[e] = NULL, !.prev[e] = NULL, !.obj[e] = NULL, !.live = @ \ {e}]

My402ListUnlink(l, e) ==
  [free([l EXCEPT !.next[l.prev[e]] = l.next[e], !.prev[l.next[e]] = l.prev[e]], e)
     EXCEPT !.num = @ - 1]

(* The n-th cell after the first, for the loop over num_members cells. *)
Ahead(l, n) ==
  LET at[k \in 0 .. n] == IF k = 0 THEN My402ListFirst(l) ELSE l.next[at[k - 1]]
  IN at[n]

My402ListFind(l, o) ==
  LET hits == {n \in 0 .. l.num - 1 : l.obj[Ahead(l, n)] = o}
  IN IF hits = {} THEN NULL ELSE Ahead(l, Min(hits))

EmptyList ==
  [next |-> [n \in Node |-> IF n = Anchor THEN Anchor ELSE NULL],
   prev |-> [n \in Node |-> IF n = Anchor THEN Anchor ELSE NULL],
   obj |-> [n \in Node |-> NULL], num |-> 0, live |-> {}]
=============================================================================
