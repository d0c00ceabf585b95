----------------------------- MODULE My402Sort ------------------------------
(***************************************************************************)
(* The two programs on top of the list.  listtest (warmup2/listtest.c)     *)
(* builds a list by any calls, empties it, and sorts it by exchanging      *)
(* cells, forwards or backwards.  sort (warmup1/my402sort.c) reads         *)
(* transactions, sorts the list by exchanging objects, and prints amounts  *)
(* and the running balance.                                                *)
(***************************************************************************)
EXTENDS My402List

CONSTANTS Values,     \* the objects of listtest: numbers
          Lines,      \* the lines of an input file, see Accepted
          MaxLines,   \* bound: lines of one input
          Now         \* the current time

ASSUME My402SortAssumption == Values \subseteq Nat /\ MaxLines \in Nat /\ MaxLines <= MaxCells

(* read's strtoul and its digits: none of a line's numbers is negative, and two
   digits are below a hundred. *)
ASSUME LinesAssumption ==
  \A l \in Lines : l.time \in Nat /\ l.whole \in Nat /\ (l.ncents = 2 => l.cents \in 0 .. 99)

VARIABLES list,     \* the list
          pc,       \* where the program is
          elem,     \* elem of the loops
          other,    \* nextelem of sorting, temp of My402ListUnlinkAll
          turn,     \* i, j and something_swapped of the bubble sorts
          got,      \* sort: the transactions read; an object is a place here
          balance,  \* sort: balanceMain
          rows      \* sort: the amounts and balances printed

vars == <<list, pc, elem, other, turn, got, balance, rows>>

NoTurn == [i |-> 0, j |-> 0, swapped |-> FALSE]

Goto(p) == pc' = p

----------------------------------------------------------------------------
(* listtest: calls of the list's operations. *)

InTest == pc = "test" /\ UNCHANGED <<elem, other, turn, got, balance, rows>>

Add(o) ==
  /\ InTest /\ MayAllocate(list)
  /\ \/ list' = My402ListAppend(list, o)
     \/ list' = My402ListPrepend(list, o)
     \/ \E e \in list.live \cup {NULL} : \/ list' = My402ListInsertAfter(list, o, e)
                                         \/ list' = My402ListInsertBefore(list, o, e)
  /\ UNCHANGED pc

(* RandomShuffle takes out the cell at some index. *)
TakeOut(e) ==
  /\ InTest /\ e \in list.live
  /\ list' = My402ListUnlink(list, e)
  /\ UNCHANGED pc

(* My402ListUnlinkAll, a step per turn of its loop. *)
UnlinkAll ==
  /\ pc = "test"
  /\ Goto("unlinking")
  /\ elem' = list.next[Anchor]
  /\ other' = list.next[list.next[Anchor]]
  /\ UNCHANGED <<list, turn, got, balance, rows>>

\* Mutant of After: the next cell is read from the one that has been freed.
AfterFreed(l, e) == l.next[e]

After(l, e) == other

UnlinkAll_step ==
  /\ pc = "unlinking"
  /\ \/ /\ elem # Anchor
        /\ list' = free(list, elem)
        /\ elem' = After(list', elem)
        /\ other' = IF elem' \in Node THEN list'.next[elem'] ELSE NULL
        /\ UNCHANGED pc
     \/ /\ elem = Anchor
        /\ list' = My402ListInit(list)
        /\ Goto("test") /\ elem' = NULL /\ other' = NULL
  /\ UNCHANGED <<turn, got, balance, rows>>

----------------------------------------------------------------------------
(* listtest: the bubble sorts. *)

(* Two neighbours e1, e2 are unlinked, and their objects inserted again in the
   other order; the walk goes on from the cell of the later one. *)
BubbleForward(e1, e2) ==
  LET before == My402ListPrev(list, e1)
      after  == My402ListNext(list, e2)
  IN \E out \in {My402ListUnlink(My402ListUnlink(list, e1), e2)} :
       \E one \in {IF before = NULL THEN My402ListPrepend(out, list.obj[e2])
                   ELSE My402ListInsertAfter(out, list.obj[e2], before)} :
         /\ list' = IF after = NULL THEN My402ListAppend(one, list.obj[e1])
                    ELSE My402ListInsertBefore(one, list.obj[e1], after)
         /\ elem' = IF after = NULL THEN My402ListLast(list') ELSE My402ListPrev(list', after)

\* Mutant of BubbleBackward: both cells get the object of the later one.
BackwardLosesOne(e1, e2) ==
  list' = [list EXCEPT !.obj[e2] = list.obj[e1]] /\ elem' = e2

(* The same from the other end: e1 is the later one. *)
BubbleBackward(e1, e2) ==
  LET after  == My402ListNext(list, e1)
      before == My402ListPrev(list, e2)
  IN \E out \in {My402ListUnlink(My402ListUnlink(list, e1), e2)} :
       \E one \in {IF after = NULL THEN My402ListAppend(out, list.obj[e2])
                   ELSE My402ListInsertBefore(out, list.obj[e2], after)} :
         /\ list' = IF before = NULL THEN My402ListPrepend(one, list.obj[e1])
                    ELSE My402ListInsertAfter(one, list.obj[e1], before)
         /\ elem' = IF before = NULL THEN My402ListFirst(list') ELSE My402ListNext(list', before)

End(dir) == IF dir = "forward" THEN My402ListFirst(list) ELSE My402ListLast(list)

BubbleSort(dir) ==
  /\ pc = "test"
  /\ Goto(dir) /\ elem' = End(dir) /\ turn' = NoTurn
  /\ UNCHANGED <<list, other, got, balance, rows>>

\* Mutant of PassLength: the last pair of a pass is left out.
PassTooShort(i) == list.num - i - 2

PassLength(i) == list.num - i - 1

Neighbour(dir) == IF dir = "forward" THEN My402ListNext(list, elem) ELSE My402ListPrev(list, elem)

OutOfOrder(dir, n) ==
  IF dir = "forward" THEN list.obj[elem] > list.obj[n] ELSE list.obj[elem] < list.obj[n]

(* A turn of the inner loop: out of order neighbours change places. *)
BubbleStep(dir) ==
  /\ pc = dir /\ turn.j < PassLength(turn.i)
  /\ LET n == Neighbour(dir)
     IN \/ /\ OutOfOrder(dir, n)
           /\ IF dir = "forward" THEN BubbleForward(elem, n) ELSE BubbleBackward(elem, n)
           /\ turn' = [turn EXCEPT !.j = @ + 1, !.swapped = TRUE]
        \/ /\ ~OutOfOrder(dir, n)
           /\ elem' = n /\ turn' = [turn EXCEPT !.j = @ + 1] /\ UNCHANGED list
  /\ UNCHANGED <<pc, other, got, balance, rows>>

(* The end of a pass: another one, unless nothing was swapped. *)
BubblePass(dir) ==
  /\ pc = dir /\ turn.j >= PassLength(turn.i)
  /\ \/ /\ turn.swapped /\ turn.i + 1 < list.num
        /\ turn' = [i |-> turn.i + 1, j |-> 0, swapped |-> FALSE]
        /\ elem' = End(dir)
        /\ UNCHANGED pc
     \/ /\ ~(turn.swapped /\ turn.i + 1 < list.num)
        /\ Goto("sorted") /\ elem' = NULL /\ turn' = NoTurn
  /\ UNCHANGED <<list, other, got, balance, rows>>

(* DoTest compares the list with the other one (BubbleSorted says what it finds)
   and the test goes on. *)
DoTest ==
  /\ pc = "sorted"
  /\ Goto("test")
  /\ UNCHANGED <<list, elem, other, turn, got, balance, rows>>

----------------------------------------------------------------------------
(* sort: main and read. *)

(* The arguments: a file, standard input, or something that is refused. *)
main ==
  /\ pc = "start"
  /\ pc' \in {"test", "reading", "refused"}
  /\ UNCHANGED <<list, elem, other, turn, got, balance, rows>>

(* The tests read makes on a line, in order. *)
Accepted(l) ==
  /\ l.chars <= 1024 /\ l.fields = 4
  /\ l.type \in {"+", "-"}
  /\ l.tchars <= 10 /\ l.time <= Now
  /\ l.numeric /\ l.whole < 10000000
  /\ l.ncents = 2

Transaction(l) == [type |-> l.type, time |-> l.time, amount |-> l.whole * 100 + l.cents]

(* A line that begins with a blank gives free an address malloc did not return,
   and the fifth field of a line is stored behind the array of four: undefined,
   and at best the line is rejected. *)
Undefined(l) == l.chars <= 1024 /\ (l.blank \/ l.fields > 4)

read(l) ==
  /\ pc = "reading" /\ Len(got) < MaxLines
  /\ \/ Undefined(l) /\ Goto("crashed") /\ UNCHANGED <<list, got>>
     \/ ~Accepted(l) /\ Goto("rejected") /\ UNCHANGED <<list, got>>
     \/ /\ Accepted(l)
        /\ got' = Append(got, Transaction(l))
        /\ list' = My402ListAppend(list, Len(got) + 1)
        /\ UNCHANGED pc
  /\ UNCHANGED <<elem, other, turn, balance, rows>>

----------------------------------------------------------------------------
(* sort: sorting. *)

Time(e) == got[list.obj[e]].time

(* The head of the outer loop, with e as its element: the inner one begins, or
   PrintList does. *)
Outer(e) ==
  IF My402ListNext(list, e) # NULL THEN pc' = "sorting" /\ elem' = e /\ other' = My402ListNext(list, e)
  ELSE pc' = "printing" /\ elem' = My402ListFirst(list) /\ other' = NULL

(* The end of the input.  sorting asks for the successor of the first element
   of the list, which an empty list does not have. *)
sorting ==
  /\ pc = "reading"
  /\ IF My402ListFirst(list) = NULL THEN Goto("crashed") /\ UNCHANGED <<elem, other>>
     ELSE Outer(My402ListFirst(list))
  /\ UNCHANGED <<list, turn, got, balance, rows>>

Later(e, f) == Time(e) > Time(f)

sorting_step ==
  /\ pc = "sorting"
  /\ \/ /\ other # NULL /\ Time(elem) = Time(other)
        /\ Goto("duplicate") /\ UNCHANGED <<list, elem, other>>
     \/ /\ other # NULL /\ Time(elem) # Time(other)
        /\ list' = IF Later(elem, other)
                   THEN [list EXCEPT !.obj[elem] = list.obj[other], !.obj[other] = list.obj[elem]]
                   ELSE list
        /\ other' = My402ListNext(list, other)
        /\ UNCHANGED <<pc, elem>>
     \/ /\ other = NULL
        /\ Outer(My402ListNext(list, elem))
        /\ UNCHANGED list
  /\ UNCHANGED <<turn, got, balance, rows>>

----------------------------------------------------------------------------
(* sort: PrintList.  An amount is fourteen characters: a sign at both ends, and
   between them digits from the right, with a point and commas. *)

Separators == {2, 6, 10}

(* The characters that are not digits. *)
Space == -1
Point == -2
Comma == -3
Unknown == -4

(* The number of digits to the right of place i. *)
Right(i) == 12 - i - Cardinality({s \in Separators : s > i})

(* The loop stops when no digit is left; two digits get a point and a zero. *)
Inner(n, i) ==
  IF n >= 10 ^ Right(i) \/ i = 12
  THEN IF i \notin Separators THEN (n \div 10 ^ Right(i)) % 10 ELSE IF i = 10 THEN Point ELSE Comma
  ELSE IF n \in 10 .. 99 /\ i = 10 THEN Point
  ELSE IF n \in 10 .. 99 /\ i = 9 THEN 0
  ELSE Space

Overflow == [i \in 1 .. 12 |-> IF i = 10 THEN Point ELSE IF i \in Separators THEN Comma ELSE Unknown]

(* A printed amount: whether it is in brackets, and what is between them. *)
Cell14(n, negative) ==
  [negative |-> negative, text |-> IF n >= 1000000000 THEN Overflow ELSE [i \in 1 .. 12 |-> Inner(n, i)]]

Magnitude(n) == IF n >= 0 THEN n ELSE n * (-1)

\* Mutant of NewBalance: withdrawals are added.
AlwaysAdd(t) == balance + t.amount

NewBalance(t) == IF t.type = "+" THEN balance + t.amount ELSE balance - t.amount

PrintList_step ==
  /\ pc = "printing"
  /\ LET t == got[list.obj[elem]]
     IN /\ balance' = NewBalance(t)
        /\ rows' = Append(rows, [amount |-> Cell14(t.amount, t.type = "-"),
                                 balance |-> Cell14(Magnitude(balance'), balance' < 0)])
  /\ elem' = My402ListNext(list, elem)
  /\ pc' = IF elem' = NULL THEN "printed" ELSE "printing"
  /\ UNCHANGED <<list, other, turn, got>>

----------------------------------------------------------------------------
Init ==
  /\ list = EmptyList /\ pc = "start" /\ elem = NULL /\ other = NULL
  /\ turn = NoTurn /\ got = <<>> /\ balance = 0 /\ rows = <<>>

Next ==
  \/ main
  \/ \E o \in Values : Add(o)
  \/ \E e \in Cell : TakeOut(e)
  \/ UnlinkAll \/ UnlinkAll_step
  \/ \E dir \in {"forward", "backward"} : BubbleSort(dir) \/ BubbleStep(dir) \/ BubblePass(dir)
  \/ DoTest
  \/ (\E l \in Lines : read(l)) \/ sorting \/ sorting_step \/ PrintList_step

Spec == Init /\ [][Next]_vars

----------------------------------------------------------------------------
(* Properties. *)

Places == {"start", "test", "unlinking", "forward", "backward", "sorted", "reading", "sorting",
           "printing", "printed", "refused", "rejected", "duplicate", "crashed"}

(* What the sort has accepted is an amount below ten million, to the cent. *)
MaxAmount == 999999999

My402TypeOK ==
  /\ list.next \in [Node -> Pointer] /\ list.prev \in [Node -> Pointer]
  /\ list.obj \in [Node -> Values \cup (1 .. MaxLines) \cup {NULL}]
  /\ list.num \in 0 .. MaxCells /\ list.live \subseteq Cell
  /\ pc \in Places /\ elem \in Pointer /\ other \in Pointer
  /\ turn \in [i : 0 .. MaxCells, j : 0 .. MaxCells, swapped : BOOLEAN]
  /\ \A n \in 1 .. Len(got) : got[n].amount \in 0 .. MaxAmount /\ got[n].time <= Now
  /\ balance \in Int /\ Len(rows) <= MaxLines

(* Between calls the list is whole: both directions of its links agree all the
   way round, it has as many cells as it counts, and every allocated cell is on
   it. *)
LinksWhole ==
  pc # "unlinking" =>
    LET s == Members(list)
    IN /\ Len(s) = list.num /\ {s[k] : k \in 1 .. Len(s)} = list.live
       /\ \A e \in list.live \cup {Anchor} : list.prev[list.next[e]] = e

(* My402ListFind finds the first cell that holds an object, or none. *)
FindsFirst ==
  pc = "test" =>
    LET s == Members(list)
    IN \A o \in Values :
         LET hits == {k \in 1 .. Len(s) : list.obj[s[k]] = o}
         IN My402ListFind(list, o) = IF hits = {} THEN NULL ELSE s[Min(hits)]

(* The cells the programs are about to look at have not been freed. *)
NoDangling ==
  /\ pc = "unlinking" => elem \in list.live \cup {Anchor}
  /\ pc \in {"sorting", "printing"} => elem \in list.live
  /\ pc \in {"forward", "backward"} /\ turn.j < PassLength(turn.i) => elem \in list.live

(* The list is whole between calls, searches it right, and no loop is at a cell
   that has been freed. *)
ListInv == My402TypeOK /\ LinksWhole /\ FindsFirst /\ NoDangling

(* Both bubble sorts leave the list in order, whatever it held. *)
BubbleSorted ==
  pc = "sorted" => LET s == Members(list)
                   IN \A a, b \in 1 .. Len(s) : a < b => list.obj[s[a]] <= list.obj[s[b]]

TimesUnique == \A a, b \in 1 .. Len(got) : a # b => got[a].time # got[b].time

(* sort prints every transaction of its input once, in the order of their
   times, and does so exactly if no two have the same time. *)
SortedByTime ==
  /\ pc \in {"printing", "printed"} =>
       LET s == Members(list)
       IN /\ TimesUnique
          /\ {list.obj[s[k]] : k \in 1 .. Len(s)} = 1 .. Len(got) /\ Len(s) = Len(got)
          /\ \A a, b \in 1 .. Len(s) : a < b => Time(s[a]) < Time(s[b])
  /\ pc = "duplicate" => ~TimesUnique

(* All three sorts sort: listtest's two, which exchange cells, and the program
   sort's, which exchanges objects. *)
Sorted == BubbleSorted /\ SortedByTime

(* The number a reader sees in a printed amount: dollars before the point and
   cents after it. *)
Seen(c) ==
  MapThenSumSet(LAMBDA i : IF c.text[i] \in 0 .. 9 THEN c.text[i] * 10 ^ Right(i) ELSE 0,
                1 .. 12 \ Separators)

Shows(c, n, negative) ==
  /\ c.negative = negative
  /\ n >= 1000000000 => c.text = Overflow
  /\ n < 1000000000 => /\ c.text # Overflow /\ Seen(c) = n
                       /\ n >= 10 => c.text[10] = Point /\ c.text[9] \in 0 .. 9
                       /\ n >= 100000 => c.text[6] = Comma

UpTo(r) == {n \in 1 .. Len(got) : Cardinality({m \in 1 .. Len(got) : got[m].time < got[n].time}) < r}

Sum(N) == MapThenSumSet(LAMBDA n : IF got[n].type = "+" THEN got[n].amount ELSE -got[n].amount, N)

(* Row r shows the amount of the transaction with the r-th earliest time, and
   the balance of all up to it. *)
RowsExact ==
  \A r \in 1 .. Len(rows) :
    /\ \A n \in UpTo(r) \ UpTo(r - 1) : Shows(rows[r].amount, got[n].amount, got[n].type = "-")
    /\ Shows(rows[r].balance, Magnitude(Sum(UpTo(r))), Sum(UpTo(r)) < 0)

(* The objects of the list, in order; of a list that is being emptied, those
   not yet freed. *)
Contents ==
  LET s == Walk(list, IF pc = "unlinking" THEN elem ELSE list.next[Anchor])
  IN [k \in 1 .. Len(s) |-> list.obj[s[k]]]

Abstract == INSTANCE ListSeq WITH Obj <- Values \cup (1 .. MaxLines), seq <- Contents

(* The list's links implement a sequence of objects: every call, every exchange
   of the sorts and every cell that is freed changes it as ListSeq allows. *)
ImplementsListSeq == Abstract!Spec
=============================================================================
