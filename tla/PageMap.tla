------------------------------ MODULE PageMap ------------------------------
(***************************************************************************)
(* What mmap, munmap and brk promise about one process's address space,    *)
(* without areas: a function from each user page to the page of a memory   *)
(* object it shows, or to Nil.  Vmmap, which keeps the kernel's ordered    *)
(* list of areas, is shown to implement this.                              *)
(***************************************************************************)
EXTENDS Integers

CONSTANTS LowPage,   \* first user page, ADDR_TO_PN(USER_MEM_LOW)
          HighPage,  \* one past the last, ADDR_TO_PN(USER_MEM_HIGH)
          Objs,      \* memory objects
          Files,     \* those that are files' own objects
          Prots,     \* protections
          Offs,      \* first object pages a mapping may be given
          Nil

VARIABLE page        \* page[p] = [obj, pg, prot], or Nil when p is unmapped

UserPages == LowPage .. HighPage - 1

Span(lo, n) == {p \in UserPages : lo <= p /\ p < lo + n}

(* An object that is not a file's shows only what one mapping put there. *)
Fresh(old, o) == o \in Files \/ \A p \in UserPages : old[p] # Nil => old[p].obj # o

Init == \E lo \in UserPages, n \in 1 .. HighPage - LowPage :
          /\ lo + n <= HighPage
          /\ page[lo] \in [obj : Objs, pg : {0}, prot : Prots]
          /\ page = [p \in UserPages |->
                       IF p \in Span(lo, n) THEN [page[lo] EXCEPT !.pg = p - lo] ELSE Nil]

(* A mapping shows the n pages of one object from its first page on; it
   replaces whatever its range showed before, and nothing else. *)
Map(old, new, lo, n) ==
  /\ lo + n <= HighPage
  /\ new[lo] \in [obj : Objs, pg : Offs, prot : Prots]
  /\ Fresh(old, new[lo].obj)
  /\ new = [p \in UserPages |-> IF p \in Span(lo, n)
                                THEN [new[lo] EXCEPT !.pg = @ + p - lo]
                                ELSE old[p]]

Unmap(old, new, lo, n) ==
  new = [p \in UserPages |-> IF p \in Span(lo, n) THEN Nil ELSE old[p]]

(* brk: the mapping that ends at lo goes on over free pages. *)
Grow(old, new, lo, n) ==
  /\ lo > LowPage /\ lo + n <= HighPage
  /\ old[lo - 1] # Nil
  /\ \A p \in Span(lo, n) : old[p] = Nil
  /\ new = [p \in UserPages |-> IF p \in Span(lo, n)
                                THEN [old[lo - 1] EXCEPT !.pg = @ + 1 + p - lo]
                                ELSE old[p]]

Next == \E old \in {page}, new \in {page'} :
        \E lo \in UserPages, n \in 1 .. HighPage - LowPage :
          Map(old, new, lo, n) \/ Unmap(old, new, lo, n) \/ Grow(old, new, lo, n)

Spec == Init /\ [][Next]_page
=============================================================================
