------------------------------ MODULE MCVmmap ------------------------------
EXTENDS Vmmap, TLC

(* Four user pages of two units each, below the top of the address space. *)
MCLens == {2, 3, 12, 15}
MCStartBrks == {3, 4}
MCBrks == {3, 7, 9, 10}
Symmetry == Permutations(Anons)

RegRW == [obj |-> CHOOSE f \in Files : TRUE, mode |-> {"r", "w"}, kind |-> "reg"]

Request(addr, len, prot, flags, fd, off) ==
  [addr |-> addr, len |-> len, prot |-> prot, flags |-> flags, fd |-> fd, off |-> off]

(* Mappings that take effect at every place and length, two that let mmap
   choose the place, one that wraps, and one request per error return. *)
MCRequests ==
  {Request(a, l, {"r", "w"}, {"private", "anon", "fixed"}, Nil, 0) : a \in {2, 6}, l \in {2, 3}}
  \cup {Request(a, l, {"r"}, {"shared", "fixed"}, RegRW, 2) : a \in {4}, l \in {4}}
  \cup {Request(0, 3, {"r"}, {"private"}, RegRW, 0),
        Request(8, 12, {"r"}, {"private", "anon", "fixed"}, Nil, 0),
        Request(6, 2, {"r"}, {"shared", "anon", "fixed"}, Nil, 0),
        Request(4, 2, {"r"}, {"private", "anon", "fixed"}, Nil, 1),
        Request(4, 2, {"r"}, {"private", "shared", "anon"}, Nil, 0),
        Request(4, 15, {"r"}, {"private", "anon", "fixed"}, Nil, 0),
        Request(5, 2, {"r"}, {"private", "anon", "fixed"}, Nil, 0),
        Request(4, 2, {"r"}, {"private", "fixed"}, Nil, 0),
        Request(4, 4, {"r"}, {"private", "fixed"}, RegRW, 4),
        Request(4, 2, {"w"}, {"shared", "fixed"}, [RegRW EXCEPT !.mode = {"r"}], 0),
        Request(4, 2, {"r"}, {"private", "fixed"}, [RegRW EXCEPT !.kind = "dir"], 0),
        Request(4, 2, {"r"}, {"private", "fixed"}, [RegRW EXCEPT !.kind = "nommap"], 0)}
=============================================================================
