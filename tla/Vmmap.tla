------------------------------- MODULE Vmmap -------------------------------
(***************************************************************************)
(* The address space of one process (vm-submit: vm/vmmap.c, vm/mmap.c,     *)
(* vm/brk.c, vm/pagefault.c, api/access.c): the ordered list of areas,     *)
(* the references the areas hold on memory objects, the page table, and    *)
(* the break.  A process has one thread and none of these operations lets  *)
(* another process touch its address space, so each is one action.         *)
(*                                                                         *)
(* Addresses are counted in units of which PageSize make a page, and are   *)
(* AddrSpace (the code's 2^32) wide: sums of addresses wrap, sums of page  *)
(* numbers do not.                                                         *)
(***************************************************************************)
EXTENDS Integers, Sequences, SequencesExt, FiniteSets

CONSTANTS PageSize, LowPage, HighPage, AddrSpace,
          Anons,      \* pool of objects made by shadow_create or anon_create
          Files,      \* objects of files that can be mapped shared
          Junk,       \* the vma_obj of an area whose object was never set
          Nil,
          StartBrks,  \* values the loader may give p_start_brk
          Requests,   \* arguments of mmap: [addr, len, prot, flags, fd, off]
          Lens,       \* len arguments of munmap
          Brks,       \* arguments of brk
          Touches,    \* pages the program touches
          NFILES

VARIABLES areas,     \* vmm_list: sequence of [start, end, off, prot, flags, obj]
          refs,      \* mmo_refcount due to areas, per object
          pte,       \* page table: pte[p] = [obj, pg, write] or Nil
          brk,       \* p_brk
          startBrk,  \* p_start_brk
          state      \* "user", "exited", or the reason of a kernel panic

vars == <<areas, refs, pte, brk, startBrk, state>>

ASSUME SpaceAssumption ==
  /\ PageSize \in Nat \ {0} /\ LowPage \in Nat \ {0} /\ HighPage \in Nat
  /\ LowPage < HighPage /\ HighPage * PageSize < AddrSpace
  /\ AddrSpace \in Nat /\ AddrSpace % PageSize = 0

Objs == Anons \cup Files
UserPages == LowPage .. HighPage - 1
Addrs == 0 .. AddrSpace - 1
PN(a) == a \div PageSize
Aligned(a) == a % PageSize = 0
Wrap(a) == a % AddrSpace
USER_MEM_LOW == LowPage * PageSize
USER_MEM_HIGH == HighPage * PageSize

(* A length that is not page aligned is rounded up; the largest wrap to 0. *)
RoundLen(len) == IF Aligned(len) THEN len ELSE Wrap((PN(len) + 1) * PageSize)

----------------------------------------------------------------------------
(* The list of areas. *)

(* The end of the area before index i: where the gap below area i begins. *)
GapLow(as, i) == IF i = 1 THEN LowPage ELSE as[i - 1].end
GapHigh(as, i) == IF i = Len(as) THEN HighPage ELSE as[i + 1].start

(* Index of the area that covers page vfn, or 0. *)
vmmap_lookup(as, vfn) == SelectInSeq(as, LAMBDA a : a.start <= vfn /\ vfn < a.end)

RangeLegal(start, end) == start < end /\ LowPage <= start /\ end <= HighPage

(* The scan stops at the first area that decides; vfnMemLow is GapLow. *)
vmmap_is_range_empty(as, start, end) ==
  LET above(i) == as[i].start >= end /\ GapLow(as, i) <= start
      inside(i) == as[i].start > start /\ as[i].start < end
      past(i) == GapLow(as, i) > start
      decides == {i \in 1 .. Len(as) : above(i) \/ inside(i) \/ past(i)}
  IN IF decides = {} THEN GapLow(as, Len(as) + 1) <= start
     ELSE above(CHOOSE i \in decides : \A j \in decides : i <= j)

(* An area whose range is taken is dropped without an error. *)
vmmap_insert(as, new) ==
  IF ~vmmap_is_range_empty(as, new.start, new.end) THEN as
  ELSE LET i == SelectInSeq(as, LAMBDA a : a.start >= new.end)
       IN IF i = 0 THEN Append(as, new) ELSE InsertAt(as, i, new)

\* Mutant of Fits: a gap of exactly npages is passed over.
FitsLoosely(npages, gap) == npages < gap

Fits(npages, gap) == npages <= gap

(* First fit from the bottom ("lohi") or the top ("hilo"); -1 if none.  A
   difference that wraps below zero is returned as a negative int too. *)
vmmap_find_range(as, npages, dir) ==
  LET up == {i \in 1 .. Len(as) : Fits(npages, as[i].start - GapLow(as, i))}
      down == {i \in 1 .. Len(as) : Fits(npages, GapHigh(as, i) - as[i].end)}
      last == GapLow(as, Len(as) + 1)
      first == IF as = <<>> THEN HighPage ELSE as[1].start
  IN IF dir = "lohi"
     THEN IF up # {} THEN GapLow(as, CHOOSE i \in up : \A j \in up : i <= j)
          ELSE IF HighPage < npages + last THEN -1 ELSE last
     ELSE IF down # {} THEN GapHigh(as, CHOOSE i \in down : \A j \in down : j <= i) - npages
          ELSE IF LowPage > first - npages THEN -1 ELSE first - npages

(* The four cases of vmmap_remove for pages lo .. hi-1 and the area a.  st
   carries the list built so far, the references, the pages taken out of the
   page table, the upper half of a split, and whether the loop has returned. *)

\* Mutant of SplitArea: both halves share the reference of the whole.
SplitWithoutRef(st, a, lo, hi) ==
  [st EXCEPT !.list = Append(@, [a EXCEPT !.end = lo]),
             !.split = <<[a EXCEPT !.start = hi, !.off = @ + hi - a.start]>>,
             !.unmapped = @ \cup (lo .. hi - 1),
             !.done = TRUE]

SplitArea(st, a, lo, hi) ==
  [st EXCEPT !.list = Append(@, [a EXCEPT !.end = lo]),
             !.split = <<[a EXCEPT !.start = hi, !.off = @ + hi - a.start]>>,
             !.refs[a.obj] = @ + 1,
             !.unmapped = @ \cup (lo .. hi - 1),
             !.done = TRUE]

CutEnd(st, a, lo) ==
  [st EXCEPT !.list = Append(@, [a EXCEPT !.end = lo]),
             !.unmapped = @ \cup (lo .. a.end - 1)]

\* Mutant of CutStart: vma_off is not moved with vma_start.
CutStartKeepingOff(st, a, hi) ==
  [st EXCEPT !.list = Append(@, [a EXCEPT !.start = hi]),
             !.unmapped = @ \cup (a.start .. hi - 1),
             !.done = TRUE]

CutStart(st, a, hi) ==
  [st EXCEPT !.list = Append(@, [a EXCEPT !.start = hi, !.off = @ + hi - a.start]),
             !.unmapped = @ \cup (a.start .. hi - 1),
             !.done = TRUE]

DropArea(st, a) ==
  [st EXCEPT !.refs[a.obj] = @ - 1,
             !.unmapped = @ \cup (a.start .. a.end - 1)]

(* One turn of the loop; a split and a cut at the start return from it. *)
RemoveArea(lo, hi, st, a) ==
  CASE st.done -> [st EXCEPT !.list = Append(@, a)]
    [] ~st.done /\ hi < a.end /\ lo > a.start -> SplitArea(st, a, lo, hi)
    [] ~st.done /\ hi >= a.end /\ lo < a.end /\ lo > a.start -> CutEnd(st, a, lo)
    [] ~st.done /\ lo <= a.start /\ hi < a.end /\ hi > a.start -> CutStart(st, a, hi)
    [] ~st.done /\ hi >= a.end /\ lo <= a.start -> DropArea(st, a)
    [] OTHER -> [st EXCEPT !.list = Append(@, a)]

vmmap_remove(as, rf, pt, lo, npages) ==
  LET loop[i \in 0 .. Len(as)] ==
        IF i = 0 THEN [list |-> <<>>, refs |-> rf, split |-> <<>>, unmapped |-> {}, done |-> FALSE]
        ELSE RemoveArea(lo, lo + npages, loop[i - 1], as[i])
      st == loop[Len(as)]
  IN [areas |-> IF st.split = <<>> THEN st.list ELSE vmmap_insert(st.list, st.split[1]),
      refs |-> st.refs,
      pte |-> [p \in UserPages |-> IF p \in st.unmapped THEN Nil ELSE pt[p]]]

(* Every area is removed by a call that covers exactly it. *)
vmmap_destroy(as, rf, pt) ==
  LET Removed(s, a) == vmmap_remove(s.areas, s.refs, s.pte, a.start, a.end - a.start)
      loop[i \in 0 .. Len(as)] ==
        IF i = 0 THEN [areas |-> as, refs |-> rf, pte |-> pt] ELSE Removed(loop[i - 1], as[i])
  IN loop[Len(as)]

(* A removal that reaches an area with no object follows a wild pointer. *)
TouchesJunk(as, lo, hi) ==
  \E i \in 1 .. Len(as) : /\ as[i].obj = Junk
                          /\ lo < as[i].end /\ hi > as[i].start
                          /\ \/ hi >= as[i].end /\ lo <= as[i].start
                             \/ hi < as[i].end /\ lo > as[i].start

Panic(why) == state' = why /\ UNCHANGED <<areas, refs, pte, brk, startBrk>>

SetSpace(r) == areas' = r.areas /\ refs' = r.refs /\ pte' = r.pte

(* The object a mapping gets: a private one gets a shadow object of its own,
   a shared one the file's; a shared anonymous one is left unset. *)
MapObj(flags, file) ==
  IF "private" \in flags THEN {o \in Anons : refs[o] = 0}
  ELSE IF file # Nil THEN {file}
  ELSE {Junk}

(* vmmap_map for lopage # 0, which is how mmap and brk call it. *)
vmmap_map(file, lo, n, prot, flags, off) ==
  IF ~RangeLegal(lo, lo + n) THEN Panic("range") 
  ELSE IF TouchesJunk(areas, lo, lo + n) THEN Panic("junk")
  ELSE \E o \in MapObj(flags, file) :
       \E r \in {IF vmmap_is_range_empty(areas, lo, lo + n)
                 THEN [areas |-> areas, refs |-> refs, pte |-> pte]
                 ELSE vmmap_remove(areas, refs, pte, lo, n)} :
         /\ SetSpace([r EXCEPT
              !.areas = vmmap_insert(@, [start |-> lo, end |-> lo + n, off |-> off,
                                         prot |-> prot, flags |-> flags, obj |-> o]),
              !.refs[o] = IF o = Junk THEN @ ELSE @ + 1])
         /\ UNCHANGED <<state>>

----------------------------------------------------------------------------
(* System calls. *)

Protections == SUBSET {"r", "w"}
MapFlags == SUBSET {"private", "shared", "fixed", "anon"}

(* Open files an fd may name, or Nil for one that fget rejects. *)
Fds == {Nil} \cup [obj : Files, mode : {{"r"}, {"w"}, {"a"}, {"r", "w"}},
                   kind : {"reg", "dir", "nommap"}]

(* The first check of do_mmap that fails, or "ok".  len is rounded, pages is
   its page count. *)
MmapCheck(addr, len, prot, flags, fd, off) ==
  LET pages == PN(len)
      file == ~("anon" \in flags) /\ fd # Nil
      fixed == "fixed" \in flags
      checks == <<
        <<~Aligned(off), "EINVAL">>,
        <<len = 0, "EINVAL">>,
        <<("shared" \in flags) = ("private" \in flags), "EINVAL">>,
        <<~fixed /\ vmmap_find_range(areas, pages, "lohi") < 0, "EINVAL">>,
        <<fixed /\ \/ Wrap(addr + len) > USER_MEM_HIGH
                   \/ addr > USER_MEM_HIGH \/ addr < USER_MEM_LOW
                   \/ ~Aligned(addr), "EINVAL">>,
        <<~("anon" \in flags) /\ fd = Nil, "EBADF">>,
        <<file /\ NFILES < pages + PN(off), "EOVERFLOW">>,
        <<file /\ \/ fd.mode = {"a"} /\ "w" \in prot
                  \/ "private" \in flags /\ "r" \notin fd.mode
                  \/ fd.kind = "dir"
                  \/ "shared" \in flags /\ "w" \in prot /\ fd.mode # {"r", "w"}, "EACCES">>,
        <<file /\ fd.kind = "nommap", "ENODEV">> >>
      i == SelectInSeq(checks, LAMBDA c : c[1])
  IN IF i = 0 THEN "ok" ELSE checks[i][2]

(* The open file's own reference count is not modelled here: every return
   gives back what fget took except EOVERFLOW, which keeps it. *)
do_mmap(addr, rawlen, prot, flags, fd, off) ==
  LET len == RoundLen(rawlen)
      lo == IF "fixed" \in flags THEN PN(addr)
            ELSE vmmap_find_range(areas, PN(len), "lohi")
  IN IF MmapCheck(addr, len, prot, flags, fd, off) # "ok"
     THEN UNCHANGED <<areas, refs, pte, state>>
     ELSE vmmap_map(IF "anon" \in flags THEN Nil ELSE fd.obj, lo, PN(len), prot, flags, off)

Mmap(q) ==
  /\ state = "user"
  /\ do_mmap(q.addr, q.len, q.prot, q.flags, q.fd, q.off)
  /\ UNCHANGED <<brk, startBrk>>

(* addr + len is compared after it wrapped, so a long enough range passes
   and removes everything above addr. *)
do_munmap(addr, rawlen) ==
  LET len == RoundLen(rawlen)
  IN /\ state = "user"
     /\ IF \/ ~Aligned(addr) \/ len = 0
           \/ Wrap(addr + len) > USER_MEM_HIGH
           \/ addr > USER_MEM_HIGH \/ addr < USER_MEM_LOW
        THEN UNCHANGED vars
        ELSE IF TouchesJunk(areas, PN(addr), PN(addr) + PN(len)) THEN Panic("junk")
        ELSE /\ SetSpace(vmmap_remove(areas, refs, pte, PN(addr), PN(len)))
             /\ UNCHANGED <<brk, startBrk, state>>

(* The page of the starting break is not mapped: ask mmap for room, which
   it gives at the lowest gap, wherever that is. *)
BrkMapsStart(addr) ==
  LET len == (PN(addr) - PN(startBrk)) * PageSize
      flags == {"private", "anon"}
  IN /\ do_mmap(PN(startBrk) * PageSize, len, {"r", "w"}, flags, Nil, 0)
     /\ brk' = IF MmapCheck(0, len, {"r", "w"}, flags, Nil, 0) = "ok" THEN addr ELSE brk
     /\ UNCHANGED startBrk

(* The area that holds the old break's page goes on to the new break's page. *)
BrkGrows(addr) ==
  LET i == vmmap_lookup(areas, PN(brk))
      end == PN(addr) + 1
  IN IF i = 0 THEN Panic("nobrk")
     ELSE IF ~RangeLegal(areas[i].end, end) THEN Panic("brkrange")
     ELSE IF ~vmmap_is_range_empty(areas, areas[i].end, end) THEN UNCHANGED vars
     ELSE /\ areas' = [areas EXCEPT ![i].end = end]
          /\ brk' = addr
          /\ UNCHANGED <<refs, pte, startBrk, state>>

\* Mutant of BrkShrinks: the page of the new break goes too.
BrkShrinksTooFar(addr) ==
  LET n == PN(brk) - PN(addr)
  IN /\ SetSpace(vmmap_remove(areas, refs, pte, PN(addr), n))
     /\ brk' = addr
     /\ UNCHANGED <<startBrk, state>>

BrkShrinks(addr) ==
  LET lo == PN(addr) + 1
      n == PN(brk) - PN(addr)
  IN IF TouchesJunk(areas, lo, lo + n) THEN Panic("junk")
     ELSE /\ SetSpace(vmmap_remove(areas, refs, pte, lo, n))
          /\ brk' = addr
          /\ UNCHANGED <<startBrk, state>>

do_brk(addr) ==
  /\ state = "user"
  /\ addr >= startBrk /\ addr <= USER_MEM_HIGH
  /\ IF vmmap_lookup(areas, PN(startBrk)) = 0 THEN BrkMapsStart(addr)
     ELSE IF PN(addr) = PN(brk) THEN brk' = addr /\ UNCHANGED <<areas, refs, pte, startBrk, state>>
     ELSE IF PN(brk) < PN(addr) THEN BrkGrows(addr)
     ELSE BrkShrinks(addr)

(* vmmap_destroy, when the process is cleaned up. *)
Exit ==
  /\ state = "user"
  /\ IF TouchesJunk(areas, LowPage, HighPage) THEN Panic("junk")
     ELSE /\ SetSpace(vmmap_destroy(areas, refs, pte))
          /\ state' = "exited"
          /\ UNCHANGED <<brk, startBrk>>

----------------------------------------------------------------------------
(* Page faults and the kernel's access to user memory. *)

addr_perm(vfn, perm) ==
  LET i == vmmap_lookup(areas, vfn) IN i # 0 /\ perm \subseteq areas[i].prot

(* A fault on a page that is not in the page table carries no FAULT_PRESENT,
   so a first read is checked against no permission at all. *)
FaultPerm(p, write) == (IF write THEN {"w"} ELSE {}) \cup (IF pte[p] # Nil THEN {"r"} ELSE {})

(* The fault is taken only when the page table does not allow the access. *)
handle_pagefault(p, write) ==
  /\ state = "user"
  /\ ~(pte[p] # Nil /\ (write => pte[p].write))
  /\ LET i == vmmap_lookup(areas, p)
     IN IF i = 0 \/ ~addr_perm(p, FaultPerm(p, write)) THEN Exit
        ELSE IF areas[i].obj = Junk THEN Panic("junk")
        ELSE /\ pte' = [pte EXCEPT ![p] = [obj |-> areas[i].obj,
                                           pg |-> areas[i].off + p - areas[i].start,
                                           write |-> write]]
             /\ UNCHANGED <<areas, refs, brk, startBrk, state>>

(* The page after the last one that range_perm, vmmap_read and vmmap_write look
   at: the last is that of addr + count, one more than the bytes reach when the
   sum is page aligned; a sum that wraps leaves none. *)
FinalPage(addr, count) == PN(Wrap(addr + count)) + 1

(* The areas, by index, that a range touches. *)
Reached(a, addr, count) == a.end > PN(addr) /\ a.start < FinalPage(addr, count)
Touched(addr, count) == {i \in 1 .. Len(areas) : Reached(areas[i], addr, count)}

range_perm(addr, count, perm) ==
  /\ Touched(addr, count) # {}
  /\ \A i \in Touched(addr, count) : perm \subseteq areas[i].prot

\* Mutant of PageRoom: a copy may run past the end of its first page.
WholePage(uaddr) == PageSize

PageRoom(uaddr) == PageSize - (uaddr % PageSize)

(* The copy of one page by vmmap_read and vmmap_write.  st: uaddr, the user
   address reached; buf, the kernel buffer's position; temp, the bytes counted
   so far; and moved, the bytes copied, as <<user byte, buffer index>>. *)
CopyPage(a, count, st, vfn) ==
  LET pgofset == st.uaddr % PageSize
      room == PageRoom(st.uaddr)
      left == count - st.temp
      n == IF left < room THEN left ELSE room
      at == st.buf + st.temp
  IN [uaddr |-> (vfn + 1) * PageSize, buf |-> at, temp |-> st.temp + n,
      moved |-> st.moved \cup {<<<<a.obj, a.off + vfn - a.start, pgofset + k>>, at + k>> : k \in 0 .. n - 1}]

(* The copy of the pages of an area that it reaches. *)
CopyArea(a, addr, count, st) ==
  LET lo == IF a.start <= PN(addr) THEN PN(addr) ELSE a.start
      hi == IF a.end > FinalPage(addr, count) THEN FinalPage(addr, count) ELSE a.end
      loop[i \in 0 .. hi - lo] == IF i = 0 THEN st ELSE CopyPage(a, count, loop[i - 1], lo + i - 1)
  IN loop[hi - lo]

CopyStart(addr) == [uaddr |-> addr, buf |-> 0, temp |-> 0, moved |-> {}]

(* temp starts again from 0 in every area. *)
vmmap_read(addr, count) ==
  LET loop[i \in 0 .. Len(areas)] ==
        IF i = 0 THEN CopyStart(addr)
        ELSE IF i \in Touched(addr, count)
        THEN CopyArea(areas[i], addr, count, [loop[i - 1] EXCEPT !.temp = 0])
        ELSE loop[i - 1]
  IN loop[Len(areas)].moved

vmmap_write(addr, count) ==
  LET loop[i \in 0 .. Len(areas)] ==
        IF i = 0 THEN CopyStart(addr)
        ELSE IF i \in Touched(addr, count) THEN CopyArea(areas[i], addr, count, loop[i - 1])
        ELSE loop[i - 1]
  IN loop[Len(areas)].moved

(* The bytes a copy moves, or {} when it returns -EFAULT. *)
copy_from_user(addr, count) == IF range_perm(addr, count, {"r"}) THEN vmmap_read(addr, count) ELSE {}
copy_to_user(addr, count) == IF range_perm(addr, count, {"w"}) THEN vmmap_write(addr, count) ELSE {}

----------------------------------------------------------------------------
(* What a page shows: a page of an object, with the area's protection. *)
Page == [obj : Objs \cup {Junk}, pg : Nat, prot : Protections]

(* Arguments are addresses of the address space, an offset is kept unsigned,
   an fd names an open file or none; the loader leaves the byte below the
   starting break in user memory, and the faults modelled are on user pages. *)
ASSUME InputAssumption ==
  /\ Junk \notin Objs /\ Nil \notin Page
  /\ \A b \in StartBrks : b \in Addrs /\ PN(b - 1) \in UserPages
  /\ Lens \subseteq Addrs /\ Brks \subseteq Addrs /\ Touches \subseteq UserPages
  /\ \A q \in Requests :
       /\ q.addr \in Addrs /\ q.len \in Addrs /\ q.off \in Nat
       /\ q.prot \in Protections /\ q.flags \in MapFlags /\ q.fd \in Fds

(* The loader has mapped the program's data up to the starting break. *)
Init ==
  /\ startBrk \in StartBrks
  /\ brk = startBrk
  /\ \E o \in Anons :
       /\ areas = <<[start |-> LowPage, end |-> PN(startBrk - 1) + 1, off |-> 0,
                     prot |-> {"r", "w"}, flags |-> {"private", "fixed"}, obj |-> o]>>
       /\ refs = [x \in Objs \cup {Junk} |-> IF x = o THEN 1 ELSE 0]
  /\ pte = [p \in UserPages |-> Nil]
  /\ state = "user"

(* The process is gone or the kernel has stopped. *)
Halted == state # "user" /\ UNCHANGED vars

Next ==
  \/ \E q \in Requests : Mmap(q)
  \/ \E addr \in Addrs, len \in Lens : do_munmap(addr, len)
  \/ \E addr \in Brks : do_brk(addr)
  \/ \E p \in Touches, write \in BOOLEAN : handle_pagefault(p, write)
  \/ Exit
  \/ Halted

Spec == Init /\ [][Next]_vars

----------------------------------------------------------------------------
(* Properties. *)

Area == [start : UserPages, end : LowPage + 1 .. HighPage, off : Nat,
         prot : Protections, flags : MapFlags, obj : Objs \cup {Junk}]

(* The areas, counts, page table and break keep their types: no operation of
   vmmap.c, mmap.c or brk.c leaves an empty area or one outside user memory. *)
VmmapTypeOK ==
  /\ areas \in Seq(Area)
  /\ refs \in [Objs \cup {Junk} -> Nat]
  /\ pte \in [UserPages -> {Nil} \cup [obj : Objs, pg : Nat, write : BOOLEAN]]
  /\ brk \in Addrs /\ startBrk \in Addrs
  /\ state \in {"user", "exited", "range", "junk", "nobrk", "brkrange"}

(* The list stays ordered and free of overlap through every split, trim and
   growth: vmmap_is_range_empty, vmmap_find_range and vmmap_insert rely on it. *)
AreasOrdered ==
  /\ \A i \in 1 .. Len(areas) : areas[i].start < areas[i].end
  /\ \A i, j \in 1 .. Len(areas) : i < j => areas[i].end <= areas[j].start

(* An object's count is the number of areas that show it: a split of
   vmmap_remove takes a reference, a removal drops one, an exit drops all. *)
RefsMatchAreas ==
  \A o \in Objs : refs[o] = Cardinality({i \in 1 .. Len(areas) : areas[i].obj = o})

(* What the hardware translates agrees with the area list: no page table
   entry outlives its mapping, shows another object's page than the area, or
   allows a write that the area forbids. *)
PteMatchesArea ==
  \A p \in UserPages : pte[p] # Nil =>
    LET i == vmmap_lookup(areas, p)
    IN /\ i # 0
       /\ pte[p].obj = areas[i].obj
       /\ pte[p].pg = areas[i].off + p - areas[i].start
       /\ pte[p].write => "w" \in areas[i].prot

(* The area list, the references it holds and the page table agree after every
   sequence of mappings, unmappings, breaks and faults. *)
VmmapInv == VmmapTypeOK /\ AreasOrdered /\ RefsMatchAreas /\ PteMatchesArea

Unmapped(lo, n) == \A p \in lo .. lo + n - 1 : vmmap_lookup(areas, p) = 0
FreeStarts(n) == {lo \in UserPages : lo + n <= HighPage /\ Unmapped(lo, n)}

(* The one-pass scans answer what their comments say, in every reachable
   list: a range is empty iff no page of it is mapped, and find_range gives
   the lowest or the highest free range, -1 only when there is none. *)
ScansExact ==
  \A n \in 1 .. HighPage - LowPage :
    /\ \A lo \in LowPage .. HighPage - n :
         vmmap_is_range_empty(areas, lo, lo + n) <=> Unmapped(lo, n)
    /\ LET up == vmmap_find_range(areas, n, "lohi")
           down == vmmap_find_range(areas, n, "hilo")
       IN IF FreeStarts(n) = {} THEN up < 0 /\ down < 0
          ELSE /\ up \in FreeStarts(n) /\ \A lo \in FreeStarts(n) : up <= lo
               /\ down \in FreeStarts(n) /\ \A lo \in FreeStarts(n) : down >= lo

(* The bytes of a user range and the buffer positions they belong at. *)
UserBytes(addr, count) ==
  {<<LET a == areas[vmmap_lookup(areas, PN(addr + k))]
     IN <<a.obj, a.off + PN(addr + k) - a.start, (addr + k) % PageSize>>, k>> : k \in 0 .. count - 1}

(* A copy of bytes on at most two pages moves exactly the range's bytes, to
   their places in the buffer; a read must also visit one area only, counting
   the page of addr + count.  (Longer copies advance the buffer twice, and
   reads restart their count in each area.) *)
CopyExact ==
  \A addr \in USER_MEM_LOW .. USER_MEM_HIGH - 1, count \in 1 .. 2 * PageSize :
    LET pages == PN(addr) .. PN(addr + count - 1)
        whole == /\ PN(addr + count - 1) - PN(addr) <= 1
                 /\ \A p \in pages : p < HighPage /\ vmmap_lookup(areas, p) # 0
        inOne == Cardinality(Touched(addr, count)) = 1
    IN whole => /\ copy_to_user(addr, count) \in {{}, UserBytes(addr, count)}
                /\ inOne => copy_from_user(addr, count) \in {{}, UserBytes(addr, count)}

(* brk moves the heap's end and nothing else: pages it gains continue the
   mapping the old break was in, over pages that were free; pages it gives up
   are unmapped; no other page changes.  (Only where the page of the starting
   break is mapped: otherwise brk maps the lowest gap.) *)
BrkMovesHeap ==
  [][ (brk' # brk /\ vmmap_lookup(areas, PN(startBrk)) # 0) =>
      \A p \in UserPages :
        LET was == vmmap_lookup(areas, p)
            is == vmmap_lookup(areas', p)
            heap == vmmap_lookup(areas, PN(brk))
        IN IF p > PN(brk) /\ p <= PN(brk')
           THEN /\ is # 0
                /\ areas'[is].obj = areas[heap].obj
                /\ areas'[is].off + p - areas'[is].start = areas[heap].off + p - areas[heap].start
                /\ was \in {0, heap}
           ELSE IF p > PN(brk') /\ p <= PN(brk)
           THEN is = 0 /\ pte'[p] = Nil
           ELSE (was = 0) = (is = 0) ]_vars

(* The page map the area list stands for. *)
PageOf(p) ==
  LET i == vmmap_lookup(areas, p)
  IN IF i = 0 THEN Nil
     ELSE [obj |-> areas[i].obj, pg |-> areas[i].off + p - areas[i].start, prot |-> areas[i].prot]

PM == INSTANCE PageMap
        WITH page <- [p \in UserPages |-> PageOf(p)],
             Objs <- Objs \cup {Junk}, Files <- Files \cup {Junk},
             Prots <- Protections, Offs <- {q.off : q \in Requests} \cup {0}

(* The area list implements the page map: mmap, munmap, brk, faults and exit
   change what user pages show only as PageMap allows. *)
ImplementsPageMap == PM!Spec
=============================================================================
