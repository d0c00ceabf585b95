------------------------------- MODULE Memory -------------------------------
(***************************************************************************)
(* Memory objects, page frames and page tables (vm-submit: vm/shadow.c,    *)
(* vm/anon.c, mm/pframe.c, vm/pagefault.c, proc/fork.c and the copies of   *)
(* vm/vmmap.c).  Each process has a private anonymous area "heap", a       *)
(* private file area "text" and a shared file area "shm", of one page      *)
(* each; an object holds the one page of its area.                         *)
(*                                                                         *)
(* The kernel is not preemptive: an operation is one step, except that     *)
(* reading a page of a file and writing it back block, with the page busy, *)
(* while other processes run.                                              *)
(*                                                                         *)
(* nfreepages_min is 0, so pframe_get wakes the pageout daemon only when no *)
(* page is free, and then fails its own allocation: the daemon never comes  *)
(* to reclaim a page, and its loop is not an action here.                   *)
(***************************************************************************)
EXTENDS Integers, FiniteSets

CONSTANTS Procs, FirstProc,
          Values,      \* page contents; 0 is a zeroed page
          TextValue,   \* what the text file holds
          MaxObj,      \* bound on memory objects ever created
          NFrames,     \* page frames of the machine
          Footprints,  \* bound: sets of areas, of which the programs touch one
          Nil

ASSUME MemoryAssumption ==
  /\ FirstProc \in Procs /\ IsFiniteSet(Procs)
  /\ 0 \in Values /\ TextValue \in Values
  /\ MaxObj \in Nat /\ MaxObj >= 5 /\ NFrames \in Nat
  /\ Footprints \subseteq SUBSET {"heap", "text", "shm"}

Private == {"heap", "text"}
Areas == Private \cup {"shm"}
Obj == 1 .. MaxObj

(* Objects 1 to 3 are the anonymous object and the two files' objects; the
   rest are shadow objects in the order of their creation. *)
AnonObj == 1
TextObj == 2
ShmObj == 3
FileObjs == {TextObj, ShmObj}

Page == [data : Values, busy : BOOLEAN, dirty : BOOLEAN]
PageTableEntry == [obj : Obj, write : BOOLEAN]

(* What a process can be blocked in: a page fault or a copy to or from an area,
   or a sync, which may be writing the shared page back. *)
Requests == [kind : {"fault", "copy"}, k : Areas, write : BOOLEAN, val : Values]
CleanReqs == [kind : {"clean"}, val : Values]
SyncReq == [kind |-> "sync"]

ASSUME NilAssumption ==
  Nil \notin Values \cup Page \cup PageTableEntry \cup Requests \cup CleanReqs \cup {SyncReq}

VARIABLES status,    \* status[p]: "unused", "live" or "dead"
          top,       \* top[p][k]: vma_obj of process p's area k
          shadowed,  \* mmo_shadowed, 0 for a bottom object
          refs,      \* mmo_refcount
          page,      \* page[o]: the resident page [data, busy, dirty], or Nil
          nextObj,   \* the next object to be created
          pte,       \* pte[p][k]: [obj, write], the frame the page table shows, or Nil
          req,       \* req[p]: the operation process p is blocked in, or Nil
          disk,      \* what the disk holds of the shared file
          unsaved,   \* a user process wrote to the shared page since it was cleaned,
                     \* or the page was left by a read that failed
          cpu,       \* "ok", "hung" in pframe_get's poll, or "nomem"
          footprint  \* the areas the programs touch

vars == <<status, top, shadowed, refs, page, nextObj, pte, req, disk, unsaved, cpu, footprint>>

objects == <<top, shadowed, nextObj, footprint>>

Resident(pg) == {o \in Obj : pg[o] # Nil}

(* The pages of anonymous and shadow objects are pinned by their fill, until
   they are freed; the rest is on the list that sync goes through. *)
Pinned == Resident(page) \ FileObjs
AllocList == Resident(page) \ Pinned

FreeFrames == NFrames - Cardinality(Resident(page))

(* The objects from o down to its bottom object. *)
Chain(o) ==
  LET down[x \in Obj] == IF shadowed[x] = 0 THEN {x} ELSE {x} \cup down[shadowed[x]]
  IN down[o]

(* mmo_bottom_obj *)
Bottom(o) == CHOOSE x \in Chain(o) : shadowed[x] = 0

(* The object whose page a look-up from o on finds, when pg is resident: the
   first shadow object of the chain that has its page, else the bottom one. *)
Source(pg, o) ==
  LET first[x \in Obj] == IF shadowed[x] = 0 \/ pg[x] # Nil THEN x ELSE first[shadowed[x]]
  IN first[o]

(* What a bottom object's page holds when it is filled. *)
FillData(o) == CASE o = AnonObj -> 0 [] o = TextObj -> TextValue [] o = ShmObj -> disk

(* The object is referenced by its page. *)
pframe_alloc(m, o, data) ==
  [m EXCEPT !.page[o] = [data |-> data, busy |-> FALSE, dirty |-> FALSE],
            !.refs[o] = @ + 1]

(* shadow_fillpage: o's new page is a copy of the page below. *)
\* Mutant of shadow_fillpage: the copy is taken from the bottom object.
CopyFromBottom(m, o) == pframe_alloc(m, o, m.page[Bottom(o)].data)

shadow_fillpage(m, o) == pframe_alloc(m, o, m.page[Source(m.page, shadowed[o])].data)

(* A pinned page is never cleaned, and its dirty bit is not kept. *)
pframe_dirty(m, o) == [m EXCEPT !.page[o].dirty = o \in FileObjs]

(* The end of a fault or a copy whose source page is resident in m.  A read
   fault shows that page; a write fault and a copy go to o's own page. *)
Finished(m, p, r) ==
  LET o == top[p][r.k]
      s == Source(m.page, o)
      own == IF s = o THEN m ELSE shadow_fillpage(m, o)
  IN CASE r.kind = "fault" /\ ~r.write ->
            [m EXCEPT !.pte[p][r.k] = [obj |-> s, write |-> FALSE]]
       [] r.kind = "fault" /\ r.write ->
            [own EXCEPT !.pte[p][r.k] = [obj |-> o, write |-> TRUE]]
       [] r.kind = "copy" /\ ~r.write -> own
       [] r.kind = "copy" /\ r.write ->
            [pframe_dirty(own, o) EXCEPT !.page[o].data = r.val]

Now == [page |-> page, refs |-> refs, pte |-> pte]

SetMemory(m) == page' = m.page /\ refs' = m.refs /\ pte' = m.pte

CanRun(p) == cpu = "ok" /\ status[p] = "live" /\ req[p] = Nil

(* A fault is an access that the page table does not allow; the value plays
   no role in it, nor in a copy out of user memory. *)
MayAsk(p, r) ==
  LET e == pte[p][r.k]
  IN /\ r.k \in footprint
     /\ r.kind = "fault" => ~(e # Nil /\ (r.write => e.write))
     /\ r.kind = "fault" \/ ~r.write => r.val = 0

Stop(why) == cpu' = why /\ UNCHANGED <<page, refs, pte, req>>

(* handle_pagefault, vmmap_read and vmmap_write up to where they block.  The
   page of the bottom object is needed unless a shadow object has one: a busy
   one is polled for ever, an absent one of a file is read from disk while
   the process is blocked.  A copy has by then allocated its own page. *)
Access(p, r) ==
  LET o == top[p][r.k]
      b == Bottom(o)
      below == Source(page, o) = b
      blocks == below /\ b \in FileObjs /\ page[b] = Nil
      own == (r.kind = "copy" \/ r.write) /\ page[o] = Nil /\ o # b
      early == own /\ r.kind = "copy"
      needs == Cardinality({x \in {o, b} : \/ x = b /\ below /\ page[b] = Nil
                                           \/ x = o /\ own /\ (blocks => early)})
      bottom == IF below /\ page[b] = Nil THEN pframe_alloc(Now, b, FillData(b)) ELSE Now
      filling == [bottom EXCEPT !.page[b].busy = TRUE]
      held == IF early THEN [pframe_alloc(filling, o, 0) EXCEPT !.page[o].busy = TRUE] ELSE filling
  IN /\ CanRun(p)
     /\ MayAsk(p, r)
     /\ IF below /\ page[b] # Nil /\ page[b].busy THEN Stop("hung")
        ELSE IF FreeFrames < needs THEN Stop("nomem")
        ELSE IF blocks THEN SetMemory(held) /\ req' = [req EXCEPT ![p] = r] /\ UNCHANGED cpu
        ELSE SetMemory(Finished(bottom, p, r)) /\ UNCHANGED <<req, cpu>>
     /\ UNCHANGED <<status, disk, unsaved>> /\ UNCHANGED objects

(* The disk has answered: pframe_fill ends, and the operation goes on.  Nobody
   looks at what fillpage has returned: the frame holds the file's page, or
   anything at all if the read has failed, and counts as filled.  A copy's own
   page, empty and busy so far, gets its content. *)
\* Mutant of FillDone: a copy to a private area is not woken up.
CopyNeverDone(p) ==
  LET r == req[p]
      filled == [Now EXCEPT !.page[Bottom(top[p][r.k])].busy = FALSE]
  IN /\ cpu = "ok"
     /\ req[p] # Nil /\ r.kind \in {"fault", "copy"}
     /\ IF r.kind = "copy" /\ r.k \in Private THEN SetMemory(filled) /\ UNCHANGED req
        ELSE SetMemory(Finished(filled, p, r)) /\ req' = [req EXCEPT ![p] = Nil]
     /\ UNCHANGED <<cpu, status, disk, unsaved>> /\ UNCHANGED objects

FillDone(p) ==
  LET r == req[p]
      o == top[p][r.k]
      b == Bottom(o)
      filled(data) == [Now EXCEPT !.page[b].busy = FALSE, !.page[b].data = data]
      start(m) == IF r.kind = "copy" /\ o # b
                  THEN [m EXCEPT !.page[o] = Nil, !.refs[o] = @ - 1] ELSE m
      own == r.write /\ o # b /\ r.kind = "fault"
  IN /\ cpu = "ok"
     /\ req[p] # Nil /\ r.kind \in {"fault", "copy"}
     /\ IF own /\ FreeFrames = 0 THEN cpu' = "nomem" /\ UNCHANGED <<page, refs, pte, req, unsaved>>
        ELSE \E data \in Values :
               /\ SetMemory(Finished(start(filled(data)), p, r))
               /\ unsaved' = (unsaved \/ (b = ShmObj /\ data # page[b].data))
               /\ req' = [req EXCEPT ![p] = Nil] /\ UNCHANGED cpu
     /\ UNCHANGED <<status, disk>> /\ UNCHANGED objects

(* A store of the user program through its page table. *)
UserWrite(p, k, v) ==
  /\ CanRun(p)
  /\ pte[p][k] # Nil
  /\ pte[p][k].write
  /\ page' = [page EXCEPT ![pte[p][k].obj].data = v]
  /\ unsaved' = (unsaved \/ k = "shm")
  /\ UNCHANGED <<status, refs, pte, req, disk, cpu>> /\ UNCHANGED objects

(* fork's pt_unmap_range over the private areas of the parent. *)
\* Mutant of UnmapPrivate: the parent keeps its page table entries.
UnmapNothing(p) == pte

UnmapPrivate(p) == [pte EXCEPT ![p] = [k \in Areas |-> IF k \in Private THEN Nil ELSE @[k]]]

(* fork: both processes get a new shadow object over each private area's old
   one, which is referenced once more, and the parent's page table entries
   for it go; the shared area's object is referenced by the child's area. *)
do_fork(p, c) ==
  LET old(k) == top[p][k]
      shp(k) == IF k = "heap" THEN nextObj ELSE nextObj + 2
      shc(k) == shp(k) + 1
      over(k) == {shp(k), shc(k)}
  IN /\ CanRun(p)
     /\ status[c] = "unused"
     /\ nextObj + 3 <= MaxObj
     /\ status' = [status EXCEPT ![c] = "live"]
     /\ top' = [top EXCEPT ![p] = [k \in Areas |-> IF k \in Private THEN shp(k) ELSE old(k)],
                           ![c] = [k \in Areas |-> IF k \in Private THEN shc(k) ELSE old(k)]]
     /\ shadowed' = [o \in Obj |-> IF o \in over("heap") THEN old("heap")
                                   ELSE IF o \in over("text") THEN old("text")
                                   ELSE shadowed[o]]
     /\ refs' = [o \in Obj |-> IF o \in over("heap") \cup over("text") THEN 1
                               ELSE IF \E k \in Areas : o = old(k) THEN refs[o] + 1
                               ELSE refs[o]]
     /\ nextObj' = nextObj + 4
     /\ pte' = UnmapPrivate(p)
     /\ UNCHANGED <<page, req, disk, unsaved, cpu, footprint>>

(* The page's address goes from the page tables of all areas with the same
   bottom object, as far as the area's map names its process: the first
   process's does, and a forked child's does not. *)
pframe_remove_from_pts(m, k) == [m EXCEPT !.pte[FirstProc][k] = Nil]

pframe_free(m, k, o) ==
  [pframe_remove_from_pts(m, k) EXCEPT !.page[o] = Nil, !.refs[o] = @ - 1]

(* When only its pages refer to the object, they are unpinned and freed, each
   dropping its reference; the object stays, and so does its reference to the
   object it shadows. *)
shadow_put(m, k, o) ==
  LET less == [m EXCEPT !.refs[o] = @ - 1]
  IN IF less.refs[o] = 1 /\ m.page[o] # Nil THEN pframe_free(less, k, o) ELSE less

(* The page directory of process p goes with it. *)
pt_destroy(m, p) == [m EXCEPT !.pte[p] = [k \in Areas |-> Nil]]

(* vmmap_destroy when process p is cleaned up. *)
Exit(p) ==
  LET puts == shadow_put(shadow_put(Now, "heap", top[p]["heap"]), "text", top[p]["text"])
  IN /\ CanRun(p)
     /\ status' = [status EXCEPT ![p] = "dead"]
     /\ SetMemory(pt_destroy([puts EXCEPT !.refs[ShmObj] = @ - 1], p))
     /\ UNCHANGED <<req, disk, unsaved, cpu>> /\ UNCHANGED objects

Syncing(p) == cpu = "ok" /\ status[p] = "live" /\ req[p] \in {Nil, SyncReq}

(* pframe_clean_all, called by sync: it sleeps while a page is busy, starts
   again after each page it has cleaned, and ends when none is dirty. *)
SyncSleeps(p) ==
  /\ Syncing(p) /\ req[p] = Nil
  /\ \E o \in AllocList : page[o].busy
  /\ req' = [req EXCEPT ![p] = SyncReq]
  /\ UNCHANGED <<status, refs, page, pte, disk, unsaved, cpu>> /\ UNCHANGED objects

(* pframe_clean up to where it blocks: the dirty bit is cleared first, and the
   page leaves the page tables that pframe_remove_from_pts finds. *)
SyncCleans(p) ==
  \E o \in AllocList :
    /\ Syncing(p)
    /\ page[o].dirty /\ ~page[o].busy
    /\ page' = [page EXCEPT ![o].dirty = FALSE, ![o].busy = TRUE]
    /\ pte' = pframe_remove_from_pts(Now, "shm").pte
    /\ unsaved' = FALSE
    /\ req' = [req EXCEPT ![p] = [kind |-> "clean", val |-> page[o].data]]
    /\ UNCHANGED <<status, refs, disk, cpu>> /\ UNCHANGED objects

(* The end of pframe_clean after a write that succeeded, and one that failed. *)
Cleaned == [page EXCEPT ![ShmObj].busy = FALSE]

\* Mutant of NotCleaned: a failed write leaves the page clean.
LeftClean == [page EXCEPT ![ShmObj].busy = FALSE]

NotCleaned == [page EXCEPT ![ShmObj].busy = FALSE, ![ShmObj].dirty = TRUE]

(* The disk has taken the page, as it was at some time since, or has failed. *)
CleanDone(p) ==
  /\ cpu = "ok"
  /\ req[p] # Nil /\ req[p].kind = "clean"
  /\ \/ disk' \in {req[p].val, page[ShmObj].data} /\ page' = Cleaned
     \/ page' = NotCleaned /\ UNCHANGED disk
  /\ req' = [req EXCEPT ![p] = SyncReq]
  /\ UNCHANGED <<status, refs, pte, unsaved, cpu>> /\ UNCHANGED objects

SyncReturns(p) ==
  /\ Syncing(p) /\ req[p] = SyncReq
  /\ \A o \in AllocList : ~page[o].busy /\ ~page[o].dirty
  /\ req' = [req EXCEPT ![p] = Nil]
  /\ UNCHANGED <<status, refs, page, pte, disk, unsaved, cpu>> /\ UNCHANGED objects

Stopped == /\ cpu # "ok" \/ \A p \in Procs : status[p] # "live"
           /\ UNCHANGED vars

(* The first process has been loaded, and has touched nothing. *)
Init ==
  /\ status = [p \in Procs |-> IF p = FirstProc THEN "live" ELSE "unused"]
  /\ top = [p \in Procs |-> [k \in Areas |-> CASE k = "heap" -> 4 [] k = "text" -> 5 [] k = "shm" -> ShmObj]]
  /\ shadowed = [o \in Obj |-> CASE o = 4 -> AnonObj [] o = 5 -> TextObj [] OTHER -> 0]
  /\ refs = [o \in Obj |-> CASE o = ShmObj -> 2 [] o = TextObj -> 2 [] o \in {AnonObj, 4, 5} -> 1 [] OTHER -> 0]
  /\ page = [o \in Obj |-> Nil]
  /\ nextObj = 6
  /\ pte = [p \in Procs |-> [k \in Areas |-> Nil]]
  /\ req = [p \in Procs |-> Nil]
  /\ disk = 0
  /\ unsaved = FALSE
  /\ cpu = "ok"
  /\ footprint \in Footprints

Next ==
  \/ \E p \in Procs :
       \/ \E r \in Requests : Access(p, r)
       \/ FillDone(p)
       \/ \E k \in Areas, v \in Values : UserWrite(p, k, v)
       \/ \E c \in Procs : do_fork(p, c)
       \/ Exit(p)
       \/ SyncSleeps(p) \/ SyncCleans(p) \/ CleanDone(p) \/ SyncReturns(p)
  \/ Stopped

(* The disk answers every request. *)
Spec == /\ Init /\ [][Next]_vars
        /\ \A p \in Procs : WF_vars(FillDone(p)) /\ WF_vars(CleanDone(p))

----------------------------------------------------------------------------
(* Properties. *)

(* Objects, frames, page tables and requests of processes keep their types. *)
MemoryTypeOK ==
  /\ status \in [Procs -> {"unused", "live", "dead"}]
  /\ top \in [Procs -> [Areas -> Obj]]
  /\ shadowed \in [Obj -> 0 .. MaxObj]
  /\ refs \in [Obj -> Nat]
  /\ page \in [Obj -> Page \cup {Nil}]
  /\ nextObj \in 6 .. MaxObj + 1
  /\ pte \in [Procs -> [Areas -> PageTableEntry \cup {Nil}]]
  /\ req \in [Procs -> Requests \cup CleanReqs \cup {Nil, SyncReq}]
  /\ disk \in Values /\ unsaved \in BOOLEAN
  /\ cpu \in {"ok", "hung", "nomem"}
  /\ footprint \in Footprints

Live == {p \in Procs : status[p] = "live"}

(* The areas, the shadow objects and the resident page that refer to o. *)
AreasOn(o) == {a \in Live \X Areas : top[a[1]][a[2]] = o}
ShadowsOf(o) == {x \in Obj : shadowed[x] = o}
PagesOf(o) == IF page[o] = Nil THEN 0 ELSE 1

(* A reference count is the number of areas, shadow objects and resident
   pages that refer to the object (one more for a file's own vnode); shadow
   objects of dead processes are among them, since shadow_put never frees. *)
RefsMatchHolders ==
  \A o \in 1 .. nextObj - 1 :
    refs[o] = Cardinality(AreasOn(o)) + Cardinality(ShadowsOf(o)) + PagesOf(o)
              + (IF o \in FileObjs THEN 1 ELSE 0)

(* Copy on write: a page that a process may write through its page table is
   its own area's, and no other process's chain of objects leads to it. *)
WritableIsOwn ==
  \A p \in Live, k \in Private :
    (pte[p][k] # Nil /\ pte[p][k].write) =>
       /\ pte[p][k].obj = top[p][k]
       /\ \A q \in Live \ {p} : top[p][k] \notin Chain(top[q][k])

(* No page table entry shows a frame that has been given back. *)
PteResident == \A p \in Procs, k \in Areas : pte[p][k] # Nil => page[pte[p][k].obj] # Nil

Reading(p) == req[p] # Nil /\ req[p].kind \in {"fault", "copy"}
Cleaning(p) == req[p] # Nil /\ req[p].kind = "clean"

(* The pages that process p, while it is blocked, keeps from the others. *)
Keeps(p, o) ==
  \/ Reading(p) /\ o \in {top[p][req[p].k], Bottom(top[p][req[p].k])}
  \/ Cleaning(p) /\ o = ShmObj

(* A busy page has exactly one process that will clear it: the one that reads
   it, copies to it or writes it back. *)
BusyHasOwner ==
  \A o \in Obj : (page[o] # Nil /\ page[o].busy) => Cardinality({p \in Procs : Keeps(p, o)}) = 1

(* A page of the shared file that is clean is what the disk holds, through
   writes that failed or raced with copies (pframe_clean), unless a user
   program has written to it since, which pframe_dirty never hears of, or the
   read that brought it in has failed, which nobody notices (pframe_fill). *)
CleanMeansSaved ==
  (/\ page[ShmObj] # Nil
   /\ ~page[ShmObj].busy /\ ~page[ShmObj].dirty /\ ~unsaved) => disk = page[ShmObj].data

(* An object shadows an older one, and bottom objects are the first three:
   every chain of shadow objects ends. *)
ShadowsOlder ==
  \A o \in Obj :
    /\ shadowed[o] < o /\ shadowed[o] # ShmObj
    /\ shadowed[o] = 0 <=> (o <= 3 \/ o >= nextObj)
    /\ o >= nextObj => page[o] = Nil

(* The bottom object of an area's chain. *)
AreaBottom(k) == CASE k = "heap" -> AnonObj [] k = "text" -> TextObj [] k = "shm" -> ShmObj

Used == {p \in Procs : status[p] # "unused"}

(* The object at the top of a private area is a shadow object that nothing
   shadows and no other area has, over the bottom object of its area. *)
TopsApart ==
  \A p \in Used :
    /\ top[p]["shm"] = ShmObj
    /\ \A k \in Private :
         /\ top[p][k] \in 4 .. nextObj - 1
         /\ Bottom(top[p][k]) = AreaBottom(k)
         /\ \A x \in Obj : shadowed[x] # top[p][k]
         /\ \A q \in Used, j \in Private : top[q][j] = top[p][k] => q = p /\ j = k

(* A page table entry of a live process shows a page of its area's object or
   of one that is shadowed, and lets only the former be written. *)
PteOfChain ==
  \A p \in Procs, k \in Areas : pte[p][k] # Nil =>
    /\ status[p] = "live"
    /\ \/ pte[p][k].obj = top[p][k]
       \/ ~pte[p][k].write /\ \E x \in Obj : shadowed[x] = pte[p][k].obj

(* The file object whose page process p waits for, 0 if for none. *)
Awaits(p) == IF Reading(p) THEN AreaBottom(req[p].k) ELSE IF Cleaning(p) THEN ShmObj ELSE 0

(* A blocked process finds what it waits for, and nobody else does: the page
   of the file busy, its own page busy for a copy and absent for a fault. *)
BlockedRelyOn ==
  \A p \in Procs :
    /\ req[p] # Nil => status[p] = "live"
    /\ Awaits(p) # 0 =>
         /\ Awaits(p) \in FileObjs /\ page[Awaits(p)] # Nil /\ page[Awaits(p)].busy
         /\ \A q \in Procs : Awaits(q) = Awaits(p) => q = p
    /\ Awaits(p) = TextObj =>
         /\ pte[p]["text"] = Nil
         /\ IF req[p].kind = "copy" THEN page[top[p]["text"]] # Nil /\ page[top[p]["text"]].busy
            ELSE page[top[p]["text"]] = Nil

(* The shared page, while it is busy, is clean; as long as no user program has
   written to it, what is being read is on disk and what is being written is
   what the page holds.  No other page is ever dirty. *)
SharedPageSaved ==
  /\ \A o \in Obj \ {ShmObj} : page[o] # Nil => ~page[o].dirty
  /\ page[ShmObj] # Nil /\ page[ShmObj].busy =>
       /\ ~page[ShmObj].dirty
       /\ \A p \in Procs : ~unsaved =>
            /\ Reading(p) /\ req[p].k = "shm" => disk = page[ShmObj].data
            /\ Cleaning(p) => req[p].val = page[ShmObj].data

(* The bottom page of the heap is zeroed; where a page table entry shows a
   page, a look-up along the chain finds one too, and the same one unless the
   process has a page of its own by now, which the kernel has copied to. *)
DataFresh ==
  /\ page[AnonObj] # Nil => page[AnonObj].data = 0
  /\ \A p \in Procs, k \in Private : pte[p][k] # Nil =>
       LET s == Source(page, top[p][k])
       IN page[s] # Nil /\ (page[top[p][k]] = Nil => pte[p][k].obj = s)

(* Nothing of a dead process's own shadow objects stays resident. *)
DeadHoldNothing == \A p \in Procs, k \in Private : status[p] = "dead" => page[top[p][k]] = Nil

(* Objects, frames and page tables agree: counts, ownership of writable pages,
   residence of what is mapped, and busy pages, through forks, exits and
   blocked reads of several processes. *)
MemoryInv ==
  /\ MemoryTypeOK /\ RefsMatchHolders /\ WritableIsOwn
  /\ PteResident /\ BusyHasOwner /\ DeadHoldNothing
  /\ ShadowsOlder /\ TopsApart /\ PteOfChain /\ BlockedRelyOn
  /\ SharedPageSaved /\ DataFresh

(* What object x has to offer: nothing while its page is absent or busy. *)
Loaded(x) == IF page[x] = Nil \/ page[x].busy THEN Nil ELSE page[x].data

(* What a look-up along the chain of area k finds for process p. *)
Contents(p, k) ==
  LET o == top[p][k]
  IN IF status[p] # "live" THEN Nil
     ELSE IF Loaded(o) # Nil THEN Loaded(o)
     ELSE Loaded(Source(page, shadowed[o]))

(* What the first access to an area may bring: a zeroed page, or what a read of
   the file has left, which may have failed. *)
Loads(k) == IF k = "heap" THEN {0} ELSE Values

(* What the page table of process p lets its program do with area k: an entry
   may still show another page than the one that the kernel's look-up finds. *)
View(p, k) ==
  CASE pte[p][k] = Nil -> "none"
    [] pte[p][k] # Nil /\ pte[p][k].write -> "write"
    [] OTHER -> IF pte[p][k].obj = Source(page, top[p][k]) THEN "read" ELSE "stale"

PM == INSTANCE PrivateMemory
        WITH live <- Live,
             mem <- [p \in Procs |-> [k \in Private |-> Contents(p, k)]],
             view <- [p \in Procs |-> [k \in Private |-> View(p, k)]],
             Unread <- Nil,
             shm <- IF page[ShmObj] = Nil THEN disk ELSE page[ShmObj].data

(* Shadow chains, copy on write and the copies of the kernel implement one
   private memory per process, and one shared cell: fork copies, faults change
   nothing, other accesses one area of one process, and only the kernel's own
   copies leave a program with an older page (fork.c, pagefault.c, vmmap.c). *)
ImplementsPrivateMemory == PM!Spec

(* A fault or a copy that waits for the disk is finished, unless another
   process has stopped the CPU by polling a busy page or for want of memory. *)
AccessReturns == \A p \in Procs :
  (req[p] # Nil /\ req[p].kind \in {"fault", "copy"}) ~> (req[p] = Nil \/ cpu # "ok")
=============================================================================
