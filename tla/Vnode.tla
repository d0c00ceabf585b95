------------------------------- MODULE Vnode --------------------------------
(***************************************************************************)
(* The vnode cache (vm-submit: fs/vnode.c).  Threads get a vnode by its    *)
(* inode number, bring pages of it in, and put it; reading an inode, filling *)
(* and cleaning a page, and deleting a vnode block, and other threads run  *)
(* meanwhile.  vput frees an unlinked file's pages, then the vnode.        *)
(*                                                                         *)
(* A vnode is a slot of the allocator, so that a thread that still uses a  *)
(* freed one can be told from one that uses its successor.                 *)
(***************************************************************************)
EXTENDS Integers, FiniteSets, Totals

CONSTANTS Threads, Inodes,
          NSlots,     \* bound: vnodes in memory at a time
          NPages,     \* pages of a file
          MaxHeld,    \* bound: references one thread has to one vnode
          Nil

Slots == 1 .. NSlots
Pages == 1 .. NPages

Vnodes == [vno : Inodes, busy : BOOLEAN, ref : Nat, page : [Pages -> {"out", "in", "busy"}]]

ASSUME VnodeAssumption ==
  /\ IsFiniteSet(Threads) /\ NSlots \in Nat \ {0} /\ NPages \in Nat /\ MaxHeld \in Nat \ {0}
  /\ Nil \notin Vnodes /\ Nil \notin Slots \X Pages

VARIABLES vn,      \* vn[s]: [vno, busy, ref, page], or Nil for a free slot
          linked,  \* linked[i]: a directory of the disk names inode i
          held,    \* held[t][s]: references of thread t
          th,      \* th[t]: what t is blocked in: [pc, slot, vno, pages]
          sync,    \* <<s, g>>: the page that sync is writing back, or Nil
          mode     \* "up", "off" after the flush at shutdown, or "panicked"

vars == <<vn, linked, held, th, sync, mode>>

Ready == [pc |-> "ready", slot |-> 0, vno |-> Nil, pages |-> {}]

(* vnode_inuse_list *)
InUse == {s \in Slots : vn[s] # Nil}

Of(i) == {s \in InUse : vn[s].vno = i}

nrespages(s) == Cardinality({g \in Pages : vn[s].page[g] # "out"})

NoPages == [g \in Pages |-> "out"]

Up == mode = "up"

CanRun(t) == th[t] = Ready /\ Up

----------------------------------------------------------------------------
(* vget. *)

Block(t, pc, s, i, P) == th' = [th EXCEPT ![t] = [pc |-> pc, slot |-> s, vno |-> i, pages |-> P]]

(* What vget finds in the list. *)
Found(i) == Of(i)

(* vget from the label find on: a busy vnode is waited for, one in the list is
   referenced, and otherwise a new one, busy, is put on the list and read. *)
find(t, i) ==
  \/ \E s \in Found(i) :
       \/ vn[s].busy /\ Block(t, "asleep", s, i, {}) /\ UNCHANGED <<vn, held>>
       \/ /\ ~vn[s].busy
          /\ vn' = [vn EXCEPT ![s].ref = @ + 1]
          /\ held' = [held EXCEPT ![t][s] = @ + 1]
          /\ th' = [th EXCEPT ![t] = Ready]
  \/ \E s \in Slots :
       /\ Found(i) = {} /\ vn[s] = Nil
       /\ vn' = [vn EXCEPT ![s] = [vno |-> i, busy |-> TRUE, ref |-> 0, page |-> NoPages]]
       /\ Block(t, "reading", s, i, {})
       /\ UNCHANGED held

(* The caller has found inode i in a directory. *)
vget(t, i) ==
  /\ CanRun(t) /\ linked[i]
  /\ \A s \in Of(i) : held[t][s] < MaxHeld
  /\ find(t, i)
  /\ UNCHANGED <<linked, sync, mode>>

(* A thread that waited for a busy vnode looks again. *)
vget_again(t) ==
  /\ th[t].pc = "woken" /\ Up
  /\ find(t, th[t].vno)
  /\ UNCHANGED <<linked, sync, mode>>

(* read_vnode has returned.  Threads that wait for the vnode are not woken. *)
vget_returns(t) ==
  /\ th[t].pc = "reading" /\ Up
  /\ vn' = [vn EXCEPT ![th[t].slot].busy = FALSE, ![th[t].slot].ref = 1]
  /\ held' = [held EXCEPT ![t][th[t].slot] = @ + 1]
  /\ th' = [th EXCEPT ![t] = Ready]
  /\ UNCHANGED <<linked, sync, mode>>

vref(t, s) ==
  /\ CanRun(t) /\ held[t][s] \in 1 .. MaxHeld - 1
  /\ vn' = [vn EXCEPT ![s].ref = @ + 1]
  /\ held' = [held EXCEPT ![t][s] = @ + 1]
  /\ UNCHANGED <<linked, th, sync, mode>>

----------------------------------------------------------------------------
(* Pages: each has a reference to its vnode. *)

vo_vref(v) == [v EXCEPT !.ref = @ + 1]

(* vreadpage, by a thread that uses the vnode. *)
vreadpage(t, s, g) ==
  /\ CanRun(t) /\ held[t][s] > 0
  /\ vn[s].page[g] = "out"
  /\ vn' = [vn EXCEPT ![s] = [vo_vref(@) EXCEPT !.page[g] = "busy"]]
  /\ Block(t, "filling", s, vn[s].vno, {g})
  /\ UNCHANGED <<linked, held, sync, mode>>

vreadpage_returns(t) ==
  /\ th[t].pc = "filling" /\ Up
  /\ vn' = [vn EXCEPT ![th[t].slot].page = [g \in Pages |-> IF g \in th[t].pages THEN "in" ELSE @[g]]]
  /\ th' = [th EXCEPT ![t] = Ready]
  /\ UNCHANGED <<linked, held, sync, mode>>

(* vcleanpage for sync, which has no reference to the vnode. *)
vcleanpage(s, g) ==
  /\ sync = Nil /\ Up
  /\ s \in InUse
  /\ vn[s].page[g] = "in"
  /\ vn' = [vn EXCEPT ![s].page[g] = "busy"]
  /\ sync' = <<s, g>>
  /\ UNCHANGED <<linked, held, th, mode>>

vcleanpage_returns ==
  /\ sync # Nil /\ Up
  /\ vn' = [vn EXCEPT ![sync[1]].page[sync[2]] = "in"]
  /\ sync' = Nil
  /\ UNCHANGED <<linked, held, th, mode>>

----------------------------------------------------------------------------
(* vput. *)

(* Nobody uses the vnode after this call, and nobody can find its file. *)
\* Mutant of BecomesPassive: off by one.
BecomesPassiveLate(s) == nrespages(s) = vn[s].ref /\ ~linked[vn[s].vno]

BecomesPassive(s) == nrespages(s) = vn[s].ref - 1 /\ ~linked[vn[s].vno]

(* vput frees the pages of P in order, up to the first that is busy; each puts
   the vnode. *)
Freed(s, P) == {g \in P : vn[s].page[g] = "in" /\ \A h \in P : h < g => vn[s].page[h] # "busy"}

BusyPages(s, P) == {g \in P : vn[s].page[g] = "busy"}

FreePages(s, P) ==
  [vn[s] EXCEPT !.page = [g \in Pages |-> IF g \in Freed(s, P) THEN "out" ELSE @[g]],
                !.ref = @ - Cardinality(Freed(s, P))]

(* The count goes down, and a vnode that reaches zero becomes busy. *)
LastPut(v) == [v EXCEPT !.ref = @ - 1, !.busy = v.ref <= 1]

(* The part of vput after the pages: the thread goes on to delete_vnode, or
   returns when references are left. *)
PutRef(t, s, v) ==
  /\ vn' = [vn EXCEPT ![s] = LastPut(v)]
  /\ held' = [held EXCEPT ![t][s] = @ - 1]
  /\ IF v.ref <= 1 THEN Block(t, "deleting", s, v.vno, {}) ELSE th' = [th EXCEPT ![t] = Ready]

(* The loop over the pages P of an unlinked file sleeps at a busy one.  After
   it, the vnode has no page and one reference, or the kernel panics: somebody
   may have found the vnode, which is not busy, during that sleep. *)
DropPages(t, s, P) ==
  \/ /\ BusyPages(s, P) # {}
     /\ vn' = [vn EXCEPT ![s] = FreePages(s, P)]
     /\ Block(t, "dropping", s, vn[s].vno, P \ Freed(s, P))
     /\ UNCHANGED <<held, mode>>
  \/ /\ BusyPages(s, P) = {}
     /\ LET v == FreePages(s, P)
        IN \/ v.page = NoPages /\ v.ref = 1 /\ PutRef(t, s, v) /\ UNCHANGED mode
           \/ ~(v.page = NoPages /\ v.ref = 1) /\ mode' = "panicked" /\ UNCHANGED <<vn, held, th>>

Resident(s) == {g \in Pages : vn[s].page[g] # "out"}

vput(t, s) ==
  /\ CanRun(t) /\ held[t][s] > 0
  /\ IF BecomesPassive(s) THEN DropPages(t, s, Resident(s)) ELSE PutRef(t, s, vn[s]) /\ UNCHANGED mode
  /\ UNCHANGED <<linked, sync>>

(* A page that vput sleeps for is no longer busy. *)
vput_drops(t) ==
  /\ th[t].pc = "dropping" /\ Up
  /\ \E g \in th[t].pages : vn[th[t].slot].page[g] = "in" /\ g \in Freed(th[t].slot, th[t].pages)
  /\ DropPages(t, th[t].slot, th[t].pages)
  /\ UNCHANGED <<linked, sync>>

Waiting(s) == {t \in Threads : th[t].pc = "asleep" /\ th[t].slot = s}

\* Mutant of WokenBy: nobody is woken.
WakesNobody(s) == {}

WokenBy(s) == Waiting(s)

(* delete_vnode has returned: the threads that wait are woken, and the vnode
   leaves the list and is freed. *)
vput_deletes(t) ==
  LET s == th[t].slot
  IN /\ th[t].pc = "deleting" /\ Up
     /\ vn' = [vn EXCEPT ![s] = Nil]
     /\ th' = [u \in Threads |-> IF u = t THEN Ready
                                 ELSE IF u \in WokenBy(s) THEN [th[u] EXCEPT !.pc = "woken", !.slot = 0]
                                 ELSE th[u]]
     /\ UNCHANGED <<linked, held, sync, mode>>

----------------------------------------------------------------------------
(* The file system below. *)

(* A thread that has the file's vnode removes its last name. *)
Unlink(t, i) ==
  /\ CanRun(t) /\ linked[i]
  /\ \E s \in Of(i) : held[t][s] > 0
  /\ linked' = [linked EXCEPT ![i] = FALSE]
  /\ UNCHANGED <<vn, held, th, sync, mode>>

(* A new file takes an inode that has been freed. *)
Create(i) ==
  /\ Up /\ ~linked[i] /\ Of(i) = {}
  /\ linked' = [linked EXCEPT ![i] = TRUE]
  /\ UNCHANGED <<vn, held, th, sync, mode>>

(* Every page is written back and freed, at shutdown, when no process is left;
   a vnode that only its pages kept goes with the last of them. *)
Flushed(s) == IF vn[s].ref = nrespages(s) THEN Nil
              ELSE [vn[s] EXCEPT !.page = NoPages, !.ref = @ - nrespages(s)]

vnode_flush_all ==
  /\ sync = Nil /\ Up
  /\ \A t \in Threads : th[t] = Ready /\ \A s \in Slots : held[t][s] = 0
  /\ vn' = [s \in Slots |-> IF s \in InUse THEN Flushed(s) ELSE Nil]
  /\ mode' = "off"
  /\ UNCHANGED <<linked, held, th, sync>>

Init ==
  /\ vn = [s \in Slots |-> Nil]
  /\ linked = [i \in Inodes |-> TRUE]
  /\ held = [t \in Threads |-> [s \in Slots |-> 0]]
  /\ th = [t \in Threads |-> Ready]
  /\ sync = Nil
  /\ mode = "up"

Next ==
  \/ \E t \in Threads :
       \/ \E i \in Inodes : vget(t, i) \/ Unlink(t, i)
       \/ vget_again(t) \/ vget_returns(t)
       \/ \E s \in Slots : vref(t, s) \/ vput(t, s) \/ \E g \in Pages : vreadpage(t, s, g)
       \/ vreadpage_returns(t) \/ vput_drops(t) \/ vput_deletes(t)
  \/ \E s \in Slots, g \in Pages : vcleanpage(s, g)
  \/ vcleanpage_returns
  \/ \E i \in Inodes : Create(i)
  \/ vnode_flush_all

(* The disk answers, and a thread that has been woken goes on. *)
Spec == /\ Init /\ [][Next]_vars
        /\ \A t \in Threads : /\ WF_vars(vget_returns(t)) /\ WF_vars(vreadpage_returns(t))
                              /\ SF_vars(vput_drops(t)) /\ WF_vars(vput_deletes(t))
        /\ WF_vars(vcleanpage_returns)

----------------------------------------------------------------------------
(* Properties. *)

(* The state keeps its type; no thread has fewer than no references to a vnode. *)
VnodeTypeOK ==
  /\ vn \in [Slots -> Vnodes \cup {Nil}]
  /\ linked \in [Inodes -> BOOLEAN]
  /\ held \in [Threads -> [Slots -> 0 .. MaxHeld]]
  /\ th \in [Threads -> [pc : {"ready", "asleep", "woken", "reading", "filling", "dropping", "deleting"},
                         slot : Slots \cup {0}, vno : Inodes \cup {Nil}, pages : SUBSET Pages]]
  /\ sync \in {Nil} \cup (Slots \X Pages)
  /\ mode \in {"up", "off", "panicked"}

(* However threads interleave in vget and vput, an inode has one vnode. *)
OnePerInode == \A i \in Inodes : Cardinality(Of(i)) <= 1

(* A vnode's count is the number of its pages and of the references threads
   have to it. *)
RefsArePagesAndUsers ==
  \A s \in InUse : vn[s].ref = nrespages(s) + Total([t \in Threads |-> held[t][s]], Threads)

(* Nobody has a reference to, sleeps on, or is busy with a freed vnode. *)
UsersOnLive ==
  /\ \A t \in Threads : th[t].slot # 0 => vn[th[t].slot] # Nil /\ vn[th[t].slot].vno = th[t].vno
  /\ \A t \in Threads, s \in Slots : held[t][s] > 0 => vn[s] # Nil
  /\ sync # Nil => vn[sync[1]] # Nil

(* The assertions of vref and vput hold whenever a user of a vnode may call
   them: it is not busy and has more references than pages.  The pages that a
   thread has yet to free for an unlinked file are still there. *)
VputAssertions ==
  /\ \A t \in Threads, s \in Slots : held[t][s] > 0 => ~vn[s].busy /\ nrespages(s) < vn[s].ref
  /\ \A t \in Threads : th[t].pc = "dropping" => th[t].pages \subseteq Resident(th[t].slot)

(* Shutdown leaves no vnode behind, though pages keep vnodes of files that
   nobody uses in the cache. *)
FlushEmpties == mode = "off" => InUse = {}

(* A busy vnode has no references, so neither pages nor users. *)
BusyUnreferenced == \A s \in InUse : vn[s].busy => vn[s].ref = 0

(* What a blocked thread relies on when it goes on: the vnode it reads or deletes
   is busy, the one whose page it fills or frees is referenced, the page it fills
   is still busy, and it has no reference to the file it waits to find. *)
BlockedRelyOn ==
  \A t \in Threads :
    /\ th[t].pc \in {"ready", "woken"} <=> th[t].slot = 0
    /\ th[t].pc \in {"asleep", "woken"} =>
         th[t].vno \in Inodes /\ \A s \in InUse : vn[s].vno = th[t].vno => held[t][s] = 0
    /\ th[t].pc \in {"reading", "deleting"} => vn[th[t].slot].busy
    /\ th[t].pc \in {"filling", "dropping"} => held[t][th[t].slot] > 0
    /\ th[t].pc = "filling" => \A g \in th[t].pages : vn[th[t].slot].page[g] = "busy"

(* Two threads blocked in one vnode do not get in each other's way: one that
   reads or deletes it has others asleep on it only, one frees its pages, and
   no two fill, or fill and write back, the same page. *)
BlockedApart ==
  /\ \A t, u \in Threads : t # u /\ th[t].slot # 0 /\ th[t].slot = th[u].slot =>
       /\ th[t].pc \in {"reading", "deleting"} => th[u].pc = "asleep"
       /\ th[t].pc = "dropping" => th[u].pc # "dropping"
       /\ th[t].pc = "filling" /\ th[u].pc = "filling" => th[t].pages \cap th[u].pages = {}
  /\ sync # Nil =>
       /\ vn[sync[1]].page[sync[2]] = "busy"
       /\ \A t \in Threads : th[t].pc = "filling" /\ th[t].slot = sync[1] => sync[2] \notin th[t].pages

(* The cache, the counts and what threads hold agree at every point where a
   thread may block: inductive (see VnodeProofs). *)
VnodeInv ==
  /\ VnodeTypeOK /\ OnePerInode /\ RefsArePagesAndUsers
  /\ UsersOnLive /\ VputAssertions /\ FlushEmpties
  /\ BusyUnreferenced /\ BlockedRelyOn /\ BlockedApart

Users(s) == {t \in Threads : held[t][s] > 0 /\ th[t].pc # "dropping"}

(* An unlinked file that nobody uses leaves the cache, with all its pages,
   unless a thread that waited for its vnode takes it up again. *)
UnlinkedGoes ==
  \A s \in Slots :
    (vn[s] # Nil /\ ~vn[s].busy /\ ~linked[vn[s].vno] /\ Users(s) = {})
      ~> (vn[s] = Nil \/ Users(s) # {} \/ mode # "up")
=============================================================================
