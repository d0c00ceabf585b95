--------------------------- MODULE PrivateMemory ---------------------------
(***************************************************************************)
(* What fork, the page fault handler and the kernel's copies promise about *)
(* the memory of processes: every private area belongs to one process, a   *)
(* child starts with a copy of its parent's, and a shared area is one cell *)
(* for everybody who maps it.  What an area holds before anybody has       *)
(* written to it is read once, for all who have it in common.  A page      *)
(* fault changes nothing but what the program sees; a copy of the kernel   *)
(* may leave the program with an older page than the one it went to, until *)
(* the program's next write fault or fork.  Memory, which keeps shadow     *)
(* objects, page frames and page tables, is shown to implement this.       *)
(***************************************************************************)
CONSTANTS Procs, FirstProc,
          Private,   \* private areas of a process
          Values,
          Loads(_),  \* Loads(k): what the first read of area k may bring
          Unread     \* the content of an area that nobody has read yet

VARIABLES live,    \* processes that have memory
          mem,     \* mem[p][k]: what is in process p's private area k
          view,    \* view[p][k]: what p's program may do with it without a fault:
                   \* "none", "read", "write", or "stale": read an older content
          shm      \* what everybody finds in the shared area

vars == <<live, mem, view, shm>>

Untouched == [k \in Private |-> Unread]
Unmapped == [k \in Private |-> "none"]

Init == /\ live = {FirstProc}
        /\ mem = [p \in Procs |-> Untouched]
        /\ view = [p \in Procs |-> Unmapped]
        /\ shm \in Values

(* mem after area k has been read, for those who have not written to it; it is
   unchanged if v is Unread or the area has been read before. *)
Read(k, v) == [q \in Procs |-> [j \in Private |->
                 IF j = k /\ q \in live /\ mem[q][j] = Unread THEN v ELSE mem[q][j]]]

Fault(p) ==
  /\ p \in live
  /\ UNCHANGED <<live, shm>>
  /\ \E k \in Private :
       /\ mem'[p][k] # Unread
       /\ \E w \in {"read", "write"} : view' = [view EXCEPT ![p][k] = w]
       /\ \E v \in Loads(k) \cup {Unread} : mem' = Read(k, v)

(* A copy of the kernel to or from area k, or a store of the program. *)
Copy(p) ==
  /\ p \in live
  /\ UNCHANGED <<live, shm>>
  /\ \E k \in Private :
       /\ mem'[p][k] \in Values
       /\ view' = view \/ (view[p][k] = "read" /\ view' = [view EXCEPT ![p][k] = "stale"])
       /\ \E v \in Loads(k) \cup {Unread} : mem' = [Read(k, v) EXCEPT ![p][k] = mem'[p][k]]

WriteShared == shm' \in Values /\ UNCHANGED <<live, mem, view>>

Fork(p, c) == /\ p \in live /\ c \notin live
              /\ live' = live \cup {c}
              /\ mem' = [mem EXCEPT ![c] = mem[p]]
              /\ view' = [view EXCEPT ![p] = Unmapped, ![c] = Unmapped]
              /\ UNCHANGED shm

(* A process that ends takes its memory with it, and nobody else's; the page
   tables of others may lose entries. *)
Exit(p) == /\ p \in live
           /\ live' = live \ {p}
           /\ mem' = [mem EXCEPT ![p] = Untouched]
           /\ \A q \in Procs, k \in Private : view'[q][k] \in {"none", IF q = p THEN "none" ELSE view[q][k]}
           /\ UNCHANGED shm

Next == \/ \E p \in Procs : Fault(p) \/ Copy(p) \/ Exit(p)
        \/ \E p, c \in Procs : Fork(p, c)
        \/ WriteShared

Spec == Init /\ [][Next]_vars
=============================================================================
