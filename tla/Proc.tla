-------------------------------- MODULE Proc --------------------------------
(***************************************************************************)
(* The processes of vm-submit: proc.c, the part of kmain.c that creates    *)
(* idle, init and the first user process and shuts the machine down, and   *)
(* the system calls that create, wait for, end and kill processes.         *)
(*                                                                         *)
(* Multiple threads per process are compiled out (Config.mk, MTP=0), so a  *)
(* process and its thread are one member of Proc, and Sched's Thread is    *)
(* Proc.  The queue p_wait of process p, on which only p's own thread      *)
(* sleeps, is named p.                                                     *)
(*                                                                         *)
(* A user process is in user mode and makes system calls, in any order.    *)
(* Kernel code runs to the next sched_switch without interleaving with     *)
(* other threads; where a function blocks in the middle, pc and waitfor    *)
(* say where its thread continues when it is switched to.                  *)
(***************************************************************************)
EXTENDS Sched, Lists

CONSTANTS idle, init, pageoutd,
          User,            \* proc_t objects for user processes
          tty, disk,       \* wait queues of the devices a system call blocks on
          pageoutd_waitq,
          ANY,             \* do_waitpid's pid argument -1
          PROC_MAX_COUNT,  \* pids are 0 .. PROC_MAX_COUNT - 1
          EFAULT

Proc == {idle, init, pageoutd} \cup User

PID_IDLE == 0
PID_INIT == 1

(***************************************************************************)
(* PROC_MAX_COUNT is larger than the number of processes memory has room   *)
(* for, so that _proc_getid finds a free pid, but pids do wrap around.     *)
(* Objects are distinct from each other.                                   *)
(***************************************************************************)
ASSUME ProcAssumption ==
  /\ Thread = Proc
  /\ boot = idle
  /\ Queue = Proc \cup {tty, disk, pageoutd_waitq}
  /\ IntrQueue = {tty, disk}
  /\ IsFiniteSet(User)
  /\ PROC_MAX_COUNT \in Nat /\ PROC_MAX_COUNT > Cardinality(Proc)
  /\ ANY \notin Proc \cup {NULL}
  /\ idle # init /\ idle # pageoutd /\ init # pageoutd
  /\ {idle, init, pageoutd} \cap User = {}
  /\ {tty, disk, pageoutd_waitq} \cap Proc = {}
  /\ tty # disk /\ tty # pageoutd_waitq /\ disk # pageoutd_waitq

VARIABLES p_pid, p_pproc, p_children, p_state, p_status,
          proc_list,   \* _proc_list
          next_pid,
          pc,          \* the function a process's thread is in
          waitfor,     \* the argument of the do_waitpid it is in, or NULL
          panic,       \* a KASSERT has failed, or panic() was called
          left         \* what ended calls and processes have left behind for good

procVars == <<p_pid, p_pproc, p_children, p_state, p_status, proc_list, next_pid,
              pc, waitfor, panic, left>>

\* A reference to a vnode that nobody has, and a page that nobody will unpin.
Leftover == {"reference", "pin"}

vars == <<schedVars, procVars>>

Allocated == {p \in Proc : p_state[p] # "free"}

PC == {"none", "user", "proc_kill_all", "initproc_create_child", "initproc_run",
       "idleproc_run", "vfs_shutdown", "pframe_shutdown", "halted", "pageoutd_run"}

\* The state keeps its type, and pids that wrap around stay below
\* PROC_MAX_COUNT (_proc_getid).
ProcTypeOK ==
  /\ SchedTypeOK
  /\ p_pid \in [Proc -> 0..(PROC_MAX_COUNT - 1) \cup {-1}]
  /\ p_pproc \in [Proc -> Proc \cup {NULL}]
  /\ p_children \in [Proc -> Seq(Proc)]
  /\ p_state \in [Proc -> {"free", "PROC_RUNNING", "PROC_DEAD"}]
  /\ p_status \in [Proc -> {0, EFAULT}]
  /\ proc_list \in Seq(Proc)
  /\ next_pid \in 0..(PROC_MAX_COUNT - 1)
  /\ pc \in [Proc -> PC]
  /\ waitfor \in [Proc -> Proc \cup {ANY, NULL}]
  /\ panic \in BOOLEAN
  /\ left \subseteq Leftover

(***************************************************************************)
(* The machine as idleproc_run has set it up when it calls do_waitpid: it  *)
(* has created init, then the pageout daemon (an init_func), and made them *)
(* runnable in the opposite order.                                         *)
(***************************************************************************)
ProcInit ==
  LET sys == {idle, init, pageoutd} IN
  /\ kt_state = [p \in Proc |-> IF p \in sys THEN "KT_RUN" ELSE "unallocated"]
  /\ kt_wchan = [p \in Proc |-> IF p \in {init, pageoutd} THEN kt_runq ELSE NULL]
  /\ kt_cancelled = [p \in Proc |-> FALSE]
  /\ tq_list = [q \in AllQueue |-> IF q = kt_runq THEN <<pageoutd, init>> ELSE <<>>]
  /\ curthr = idle
  /\ in_switch = FALSE
  /\ p_pid = [p \in Proc |-> CASE p = idle     -> PID_IDLE
                               [] p = init     -> PID_INIT
                               [] p = pageoutd -> 2
                               [] OTHER        -> -1]
  /\ p_pproc = [p \in Proc |-> IF p \in sys THEN idle ELSE NULL]
  /\ p_children = [p \in Proc |-> IF p = idle THEN <<init, pageoutd>> ELSE <<>>]
  /\ p_state = [p \in Proc |-> IF p \in sys THEN "PROC_RUNNING" ELSE "free"]
  /\ p_status = [p \in Proc |-> 0]
  /\ proc_list = <<idle, init, pageoutd>>
  /\ next_pid = 3
  /\ pc = [p \in Proc |-> CASE p = idle     -> "idleproc_run"
                            [] p = init     -> "initproc_create_child"
                            [] p = pageoutd -> "pageoutd_run"
                            [] OTHER        -> "none"]
  /\ waitfor = [p \in Proc |-> IF p = idle THEN ANY ELSE NULL]
  /\ panic = FALSE
  /\ left = {}
-----------------------------------------------------------------------------
Without(s, p) == Keep(s, Proc \ {p})

\* curthr executes in function f and is not inside do_waitpid.
At(f) == Executing /\ ~panic /\ pc[curthr] = f /\ waitfor[curthr] = NULL

\* What the system calls below leave alone.
OnlySched == UNCHANGED procVars
-----------------------------------------------------------------------------
(***************************************************************************)
(* _proc_getid: the first pid from next_pid on, cyclically, that no        *)
(* process of _proc_list has; -1 if every pid is taken.                    *)
(***************************************************************************)
PidAfter(k) == (next_pid + k) % PROC_MAX_COUNT

FreeDistance == {k \in 0..(PROC_MAX_COUNT - 1) : PidAfter(k) \notin {p_pid[p] : p \in Range(proc_list)}}

_proc_getid ==
  IF FreeDistance = {} THEN -1
  ELSE PidAfter(CHOOSE k \in FreeDistance : \A j \in FreeDistance : k <= j)

NextPid(pid) == IF pid = -1 THEN next_pid ELSE (pid + 1) % PROC_MAX_COUNT

(***************************************************************************)
(* proc_create by curthr, followed by the creation of the process's thread *)
(* (kthread_create, or kthread_clone in do_fork, which copies              *)
(* kt_cancelled) and its sched_make_runnable.                              *)
(***************************************************************************)
proc_create(p) ==
  /\ p \in User
  /\ p_state[p] = "free"
  /\ LET pid == _proc_getid IN
       /\ p_pid' = [p_pid EXCEPT ![p] = pid]
       /\ next_pid' = NextPid(pid)
  /\ p_pproc' = [p_pproc EXCEPT ![p] = curthr]
  /\ p_children' = [p_children EXCEPT ![p] = <<>>, ![curthr] = Append(@, p)]
  /\ p_state' = [p_state EXCEPT ![p] = "PROC_RUNNING"]
  /\ p_status' = [p_status EXCEPT ![p] = 0]
  /\ proc_list' = Append(proc_list, p)
  /\ MakeRunnable(p)
  /\ kt_cancelled' = [kt_cancelled EXCEPT ![p] = FALSE]
  /\ tq_list' = [tq_list EXCEPT ![kt_runq] = ktqueue_enqueue(@, p)]
  /\ UNCHANGED <<curthr, in_switch>>

\* initproc_run creates the process that becomes /sbin/init.
initproc_create_child ==
  /\ At("initproc_create_child")
  /\ \E p \in User :
       /\ proc_create(p)
       /\ pc' = [pc EXCEPT ![init] = "initproc_run", ![p] = "user"]
  /\ UNCHANGED <<waitfor, panic, left>>

\* A user process that is not cancelled makes a system call: a cancelled one
\* exits (syscall_exit below) on its way in or out of the next one.
Syscall == At("user") /\ ~kt_cancelled[curthr]

\* The child's working directory is referenced twice, by proc_create and by
\* do_fork itself, and put once.
do_fork ==
  /\ Syscall
  /\ left' = left \cup {"reference"}
  /\ \E p \in User :
       /\ proc_create(p)
       /\ pc' = [pc EXCEPT ![p] = "user"]
  /\ UNCHANGED <<waitfor, panic>>

\* do_link to a name that exists: the directory's vnode is not put.
do_link ==
  /\ Syscall
  /\ left' = left \cup {"reference"}
  /\ UNCHANGED <<schedVars, p_pid, p_pproc, p_children, p_state, p_status, proc_list,
                 next_pid, pc, waitfor, panic>>
-----------------------------------------------------------------------------
(***************************************************************************)
(* kthread_exit and, called from it, proc_cleanup: files, working          *)
(* directory and address space are released, the parent's thread is woken  *)
(* if it sleeps on its p_wait, the children go to init, and the thread     *)
(* gives up the CPU for good.  The status is a parameter of proc_cleanup   *)
(* that it does not store: p_status is not assigned.                       *)
(*                                                                         *)
(* kt_state is KT_EXITED from the beginning.  If a file of the process, or *)
(* one that it has mapped, has to be read, written back or deleted when it *)
(* is put, the thread sleeps, and sched_sleep_on's KASSERT stops the       *)
(* machine (ReleaseSleeps).  Only user processes have files.  Pages of     *)
(* objects that the address space shadows are not freed, and stay pinned.  *)
(***************************************************************************)
\* Mutant of Wake: proc_cleanup does not wake the parent.
WakeNobody(q) == <<>>

Wake(q) == IF sched_queue_empty(q) THEN <<>> ELSE <<Head(tq_list[q])>>

\* Mutant of proc_cleanup: the children keep their dead parent.
CleanupWithoutReparenting(woken) ==
  /\ tq_list' = [tq_list EXCEPT ![p_pproc[curthr]] = IF woken = <<>> THEN @ ELSE Tail(@),
                                ![kt_runq] = @ \o woken]
  /\ kt_wchan' = [p \in Proc |-> IF p \in Range(woken) THEN kt_runq ELSE kt_wchan[p]]
  /\ p_state' = [p_state EXCEPT ![curthr] = "PROC_DEAD"]
  /\ UNCHANGED <<p_children, p_pproc>>

proc_cleanup(woken) ==
  LET children == p_children[curthr] IN
  /\ tq_list' = [tq_list EXCEPT ![p_pproc[curthr]] = IF woken = <<>> THEN @ ELSE Tail(@),
                                ![kt_runq] = @ \o woken]
  /\ kt_wchan' = [p \in Proc |-> IF p \in Range(woken) THEN kt_runq ELSE kt_wchan[p]]
  /\ p_children' = [p_children EXCEPT ![curthr] = <<>>, ![init] = @ \o children]
  /\ p_pproc' = [p \in Proc |-> IF p \in Range(children) THEN init ELSE p_pproc[p]]
  /\ p_state' = [p_state EXCEPT ![curthr] = "PROC_DEAD"]

ReleaseSleeps ==
  /\ curthr \in User
  /\ kt_state' = [kt_state EXCEPT ![curthr] = "KT_EXITED"]
  /\ panic' = TRUE
  /\ UNCHANGED <<kt_wchan, kt_cancelled, tq_list, curthr, in_switch, p_pid, p_pproc, p_children,
                 p_state, proc_list, next_pid, pc, waitfor, left>>

Released ==
  LET woken == Wake(p_pproc[curthr]) IN
  /\ proc_cleanup(woken)
  /\ kt_state' = [p \in Proc |-> CASE p = curthr     -> "KT_EXITED"
                                   [] p \in Range(woken) -> "KT_RUN"
                                   [] OTHER           -> kt_state[p]]
  /\ in_switch' = TRUE
  /\ pc' = [pc EXCEPT ![curthr] = "none"]
  /\ left' \in {left} \cup {left \cup {"pin"} : p \in {curthr} \cap User}
  /\ UNCHANGED <<kt_cancelled, curthr, p_pid, proc_list, next_pid, waitfor, panic>>

Exit == Released \/ ReleaseSleeps

do_exit ==
  /\ Syscall
  /\ Exit
  /\ UNCHANGED p_status

\* handle_pagefault on an address that is not mapped, or not with the rights.
handle_pagefault ==
  /\ At("user")
  /\ p_status' = [p_status EXCEPT ![curthr] = EFAULT]
  /\ Exit

\* syscall_handler's tests of kt_cancelled, before and after the dispatch.
syscall_exit ==
  /\ At("user")
  /\ kt_cancelled[curthr]
  /\ Exit
  /\ UNCHANGED p_status
-----------------------------------------------------------------------------
(***************************************************************************)
(* do_waitpid.  Called with no child, or with a pid that is no child's, it *)
(* returns -ECHILD and changes nothing.  The call and the loop body are    *)
(* two steps of the same thread with nothing in between.                   *)
(***************************************************************************)
DeadChildren(target) ==
  Keep(p_children[curthr], {c \in Proc : p_state[c] = "PROC_DEAD" /\ target \in {ANY, c}})

disposeZombie(c) ==
  /\ kt_state' = [kt_state EXCEPT ![c] = "unallocated"]
  /\ p_state' = [p_state EXCEPT ![c] = "free"]
  /\ p_pproc' = [p_pproc EXCEPT ![c] = NULL]
  /\ p_pid' = [p_pid EXCEPT ![c] = -1]
  /\ p_status' = [p_status EXCEPT ![c] = 0]
  /\ p_children' = [p_children EXCEPT ![curthr] = Without(@, c)]
  /\ proc_list' = Without(proc_list, c)
  /\ UNCHANGED <<kt_wchan, kt_cancelled, tq_list, curthr, in_switch, next_pid>>

do_waitpid_reap ==
  /\ Executing /\ ~panic
  /\ waitfor[curthr] # NULL
  /\ DeadChildren(waitfor[curthr]) # <<>>
  /\ disposeZombie(Head(DeadChildren(waitfor[curthr])))
  /\ waitfor' = [waitfor EXCEPT ![curthr] = NULL]
  /\ UNCHANGED <<pc, panic, left>>

\* Mutant of do_waitpid_sleep: sleeps first and looks for a dead child after.
SleepUnconditionally ==
  /\ Executing /\ ~panic
  /\ waitfor[curthr] # NULL
  /\ sched_sleep_on(curthr)
  /\ OnlySched

do_waitpid_sleep ==
  /\ Executing /\ ~panic
  /\ waitfor[curthr] # NULL
  /\ DeadChildren(waitfor[curthr]) = <<>>
  /\ sched_sleep_on(curthr)
  /\ OnlySched

CallWaitpid(target) ==
  /\ waitfor' = [waitfor EXCEPT ![curthr] = target]
  /\ UNCHANGED <<schedVars, p_pid, p_pproc, p_children, p_state, p_status, proc_list,
                 next_pid, panic, left>>

sys_waitpid ==
  /\ Syscall
  /\ p_children[curthr] # <<>>
  /\ \E target \in Range(p_children[curthr]) \cup {ANY} : CallWaitpid(target)
  /\ UNCHANGED pc
-----------------------------------------------------------------------------
(***************************************************************************)
(* proc_kill_all: cancels every process but the caller, idle and idle's    *)
(* children, in the order of _proc_list, then waits for each of the        *)
(* caller's children and exits.  Nothing excludes a process that is        *)
(* already PROC_DEAD, and sched_cancel's KASSERT refuses its thread.       *)
(***************************************************************************)
\* Mutant of Victims: the children of idle are killed too.
VictimsOfIdle == Keep(proc_list, {p \in Range(proc_list) : p # curthr /\ p_pid[p] # PID_IDLE})

Victims == Keep(proc_list, {p \in Range(proc_list) : /\ p # curthr
                                                     /\ p_pid[p] # PID_IDLE
                                                     /\ p_pid[p_pproc[p]] # PID_IDLE})

Cancellable(p) == kt_state[p] \notin {"KT_NO_STATE", "KT_EXITED"} /\ kt_wchan[p] # NULL

\* Mutant of CancelEach: no sleeper is woken.
CancelOnlyMarks(list) ==
  /\ kt_cancelled' = [p \in Proc |-> p \in Range(list) \/ kt_cancelled[p]]
  /\ UNCHANGED <<kt_state, kt_wchan, tq_list, curthr, in_switch>>

\* kthread_cancel on each thread of the list, as sched_cancel does it.
CancelEach(list) ==
  LET woken == Keep(list, {p \in Proc : kt_state[p] = "KT_SLEEP_CANCELLABLE"}) IN
  /\ kt_cancelled' = [p \in Proc |-> p \in Range(list) \/ kt_cancelled[p]]
  /\ kt_state' = [p \in Proc |-> IF p \in Range(woken) THEN "KT_RUN" ELSE kt_state[p]]
  /\ kt_wchan' = [p \in Proc |-> IF p \in Range(woken) THEN kt_runq ELSE kt_wchan[p]]
  /\ tq_list' = [q \in AllQueue |->
                   IF q = kt_runq THEN tq_list[q] \o woken
                   ELSE Keep(tq_list[q], Proc \ Range(woken))]
  /\ UNCHANGED <<curthr, in_switch>>

sys_halt ==
  /\ Syscall
  /\ IF \A p \in Range(Victims) : Cancellable(p)
       THEN CancelEach(Victims) /\ pc' = [pc EXCEPT ![curthr] = "proc_kill_all"]
                                /\ UNCHANGED panic
       ELSE panic' = TRUE /\ UNCHANGED <<schedVars, pc>>
  /\ UNCHANGED <<p_pid, p_pproc, p_children, p_state, p_status, proc_list, next_pid,
                 waitfor, left>>

\* The second half: no child is ever added to the list that it walks.
proc_kill_all_wait ==
  /\ At("proc_kill_all")
  /\ p_children[curthr] # <<>>
  /\ CallWaitpid(Head(p_children[curthr]))
  /\ UNCHANGED pc

proc_kill_all_exit ==
  /\ At("proc_kill_all")
  /\ p_children[curthr] = <<>>
  /\ Exit
  /\ UNCHANGED p_status
-----------------------------------------------------------------------------
(***************************************************************************)
(* init waits for the first of its children until it has none, and exits.  *)
(***************************************************************************)
initproc_wait ==
  /\ At("initproc_run")
  /\ p_children[init] # <<>>
  /\ CallWaitpid(Head(p_children[init]))
  /\ UNCHANGED pc

initproc_exit ==
  /\ At("initproc_run")
  /\ p_children[init] = <<>>
  /\ Exit
  /\ UNCHANGED p_status

(***************************************************************************)
(* idle, once a child has been reaped: KASSERT(PID_INIT == child), then    *)
(* vfs_shutdown, which refuses if a vnode is still referenced, and panics; *)
(* the end of the pageout daemon in pframe_shutdown, with KASSERTs of its  *)
(* own, the last about pinned pages; and the halt.  vfs_shutdown may sleep *)
(* on the disk: nobody but the daemon is left then.                        *)
(***************************************************************************)
Goes(ok, to) == IF ok THEN pc' = [pc EXCEPT ![idle] = to] /\ UNCHANGED panic
                ELSE panic' = TRUE /\ UNCHANGED pc

vfs_shutdown ==
  /\ At("idleproc_run")
  /\ Goes(p_state[init] = "free" /\ "reference" \notin left, "vfs_shutdown")
  /\ UNCHANGED <<schedVars, p_pid, p_pproc, p_children, p_state, p_status, proc_list,
                 next_pid, waitfor, left>>

pframe_shutdown ==
  /\ At("vfs_shutdown")
  /\ Goes(Cancellable(pageoutd), "pframe_shutdown")
  /\ IF Cancellable(pageoutd)
       THEN CancelEach(<<pageoutd>>) /\ waitfor' = [waitfor EXCEPT ![idle] = ANY]
       ELSE UNCHANGED <<schedVars, waitfor>>
  /\ UNCHANGED <<p_pid, p_pproc, p_children, p_state, p_status, proc_list, next_pid, left>>

hard_shutdown ==
  /\ At("pframe_shutdown")
  /\ Goes(p_state[pageoutd] = "free" /\ "pin" \notin left, "halted")
  /\ UNCHANGED <<schedVars, p_pid, p_pproc, p_children, p_state, p_status, proc_list,
                 next_pid, waitfor, left>>

(***************************************************************************)
(* The pageout daemon between two rounds of work.  Its sleep returns 0     *)
(* also when it is ended by kthread_cancel, and -EINTR if called again.    *)
(***************************************************************************)
pageoutd_sleep ==
  /\ At("pageoutd_run")
  /\ sched_cancellable_sleep_on(pageoutd_waitq)
  /\ OnlySched

pageoutd_quit ==
  /\ At("pageoutd_run")
  /\ kt_cancelled[pageoutd]
  /\ Exit
  /\ UNCHANGED p_status
-----------------------------------------------------------------------------
(***************************************************************************)
(* The other system calls, as far as processes are concerned: reading from *)
(* a terminal (a cancellable sleep), disk I/O (one that is not), a page    *)
(* allocation that wakes the pageout daemon, and SYS_thr_yield.            *)
(***************************************************************************)
sys_read == Syscall /\ sched_cancellable_sleep_on(tty) /\ OnlySched

disk_io == Syscall /\ sched_sleep_on(disk) /\ OnlySched

pageoutd_wakeup == Syscall /\ sched_broadcast_on(pageoutd_waitq) /\ OnlySched

sys_thr_yield == Syscall /\ thr_yield /\ OnlySched

Switch == ~panic /\ sched_switch /\ OnlySched

DiskInterrupt == ~panic /\ sched_wakeup_on(disk) /\ OnlySched

TtyInterrupt == ~panic /\ sched_wakeup_on(tty) /\ OnlySched

\* The machine is off, or has stopped in panic().
Stopped == (pc[idle] = "halted" \/ panic) /\ UNCHANGED vars

ThreadStep ==
  \/ initproc_create_child \/ initproc_wait \/ initproc_exit
  \/ do_fork \/ do_link \/ do_exit \/ handle_pagefault \/ syscall_exit
  \/ sys_waitpid \/ do_waitpid_reap \/ do_waitpid_sleep
  \/ sys_halt \/ proc_kill_all_wait \/ proc_kill_all_exit
  \/ vfs_shutdown \/ pframe_shutdown \/ hard_shutdown
  \/ pageoutd_sleep \/ pageoutd_quit
  \/ sys_read \/ disk_io \/ pageoutd_wakeup \/ sys_thr_yield

ProcNext == ThreadStep \/ Switch \/ DiskInterrupt \/ TtyInterrupt \/ Stopped

(***************************************************************************)
(* Fairness: kernel code is finite, so sched_switch and the current thread *)
(* go on, and a program enters the kernel again and again (the console     *)
(* command spin does not, and nothing preempts it); the disk answers.      *)
(* Nobody needs to type at the terminal.                                   *)
(***************************************************************************)
ProcSpec == ProcInit /\ [][ProcNext]_vars

ProcLiveSpec == /\ ProcSpec
                /\ WF_vars(ThreadStep)
                /\ WF_vars(Switch)
                /\ WF_vars(DiskInterrupt)
-----------------------------------------------------------------------------
(***************************************************************************)
(* Properties.                                                             *)
(***************************************************************************)

\* The process tree: p_pproc and the p_children lists agree, in both
\* directions and with nobody listed twice, and every process has a parent
\* that is PROC_RUNNING.  proc_cleanup wakes p_pproc->p_wait and appends to
\* init's list without a test, so a parent that is gone would be written to.
TreeConsistent ==
  /\ IsInjective(proc_list) /\ Range(proc_list) = Allocated
  /\ \A p \in Allocated :
       /\ IsInjective(p_children[p])
       /\ Range(p_children[p]) = {c \in Allocated \ {idle} : p_pproc[c] = p}
  /\ \A c \in Allocated : p_pproc[c] \in Allocated /\ p_state[p_pproc[c]] = "PROC_RUNNING"

\* a stands before b in _proc_list.
Precedes(a, b) == b # idle /\ (p_pproc[b] = a \/ (a = init /\ b \in User))

\* Processes stand behind their parents, and user processes behind init, in
\* _proc_list; idle stays the parent of the two it has created, and init
\* outlives all processes that it may have to adopt.
InitAdopts ==
  /\ p_state[idle] = "PROC_RUNNING" /\ p_pproc[idle] = idle
  /\ \A c \in Allocated \ {idle} : /\ p_pproc[c] # pageoutd
                                   /\ p_pproc[c] = idle <=> c \notin User
  /\ \A i, j \in 1 .. Len(proc_list) : Precedes(proc_list[i], proc_list[j]) => i < j
  /\ p_state[init] # "PROC_RUNNING" => Allocated \cap User = {}

\* Pids identify processes, zombies included, after they have wrapped around:
\* do_waitpid(pid), proc_lookup and the two KASSERTs of proc_create about
\* PID_IDLE and PID_INIT rely on it.
PidsUnique ==
  /\ \A p, r \in Allocated : p # r => p_pid[p] # p_pid[r]
  /\ p_pid[idle] = PID_IDLE

\* No exit is missed: a parent asleep in do_waitpid has no dead child of the
\* kind it waits for, whichever of the two ran first, and still has a child
\* to wait for.  proc_cleanup wakes the parent before it sets PROC_DEAD.
NoMissedExit ==
  \A p \in Proc : waitfor[p] # NULL /\ kt_state[p] = "KT_SLEEP" =>
    \E c \in Range(p_children[p]) :
      /\ waitfor[p] \in {ANY, c}
      /\ \A d \in Range(p_children[p]) : waitfor[p] \in {ANY, d} => p_state[d] # "PROC_DEAD"

\* The machine has stopped because an exiting thread had to sleep.
StoppedInExit == panic /\ kt_state[curthr] = "KT_EXITED"

\* A process and its thread end together: disposeZombie's
\* KASSERT(KT_EXITED == t->kt_state), and a thread that can still run has a
\* process that can; unless the machine has stopped in between.
ThreadMatchesProcess ==
  \A p \in Proc :
    /\ p_state[p] = "PROC_DEAD" <=> kt_state[p] = "KT_EXITED" /\ ~(StoppedInExit /\ p = curthr)
    /\ p_state[p] = "free" <=> kt_state[p] = "unallocated"
    /\ kt_state[p] # "KT_NO_STATE"

\* A thread is in a function of its own kind of process until it exits.
RunsOwnCode ==
  /\ pc[idle] \in {"idleproc_run", "vfs_shutdown", "pframe_shutdown", "halted"}
  /\ pc[init] \in {"initproc_create_child", "initproc_run", "none"}
  /\ pc[pageoutd] \in {"pageoutd_run", "none"}
  /\ \A p \in User : pc[p] \in {"user", "proc_kill_all", "none"}
  /\ \A p \in Proc : pc[p] = "none" <=> p_state[p] # "PROC_RUNNING"

\* A thread in do_waitpid has a child of the kind it waits for until it has
\* reaped it; init waits for one child at a time.
WaitsForChild ==
  /\ \A p \in Proc : waitfor[p] # NULL => /\ p_state[p] = "PROC_RUNNING"
                                          /\ \E c \in Range(p_children[p]) : waitfor[p] \in {ANY, c}
  /\ waitfor[init] # ANY /\ waitfor[pageoutd] = NULL

\* Who sleeps where, and how: do_waitpid on one's own p_wait, system calls on a
\* device, the pageout daemon on its queue.
SleepsWhereExpected ==
  \A p \in Proc :
    /\ kt_wchan[p] \in Proc => kt_wchan[p] = p /\ waitfor[p] # NULL /\ kt_state[p] = "KT_SLEEP"
    /\ kt_wchan[p] = disk => waitfor[p] = NULL /\ kt_state[p] = "KT_SLEEP"
    /\ kt_wchan[p] \in {tty, pageoutd_waitq} =>
         waitfor[p] = NULL /\ kt_state[p] = "KT_SLEEP_CANCELLABLE"

\* The shutdown goes step by step: idle reaps init while the pageout daemon
\* lives on, then cancels the daemon, and reaps it.
ShutdownInOrder ==
  LET free(p) == p_state[p] = "free" IN
  /\ pc[idle] = "idleproc_run" => /\ p_state[pageoutd] = "PROC_RUNNING" /\ ~kt_cancelled[pageoutd]
                                  /\ free(init) <=> waitfor[idle] = NULL
  /\ pc[idle] = "vfs_shutdown" => /\ p_state[pageoutd] = "PROC_RUNNING" /\ ~kt_cancelled[pageoutd]
                                  /\ free(init) /\ waitfor[idle] = NULL
  /\ pc[idle] = "pframe_shutdown" => free(init) /\ (free(pageoutd) <=> waitfor[idle] = NULL)
  /\ pc[idle] = "halted" => free(init) /\ free(pageoutd) /\ waitfor[idle] = NULL

\* When the machine halts nothing is left behind but idle: every process has
\* been reaped by its parent or, after its parent's exit, by init.
HaltedClean ==
  pc[idle] = "halted" => Allocated = {idle} /\ p_children[idle] = <<>>

\* The process tree, the pids, the threads of processes and the scheduler's state
\* are consistent together, through every order of fork, exit, adoption, wait
\* and kill, and nothing is left when the machine has halted.
ProcInv ==
  /\ ProcTypeOK /\ SchedInv
  /\ TreeConsistent /\ InitAdopts /\ PidsUnique /\ ThreadMatchesProcess
  /\ RunsOwnCode /\ WaitsForChild /\ SleepsWhereExpected /\ ShutdownInOrder
  /\ HaltedClean

\* The machine stops for four reasons only: a user process that exits has to
\* sleep while it releases its files; a process halts the machine while there is
\* an exited one that nobody has waited for; and idle finds, when it shuts down,
\* a vnode still referenced or a page still pinned.  idle's other KASSERTs hold
\* whatever order processes are killed, exit and are adopted in: the first child
\* that its do_waitpid(-1) returns is init and not the pageout daemon, which
\* still sleeps where pframe_shutdown can cancel it and is then the only one left.
PanicsExplained ==
  panic =>
    \/ curthr \in User /\ StoppedInExit /\ p_state[curthr] = "PROC_RUNNING"
    \/ /\ curthr \in User /\ pc[curthr] = "user"
       /\ \E p \in Range(Victims) : p_state[p] = "PROC_DEAD"
    \/ pc[idle] = "idleproc_run" /\ p_state[init] = "free" /\ curthr = idle /\ "reference" \in left
    \/ pc[idle] = "pframe_shutdown" /\ Allocated = {idle} /\ curthr = idle /\ "pin" \in left

\* Halting works: once a process has called proc_kill_all the machine stops
\* (or has panicked), with processes asleep in do_waitpid, at a terminal or on
\* the disk, with nobody typing, and with the others free to race to exit.
HaltCompletes ==
  (\E p \in Proc : pc[p] = "proc_kill_all") ~> (pc[idle] = "halted" \/ panic)

\* do_waitpid(pid) returns once the child has ended, if its caller lives.
WaitReturns ==
  \A p, c \in User :
    waitfor[p] = c /\ p_state[c] = "PROC_DEAD" ~> (waitfor[p] # c \/ panic)
=============================================================================
