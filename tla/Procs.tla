------------------------------- MODULE Procs --------------------------------
(***************************************************************************)
(* Process management and scheduling of procs-submit (proc/proc.c,         *)
(* proc/kthread.c, proc/sched.c, main/kmain.c), which vfs-submit shares.   *)
(* Every process has one thread.  The kernel is not preemptive: what a     *)
(* thread does between two switches is one step, and a device interrupt    *)
(* may come between steps, also while the idle loop of sched_switch has    *)
(* unmasked interrupts and has not yet executed intr_wait.                 *)
(***************************************************************************)
EXTENDS Integers, Sequences, SequencesExt, Lists

CONSTANTS PROC_MAX_COUNT,   \* pids are 0 .. PROC_MAX_COUNT - 1
          Statuses,         \* exit statuses that programs use; 0 is one
          MaxDevice         \* bound on device waits

ASSUME ProcsAssumption ==
  PROC_MAX_COUNT \in Nat /\ PROC_MAX_COUNT >= 3 /\ 0 \in Statuses /\ MaxDevice \in Nat

Pids == 0 .. PROC_MAX_COUNT - 1
PID_IDLE == 0
PID_INIT == 1
NoPid == -1

VARIABLES proc_list,   \* _proc_list, in order
          p_state, p_pproc, p_children, p_status,
          next_pid,
          kt_state,    \* "run", "sleep", "cancellable", "exited"
          kt_cancelled,
          runq, devq,  \* the run queue and the queue of a device, oldest first
          pc,          \* what the thread is blocked in: [op, child]
          cur,         \* curthr, and so curproc
          cpu,         \* "run", "unmasked" or "halted" in sched_switch's loop, or "off"
          panicked,
          given,       \* history: the status each process gave to exit
          reaped,      \* history: pid and status of the last wait that returned
          missed,      \* history: an interrupt came before intr_wait
          nDevice

procs == <<proc_list, p_state, p_pproc, p_children, p_status, next_pid>>
threads == <<kt_state, kt_cancelled, runq, devq, pc, cur, cpu>>
history == <<given, reaped, nDevice>>
vars == <<procs, threads, history, panicked, missed>>

User == [op |-> "user", child |-> NoPid]

----------------------------------------------------------------------------
(* Scheduling. *)

(* sched_switch: the next thread of the run queue executes; with an empty one
   the CPU waits for an interrupt, on the stack of the thread that switched. *)
sched_switch(q) ==
  IF q = <<>> THEN cpu' = "unmasked" /\ runq' = q /\ UNCHANGED cur
  ELSE cur' = Head(q) /\ runq' = Tail(q) /\ UNCHANGED cpu

(* sched_cancel of the threads in set S: those in a cancellable sleep leave
   their queue and become runnable, the others are only marked. *)
Woken(S) == {t \in S : kt_state[t] = "cancellable"}

CancelStates(S) == [t \in Pids |-> IF t \in Woken(S) THEN "run" ELSE kt_state[t]]

CancelDevq(S) == Keep(devq, Pids \ Woken(S))

sched_cancel(S) ==
  /\ kt_cancelled' = [t \in Pids |-> kt_cancelled[t] \/ t \in S]
  /\ devq' = CancelDevq(S)

(* The woken threads enter the run queue in the order of the list of processes. *)
CancelRunq(S) == runq \o Keep(proc_list, Woken(S))

(* The thread that executes, outside any kernel call that could block. *)
InUser(p) == cpu = "run" /\ panicked = "no" /\ cur = p /\ pc[p] = User

(* A thread gives up the CPU and stays runnable. *)
Yield(p) ==
  /\ InUser(p) /\ p # PID_IDLE
  /\ sched_switch(Append(runq, p))
  /\ UNCHANGED <<procs, history, panicked, missed, kt_state, kt_cancelled, devq, pc>>

(* sched_cancellable_sleep_on the queue of a device; a cancelled thread does
   not sleep. *)
MaySleep(p) == ~kt_cancelled[p]

sched_cancellable_sleep_on(p) ==
  /\ InUser(p) /\ p # PID_IDLE /\ MaySleep(p) /\ nDevice < MaxDevice
  /\ kt_state' = [kt_state EXCEPT ![p] = "cancellable"]
  /\ devq' = Append(devq, p)
  /\ nDevice' = nDevice + 1
  /\ sched_switch(runq)
  /\ UNCHANGED <<procs, panicked, missed, given, reaped, kt_cancelled, pc>>

(* sched_wakeup_on by a device's interrupt.  A CPU in intr_wait looks at the
   run queue again; one that has only unmasked interrupts goes on to wait. *)
Interrupt ==
  /\ devq # <<>> /\ cpu # "off" /\ panicked = "no"
  /\ LET t == Head(devq)
         q == Append(runq, t)
     IN /\ kt_state' = [kt_state EXCEPT ![t] = "run"]
        /\ devq' = Tail(devq)
        /\ IF cpu = "halted" THEN cpu' = "run" /\ cur' = Head(q) /\ runq' = Tail(q)
           ELSE runq' = q /\ UNCHANGED <<cpu, cur>>
        /\ missed' = (cpu = "unmasked")
  /\ UNCHANGED <<procs, history, panicked, kt_cancelled, pc>>

intr_wait ==
  /\ cpu = "unmasked" /\ panicked = "no"
  /\ cpu' = "halted"
  /\ UNCHANGED <<procs, history, panicked, missed, kt_state, kt_cancelled, runq, devq, pc, cur>>

(* Any other interrupt, a key for instance, also ends intr_wait. *)
OtherInterrupt ==
  /\ cpu = "halted" /\ panicked = "no"
  /\ IF runq = <<>> THEN cpu' = "unmasked" /\ UNCHANGED <<runq, cur>>
     ELSE cpu' = "run" /\ cur' = Head(runq) /\ runq' = Tail(runq)
  /\ missed' = FALSE
  /\ UNCHANGED <<procs, history, panicked, kt_state, kt_cancelled, devq, pc>>

----------------------------------------------------------------------------
(* Processes. *)

(* _proc_getid: the first pid from next_pid on that no process has. *)
Taken == Range(proc_list)

NextPid(c) == (c + 1) % PROC_MAX_COUNT

PidAfter(i) == (next_pid + i) % PROC_MAX_COUNT

FirstFree(i) == PidAfter(i) \notin Taken /\ \A j \in 0 .. i - 1 : PidAfter(j) \in Taken

_proc_getid == PidAfter(CHOOSE i \in 0 .. PROC_MAX_COUNT - 1 : FirstFree(i))

(* The new process c is the current process's last child. *)
proc_create(p, c) ==
  /\ proc_list' = Append(proc_list, c)
  /\ p_state' = [p_state EXCEPT ![c] = "running"]
  /\ p_pproc' = [p_pproc EXCEPT ![c] = p]
  /\ p_children' = [p_children EXCEPT ![p] = Append(@, c), ![c] = <<>>]
  /\ p_status' = [p_status EXCEPT ![c] = 0]
  /\ next_pid' = NextPid(c)

kthread_create(c) ==
  /\ kt_state' = [kt_state EXCEPT ![c] = "run"]
  /\ kt_cancelled' = [kt_cancelled EXCEPT ![c] = FALSE]
  /\ pc' = [pc EXCEPT ![c] = User]

(* A process with a thread that is made runnable, as kmain's commands do it.
   With every pid taken _proc_getid returns -1, which proc_create does not
   test: programs stay below that bound. *)
Spawn(p) ==
  /\ InUser(p) /\ p # PID_IDLE
  /\ Taken # Pids
  /\ proc_create(p, _proc_getid)
  /\ kthread_create(_proc_getid)
  /\ runq' = Append(runq, _proc_getid)
  /\ UNCHANGED <<history, panicked, missed, devq, cur, cpu>>

Waiting(q) == kt_state[q] = "sleep"

(* sched_broadcast_on the p_wait of the process's parent: only the parent's
   own thread sleeps there. *)
\* Mutant of WakeParent: nobody is woken.
WakeNobody(q) == <<>>

WakeParent(q) == IF Waiting(q) THEN <<q>> ELSE <<>>

\* Mutant of proc_initproc: children are left to the first process.
FirstProcess == PID_IDLE

proc_initproc == PID_INIT

\* Mutant of SetStatus: the argument of exit is not kept.
StatusLost(p, status) == p_status

SetStatus(p, status) == [p_status EXCEPT ![p] = status]

(* Init is the new parent of the children. *)
proc_cleanup(p, status) ==
  /\ p_status' = SetStatus(p, status)
  /\ p_state' = [p_state EXCEPT ![p] = "dead"]
  /\ p_pproc' = [c \in Pids |-> IF c \in Range(p_children[p]) THEN proc_initproc ELSE p_pproc[c]]
  /\ p_children' = [p_children EXCEPT ![proc_initproc] = @ \o p_children[p]]
  /\ given' = [given EXCEPT ![p] = status]
  /\ UNCHANGED <<proc_list, next_pid, reaped, nDevice, panicked, missed, pc>>

(* The only thread of the process exits: proc_thread_exited cleans the process
   up.  st and q are the threads' states and the run queue just before. *)
kthread_exit(p, status, st, q) ==
  LET w == WakeParent(p_pproc[p])
  IN /\ proc_cleanup(p, status)
     /\ kt_state' = [t \in Pids |-> IF t = p THEN "exited" ELSE IF t \in Range(w) THEN "run" ELSE st[t]]
     /\ sched_switch(q \o w)

(* do_exit, or the return of the thread's function.  The commands of init's
   shell wait for their children: init exits without any. *)
do_exit(p, status) ==
  /\ InUser(p) /\ p # PID_IDLE
  /\ p = PID_INIT => p_children[p] = <<>>
  /\ kthread_exit(p, status, kt_state, runq)
  /\ UNCHANGED <<kt_cancelled, devq>>

(* proc_kill of another process. *)
proc_kill(p, c) ==
  /\ InUser(p) /\ p # PID_IDLE
  /\ c \in Range(p_children[p])
  /\ sched_cancel({c})
  /\ kt_state' = CancelStates({c}) /\ runq' = CancelRunq({c})
  /\ UNCHANGED <<procs, history, panicked, missed, pc, cur, cpu>>

(* proc_kill_all spares idle, init and pid 2.  The caller then exits too,
   unless the last process of the list has pid 2: its test reads the loop's
   variable. *)
proc_kill_all(p) ==
  LET S == Range(proc_list) \ {p, PID_IDLE, PID_INIT, 2}
  IN /\ InUser(p) /\ p # PID_IDLE
     /\ sched_cancel(S)
     /\ IF p # PID_INIT /\ Last(proc_list) # 2
        THEN kthread_exit(p, p_status[p], CancelStates(S), CancelRunq(S))
        ELSE /\ kt_state' = CancelStates(S) /\ runq' = CancelRunq(S)
             /\ UNCHANGED <<procs, history, panicked, missed, pc, cur, cpu>>

(* The end of a wait for child c: its thread is destroyed and it leaves the
   list of processes and its parent's.  kthread_destroy of a thread that has
   not exited fails the assertion that follows it. *)
\* Mutant of Reap: the child stays among its parent's children.
ReapKeepsLink(p, c) ==
  /\ reaped' = [pid |-> c, status |-> p_status[c]]
  /\ p_state' = [p_state EXCEPT ![c] = "none"]
  /\ p_pproc' = [p_pproc EXCEPT ![c] = NoPid]
  /\ proc_list' = Keep(proc_list, Pids \ {c})
  /\ UNCHANGED <<p_children, p_status, next_pid, given, nDevice, panicked, missed>>

Reap(p, c) ==
  /\ reaped' = [pid |-> c, status |-> p_status[c]]
  /\ p_state' = [p_state EXCEPT ![c] = "none"]
  /\ p_pproc' = [p_pproc EXCEPT ![c] = NoPid]
  /\ p_children' = [p_children EXCEPT ![p] = Keep(@, Pids \ {c})]
  /\ proc_list' = Keep(proc_list, Pids \ {c})
  /\ UNCHANGED <<p_status, next_pid, given, nDevice, panicked, missed>>

Sleep(p, op, c) ==
  /\ kt_state' = [kt_state EXCEPT ![p] = "sleep"]
  /\ pc' = [pc EXCEPT ![p] = [op |-> op, child |-> c]]
  /\ sched_switch(runq)
  /\ UNCHANGED <<procs, history, panicked, missed, kt_cancelled, devq>>

(* do_waitpid(-1): the first dead child of the list is disposed of; with none
   the parent sleeps on its p_wait and looks again. *)
do_waitpid_any(p) ==
  /\ cpu = "run" /\ panicked = "no" /\ cur = p
  /\ pc[p] = User \/ pc[p].op = "waitany"
  /\ p_children[p] # <<>>
  /\ LET dead == Keep(p_children[p], {c \in Pids : p_state[c] = "dead"})
     IN IF dead = <<>> THEN Sleep(p, "waitany", NoPid)
        ELSE /\ Reap(p, Head(dead))
             /\ pc' = [pc EXCEPT ![p] = User]
             /\ UNCHANGED <<kt_state, kt_cancelled, runq, devq, cur, cpu>>

(* do_waitpid(pid): the parent sleeps, whatever the child's state, and takes
   the next wake-up of its p_wait for the end of this child. *)
do_waitpid_pid(p, c) ==
  /\ InUser(p) /\ p # PID_IDLE
  /\ c \in Range(p_children[p])
  /\ Sleep(p, "waitpid", c)

do_waitpid_woken(p) ==
  /\ cpu = "run" /\ panicked = "no" /\ cur = p
  /\ pc[p].op = "waitpid"
  /\ LET c == pc[p].child
     IN IF kt_state[c] = "exited"
        THEN Reap(p, c) /\ pc' = [pc EXCEPT ![p] = User]
        ELSE panicked' = "live thread destroyed" /\ UNCHANGED <<procs, history, missed, pc>>
  /\ UNCHANGED <<kt_state, kt_cancelled, runq, devq, cur, cpu>>

(* idleproc_run after do_waitpid: its only child was init. *)
idleproc_run_halts ==
  /\ InUser(PID_IDLE) /\ p_children[PID_IDLE] = <<>>
  /\ cpu' = "off"
  /\ UNCHANGED <<procs, history, panicked, missed, kt_state, kt_cancelled, runq, devq, pc, cur>>

Stopped == (cpu = "off" \/ panicked # "no") /\ UNCHANGED vars

(* idleproc_run has created init and made it runnable. *)
Init ==
  /\ proc_list = <<PID_IDLE, PID_INIT>>
  /\ p_state = [p \in Pids |-> IF p \in {PID_IDLE, PID_INIT} THEN "running" ELSE "none"]
  /\ p_pproc = [p \in Pids |-> IF p = PID_INIT THEN PID_IDLE ELSE NoPid]
  /\ p_children = [p \in Pids |-> IF p = PID_IDLE THEN <<PID_INIT>> ELSE <<>>]
  /\ p_status = [p \in Pids |-> 0]
  /\ next_pid = 2
  /\ kt_state = [p \in Pids |-> IF p \in {PID_IDLE, PID_INIT} THEN "run" ELSE "exited"]
  /\ kt_cancelled = [p \in Pids |-> FALSE]
  /\ runq = <<PID_INIT>> /\ devq = <<>>
  /\ pc = [p \in Pids |-> User]
  /\ cur = PID_IDLE /\ cpu = "run" /\ panicked = "no"
  /\ given = [p \in Pids |-> 0]
  /\ reaped = [pid |-> NoPid, status |-> 0]
  /\ missed = FALSE /\ nDevice = 0

Next ==
  \/ \E p \in Pids :
       \/ Yield(p) \/ sched_cancellable_sleep_on(p) \/ Spawn(p)
       \/ \E s \in Statuses : do_exit(p, s)
       \/ \E c \in Pids : proc_kill(p, c) \/ do_waitpid_pid(p, c)
       \/ proc_kill_all(p) \/ do_waitpid_any(p) \/ do_waitpid_woken(p)
  \/ Interrupt \/ intr_wait \/ OtherInterrupt
  \/ idleproc_run_halts \/ Stopped

(* Every thread gives up the CPU some time, goes on when it has it in the
   middle of a wait, and devices answer.  Nobody has to press a key. *)
Spec == /\ Init /\ [][Next]_vars
        /\ \A p \in Pids : /\ WF_vars(Yield(p))
                           /\ WF_vars(do_waitpid_any(p) /\ (p = PID_IDLE \/ pc[p] # User))
                           /\ WF_vars(do_waitpid_woken(p))
        /\ WF_vars(Interrupt) /\ WF_vars(intr_wait) /\ WF_vars(idleproc_run_halts)

----------------------------------------------------------------------------
(* Properties. *)

(* The state keeps its type, pids stay below PROC_MAX_COUNT, and the only panic
   is the one of do_waitpid(pid). *)
ProcsTypeOK ==
  /\ proc_list \in Seq(Pids)
  /\ p_state \in [Pids -> {"none", "running", "dead"}]
  /\ p_pproc \in [Pids -> Pids \cup {NoPid}]
  /\ p_children \in [Pids -> Seq(Pids)]
  /\ p_status \in [Pids -> Statuses] /\ next_pid \in Pids
  /\ kt_state \in [Pids -> {"run", "sleep", "cancellable", "exited"}]
  /\ kt_cancelled \in [Pids -> BOOLEAN]
  /\ runq \in Seq(Pids) /\ devq \in Seq(Pids)
  /\ pc \in [Pids -> [op : {"user", "waitany", "waitpid"}, child : Pids \cup {NoPid}]]
  /\ cur \in Pids /\ cpu \in {"run", "unmasked", "halted", "off"}
  /\ panicked \in {"no", "live thread destroyed"}
  /\ given \in [Pids -> Statuses]
  /\ reaped \in [pid : Pids \cup {NoPid}, status : Statuses]
  /\ nDevice \in 0 .. MaxDevice /\ missed \in BOOLEAN

Live == {p \in Pids : p_state[p] # "none"}

(* Both ends of every parent link agree, and the list of processes has every
   process once, after any exits, reparenting and waits. *)
LinksAgree ==
  /\ IsInjective(proc_list) /\ Range(proc_list) = Live
  /\ \A q \in Live : p_state[q] = "running" =>
       /\ IsInjective(p_children[q])
       /\ Range(p_children[q]) = {c \in Live : p_pproc[c] = q}

Threads(s) == {t \in Pids : kt_state[t] = s}

(* A thread that can run is on the run queue or executes, one that sleeps on
   a device is on its queue, and none is on two. *)
OnOneQueue ==
  /\ IsInjective(runq) /\ IsInjective(devq)
  /\ Range(runq) = Threads("run") \ (IF cpu \in {"run", "off"} THEN {cur} ELSE {})
  /\ Range(devq) = Threads("cancellable")

(* No cancelled thread is in a cancellable sleep. *)
CancelWakes == \A t \in Pids : kt_cancelled[t] => kt_state[t] # "cancellable"

(* A process runs as long as its thread has not exited, and the thread that
   has the CPU is runnable. *)
ThreadsMatch ==
  /\ \A p \in Pids : p_state[p] = "running" <=> kt_state[p] # "exited"
  /\ cpu \in {"run", "off"} => kt_state[cur] = "run"

Precedes(a, b) == b # PID_IDLE /\ (p_pproc[b] = a \/ (a = PID_INIT /\ b # PID_INIT))

(* Every process but the first has a parent that runs, and stands after it and
   after init in the list of processes; only init is a child of idle, and init
   outlives all the others, who would be left to a process that is gone. *)
ParentsRun ==
  /\ p_state[PID_IDLE] = "running" /\ p_pproc[PID_IDLE] = NoPid
  /\ \A c \in Live \ {PID_IDLE} : /\ p_pproc[c] \in Pids
                                  /\ p_state[p_pproc[c]] = "running"
                                  /\ p_pproc[c] = PID_IDLE <=> c = PID_INIT
  /\ \A i, j \in 1 .. Len(proc_list) : Precedes(proc_list[i], proc_list[j]) => i < j
  /\ p_state[PID_INIT] # "running" => Live \subseteq {PID_IDLE, PID_INIT}

(* The child that a thread waits for in do_waitpid(pid) stays its child, even
   when it has exited. *)
WaitsForChild ==
  \A p \in Pids : pc[p].op = "waitpid" =>
    /\ p_state[p] = "running"
    /\ pc[p].child \in Live \ {PID_IDLE} /\ p_pproc[pc[p].child] = p

(* Links, queues and cancellation stay consistent together, in the middle of a
   proc_kill_all and with interrupts at any time. *)
ProcsInv == /\ ProcsTypeOK /\ LinksAgree /\ OnOneQueue /\ CancelWakes
            /\ ThreadsMatch /\ ParentsRun /\ WaitsForChild

(* do_waitpid gives the status that the child gave to exit, however the two
   were interleaved and whoever the parent was. *)
StatusDelivered == reaped.pid # NoPid => \/ p_state[reaped.pid] # "none"
                                         \/ reaped.status = given[reaped.pid]

Tree == INSTANCE ProcTree WITH Idle <- PID_IDLE, Init_ <- PID_INIT,
                               state <- p_state, parent <- p_pproc

(* Creation, exit, reparenting and waiting implement the abstract tree; in
   particular a process only disappears when it has exited, and only by its
   parent's wait. *)
ImplementsProcTree == Tree!Spec

(* A parent that waits for any child returns when one has exited, unless the
   kernel has panicked or the CPU sleeps in intr_wait because an interrupt
   came just before it. *)
WaitAnyReturns ==
  \A p \in Pids :
    (pc[p].op = "waitany" /\ \E c \in Range(p_children[p]) : p_state[c] = "dead")
      ~> (pc[p].op # "waitany" \/ panicked # "no" \/ missed)
=============================================================================
