------------------------------- MODULE Sched -------------------------------
(***************************************************************************)
(* The Weenix scheduler and its kernel threads: the run queue, the wait    *)
(* queues, sleeping, waking, cancelling and switching                      *)
(* (vm-submit/kernel/proc/sched.c and kthread.c).                          *)
(*                                                                         *)
(* The kernel runs on one CPU and does not preempt: between two calls of   *)
(* sched_switch only curthr executes thread code, and only an interrupt    *)
(* handler can run in between.  Every function of sched.c and kthread.c    *)
(* that does not block is therefore one step.  sched_switch itself is two: *)
(* a thread that gives up the CPU sets in_switch, and the dequeue from     *)
(* kt_runq comes later, because with an empty run queue the loop in        *)
(* sched_switch unmasks interrupts and waits, and a handler may make any   *)
(* sleeping thread runnable (the waiting thread itself included).          *)
(*                                                                         *)
(* The callers are left open: a thread may make any call whose KASSERTs    *)
(* about what the caller knows hold when it makes it, those of             *)
(* sched_cancel (a thread that has not exited) and sched_sleep_on (curthr  *)
(* has not).  Whether particular callers keep to that is the business of   *)
(* the modules that extend this one, and in Proc two of them do not.       *)
(***************************************************************************)
EXTENDS Naturals, Sequences

CONSTANTS Thread,    \* the kthread_t objects of the slab allocator
          Queue,     \* every ktqueue_t a thread may wait on
          IntrQueue, \* those of them an interrupt handler wakes (devices)
          kt_runq,   \* the run queue
          NULL,
          boot       \* the thread bootstrap() makes current

(***************************************************************************)
(* kt_runq is a ktqueue_t like the others but nobody sleeps on it, and     *)
(* NULL is neither a thread nor a queue.                                   *)
(***************************************************************************)
ASSUME SchedAssumption ==
  /\ boot \in Thread
  /\ kt_runq \notin Queue
  /\ NULL \notin Queue \cup {kt_runq}
  /\ NULL \notin Thread
  /\ IntrQueue \subseteq Queue

VARIABLES kt_state,     \* kthread_t.kt_state, "unallocated" for a free object
          kt_wchan,     \* kthread_t.kt_wchan
          kt_cancelled, \* kthread_t.kt_cancelled
          tq_list,      \* the threads of each queue, the next to leave first
          curthr,       \* the global curthr
          in_switch     \* curthr is inside sched_switch, before the dequeue

schedVars == <<kt_state, kt_wchan, kt_cancelled, tq_list, curthr, in_switch>>

AllQueue == Queue \cup {kt_runq}

Sleeping == {"KT_SLEEP", "KT_SLEEP_CANCELLABLE"}

State == {"unallocated", "KT_NO_STATE", "KT_RUN", "KT_EXITED"} \cup Sleeping

\* The state keeps its type: a queue holds threads, and whoever executes is a
\* thread (sched_switch never takes up nobody).
SchedTypeOK ==
  /\ kt_state \in [Thread -> State]
  /\ kt_wchan \in [Thread -> AllQueue \cup {NULL}]
  /\ kt_cancelled \in [Thread -> BOOLEAN]
  /\ tq_list \in [AllQueue -> Seq(Thread)]
  /\ curthr \in Thread
  /\ in_switch \in BOOLEAN

(***************************************************************************)
(* bootstrap() makes the idle thread current by hand, with every queue     *)
(* empty.                                                                  *)
(***************************************************************************)
SchedInit ==
  /\ kt_state = [t \in Thread |-> IF t = boot THEN "KT_RUN" ELSE "unallocated"]
  /\ kt_wchan = [t \in Thread |-> NULL]
  /\ kt_cancelled = [t \in Thread |-> FALSE]
  /\ tq_list = [q \in AllQueue |-> <<>>]
  /\ curthr = boot
  /\ in_switch = FALSE
-----------------------------------------------------------------------------
(***************************************************************************)
(* Queues.  ktqueue_enqueue inserts at the head of the list and            *)
(* ktqueue_dequeue takes from its tail, so a queue is a sequence that      *)
(* grows at its end and shrinks at its beginning.  tq_size is its length.  *)
(***************************************************************************)
\* Mutant of ktqueue_enqueue: inserts at the end that ktqueue_dequeue takes.
EnqueueAtFront(s, t) == <<t>> \o s

ktqueue_enqueue(s, t) == Append(s, t)

ktqueue_dequeue(s) == Tail(s)

\* The list without the thread, wherever in it the thread is.
ktqueue_remove(s, t) ==
  LET i == CHOOSE i \in 1..Len(s) : s[i] = t
  IN  [j \in 1..(Len(s) - 1) |-> IF j < i THEN s[j] ELSE s[j + 1]]

sched_queue_empty(q) == tq_list[q] = <<>>

Members(q) == {tq_list[q][i] : i \in 1..Len(tq_list[q])}

(***************************************************************************)
(* sched_make_runnable on a thread that no queue holds: the queues, wait   *)
(* channels and states after it.  Every wake-up ends in these.             *)
(***************************************************************************)
MakeRunnable(t) ==
  /\ kt_state' = [kt_state EXCEPT ![t] = "KT_RUN"]
  /\ kt_wchan' = [kt_wchan EXCEPT ![t] = kt_runq]

\* curthr executes thread code: it is not waiting inside sched_switch, nor has
\* it called kthread_exit.  A thread that has still executes proc_cleanup.
Executing == ~in_switch /\ kt_state[curthr] = "KT_RUN"

Exiting == ~in_switch /\ kt_state[curthr] = "KT_EXITED"
-----------------------------------------------------------------------------
(***************************************************************************)
(* Giving up the CPU.                                                      *)
(***************************************************************************)
sched_sleep_on(q) ==
  /\ Executing
  /\ kt_state' = [kt_state EXCEPT ![curthr] = "KT_SLEEP"]
  /\ kt_wchan' = [kt_wchan EXCEPT ![curthr] = q]
  /\ tq_list' = [tq_list EXCEPT ![q] = ktqueue_enqueue(@, curthr)]
  /\ in_switch' = TRUE
  /\ UNCHANGED <<kt_cancelled, curthr>>

\* A thread that is already cancelled does not go to sleep: -EINTR at once.
sched_cancellable_sleep_on(q) ==
  /\ Executing
  /\ ~kt_cancelled[curthr]
  /\ kt_state' = [kt_state EXCEPT ![curthr] = "KT_SLEEP_CANCELLABLE"]
  /\ kt_wchan' = [kt_wchan EXCEPT ![curthr] = q]
  /\ tq_list' = [tq_list EXCEPT ![q] = ktqueue_enqueue(@, curthr)]
  /\ in_switch' = TRUE
  /\ UNCHANGED <<kt_cancelled, curthr>>

\* SYS_thr_yield: sched_make_runnable(curthr), then sched_switch.
thr_yield ==
  /\ Executing
  /\ MakeRunnable(curthr)
  /\ tq_list' = [tq_list EXCEPT ![kt_runq] = ktqueue_enqueue(@, curthr)]
  /\ in_switch' = TRUE
  /\ UNCHANGED <<kt_cancelled, curthr>>

\* KT_EXITED is set first.  proc_cleanup follows, where the thread may wake
\* others, and then sched_switch.
kthread_exit ==
  /\ Executing
  /\ kt_state' = [kt_state EXCEPT ![curthr] = "KT_EXITED"]
  /\ UNCHANGED <<kt_wchan, kt_cancelled, tq_list, curthr, in_switch>>

proc_thread_exited ==
  /\ Exiting
  /\ in_switch' = TRUE
  /\ UNCHANGED <<kt_state, kt_wchan, kt_cancelled, tq_list, curthr>>

(***************************************************************************)
(* The second half of sched_switch, once the run queue has a thread.       *)
(***************************************************************************)
sched_switch ==
  /\ in_switch
  /\ ~sched_queue_empty(kt_runq)
  /\ curthr' = Head(tq_list[kt_runq])
  /\ kt_wchan' = [kt_wchan EXCEPT ![Head(tq_list[kt_runq])] = NULL]
  /\ tq_list' = [tq_list EXCEPT ![kt_runq] = ktqueue_dequeue(@)]
  /\ in_switch' = FALSE
  /\ UNCHANGED <<kt_state, kt_cancelled>>
-----------------------------------------------------------------------------
(***************************************************************************)
(* Waking others.                                                          *)
(***************************************************************************)
sched_wakeup_on(q) ==
  /\ ~sched_queue_empty(q)
  /\ MakeRunnable(Head(tq_list[q]))
  /\ tq_list' = [tq_list EXCEPT
                   ![q] = ktqueue_dequeue(@),
                   ![kt_runq] = ktqueue_enqueue(@, Head(tq_list[q]))]
  /\ UNCHANGED <<kt_cancelled, curthr, in_switch>>

\* The loop dequeues and enqueues until q is empty: q's threads, in order.
sched_broadcast_on(q) ==
  /\ ~sched_queue_empty(q)
  /\ kt_state' = [t \in Thread |-> IF t \in Members(q) THEN "KT_RUN" ELSE kt_state[t]]
  /\ kt_wchan' = [t \in Thread |-> IF t \in Members(q) THEN kt_runq ELSE kt_wchan[t]]
  /\ tq_list' = [tq_list EXCEPT ![q] = <<>>, ![kt_runq] = @ \o tq_list[q]]
  /\ UNCHANGED <<kt_cancelled, curthr, in_switch>>

\* Mutant of sched_cancel: takes the sleeper off its queue, no sched_make_runnable.
CancelWithoutRunnable(t) ==
  /\ Executing
  /\ t # curthr
  /\ kt_state[t] = "KT_SLEEP_CANCELLABLE"
  /\ kt_cancelled' = [kt_cancelled EXCEPT ![t] = TRUE]
  /\ kt_state' = [kt_state EXCEPT ![t] = "KT_RUN"]
  /\ kt_wchan' = [kt_wchan EXCEPT ![t] = NULL]
  /\ tq_list' = [tq_list EXCEPT ![kt_wchan[t]] = ktqueue_remove(@, t)]
  /\ UNCHANGED <<curthr, in_switch>>

(***************************************************************************)
(* kthread_cancel on a thread other than curthr is sched_cancel.  On       *)
(* curthr it is kthread_exit.  The guard is sched_cancel's KASSERT.        *)
(***************************************************************************)
sched_cancel(t) ==
  /\ Executing
  /\ t # curthr
  /\ kt_state[t] \notin {"unallocated", "KT_NO_STATE", "KT_EXITED"}
  /\ kt_wchan[t] # NULL
  /\ kt_cancelled' = [kt_cancelled EXCEPT ![t] = TRUE]
  /\ IF kt_state[t] = "KT_SLEEP_CANCELLABLE" /\ kt_wchan[t] # kt_runq
       THEN /\ MakeRunnable(t)
            /\ tq_list' = [tq_list EXCEPT
                             ![kt_wchan[t]] = ktqueue_remove(@, t),
                             ![kt_runq] = ktqueue_enqueue(@, t)]
       ELSE UNCHANGED <<kt_state, kt_wchan, tq_list>>
  /\ UNCHANGED <<curthr, in_switch>>
-----------------------------------------------------------------------------
(***************************************************************************)
(* Thread objects.  The creator calls sched_make_runnable on the new       *)
(* thread later, and kthread_destroy is called by do_waitpid on an exited  *)
(* one; the object returns to the slab allocator.                          *)
(***************************************************************************)
kthread_create(t) ==
  /\ Executing
  /\ kt_state[t] = "unallocated"
  /\ kt_state' = [kt_state EXCEPT ![t] = "KT_NO_STATE"]
  /\ kt_wchan' = [kt_wchan EXCEPT ![t] = NULL]
  /\ kt_cancelled' = [kt_cancelled EXCEPT ![t] = FALSE]
  /\ UNCHANGED <<tq_list, curthr, in_switch>>

sched_make_runnable(t) ==
  /\ Executing
  /\ kt_state[t] = "KT_NO_STATE"
  /\ MakeRunnable(t)
  /\ tq_list' = [tq_list EXCEPT ![kt_runq] = ktqueue_enqueue(@, t)]
  /\ UNCHANGED <<kt_cancelled, curthr, in_switch>>

kthread_destroy(t) ==
  /\ Executing
  /\ kt_state[t] = "KT_EXITED"
  /\ kt_state' = [kt_state EXCEPT ![t] = "unallocated"]
  /\ UNCHANGED <<kt_wchan, kt_cancelled, tq_list, curthr, in_switch>>
-----------------------------------------------------------------------------
(***************************************************************************)
(* An interrupt handler runs on top of whatever thread is current, also    *)
(* one that waits in sched_switch, and wakes threads of a device's queue.  *)
(***************************************************************************)
Interrupt == \E q \in IntrQueue : sched_wakeup_on(q) \/ sched_broadcast_on(q)

GiveUpCpu ==
  \/ \E q \in Queue : sched_sleep_on(q) \/ sched_cancellable_sleep_on(q)
  \/ thr_yield
  \/ kthread_exit
  \/ proc_thread_exited

SchedNext ==
  \/ GiveUpCpu
  \/ sched_switch
  \/ \E q \in Queue : ~in_switch /\ (sched_wakeup_on(q) \/ sched_broadcast_on(q))
  \/ \E t \in Thread : \/ sched_cancel(t)
                       \/ kthread_create(t)
                       \/ sched_make_runnable(t)
                       \/ kthread_destroy(t)
  \/ Interrupt

(***************************************************************************)
(* Fairness: the second half of sched_switch is straight-line code, and a  *)
(* thread's kernel code is finite between two blocking calls, so the       *)
(* current thread gives up the CPU at some time.  A thread that spins in   *)
(* user mode without a system call is outside this: nothing preempts it.   *)
(***************************************************************************)
SchedSpec ==
  /\ SchedInit /\ [][SchedNext]_schedVars
  /\ WF_schedVars(sched_switch)
  /\ WF_schedVars(GiveUpCpu)
-----------------------------------------------------------------------------
(***************************************************************************)
(* Properties.                                                             *)
(***************************************************************************)

\* s is a list of exactly the threads whose wait channel is q, each once.
ListsThreadsOf(s, q, wchan) ==
  /\ \A i \in 1..Len(s) : wchan[s[i]] = q
  /\ \A i, j \in 1..Len(s) : s[i] = s[j] => i = j
  /\ \A t \in Thread : wchan[t] = q => \E i \in 1..Len(s) : s[i] = t

\* kt_wchan and the lists agree: a thread is on the list of its kt_wchan,
\* once, and on no other.  ktqueue_remove and sched_cancel trust kt_wchan to
\* say where kt_qlink is linked; a stale one would unlink from a wrong list.
QueuesMatchWchan ==
  \A q \in AllQueue : ListsThreadsOf(tq_list[q], q, kt_wchan)

\* "Unless the thread is in the KT_NO_STATE or KT_EXITED state, it should be
\* on some queue.  Otherwise, it will never be run again" (sched.c, above
\* sched_cancel): whoever is alive and not executing is on the run queue if
\* KT_RUN and on a wait queue if asleep, through every order of wake-ups,
\* cancellations and interrupts.
NoLostThread ==
  \A t \in Thread :
    /\ kt_state[t] = "KT_RUN" /\ ~(Executing /\ t = curthr) => kt_wchan[t] = kt_runq
    /\ kt_state[t] \in Sleeping => kt_wchan[t] \in Queue

\* The scheduler's own KASSERTs, of sched_wakeup_on, ktqueue_enqueue,
\* sched_make_runnable and kthread_exit, cannot fail: waiters are asleep, and
\* the thread that executes is on no queue, so it may be enqueued anywhere.
\* Those that depend on the caller fail for no other reason than the one they
\* name: sched_sleep_on's if curthr has called kthread_exit, sched_cancel's if
\* its thread has exited or was never made runnable.  And the stack the CPU is
\* on is never freed: a thread that has exited keeps executing proc_cleanup and
\* the loop of sched_switch on its own kernel stack.
AssertionsHold ==
  /\ \A t \in Thread : kt_wchan[t] \in Queue => kt_state[t] \in Sleeping
  /\ \A t \in Thread : kt_wchan[t] = kt_runq => kt_state[t] = "KT_RUN"
  /\ ~in_switch => kt_state[curthr] \in {"KT_RUN", "KT_EXITED"} /\ kt_wchan[curthr] = NULL
  /\ \A t \in Thread \ {curthr} : kt_state[t] \in Sleeping \cup {"KT_RUN"} => kt_wchan[t] # NULL
  /\ kt_state[curthr] # "unallocated"

\* A cancellation is never slept through: no cancelled thread is, or stays,
\* in a cancellable sleep, whether kthread_cancel came before the sleep, in
\* it, or between its end and the thread's next turn on the CPU.
CancelledNotAsleep ==
  \A t \in Thread : kt_state[t] = "KT_SLEEP_CANCELLABLE" => ~kt_cancelled[t]

\* The run queue is served in order: every runnable thread is executed, no
\* matter what the others do with the queues in the meantime.
RunnableRuns ==
  \A t \in Thread : kt_wchan[t] = kt_runq ~> (curthr = t /\ Executing)
-----------------------------------------------------------------------------
\* All the structural invariants together: inductive (see ThreadProofs).
SchedInv ==
  /\ SchedTypeOK
  /\ QueuesMatchWchan
  /\ NoLostThread
  /\ AssertionsHold
  /\ CancelledNotAsleep
=============================================================================
