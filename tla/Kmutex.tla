------------------------------- MODULE Kmutex -------------------------------
(***************************************************************************)
(* The kernel mutex (kmutex.c) on top of the scheduler.                    *)
(*                                                                         *)
(* A mutex is identified with its wait queue km_waitq.  The code records   *)
(* the owner in km_holder; the callers know only what the lock functions   *)
(* return.  owned keeps that second view, what each thread was told, so    *)
(* that the two can be compared: a kernel thread that was told it has the  *)
(* mutex enters its critical section and will call kmutex_unlock, and one  *)
(* that was told -EINTR goes away without it.                              *)
(*                                                                         *)
(* kmutex.c does the same in the three kernels of the repository, but the  *)
(* cancellable sleep it relies on does not return the same value: Release  *)
(* says which sched.c is below.                                            *)
(***************************************************************************)
EXTENDS Sched

CONSTANTS Mutex,     \* the kmutex_t objects, named by their km_waitq
          LockCall,  \* the lock functions the callers use
          Release    \* "procs" (procs-submit, vfs-submit) or "vm" (vm-submit)

\* "Mutexes can _NEVER_ be locked or unlocked from an interrupt context."
ASSUME KmutexAssumption ==
  /\ Mutex \subseteq Queue \ IntrQueue
  /\ LockCall \subseteq {"kmutex_lock", "kmutex_lock_cancellable"}
  /\ Release \in {"procs", "vm"}

VARIABLES km_holder, \* kmutex_t.km_holder
          lockcall,  \* the lock function a thread sleeps in, or "none"
          locking,   \* the mutex of that call
          owned      \* the mutexes the lock calls have told a thread it has

mutexVars == <<km_holder, lockcall, locking, owned>>

kmVars == <<schedVars, mutexVars>>

\* The state keeps its type: a thread is in one lock call on one mutex at most,
\* and a holder is a thread or nobody.
KmutexTypeOK ==
  /\ SchedTypeOK
  /\ km_holder \in [Mutex -> Thread \cup {NULL}]
  /\ lockcall \in [Thread -> LockCall \cup {"none"}]
  /\ locking \in [Thread -> Mutex \cup {NULL}]
  /\ owned \in [Thread -> SUBSET Mutex]

\* kmutex_init for every mutex.
KmutexInit ==
  /\ SchedInit
  /\ km_holder = [m \in Mutex |-> NULL]
  /\ lockcall = [t \in Thread |-> "none"]
  /\ locking = [t \in Thread |-> NULL]
  /\ owned = [t \in Thread |-> {}]
-----------------------------------------------------------------------------
\* Mutant of kmutex_take: the mutex is taken whether it is free or not.
TakeWithoutTest(m) ==
  /\ Executing
  /\ m \notin owned[curthr]
  /\ km_holder' = [km_holder EXCEPT ![m] = curthr]
  /\ owned' = [owned EXCEPT ![curthr] = @ \cup {m}]
  /\ UNCHANGED <<schedVars, lockcall, locking>>

(***************************************************************************)
(* Locking.  A free mutex is taken at once, by either function.            *)
(***************************************************************************)
kmutex_take(m) ==
  /\ Executing
  /\ m \notin owned[curthr]
  /\ km_holder[m] = NULL
  /\ km_holder' = [km_holder EXCEPT ![m] = curthr]
  /\ owned' = [owned EXCEPT ![curthr] = @ \cup {m}]
  /\ UNCHANGED <<schedVars, lockcall, locking>>

(***************************************************************************)
(* A mutex that is held is waited for.  The KASSERT that curthr is not the *)
(* holder is in the guard.  A thread that is cancelled gets -EINTR from    *)
(* the cancellable call without sleeping, which changes nothing.           *)
(***************************************************************************)
kmutex_lock(m) ==
  /\ "kmutex_lock" \in LockCall
  /\ m \notin owned[curthr]
  /\ km_holder[m] \notin {NULL, curthr}
  /\ sched_sleep_on(m)
  /\ lockcall' = [lockcall EXCEPT ![curthr] = "kmutex_lock"]
  /\ locking' = [locking EXCEPT ![curthr] = m]
  /\ UNCHANGED <<km_holder, owned>>

kmutex_lock_cancellable(m) ==
  /\ "kmutex_lock_cancellable" \in LockCall
  /\ m \notin owned[curthr]
  /\ km_holder[m] \notin {NULL, curthr}
  /\ sched_cancellable_sleep_on(m)
  /\ lockcall' = [lockcall EXCEPT ![curthr] = "kmutex_lock_cancellable"]
  /\ locking' = [locking EXCEPT ![curthr] = m]
  /\ UNCHANGED <<km_holder, owned>>

\* Mutants of kmutex_unlock: waiters are ignored, nothing is done if there are
\* any, or the last one is taken.
UnlockFor(m, holder) ==
  /\ Executing
  /\ m \in owned[curthr]
  /\ km_holder[m] = curthr
  /\ owned' = [owned EXCEPT ![curthr] = @ \ {m}]
  /\ km_holder' = [km_holder EXCEPT ![m] = holder]
  /\ UNCHANGED <<schedVars, lockcall, locking>>

UnlockOnly(m) == UnlockFor(m, NULL)

UnlockOnlyIfAlone(m) == sched_queue_empty(m) /\ UnlockOnly(m)

UnlockToLast(m) ==
  \/ sched_queue_empty(m) /\ UnlockOnly(m)
  \/ LET n == Len(tq_list[m])
         t == tq_list[m][n]
     IN  /\ Executing
         /\ ~sched_queue_empty(m)
         /\ m \in owned[curthr]
         /\ km_holder[m] = curthr
         /\ owned' = [owned EXCEPT ![curthr] = @ \ {m}]
         /\ km_holder' = [km_holder EXCEPT ![m] = t]
         /\ MakeRunnable(t)
         /\ tq_list' = [tq_list EXCEPT ![m] = SubSeq(@, 1, n - 1), ![kt_runq] = Append(@, t)]
         /\ UNCHANGED <<kt_cancelled, curthr, in_switch, lockcall, locking>>

(***************************************************************************)
(* kmutex_unlock hands the mutex to the thread sched_wakeup_on wakes.  The *)
(* guard is its KASSERT and the callers' discipline.                       *)
(***************************************************************************)
kmutex_unlock(m) ==
  /\ Executing
  /\ m \in owned[curthr]
  /\ km_holder[m] = curthr
  /\ owned' = [owned EXCEPT ![curthr] = @ \ {m}]
  /\ UNCHANGED <<lockcall, locking>>
  /\ \/ /\ sched_queue_empty(m)
        /\ km_holder' = [km_holder EXCEPT ![m] = NULL]
        /\ UNCHANGED schedVars
     \/ /\ ~sched_queue_empty(m)
        /\ km_holder' = [km_holder EXCEPT ![m] = Head(tq_list[m])]
        /\ sched_wakeup_on(m)
-----------------------------------------------------------------------------
(***************************************************************************)
(* Returning from a lock call, which happens when the sleeper is switched  *)
(* to.  kmutex_lock returns nothing: its caller goes on as the owner.      *)
(* kmutex_lock_cancellable returns the result of the cancellable sleep,    *)
(* which the caller takes for ownership if it is 0.  In vm-submit it is 0  *)
(* whenever the thread has slept; in procs-submit it is -EINTR if          *)
(* kt_cancelled is set by then.                                            *)
(***************************************************************************)
ReturnsZero_vm(t) == TRUE

ReturnsZero_procs(t) == ~kt_cancelled[t]

\* Mutant of ReturnsOwner: kmutex_lock gives up too when cancelled.
ReturnsInterrupted(t) == lockcall[t] # "none" /\ ~kt_cancelled[t]

ReturnsOwner(t) ==
  CASE lockcall[t] = "none"        -> FALSE
    [] lockcall[t] = "kmutex_lock" -> TRUE
    [] OTHER -> IF Release = "vm" THEN ReturnsZero_vm(t) ELSE ReturnsZero_procs(t)

SwitchAndReturn ==
  /\ sched_switch
  /\ owned' = [owned EXCEPT ![curthr'] = IF ReturnsOwner(curthr')
                                           THEN @ \cup {locking[curthr']} ELSE @]
  /\ lockcall' = [lockcall EXCEPT ![curthr'] = "none"]
  /\ locking' = [locking EXCEPT ![curthr'] = NULL]
  /\ UNCHANGED km_holder
-----------------------------------------------------------------------------
(***************************************************************************)
(* Everything else the threads do: they sleep on other queues, also with a *)
(* mutex in hand, yield, cancel each other, and exit, the last without a   *)
(* mutex.  While it exits a thread may lock a free mutex too, and unlocks  *)
(* it before anybody else executes: that changes nothing.  (A mutex that   *)
(* is held it cannot wait for, see Proc.)                                  *)
(***************************************************************************)
OtherSleep == \E q \in Queue \ Mutex : sched_sleep_on(q) \/ sched_cancellable_sleep_on(q)

ExitWithoutMutex == owned[curthr] = {} /\ kthread_exit

OtherThreadStep ==
  \/ thr_yield
  \/ proc_thread_exited
  \/ \E q \in Queue \ Mutex : ~in_switch /\ (sched_wakeup_on(q) \/ sched_broadcast_on(q))
  \/ \E t \in Thread : \/ sched_cancel(t)
                       \/ kthread_create(t)
                       \/ sched_make_runnable(t)
                       \/ kthread_destroy(t)

KmutexNext ==
  \/ \E m \in Mutex : \/ kmutex_take(m)
                      \/ kmutex_lock(m)
                      \/ kmutex_lock_cancellable(m)
                      \/ kmutex_unlock(m)
  \/ SwitchAndReturn
  \/ (OtherSleep \/ ExitWithoutMutex \/ OtherThreadStep \/ Interrupt) /\ UNCHANGED mutexVars

GiveUpCpuOrBlock ==
  \/ \E m \in Mutex : kmutex_lock(m) \/ kmutex_lock_cancellable(m)
  \/ (OtherSleep \/ ExitWithoutMutex \/ proc_thread_exited \/ thr_yield) /\ UNCHANGED mutexVars

(***************************************************************************)
(* Fairness: the scheduler's, as in Sched.  Devices answer: who sleeps on  *)
(* another queue is woken some time.  And critical sections are finite:    *)
(* a thread that has a mutex and runs again and again unlocks it.          *)
(***************************************************************************)
KmutexFairness ==
  /\ WF_kmVars(SwitchAndReturn)
  /\ WF_kmVars(GiveUpCpuOrBlock)
  /\ \A q \in Queue \ Mutex : WF_kmVars(sched_broadcast_on(q) /\ UNCHANGED mutexVars)
  /\ \A t \in Thread, m \in Mutex : SF_kmVars(curthr = t /\ kmutex_unlock(m))

KmutexSpec == KmutexInit /\ [][KmutexNext]_kmVars

KmutexLiveSpec == KmutexSpec /\ KmutexFairness
-----------------------------------------------------------------------------
(***************************************************************************)
(* Properties.                                                             *)
(***************************************************************************)

\* Mutual exclusion, as the callers see it: who was told that it has the
\* mutex is its holder (so at most one thread is), through every order of
\* unlocks, hand-offs to sleeping threads and cancellations.  This is
\* kmutex_unlock's KASSERT(curthr == mtx->km_holder) at the time it matters.
OwnerHolds ==
  \A t \in Thread : \A m \in owned[t] : km_holder[m] = t

\* The holder of a mutex knows that it is, or is about to be told when it gets
\* the CPU.
Known(m) ==
  LET t == km_holder[m]
  IN  t # NULL => m \in owned[t] \/ (locking[t] = m /\ kt_wchan[t] = kt_runq)

\* A mutex gets a holder that does not know of it in one case only: a thread is
\* cancelled between the unlock that handed it the mutex and its turn on the
\* CPU, and kmutex_lock_cancellable tells it -EINTR.  That thread never unlocks,
\* and trips KASSERT(curthr != mtx->km_holder) if it locks again.
HolderOwns ==
  [][\A m \in Mutex : Known(m) /\ ~Known(m)' =>
       /\ km_holder'[m] = curthr' /\ kt_cancelled[curthr']
       /\ lockcall[curthr'] = "kmutex_lock_cancellable"]_kmVars

\* Nobody waits for a free mutex, and a thread asleep on a mutex is not the
\* one everybody waits for: kmutex_unlock's test and hand-off leave no state
\* between "free" and "owned by the first waiter" behind.
WaitersBehindHolder ==
  \A m \in Mutex : ~sched_queue_empty(m) =>
    km_holder[m] # NULL /\ km_holder[m] \notin Members(m)

\* "the thread on the head of the mutex's wait queue becomes the new owner":
\* a mutex never changes hands past a thread that has waited longer, neither
\* to a later waiter nor to a newcomer in kmutex_lock.
NoBarging ==
  [][\A m \in Mutex : km_holder'[m] # km_holder[m] /\ tq_list[m] # <<>>
                        => km_holder'[m] = Head(tq_list[m])]_kmVars

\* Every kmutex_lock returns: with one mutex and finite critical sections no
\* waiter starves, whatever the other threads do, unless the mutex is lost
\* to a cancelled thread.
LockReturns ==
  \A t \in Thread : lockcall[t] = "kmutex_lock" ~> (lockcall[t] = "none" \/ \E m \in Mutex : ~Known(m))

\* Who is in a lock call sleeps on its mutex, or is on the run queue because it was
\* handed the mutex or was cancelled in kmutex_lock_cancellable; nobody else is on
\* a mutex's queue, and kmutex_lock's sleep is one that sched_cancel leaves alone.
LockersAccounted ==
  \A t \in Thread :
    /\ lockcall[t] = "none" <=> locking[t] = NULL
    /\ kt_wchan[t] \in Mutex =>
         /\ locking[t] = kt_wchan[t]
         /\ lockcall[t] = "kmutex_lock" => kt_state[t] = "KT_SLEEP"
    /\ locking[t] # NULL /\ kt_wchan[t] # locking[t] =>
         /\ kt_wchan[t] = kt_runq
         /\ \/ km_holder[locking[t]] = t
            \/ lockcall[t] = "kmutex_lock_cancellable" /\ kt_cancelled[t]

\* Mutual exclusion, the state of the wait queues and where lockers are, on top of
\* the scheduler's invariant: inductive (see KmutexProofs).
KmutexInv ==
  SchedInv /\ KmutexTypeOK /\ OwnerHolds /\ WaitersBehindHolder /\ LockersAccounted
=============================================================================
