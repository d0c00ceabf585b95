---------------------------- MODULE ThreadProofs ----------------------------
(***************************************************************************)
(* Proofs about the three modules that share the scheduler's state, Sched, *)
(* Kmutex and Proc, and about the calls of user threads, Syscall, for any  *)
(* number of threads, queues, mutexes, user processes and buffers.         *)
(*                                                                         *)
(* Sched: SchedInv is inductive as it stands.  The three list operations   *)
(* are dealt with once, in lemmas about one list s of one queue q: what a  *)
(* list that holds exactly q's threads becomes when a thread's wait        *)
(* channel changes together with the list.  An action then only has to say *)
(* which thread moves from which queue to which.                           *)
(*                                                                         *)
(* Kmutex: every step of the mutex is a step of the scheduler or leaves it *)
(* alone, so SchedInv is inherited.  The rest of KmutexInv is stated on    *)
(* wait channels instead of lists (Behind), which the queues follow by     *)
(* QueuesMatchWchan.                                                       *)
(*                                                                         *)
(* Proc: the process tree, the pids, the calls of threads and the queues   *)
(* stay consistent together, no exit is missed, and panics have causes.    *)
(* The invariant falls into parts over few variables each; the             *)
(* scheduler's part is SchedInv.                                           *)
(*                                                                         *)
(* Syscall: a step changes the locals of one thread, so everything is      *)
(* reduced to one record (MoveInv): it must be a good one for its place in *)
(* the call, and buffers must have gone in or out of it with used and      *)
(* lost.                                                                   *)
(***************************************************************************)
EXTENDS Kmutex, Proc, Syscall, LibraryProofs

(***************************************************************************)
(* The scheduler.                                                          *)
(***************************************************************************)

(***************************************************************************)
(* A list keeps matching its queue when nobody's wait channel enters or    *)
(* leaves the queue.                                                       *)
(***************************************************************************)
LEMMA SameList ==
  ASSUME NEW s \in Seq(Thread), NEW q, NEW w, NEW w2,
         ListsThreadsOf(s, q, w),
         \A u \in Thread : w2[u] = q <=> w[u] = q
  PROVE  ListsThreadsOf(s, q, w2)
  BY DEF ListsThreadsOf

(***************************************************************************)
(* ktqueue_enqueue of a thread that was on another queue or on none.       *)
(***************************************************************************)
LEMMA EnqueuedList ==
  ASSUME NEW s \in Seq(Thread), NEW q, NEW w, NEW w2, NEW t \in Thread,
         ListsThreadsOf(s, q, w),
         w[t] # q, w2[t] = q,
         \A u \in Thread \ {t} : w2[u] = q <=> w[u] = q
  PROVE  /\ ktqueue_enqueue(s, t) \in Seq(Thread)
         /\ ListsThreadsOf(ktqueue_enqueue(s, t), q, w2)
<1> DEFINE s2 == Append(s, t)
<1>1. /\ s2 \in Seq(Thread)
      /\ Len(s2) = Len(s) + 1
      /\ s2[Len(s) + 1] = t
      /\ \A i \in 1..Len(s) : s2[i] = s[i] /\ s[i] \in Thread
      /\ Len(s) \in Nat
  OBVIOUS
<1>2. \A i \in 1..Len(s) : s[i] # t
  BY DEF ListsThreadsOf
<1>3. ListsThreadsOf(s2, q, w2)
  <2> HIDE DEF s2
  <2>1. \A i \in 1..Len(s2) : w2[s2[i]] = q
    BY <1>1, <1>2 DEF ListsThreadsOf
  <2>2. \A i, j \in 1..Len(s2) : s2[i] = s2[j] => i = j
    BY <1>1, <1>2 DEF ListsThreadsOf
  <2>3. ASSUME NEW u \in Thread, w2[u] = q
        PROVE  \E i \in 1..Len(s2) : s2[i] = u
    <3>1. CASE u = t
      BY <1>1, <3>1
    <3>2. CASE u # t
      <4>1. PICK i \in 1..Len(s) : s[i] = u
        BY <2>3, <3>2 DEF ListsThreadsOf
      <4>2. i \in 1..Len(s2) /\ s2[i] = u
        BY <1>1, <4>1
      <4> QED BY <4>2
    <3> QED BY <3>1, <3>2
  <2> QED BY <2>1, <2>2, <2>3 DEF ListsThreadsOf
<1> QED BY <1>1, <1>3 DEF ktqueue_enqueue

(***************************************************************************)
(* ktqueue_dequeue when the thread at the front leaves the queue.          *)
(***************************************************************************)
LEMMA DequeuedList ==
  ASSUME NEW s \in Seq(Thread), NEW q, NEW w, NEW w2, s # <<>>,
         ListsThreadsOf(s, q, w),
         w2[Head(s)] # q,
         \A u \in Thread \ {Head(s)} : w2[u] = q <=> w[u] = q
  PROVE  /\ ktqueue_dequeue(s) \in Seq(Thread)
         /\ ListsThreadsOf(ktqueue_dequeue(s), q, w2)
<1> DEFINE s2 == Tail(s)
<1>1. /\ s2 \in Seq(Thread)
      /\ Len(s) \in Nat /\ Len(s) > 0
      /\ Len(s2) = Len(s) - 1
      /\ Head(s) = s[1]
      /\ \A i \in 1..Len(s) : s[i] \in Thread
      /\ \A i \in 1..Len(s2) : s2[i] = s[i + 1]
  OBVIOUS
<1>2. ListsThreadsOf(s2, q, w2)
  <2> HIDE DEF s2
  <2>1. \A i \in 1..Len(s2) : w2[s2[i]] = q
    <3> TAKE i \in 1..Len(s2)
    <3>1. i + 1 \in 1..Len(s) /\ i + 1 # 1 /\ s[i + 1] # s[1]
      BY <1>1 DEF ListsThreadsOf
    <3> QED BY <1>1, <3>1 DEF ListsThreadsOf
  <2>2. \A i, j \in 1..Len(s2) : s2[i] = s2[j] => i = j
    <3> TAKE i, j \in 1..Len(s2)
    <3>1. i + 1 \in 1..Len(s) /\ j + 1 \in 1..Len(s)
      BY <1>1
    <3>2. s[i + 1] = s[j + 1] => i + 1 = j + 1
      BY <3>1 DEF ListsThreadsOf
    <3>3. s2[i] = s[i + 1] /\ s2[j] = s[j + 1]
      BY <1>1
    <3>4. i \in Nat /\ j \in Nat
      BY <1>1
    <3> QED BY <3>2, <3>3, <3>4
  <2>3. ASSUME NEW u \in Thread, w2[u] = q
        PROVE  \E i \in 1..Len(s2) : s2[i] = u
    <3>1. PICK i \in 1..Len(s) : s[i] = u
      BY <2>3, <1>1 DEF ListsThreadsOf
    <3>2. i # 1
      BY <1>1, <2>3, <3>1
    <3>3. i - 1 \in 1..Len(s2) /\ s2[i - 1] = u
      BY <1>1, <3>1, <3>2
    <3> QED BY <3>3
  <2> QED BY <2>1, <2>2, <2>3 DEF ListsThreadsOf
<1> QED BY <1>1, <1>2 DEF ktqueue_dequeue

(***************************************************************************)
(* ktqueue_remove of a list's member leaves a list of threads.             *)
(***************************************************************************)
LEMMA RemovedSeq ==
  ASSUME NEW s \in Seq(Thread), NEW t, NEW i \in 1..Len(s), s[i] = t
  PROVE  ktqueue_remove(s, t) \in Seq(Thread)
<1> DEFINE k == CHOOSE j \in 1..Len(s) : s[j] = t
           s2 == [j \in 1..(Len(s) - 1) |-> IF j < k THEN s[j] ELSE s[j + 1]]
<1>1. k \in 1..Len(s)
  OBVIOUS
<1>2. ktqueue_remove(s, t) = s2
  BY DEF ktqueue_remove
<1> HIDE DEF k
<1>3. Len(s) - 1 \in Nat /\ \A j \in 1..Len(s) : s[j] \in Thread
  OBVIOUS
<1>4. \A j \in 1..(Len(s) - 1) : (IF j < k THEN s[j] ELSE s[j + 1]) \in Thread
  BY <1>1, <1>3
<1>5. s2 \in Seq(Thread)
  BY <1>3, <1>4
<1> QED BY <1>2, <1>5

(***************************************************************************)
(* ktqueue_remove of a thread of the queue, wherever it stands.            *)
(***************************************************************************)
LEMMA RemovedList ==
  ASSUME NEW s \in Seq(Thread), NEW q, NEW w, NEW w2, NEW t \in Thread,
         ListsThreadsOf(s, q, w),
         w[t] = q, w2[t] # q,
         \A u \in Thread \ {t} : w2[u] = q <=> w[u] = q
  PROVE  /\ ktqueue_remove(s, t) \in Seq(Thread)
         /\ ListsThreadsOf(ktqueue_remove(s, t), q, w2)
<1> DEFINE k == CHOOSE i \in 1..Len(s) : s[i] = t
           s2 == [j \in 1..(Len(s) - 1) |-> IF j < k THEN s[j] ELSE s[j + 1]]
<1>1. k \in 1..Len(s) /\ s[k] = t
  BY DEF ListsThreadsOf
<1>2. ktqueue_remove(s, t) = s2
  BY DEF ktqueue_remove
<1> HIDE DEF k
<1>3. Len(s) \in Nat /\ Len(s) > 0 /\ \A i \in 1..Len(s) : s[i] \in Thread
  BY <1>1
<1>4. /\ s2 \in Seq(Thread)
      /\ Len(s2) = Len(s) - 1
      /\ \A j \in 1..(Len(s) - 1) : s2[j] = IF j < k THEN s[j] ELSE s[j + 1]
  <2>1. Len(s) - 1 \in Nat
    BY <1>3
  <2>2. \A j \in 1..(Len(s) - 1) : (IF j < k THEN s[j] ELSE s[j + 1]) \in Thread
    BY <1>1, <1>3
  <2> QED BY <2>1, <2>2
<1>5. ListsThreadsOf(s2, q, w2)
  <2> HIDE DEF s2
  <2> DEFINE at(i) == IF i < k THEN i ELSE i + 1
  <2>0. \A i \in 1..Len(s2) : at(i) \in 1..Len(s) /\ at(i) # k /\ s2[i] = s[at(i)]
    <3> TAKE i \in 1..Len(s2)
    <3>1. i \in 1..(Len(s) - 1) /\ at(i) \in 1..Len(s) /\ at(i) # k
      BY <1>1, <1>3, <1>4
    <3>2. s2[i] = IF i < k THEN s[i] ELSE s[i + 1]
      BY <1>4, <3>1
    <3> QED BY <3>1, <3>2
  <2>4. \A i, j \in 1..Len(s2) : at(i) = at(j) => i = j
    BY <1>1, <1>3, <1>4
  <2> HIDE DEF at
  <2>1. \A i \in 1..Len(s2) : w2[s2[i]] = q
    <3> TAKE i \in 1..Len(s2)
    <3>1. PICK m \in 1..Len(s) : s2[i] = s[m] /\ m # k
      BY <2>0
    <3>2. s[m] # t /\ w[s[m]] = q
      BY <1>1, <3>1 DEF ListsThreadsOf
    <3> QED BY <1>3, <3>1, <3>2
  <2>2. \A i, j \in 1..Len(s2) : s2[i] = s2[j] => i = j
    <3> TAKE i, j \in 1..Len(s2)
    <3>1. PICK a \in 1..Len(s) : a = at(i) /\ s2[i] = s[a]
      BY <2>0
    <3>2. PICK b \in 1..Len(s) : b = at(j) /\ s2[j] = s[b]
      BY <2>0
    <3>3. s[a] = s[b] => a = b
      BY DEF ListsThreadsOf
    <3> QED BY <2>4, <3>1, <3>2, <3>3
  <2>3. ASSUME NEW u \in Thread, w2[u] = q
        PROVE  \E i \in 1..Len(s2) : s2[i] = u
    <3>1. PICK i \in 1..Len(s) : s[i] = u
      BY <2>3 DEF ListsThreadsOf
    <3>2. i # k
      BY <1>1, <2>3, <3>1
    <3>3. CASE i < k
      BY <1>1, <1>3, <1>4, <3>1, <3>3
    <3>4. CASE i > k
      <4>1. i - 1 \in 1..Len(s2) /\ s2[i - 1] = u
        BY <1>1, <1>3, <1>4, <3>1, <3>4
      <4> QED BY <4>1
    <3> QED BY <1>1, <3>2, <3>3, <3>4
  <2> QED BY <2>1, <2>2, <2>3 DEF ListsThreadsOf
<1> QED BY <1>2, <1>4, <1>5

(***************************************************************************)
(* The run queue after sched_broadcast_on: all of q's threads behind its   *)
(* own.                                                                    *)
(***************************************************************************)
LEMMA ConcatenatedList ==
  ASSUME NEW r \in Seq(Thread), NEW s \in Seq(Thread),
         NEW q, NEW rq, NEW w, NEW w2, q # rq,
         ListsThreadsOf(r, rq, w), ListsThreadsOf(s, q, w),
         \A u \in Thread : w2[u] = rq <=> w[u] \in {q, rq}
  PROVE  /\ r \o s \in Seq(Thread)
         /\ ListsThreadsOf(r \o s, rq, w2)
<1> DEFINE s2 == r \o s
<1>1. /\ s2 \in Seq(Thread)
      /\ Len(r) \in Nat /\ Len(s) \in Nat
      /\ Len(s2) = Len(r) + Len(s)
      /\ \A i \in 1..Len(r) : s2[i] = r[i] /\ r[i] \in Thread
      /\ \A i \in 1..Len(s) : s[i] \in Thread
      /\ \A i \in 1..Len(s2) : i > Len(r) => s2[i] = s[i - Len(r)]
  OBVIOUS
<1>2. ListsThreadsOf(s2, rq, w2)
  <2> HIDE DEF s2
  <2>1. \A i \in 1..Len(s2) : w2[s2[i]] = rq
    <3> TAKE i \in 1..Len(s2)
    <3>1. CASE i \in 1..Len(r)
      BY <1>1, <3>1 DEF ListsThreadsOf
    <3>2. CASE i > Len(r)
      <4>1. i - Len(r) \in 1..Len(s)
        BY <1>1, <3>2
      <4> QED BY <1>1, <3>2, <4>1, ZenonT(60) DEF ListsThreadsOf
    <3> QED BY <1>1, <3>1, <3>2
  <2>2. \A i, j \in 1..Len(s2) : s2[i] = s2[j] => i = j
    <3> SUFFICES ASSUME NEW i \in 1..Len(s2), NEW j \in 1..Len(s2), s2[i] = s2[j]
                 PROVE  i = j
      OBVIOUS
    <3>1. CASE i \in 1..Len(r) /\ j \in 1..Len(r)
      BY <1>1, <3>1 DEF ListsThreadsOf
    <3>2. CASE i > Len(r) /\ j > Len(r)
      <4>1. i - Len(r) \in 1..Len(s) /\ j - Len(r) \in 1..Len(s)
        BY <1>1, <3>2
      <4>2. s[i - Len(r)] = s[j - Len(r)]
        BY <1>1, <3>2
      <4>3. i - Len(r) = j - Len(r)
        BY <4>1, <4>2 DEF ListsThreadsOf
      <4> QED BY <1>1, <4>3
    <3>3. CASE i \in 1..Len(r) /\ j > Len(r)
      <4>1. j - Len(r) \in 1..Len(s)
        BY <1>1, <3>3
      <4>2. w[s2[i]] = rq /\ w[s2[j]] = q
        BY <1>1, <3>3, <4>1, ZenonT(60) DEF ListsThreadsOf
      <4> QED BY <4>2
    <3>4. CASE j \in 1..Len(r) /\ i > Len(r)
      <4>1. i - Len(r) \in 1..Len(s)
        BY <1>1, <3>4
      <4>2. w[s2[j]] = rq /\ w[s2[i]] = q
        BY <1>1, <3>4, <4>1, ZenonT(60) DEF ListsThreadsOf
      <4> QED BY <4>2
    <3> QED BY <1>1, <3>1, <3>2, <3>3, <3>4
  <2>3. ASSUME NEW u \in Thread, w2[u] = rq
        PROVE  \E i \in 1..Len(s2) : s2[i] = u
    <3>1. CASE w[u] = rq
      <4>1. PICK i \in 1..Len(r) : r[i] = u
        BY <3>1 DEF ListsThreadsOf
      <4>2. i \in 1..Len(s2) /\ s2[i] = u
        BY <1>1, <4>1
      <4> QED BY <4>2
    <3>2. CASE w[u] = q
      <4>1. PICK i \in 1..Len(s) : s[i] = u
        BY <3>2 DEF ListsThreadsOf
      <4>2. i + Len(r) \in 1..Len(s2) /\ i + Len(r) > Len(r) /\ (i + Len(r)) - Len(r) = i
        BY <1>1
      <4>3. s2[i + Len(r)] = s[(i + Len(r)) - Len(r)]
        BY <1>1, <4>2
      <4>4. s2[i + Len(r)] = u
        BY <4>1, <4>2, <4>3
      <4> QED BY <4>2, <4>4
    <3> QED BY <2>3, <3>1, <3>2
  <2> QED BY <2>1, <2>2, <2>3 DEF ListsThreadsOf
<1> QED BY <1>1, <1>2

-----------------------------------------------------------------------------
(***************************************************************************)
(* Initially no thread waits and every list is empty.                      *)
(***************************************************************************)
LEMMA InitInv == SchedInit => SchedInv
<1> SUFFICES ASSUME SchedInit PROVE SchedInv
  OBVIOUS
<1> USE SchedAssumption DEF SchedInit, AllQueue
<1>1. SchedTypeOK
  <2>1. tq_list \in [AllQueue -> Seq(Thread)] /\ kt_state \in [Thread -> State]
    BY DEF State
  <2>2. kt_wchan \in [Thread -> AllQueue \cup {NULL}]
    OBVIOUS
  <2>3. kt_cancelled \in [Thread -> BOOLEAN] /\ in_switch \in BOOLEAN /\ curthr \in Thread
    BY Zenon
  <2> QED BY <2>1, <2>2, <2>3 DEF SchedTypeOK
<1>2. QueuesMatchWchan
  BY DEF QueuesMatchWchan, ListsThreadsOf
<1>3. NoLostThread /\ AssertionsHold /\ CancelledNotAsleep
  BY DEF NoLostThread, AssertionsHold, CancelledNotAsleep, Executing, Sleeping
<1> QED BY <1>1, <1>2, <1>3 DEF SchedInv

(***************************************************************************)
(* The current thread goes to sleep on a queue, in either way.             *)
(***************************************************************************)
LEMMA SleepInv ==
  ASSUME SchedInv, NEW q \in Queue,
         sched_sleep_on(q) \/ sched_cancellable_sleep_on(q)
  PROVE  SchedInv'
<1> USE SchedAssumption
<1>0. /\ Executing
      /\ \E st \in Sleeping :
           /\ kt_state' = [kt_state EXCEPT ![curthr] = st]
           /\ st = "KT_SLEEP_CANCELLABLE" => ~kt_cancelled[curthr]
      /\ kt_wchan' = [kt_wchan EXCEPT ![curthr] = q]
      /\ tq_list' = [tq_list EXCEPT ![q] = ktqueue_enqueue(@, curthr)]
      /\ in_switch' = TRUE
      /\ UNCHANGED <<kt_cancelled, curthr>>
  BY DEF sched_sleep_on, sched_cancellable_sleep_on, Sleeping
<1>1. PICK st \in Sleeping :
           /\ kt_state' = [kt_state EXCEPT ![curthr] = st]
           /\ st = "KT_SLEEP_CANCELLABLE" => ~kt_cancelled[curthr]
  BY <1>0
<1>2. /\ kt_state[curthr] = "KT_RUN" /\ kt_wchan[curthr] = NULL
      /\ curthr \in Thread /\ q \in AllQueue /\ q # kt_runq /\ q # NULL
  BY <1>0 DEF SchedInv, AssertionsHold, SchedTypeOK, AllQueue, Executing
<1>3. /\ ktqueue_enqueue(tq_list[q], curthr) \in Seq(Thread)
      /\ ListsThreadsOf(ktqueue_enqueue(tq_list[q], curthr), q, kt_wchan')
  <2>1. tq_list[q] \in Seq(Thread) /\ ListsThreadsOf(tq_list[q], q, kt_wchan)
    BY <1>2 DEF SchedInv, QueuesMatchWchan, SchedTypeOK
  <2>2. PICK t \in Thread : t = curthr
    BY <1>2
  <2>3. kt_wchan'[t] = q /\ \A u \in Thread \ {t} : kt_wchan'[u] = kt_wchan[u]
    BY <1>0, <1>2, <2>2 DEF SchedInv, SchedTypeOK
  <2>4. kt_wchan[t] # q
    BY <1>2, <2>2
  <2>5. /\ ktqueue_enqueue(tq_list[q], t) \in Seq(Thread)
        /\ ListsThreadsOf(ktqueue_enqueue(tq_list[q], t), q, kt_wchan')
    BY <2>1, <2>3, <2>4, EnqueuedList
  <2> QED BY <2>2, <2>5
<1>4. SchedTypeOK'
  BY <1>0, <1>1, <1>2, <1>3 DEF SchedInv, SchedTypeOK, State
<1>5. QueuesMatchWchan'
  <2> SUFFICES ASSUME NEW p \in AllQueue PROVE ListsThreadsOf(tq_list'[p], p, kt_wchan')
    BY DEF QueuesMatchWchan
  <2>1. CASE p = q
    BY <1>0, <1>2, <1>3, <2>1 DEF SchedInv, SchedTypeOK
  <2>2. CASE p # q
    <3>1. tq_list'[p] = tq_list[p] /\ tq_list[p] \in Seq(Thread)
      BY <1>0, <2>2 DEF SchedInv, SchedTypeOK
    <3>2. \A u \in Thread : kt_wchan'[u] = p <=> kt_wchan[u] = p
      BY <1>0, <1>2, <2>2 DEF SchedInv, SchedTypeOK, AllQueue
    <3> QED BY <3>1, <3>2, SameList DEF SchedInv, QueuesMatchWchan
  <2> QED BY <2>1, <2>2
<1>6. NoLostThread' /\ AssertionsHold' /\ CancelledNotAsleep'
  BY <1>0, <1>1, <1>2
  DEF SchedInv, SchedTypeOK, NoLostThread, AssertionsHold, CancelledNotAsleep, Executing, Sleeping
<1> QED BY <1>4, <1>5, <1>6 DEF SchedInv

(***************************************************************************)
(* A thread that no queue holds becomes runnable.                          *)
(***************************************************************************)
LEMMA RunnableInv ==
  ASSUME SchedInv, NEW t \in Thread, kt_wchan[t] = NULL,
         MakeRunnable(t),
         tq_list' = [tq_list EXCEPT ![kt_runq] = ktqueue_enqueue(@, t)],
         UNCHANGED <<kt_cancelled, curthr>>,
         \/ in_switch' = TRUE /\ t = curthr
         \/ in_switch' = in_switch /\ t # curthr
  PROVE  SchedInv'
<1> USE SchedAssumption
<1>1. /\ kt_wchan' = [kt_wchan EXCEPT ![t] = kt_runq]
      /\ kt_state' = [kt_state EXCEPT ![t] = "KT_RUN"]
  BY DEF MakeRunnable
<1>2. /\ kt_wchan'[t] = kt_runq /\ kt_runq \in AllQueue /\ kt_runq # NULL
      /\ \A u \in Thread \ {t} : kt_wchan'[u] = kt_wchan[u]
  BY <1>1 DEF SchedInv, SchedTypeOK, AllQueue
<1>3. /\ ktqueue_enqueue(tq_list[kt_runq], t) \in Seq(Thread)
      /\ ListsThreadsOf(ktqueue_enqueue(tq_list[kt_runq], t), kt_runq, kt_wchan')
  <2>1. tq_list[kt_runq] \in Seq(Thread) /\ ListsThreadsOf(tq_list[kt_runq], kt_runq, kt_wchan)
    BY <1>2 DEF SchedInv, QueuesMatchWchan, SchedTypeOK
  <2> QED BY <1>2, <2>1, EnqueuedList, SMTT(60)
<1>4. SchedTypeOK'
  BY <1>1, <1>2, <1>3 DEF SchedInv, SchedTypeOK, State
<1>5. QueuesMatchWchan'
  <2> SUFFICES ASSUME NEW p \in AllQueue PROVE ListsThreadsOf(tq_list'[p], p, kt_wchan')
    BY DEF QueuesMatchWchan
  <2>1. CASE p = kt_runq
    BY <1>2, <1>3, <2>1 DEF SchedInv, SchedTypeOK
  <2>2. CASE p # kt_runq
    <3>1. tq_list'[p] = tq_list[p] /\ tq_list[p] \in Seq(Thread)
      BY <2>2 DEF SchedInv, SchedTypeOK
    <3>2. \A u \in Thread : kt_wchan'[u] = p <=> kt_wchan[u] = p
      BY <1>2, <2>2 DEF AllQueue
    <3> QED BY <3>1, <3>2, SameList DEF SchedInv, QueuesMatchWchan
  <2> QED BY <2>1, <2>2
<1>6. NoLostThread' /\ AssertionsHold' /\ CancelledNotAsleep'
  BY <1>1, <1>2
  DEF SchedInv, SchedTypeOK, NoLostThread, AssertionsHold, CancelledNotAsleep, Executing, Sleeping
<1> QED BY <1>4, <1>5, <1>6 DEF SchedInv

(***************************************************************************)
(* sched_switch takes the next thread off the run queue and resumes it.    *)
(***************************************************************************)
LEMMA SwitchInv ==
  ASSUME SchedInv, sched_switch
  PROVE  SchedInv'
<1> USE SchedAssumption
<1>1. PICK s \in Seq(Thread) : s = tq_list[kt_runq]
  BY DEF SchedInv, SchedTypeOK, AllQueue
<1>2. /\ s # <<>> /\ kt_runq \in AllQueue /\ kt_runq # NULL
      /\ ListsThreadsOf(s, kt_runq, kt_wchan)
  BY <1>1 DEF sched_switch, sched_queue_empty, SchedInv, QueuesMatchWchan, AllQueue
<1>3. PICK t \in Thread : t = Head(s)
  BY <1>2
<1>4. kt_wchan[t] = kt_runq
  BY <1>2, <1>3 DEF ListsThreadsOf
<1>5. /\ curthr' = t
      /\ kt_wchan' = [kt_wchan EXCEPT ![t] = NULL]
      /\ tq_list' = [tq_list EXCEPT ![kt_runq] = ktqueue_dequeue(s)]
      /\ in_switch /\ in_switch' = FALSE
      /\ UNCHANGED <<kt_state, kt_cancelled>>
  BY <1>1, <1>3 DEF sched_switch
<1>6. kt_wchan'[t] = NULL /\ \A u \in Thread \ {t} : kt_wchan'[u] = kt_wchan[u]
  BY <1>5 DEF SchedInv, SchedTypeOK
<1>7. /\ ktqueue_dequeue(s) \in Seq(Thread)
      /\ ListsThreadsOf(ktqueue_dequeue(s), kt_runq, kt_wchan')
  <2>1. /\ kt_wchan'[Head(s)] # kt_runq
        /\ \A u \in Thread \ {Head(s)} : kt_wchan'[u] = kt_runq <=> kt_wchan[u] = kt_runq
    BY <1>2, <1>3, <1>6
  <2> QED BY <1>2, <2>1, DequeuedList
<1>8. SchedTypeOK'
  BY <1>5, <1>7 DEF SchedInv, SchedTypeOK, AllQueue
<1>9. QueuesMatchWchan'
  <2> SUFFICES ASSUME NEW p \in AllQueue PROVE ListsThreadsOf(tq_list'[p], p, kt_wchan')
    BY DEF QueuesMatchWchan
  <2>1. CASE p = kt_runq
    BY <1>5, <1>7, <2>1 DEF SchedInv, SchedTypeOK
  <2>2. CASE p # kt_runq
    <3>1. tq_list'[p] = tq_list[p] /\ tq_list[p] \in Seq(Thread)
      BY <1>5, <2>2 DEF SchedInv, SchedTypeOK
    <3>2. \A u \in Thread : kt_wchan'[u] = p <=> kt_wchan[u] = p
      BY <1>4, <1>6, <2>2 DEF AllQueue
    <3> QED BY <3>1, <3>2, SameList DEF SchedInv, QueuesMatchWchan
  <2> QED BY <2>1, <2>2
<1>10. NoLostThread' /\ AssertionsHold' /\ CancelledNotAsleep'
  BY <1>2, <1>4, <1>5, <1>6
  DEF SchedInv, SchedTypeOK, NoLostThread, AssertionsHold, CancelledNotAsleep, Executing, Sleeping
<1> QED BY <1>8, <1>9, <1>10 DEF SchedInv

(***************************************************************************)
(* A thread leaves the wait queue q, whose list becomes s2, and joins the  *)
(* run queue: what sched_wakeup_on and sched_cancel have in common.        *)
(***************************************************************************)
LEMMA WokenInv ==
  ASSUME SchedInv, NEW q \in Queue, NEW t \in Thread, kt_wchan[t] = q,
         NEW s2 \in Seq(Thread), ListsThreadsOf(s2, q, kt_wchan'),
         MakeRunnable(t),
         tq_list' = [tq_list EXCEPT ![q] = s2, ![kt_runq] = ktqueue_enqueue(@, t)],
         kt_cancelled' \in [Thread -> BOOLEAN],
         \A u \in Thread \ {t} : kt_cancelled'[u] = kt_cancelled[u],
         UNCHANGED <<curthr, in_switch>>
  PROVE  SchedInv'
<1> USE SchedAssumption
<1>1. /\ kt_wchan' = [kt_wchan EXCEPT ![t] = kt_runq]
      /\ kt_state' = [kt_state EXCEPT ![t] = "KT_RUN"]
  BY DEF MakeRunnable
<1>2. /\ q \in AllQueue /\ kt_runq \in AllQueue /\ q # kt_runq /\ q # NULL /\ kt_runq # NULL
      /\ kt_wchan'[t] = kt_runq
      /\ \A u \in Thread \ {t} : kt_wchan'[u] = kt_wchan[u]
  BY <1>1 DEF SchedInv, SchedTypeOK, AllQueue
<1>3. /\ ktqueue_enqueue(tq_list[kt_runq], t) \in Seq(Thread)
      /\ ListsThreadsOf(ktqueue_enqueue(tq_list[kt_runq], t), kt_runq, kt_wchan')
  <2>1. PICK r \in Seq(Thread) : r = tq_list[kt_runq] /\ ListsThreadsOf(r, kt_runq, kt_wchan)
    BY <1>2 DEF SchedInv, QueuesMatchWchan, SchedTypeOK
  <2>2. kt_wchan[t] # kt_runq /\ kt_wchan'[t] = kt_runq
    BY <1>2
  <2>3. \A u \in Thread \ {t} : kt_wchan'[u] = kt_runq <=> kt_wchan[u] = kt_runq
    BY <1>2
  <2>4. ListsThreadsOf(r, kt_runq, kt_wchan)
    BY <2>1
  <2>5. kt_wchan[t] # kt_runq
    BY <2>2
  <2>6. kt_wchan'[t] = kt_runq
    BY <2>2
  <2>7. ktqueue_enqueue(r, t) \in Seq(Thread)
    BY DEF ktqueue_enqueue
  <2>8. ListsThreadsOf(ktqueue_enqueue(r, t), kt_runq, kt_wchan')
    BY <2>3, <2>4, <2>5, <2>6, EnqueuedList, ZenonT(60)
  <2> QED BY <2>1, <2>7, <2>8
<1>4. /\ tq_list'[q] = s2
      /\ tq_list'[kt_runq] = ktqueue_enqueue(tq_list[kt_runq], t)
      /\ \A p \in AllQueue \ {q, kt_runq} : tq_list'[p] = tq_list[p]
      /\ tq_list' \in [AllQueue -> Seq(Thread)]
  BY <1>2, <1>3 DEF SchedInv, SchedTypeOK
<1>5. SchedTypeOK'
  BY <1>1, <1>2, <1>4 DEF SchedInv, SchedTypeOK, State
<1>6. QueuesMatchWchan'
  <2> SUFFICES ASSUME NEW p \in AllQueue PROVE ListsThreadsOf(tq_list'[p], p, kt_wchan')
    BY DEF QueuesMatchWchan
  <2>1. CASE p \in {q, kt_runq}
    BY <1>3, <1>4, <2>1
  <2>2. CASE p \notin {q, kt_runq}
    <3>1. tq_list'[p] = tq_list[p] /\ tq_list[p] \in Seq(Thread)
      BY <1>4, <2>2 DEF SchedInv, SchedTypeOK
    <3>2. \A u \in Thread : kt_wchan'[u] = p <=> kt_wchan[u] = p
      BY <1>2, <2>2
    <3> QED BY <3>1, <3>2, SameList DEF SchedInv, QueuesMatchWchan
  <2> QED BY <2>1, <2>2
<1>7. kt_state'[t] = "KT_RUN" /\ \A u \in Thread \ {t} : kt_state'[u] = kt_state[u]
  BY <1>1 DEF SchedInv, SchedTypeOK
<1>8. NoLostThread'
  BY <1>2, <1>7 DEF SchedInv, NoLostThread, Executing, Sleeping
<1>9. t # curthr \/ in_switch
  BY <1>2 DEF SchedInv, AssertionsHold
<1>10. AssertionsHold'
  BY <1>2, <1>7, <1>9, ZenonT(60) DEF SchedInv, SchedTypeOK, AssertionsHold, Executing, Sleeping
<1>11. CancelledNotAsleep'
  BY <1>7 DEF SchedInv, CancelledNotAsleep
<1> QED BY <1>5, <1>6, <1>8, <1>10, <1>11 DEF SchedInv

(* sched_wakeup_on: the first sleeper of a queue becomes runnable. *)
LEMMA WakeupInv ==
  ASSUME SchedInv, NEW q \in Queue, sched_wakeup_on(q)
  PROVE  SchedInv'
<1> USE SchedAssumption
<1>1. PICK s \in Seq(Thread) : s = tq_list[q]
  BY DEF SchedInv, SchedTypeOK, AllQueue
<1>2. s # <<>> /\ ListsThreadsOf(s, q, kt_wchan) /\ q # kt_runq
  BY <1>1 DEF sched_wakeup_on, sched_queue_empty, SchedInv, QueuesMatchWchan, AllQueue
<1>3. PICK t \in Thread : t = Head(s)
  BY <1>2
<1>4. kt_wchan[t] = q
  BY <1>2, <1>3 DEF ListsThreadsOf
<1>5. /\ MakeRunnable(t)
      /\ tq_list' = [tq_list EXCEPT ![q] = ktqueue_dequeue(s), ![kt_runq] = ktqueue_enqueue(@, t)]
      /\ UNCHANGED <<kt_cancelled, curthr, in_switch>>
  BY <1>1, <1>3 DEF sched_wakeup_on
<1>6. /\ kt_wchan'[Head(s)] # q
      /\ \A u \in Thread \ {Head(s)} : kt_wchan'[u] = q <=> kt_wchan[u] = q
  BY <1>2, <1>3, <1>5 DEF MakeRunnable, SchedInv, SchedTypeOK
<1>7. /\ ktqueue_dequeue(s) \in Seq(Thread)
      /\ ListsThreadsOf(ktqueue_dequeue(s), q, kt_wchan')
  BY <1>2, <1>6, DequeuedList
<1>8. kt_cancelled' \in [Thread -> BOOLEAN]
  BY <1>5 DEF SchedInv, SchedTypeOK
<1> QED BY <1>4, <1>5, <1>7, <1>8, WokenInv

(***************************************************************************)
(* sched_broadcast_on moves all of q's threads at once.                    *)
(***************************************************************************)
LEMMA BroadcastInv ==
  ASSUME SchedInv, NEW q \in Queue, sched_broadcast_on(q)
  PROVE  SchedInv'
<1> USE SchedAssumption
<1>1. PICK s \in Seq(Thread) : s = tq_list[q]
  BY DEF SchedInv, SchedTypeOK, AllQueue
<1>2. PICK r \in Seq(Thread) : r = tq_list[kt_runq]
  BY DEF SchedInv, SchedTypeOK, AllQueue
<1>3. /\ ListsThreadsOf(s, q, kt_wchan) /\ ListsThreadsOf(r, kt_runq, kt_wchan)
      /\ q # kt_runq /\ q # NULL /\ kt_runq # NULL /\ q \in AllQueue /\ kt_runq \in AllQueue
  BY <1>1, <1>2 DEF SchedInv, QueuesMatchWchan, AllQueue
<1>4. \A u \in Thread : u \in Members(q) <=> kt_wchan[u] = q
  BY <1>1, <1>3 DEF Members, ListsThreadsOf
<1>5. /\ \A u \in Thread : kt_state'[u] = IF kt_wchan[u] = q THEN "KT_RUN" ELSE kt_state[u]
      /\ \A u \in Thread : kt_wchan'[u] = IF kt_wchan[u] = q THEN kt_runq ELSE kt_wchan[u]
      /\ UNCHANGED <<kt_cancelled, curthr, in_switch>>
  BY <1>4 DEF sched_broadcast_on
<1>6. r \o s \in Seq(Thread)
  OBVIOUS
<1>7. /\ tq_list'[q] = <<>>
      /\ tq_list'[kt_runq] = r \o s
      /\ \A p \in AllQueue \ {q, kt_runq} : tq_list'[p] = tq_list[p]
      /\ tq_list' \in [AllQueue -> Seq(Thread)]
  <2>1. tq_list' = [tq_list EXCEPT ![q] = <<>>, ![kt_runq] = r \o s]
    BY <1>1, <1>2, <1>3 DEF sched_broadcast_on
  <2>2. tq_list \in [AllQueue -> Seq(Thread)] /\ <<>> \in Seq(Thread)
    BY DEF SchedInv, SchedTypeOK
  <2> HIDE SchedAssumption
  <2> QED BY <1>3, <1>6, <2>1, <2>2
<1>8. SchedTypeOK'
  <2>1. kt_state' \in [Thread -> State]
    BY DEF sched_broadcast_on, SchedInv, SchedTypeOK, State
  <2>2. kt_wchan' \in [Thread -> AllQueue \cup {NULL}]
    BY <1>3 DEF sched_broadcast_on, SchedInv, SchedTypeOK
  <2> QED BY <1>5, <1>7, <2>1, <2>2 DEF SchedInv, SchedTypeOK
<1>9. QueuesMatchWchan'
  <2> SUFFICES ASSUME NEW p \in AllQueue PROVE ListsThreadsOf(tq_list'[p], p, kt_wchan')
    BY DEF QueuesMatchWchan
  <2>1. CASE p = q
    <3>1. tq_list'[p] = <<>>
      BY <1>7, <2>1
    <3>2. \A u \in Thread : kt_wchan'[u] # p
      BY <1>3, <1>5, <2>1
    <3> QED BY <3>1, <3>2 DEF ListsThreadsOf
  <2>2. CASE p = kt_runq
    <3>1. \A u \in Thread : kt_wchan'[u] = kt_runq <=> kt_wchan[u] \in {q, kt_runq}
      BY <1>3, <1>5
    <3>2. ListsThreadsOf(s, q, kt_wchan)
      BY <1>3
    <3>3. ListsThreadsOf(r, kt_runq, kt_wchan)
      BY <1>3
    <3>4. q # kt_runq
      BY <1>3
    <3>5. ListsThreadsOf(r \o s, kt_runq, kt_wchan')
      BY <3>1, <3>2, <3>3, <3>4, ConcatenatedList
    <3> QED BY <1>7, <2>2, <3>5
  <2>3. CASE p \notin {q, kt_runq}
    <3>1. tq_list'[p] = tq_list[p] /\ tq_list[p] \in Seq(Thread)
      BY <1>7, <2>3 DEF SchedInv, SchedTypeOK
    <3>2. \A u \in Thread : kt_wchan'[u] = p <=> kt_wchan[u] = p
      BY <1>5, <2>3
    <3> QED BY <3>1, <3>2, SameList DEF SchedInv, QueuesMatchWchan
  <2> QED BY <2>1, <2>2, <2>3
<1>10. NoLostThread'
  BY <1>3, <1>5 DEF SchedInv, NoLostThread, Executing, Sleeping
<1>11. kt_wchan[curthr] # q \/ in_switch
  BY <1>3 DEF SchedInv, AssertionsHold
<1>12. AssertionsHold'
  BY <1>3, <1>5, <1>11 DEF SchedInv, SchedTypeOK, AssertionsHold, Executing, Sleeping
<1>13. CancelledNotAsleep'
  BY <1>5 DEF SchedInv, CancelledNotAsleep
<1> QED BY <1>8, <1>9, <1>10, <1>12, <1>13 DEF SchedInv

(***************************************************************************)
(* sched_cancel wakes a thread in a cancellable sleep and only marks any   *)
(* other.                                                                  *)
(***************************************************************************)
LEMMA CancelInv ==
  ASSUME SchedInv, NEW t \in Thread, sched_cancel(t)
  PROVE  SchedInv'
<1> USE SchedAssumption
<1>0. kt_cancelled' = [kt_cancelled EXCEPT ![t] = TRUE] /\ UNCHANGED <<curthr, in_switch>>
  BY DEF sched_cancel
<1>1. kt_cancelled' \in [Thread -> BOOLEAN]
  BY <1>0, Zenon DEF SchedInv, SchedTypeOK
<1>2. \A u \in Thread \ {t} : kt_cancelled'[u] = kt_cancelled[u]
  BY <1>0 DEF SchedInv, SchedTypeOK
<1>3. CASE kt_state[t] = "KT_SLEEP_CANCELLABLE"
  <2>1. PICK q \in Queue : q = kt_wchan[t]
    BY <1>3 DEF SchedInv, NoLostThread, Sleeping
  <2>2. PICK s \in Seq(Thread) : s = tq_list[q]
    BY DEF SchedInv, SchedTypeOK, AllQueue
  <2>3. q \in AllQueue /\ q # kt_runq
    BY DEF AllQueue
  <2>4. MakeRunnable(t)
    BY <1>3, <2>1, <2>3 DEF sched_cancel
  <2>5. tq_list' = [tq_list EXCEPT ![q] = ktqueue_remove(s, t), ![kt_runq] = ktqueue_enqueue(@, t)]
    BY <1>3, <2>1, <2>2, <2>3 DEF sched_cancel
  <2>6. ListsThreadsOf(s, q, kt_wchan)
    BY <2>2, <2>3 DEF SchedInv, QueuesMatchWchan
  <2>7. kt_wchan[t] = q
    BY <2>1
  <2>8. kt_wchan'[t] # q
    BY <2>3, <2>4 DEF MakeRunnable, SchedInv, SchedTypeOK
  <2>9. \A u \in Thread \ {t} : kt_wchan'[u] = q <=> kt_wchan[u] = q
    BY <2>4 DEF MakeRunnable, SchedInv, SchedTypeOK
  <2>10. ListsThreadsOf(ktqueue_remove(s, t), q, kt_wchan')
    BY <2>6, <2>7, <2>8, <2>9, RemovedList
  <2>11. ktqueue_remove(s, t) \in Seq(Thread)
    <3>1. PICK i \in 1..Len(s) : s[i] = t
      BY <2>6, <2>7 DEF ListsThreadsOf
    <3> QED BY <3>1, RemovedSeq
  <2>12. PICK s2 \in Seq(Thread) : s2 = ktqueue_remove(s, t)
    BY <2>11
  <2>13. ListsThreadsOf(s2, q, kt_wchan')
    BY <2>10, <2>12
  <2>14. tq_list' = [tq_list EXCEPT ![q] = s2, ![kt_runq] = ktqueue_enqueue(@, t)]
    BY <2>5, <2>12
  <2> QED BY <1>0, <1>1, <1>2, <2>4, <2>7, <2>13, <2>14, WokenInv
<1>4. CASE kt_state[t] # "KT_SLEEP_CANCELLABLE"
  <2>1. UNCHANGED <<kt_state, kt_wchan, tq_list>>
    BY <1>4 DEF sched_cancel
  <2>2. SchedTypeOK'
    BY <1>0, <1>1, <2>1, Zenon DEF SchedInv, SchedTypeOK
  <2>4. QueuesMatchWchan'
    BY <2>1, Zenon DEF SchedInv, QueuesMatchWchan, ListsThreadsOf
  <2>5. NoLostThread' /\ AssertionsHold'
    BY <1>0, <2>1 DEF SchedInv, NoLostThread, AssertionsHold, Executing
  <2>3. CancelledNotAsleep'
    BY <1>2, <1>4, <2>1 DEF SchedInv, CancelledNotAsleep
  <2> QED BY <2>2, <2>3, <2>4, <2>5 DEF SchedInv
<1> QED BY <1>3, <1>4

(***************************************************************************)
(* A thread that has exited leaves proc_cleanup for sched_switch.          *)
(***************************************************************************)
LEMMA ExitedInv == ASSUME SchedInv, proc_thread_exited PROVE SchedInv'
<1>1. /\ kt_state[curthr] = "KT_EXITED" /\ in_switch' = TRUE
      /\ UNCHANGED <<kt_state, kt_wchan, kt_cancelled, tq_list, curthr>>
  BY DEF proc_thread_exited, Exiting
<1>2. SchedTypeOK'
  BY <1>1, Zenon DEF SchedInv, SchedTypeOK
<1>3. QueuesMatchWchan'
  <2>1. UNCHANGED <<kt_wchan, tq_list>> /\ QueuesMatchWchan
    BY <1>1 DEF SchedInv
  <2> QED BY <2>1, Zenon DEF QueuesMatchWchan, ListsThreadsOf
<1>4. NoLostThread' /\ AssertionsHold' /\ CancelledNotAsleep'
  BY <1>1 DEF SchedInv, SchedTypeOK, NoLostThread, AssertionsHold, CancelledNotAsleep, Executing, Sleeping
<1> QED BY <1>2, <1>3, <1>4 DEF SchedInv

(***************************************************************************)
(* The steps that touch no list: a thread on no queue exits, is created or *)
(* is freed.                                                               *)
(***************************************************************************)
LEMMA OffQueueInv ==
  ASSUME SchedInv,
         kthread_exit \/ \E t \in Thread : kthread_create(t) \/ kthread_destroy(t)
  PROVE  SchedInv'
<1> USE SchedAssumption
<1>1. UNCHANGED <<tq_list, curthr>> /\ Executing
  BY DEF kthread_exit, kthread_create, kthread_destroy
<1>2. PICK t \in Thread, st \in {"KT_EXITED", "KT_NO_STATE", "unallocated"} :
        /\ kt_state' = [kt_state EXCEPT ![t] = st]
        /\ kt_wchan[t] = NULL
        /\ t = curthr => st = "KT_EXITED"
        /\ in_switch' = in_switch
  <2>1. CASE kthread_exit
    <3>1. PICK t \in Thread : t = curthr
      BY DEF SchedInv, SchedTypeOK
    <3> QED BY <2>1, <3>1 DEF kthread_exit, SchedInv, AssertionsHold, Executing
  <2>2. ASSUME NEW t \in Thread, kthread_create(t)
        PROVE  /\ kt_state' = [kt_state EXCEPT ![t] = "KT_NO_STATE"]
               /\ kt_wchan[t] = NULL
               /\ t # curthr /\ in_switch' = in_switch
    BY <2>2 DEF kthread_create, SchedInv, SchedTypeOK, AssertionsHold, AllQueue, Sleeping
  <2>3. ASSUME NEW t \in Thread, kthread_destroy(t)
        PROVE  /\ kt_state' = [kt_state EXCEPT ![t] = "unallocated"]
               /\ kt_wchan[t] = NULL
               /\ t # curthr /\ in_switch' = in_switch
    BY <2>3 DEF kthread_destroy, SchedInv, SchedTypeOK, AssertionsHold, AllQueue, Sleeping, Executing
  <2> QED BY <2>1, <2>2, <2>3
<1>3. kt_wchan' \in [Thread -> AllQueue \cup {NULL}] /\ \A u \in Thread : kt_wchan'[u] = kt_wchan[u]
  BY <1>2, ZenonT(60) DEF kthread_exit, kthread_create, kthread_destroy, SchedInv, SchedTypeOK, AssertionsHold, AllQueue, Sleeping
<1>4. kt_cancelled' \in [Thread -> BOOLEAN]
  BY Zenon DEF kthread_exit, kthread_create, kthread_destroy, SchedInv, SchedTypeOK
<1>5. \A u \in Thread \ {t} : kt_cancelled'[u] = kt_cancelled[u]
  BY <1>2, ZenonT(60) DEF kthread_exit, kthread_create, kthread_destroy, SchedInv, SchedTypeOK
<1>6. SchedTypeOK'
  BY <1>1, <1>2, <1>3, <1>4 DEF SchedInv, SchedTypeOK, State
<1>7. QueuesMatchWchan'
  <2> SUFFICES ASSUME NEW p \in AllQueue PROVE ListsThreadsOf(tq_list'[p], p, kt_wchan')
    BY DEF QueuesMatchWchan
  <2>1. tq_list'[p] = tq_list[p] /\ tq_list[p] \in Seq(Thread)
    BY <1>1 DEF SchedInv, SchedTypeOK
  <2>2. \A u \in Thread : kt_wchan'[u] = p <=> kt_wchan[u] = p
    BY <1>3
  <2> QED BY <2>1, <2>2, SameList DEF SchedInv, QueuesMatchWchan
<1>8. kt_state'[t] = st /\ \A u \in Thread \ {t} : kt_state'[u] = kt_state[u]
  BY <1>2 DEF SchedInv, SchedTypeOK
<1>9. NoLostThread'
  BY <1>1, <1>2, <1>3, <1>8 DEF SchedInv, NoLostThread, Executing, Sleeping
<1>10. AssertionsHold'
  BY <1>1, <1>2, <1>3, <1>8 DEF SchedInv, SchedTypeOK, AssertionsHold, Executing, Sleeping
<1>11. CancelledNotAsleep'
  BY <1>5, <1>8 DEF SchedInv, CancelledNotAsleep
<1> QED BY <1>6, <1>7, <1>9, <1>10, <1>11 DEF SchedInv

-----------------------------------------------------------------------------
(***************************************************************************)
(* Every step of the scheduler preserves SchedInv, one case per action.    *)
(***************************************************************************)
LEMMA NextInv == SchedInv /\ [SchedNext]_schedVars => SchedInv'
<1> SUFFICES ASSUME SchedInv, [SchedNext]_schedVars PROVE SchedInv'
  OBVIOUS
<1> USE SchedAssumption
<1>1. ASSUME NEW q \in Queue, sched_sleep_on(q) \/ sched_cancellable_sleep_on(q)
      PROVE  SchedInv'
  BY <1>1, SleepInv
<1>2. CASE thr_yield
  <2>1. PICK t \in Thread : t = curthr
    BY DEF SchedInv, SchedTypeOK
  <2>2. kt_wchan[t] = NULL
    BY <1>2, <2>1 DEF thr_yield, SchedInv, AssertionsHold, Executing
  <2>3. /\ MakeRunnable(t)
        /\ tq_list' = [tq_list EXCEPT ![kt_runq] = ktqueue_enqueue(@, t)]
        /\ UNCHANGED <<kt_cancelled, curthr>> /\ in_switch' = TRUE
    BY <1>2, <2>1 DEF thr_yield
  <2> QED BY <2>1, <2>2, <2>3, RunnableInv
<1>3. ASSUME NEW t \in Thread, sched_make_runnable(t)
      PROVE  SchedInv'
  <2>1. kt_wchan[t] = NULL /\ t # curthr
    BY <1>3 DEF sched_make_runnable, SchedInv, SchedTypeOK, AssertionsHold, AllQueue, Sleeping, Executing
  <2>2. /\ MakeRunnable(t)
        /\ tq_list' = [tq_list EXCEPT ![kt_runq] = ktqueue_enqueue(@, t)]
        /\ UNCHANGED <<kt_cancelled, curthr, in_switch>>
    BY <1>3 DEF sched_make_runnable
  <2> QED BY <2>1, <2>2, RunnableInv
<1>4. CASE sched_switch
  BY <1>4, SwitchInv
<1>5. ASSUME NEW q \in Queue, sched_wakeup_on(q) \/ sched_broadcast_on(q)
      PROVE  SchedInv'
  BY <1>5, WakeupInv, BroadcastInv
<1>6. ASSUME NEW t \in Thread, sched_cancel(t)
      PROVE  SchedInv'
  BY <1>6, CancelInv
<1>7. CASE kthread_exit \/ \E t \in Thread : kthread_create(t) \/ kthread_destroy(t)
  BY <1>7, OffQueueInv
<1>9. CASE proc_thread_exited
  BY <1>9, ExitedInv
<1>8. CASE UNCHANGED schedVars
  <2>1. QueuesMatchWchan'
    BY <1>8, Zenon DEF schedVars, SchedInv, QueuesMatchWchan, ListsThreadsOf
  <2>2. SchedTypeOK' /\ NoLostThread' /\ AssertionsHold' /\ CancelledNotAsleep'
    BY <1>8 DEF schedVars, SchedInv, SchedTypeOK, NoLostThread, AssertionsHold,
                CancelledNotAsleep, Executing
  <2> QED BY <2>1, <2>2 DEF SchedInv
<1> QED
  BY <1>1, <1>2, <1>3, <1>4, <1>5, <1>6, <1>7, <1>8, <1>9 DEF SchedNext, GiveUpCpu, Interrupt

(***************************************************************************)
(* The scheduler's invariants hold in every reachable state, for any       *)
(* number of threads and queues.                                           *)
(***************************************************************************)
THEOREM SchedInvariant == SchedSpec => []SchedInv
  BY InitInv, NextInv, PTL DEF SchedSpec

(***************************************************************************)
(* Every field has its type (kthread_t, ktqueue_t and the two globals).    *)
(***************************************************************************)
THEOREM TypeCorrect == SchedSpec => []SchedTypeOK
<1>1. SchedInv => SchedTypeOK
  BY DEF SchedInv
<1> QED BY <1>1, SchedInvariant, PTL

(***************************************************************************)
(* sched.c's own requirement, that a thread which is alive and not         *)
(* executing is on the queue its state calls for, and that the list it is  *)
(* on is the one its kt_wchan names: no wake-up, broadcast, cancellation   *)
(* or interrupt can lose a thread or link it twice.                        *)
(***************************************************************************)
THEOREM ThreadsNeverLost == SchedSpec => [](NoLostThread /\ QueuesMatchWchan)
<1>1. SchedInv => NoLostThread /\ QueuesMatchWchan
  BY DEF SchedInv
<1> QED BY <1>1, SchedInvariant, PTL

(***************************************************************************)
(* The scheduler's own KASSERTs (sched_wakeup_on, ktqueue_enqueue,         *)
(* sched_make_runnable and kthread_exit) cannot fail, and the two that     *)
(* depend on the caller fail only where a thread sleeps that has exited,   *)
(* or one is cancelled that has (sched_sleep_on, sched_cancel).            *)
(***************************************************************************)
THEOREM NoAssertionFails == SchedSpec => []AssertionsHold
<1>1. SchedInv => AssertionsHold
  BY DEF SchedInv
<1> QED BY <1>1, SchedInvariant, PTL

(***************************************************************************)
(* A cancelled thread is never left in a cancellable sleep.                *)
(***************************************************************************)
THEOREM CancellationNotMissed == SchedSpec => []CancelledNotAsleep
<1>1. SchedInv => CancelledNotAsleep
  BY DEF SchedInv
<1> QED BY <1>1, SchedInvariant, PTL

-----------------------------------------------------------------------------
(***************************************************************************)
(* The mutex.                                                              *)
(***************************************************************************)

(***************************************************************************)
(* What a caller is told agrees with km_holder in procs-submit and         *)
(* vfs-submit; in vm-submit only if nobody calls kmutex_lock_cancellable,  *)
(* and nobody does.                                                        *)
(***************************************************************************)
SoundCalls == Release = "procs" \/ "kmutex_lock_cancellable" \notin LockCall

Behind ==
  \A m \in Mutex : \A t \in Thread :
    kt_wchan[t] = m => km_holder[m] # NULL /\ kt_wchan[km_holder[m]] # m

(***************************************************************************)
(* A mutex is a wait queue, and told apart from NULL and the run queue.    *)
(***************************************************************************)
LEMMA MutexIsQueue ==
  ASSUME NEW m \in Mutex
  PROVE  m \in Queue /\ m \in AllQueue /\ m # kt_runq /\ m # NULL /\ m \notin IntrQueue
  BY SchedAssumption, KmutexAssumption DEF AllQueue

(***************************************************************************)
(* By QueuesMatchWchan a list is empty iff nobody's wait channel is the    *)
(* queue, and holds those whose it is.                                     *)
(***************************************************************************)
LEMMA ListIsWchan ==
  ASSUME SchedInv, NEW q \in AllQueue
  PROVE  /\ tq_list[q] \in Seq(Thread)
         /\ sched_queue_empty(q) <=> \A t \in Thread : kt_wchan[t] # q
         /\ \A t \in Thread : t \in Members(q) <=> kt_wchan[t] = q
         /\ Members(q) \subseteq Thread
         /\ ~sched_queue_empty(q) => Head(tq_list[q]) \in Thread /\ kt_wchan[Head(tq_list[q])] = q
<1>1. PICK s \in Seq(Thread) : s = tq_list[q]
  BY DEF SchedInv, SchedTypeOK
<1>2. ListsThreadsOf(s, q, kt_wchan)
  BY <1>1 DEF SchedInv, QueuesMatchWchan
<1>3. s # <<>> => Head(s) \in Thread /\ kt_wchan[Head(s)] = q
  BY <1>2 DEF ListsThreadsOf
<1>4. ASSUME s = <<>>, NEW t \in Thread PROVE kt_wchan[t] # q
  <2>1. Len(s) = 0
    BY <1>4
  <2> QED BY <1>2, <2>1 DEF ListsThreadsOf
<1>5. \A t \in Thread : t \in Members(q) <=> kt_wchan[t] = q
  <2>1. \A t \in Thread : t \in Members(q) <=> \E i \in 1..Len(s) : s[i] = t
    BY <1>1 DEF Members
  <2> QED BY <1>2, <2>1, ZenonT(60) DEF ListsThreadsOf
<1>6. Members(q) \subseteq Thread
  BY <1>1 DEF Members
<1> QED BY <1>1, <1>3, <1>4, <1>5, <1>6 DEF sched_queue_empty

(***************************************************************************)
(* The two forms of "waiters stand behind a holder" say the same.          *)
(***************************************************************************)
LEMMA BehindHolder ==
  ASSUME SchedInv, KmutexTypeOK
  PROVE  WaitersBehindHolder <=> Behind
<1>1. ASSUME NEW m \in Mutex
      PROVE  (~sched_queue_empty(m) => km_holder[m] # NULL /\ km_holder[m] \notin Members(m))
             <=> \A t \in Thread : kt_wchan[t] = m => km_holder[m] # NULL /\ kt_wchan[km_holder[m]] # m
  <2>1. /\ sched_queue_empty(m) <=> \A t \in Thread : kt_wchan[t] # m
        /\ \A t \in Thread : t \in Members(m) <=> kt_wchan[t] = m
    BY MutexIsQueue, ListIsWchan
  <2>2. km_holder[m] # NULL => km_holder[m] \in Thread
    BY DEF KmutexTypeOK
  <2> QED BY <2>1, <2>2
<1> QED BY <1>1 DEF WaitersBehindHolder, Behind

-----------------------------------------------------------------------------
(***************************************************************************)
(* Steps of threads that are not about a mutex.  Nobody goes to sleep on a *)
(* mutex; who sleeps on one stays there unless sched_cancel wakes it, who  *)
(* is runnable stays so; and a cancellation is only forgotten when a       *)
(* thread object is used anew.                                             *)
(***************************************************************************)
Aside ==
  \A t \in Thread :
    /\ kt_wchan'[t] \in Mutex => kt_wchan'[t] = kt_wchan[t]
    /\ kt_wchan[t] \in Mutex =>
         \/ kt_wchan'[t] = kt_wchan[t] /\ kt_state'[t] = kt_state[t]
         \/ /\ kt_state[t] = "KT_SLEEP_CANCELLABLE"
            /\ kt_wchan'[t] = kt_runq /\ kt_cancelled'[t]
    /\ kt_wchan[t] = kt_runq =>
         /\ kt_wchan'[t] = kt_runq
         /\ kt_cancelled[t] => kt_cancelled'[t]

OtherStep == OtherSleep \/ ExitWithoutMutex \/ OtherThreadStep \/ Interrupt

(***************************************************************************)
(* They are steps of the scheduler, and as described.                      *)
(***************************************************************************)
LEMMA OtherIsSched == OtherStep => SchedNext
  BY SchedAssumption
  DEF OtherStep, OtherSleep, ExitWithoutMutex, OtherThreadStep, Interrupt, SchedNext, GiveUpCpu

(***************************************************************************)
(* Aside, one case per action: the thread that moves was on no mutex.      *)
(***************************************************************************)
LEMMA OtherIsAside ==
  ASSUME SchedInv, OtherStep
  PROVE  Aside
<1> USE SchedAssumption, MutexIsQueue
<1>0. /\ kt_wchan \in [Thread -> AllQueue \cup {NULL}] /\ kt_state \in [Thread -> State]
      /\ kt_cancelled \in [Thread -> BOOLEAN] /\ curthr \in Thread
  BY DEF SchedInv, SchedTypeOK
<1>1. Executing => kt_wchan[curthr] = NULL
  BY DEF SchedInv, AssertionsHold, Executing
<1>2. ASSUME NEW q \in Queue \ Mutex, sched_sleep_on(q) \/ sched_cancellable_sleep_on(q)
      PROVE  Aside
  BY <1>0, <1>1, <1>2 DEF Aside, sched_sleep_on, sched_cancellable_sleep_on
<1>3. CASE kthread_exit
  BY <1>0, <1>1, <1>3 DEF Aside, kthread_exit
<1>4. CASE thr_yield
  BY <1>0, <1>1, <1>4 DEF Aside, thr_yield, MakeRunnable
<1>12. CASE proc_thread_exited
  BY <1>0, <1>12 DEF Aside, proc_thread_exited
<1>5. ASSUME NEW q \in Queue \ Mutex, sched_wakeup_on(q)
      PROVE  Aside
  <2>1. Head(tq_list[q]) \in Thread /\ kt_wchan[Head(tq_list[q])] = q
    BY <1>5, ListIsWchan DEF sched_wakeup_on, AllQueue
  <2> QED BY <1>0, <1>5, <2>1 DEF Aside, sched_wakeup_on, MakeRunnable
<1>6. ASSUME NEW q \in Queue \ Mutex, sched_broadcast_on(q)
      PROVE  Aside
  <2>1. \A t \in Thread : t \in Members(q) <=> kt_wchan[t] = q
    BY ListIsWchan DEF AllQueue
  <2> QED BY <1>0, <1>6, <2>1 DEF Aside, sched_broadcast_on
<1>7. ASSUME NEW t \in Thread, sched_cancel(t)
      PROVE  Aside
  BY <1>0, <1>7 DEF Aside, sched_cancel, MakeRunnable
<1>8. ASSUME NEW t \in Thread, kthread_create(t)
      PROVE  Aside
  <2>1. kt_wchan[t] = NULL
    BY <1>0, <1>8 DEF kthread_create, SchedInv, AssertionsHold, AllQueue, Sleeping
  <2> QED BY <1>0, <1>8, <2>1 DEF Aside, kthread_create
<1>9. ASSUME NEW t \in Thread, sched_make_runnable(t)
      PROVE  Aside
  <2>1. kt_wchan[t] = NULL
    BY <1>0, <1>9 DEF sched_make_runnable, SchedInv, AssertionsHold, AllQueue, Sleeping
  <2> QED BY <1>0, <1>9, <2>1 DEF Aside, sched_make_runnable, MakeRunnable
<1>10. ASSUME NEW t \in Thread, kthread_destroy(t)
      PROVE  Aside
  <2>1. kt_wchan[t] = NULL
    BY <1>0, <1>10 DEF kthread_destroy, SchedInv, AssertionsHold, AllQueue, Sleeping
  <2> QED BY <1>0, <1>10, <2>1 DEF Aside, kthread_destroy
<1>11. IntrQueue \subseteq Queue \ Mutex
  BY KmutexAssumption
<1> QED
  BY <1>2, <1>3, <1>4, <1>5, <1>6, <1>7, <1>8, <1>9, <1>10, <1>11, <1>12
  DEF OtherStep, OtherSleep, ExitWithoutMutex, OtherThreadStep, Interrupt

-----------------------------------------------------------------------------
(***************************************************************************)
(* KmutexInv with the queues' part stated on wait channels.                *)
(***************************************************************************)
MInv == SchedInv /\ KmutexTypeOK /\ OwnerHolds /\ Behind /\ LockersAccounted

(***************************************************************************)
(* kmutex_init leaves every mutex free.                                    *)
(***************************************************************************)
LEMMA KmutexInitInv == KmutexInit => MInv
<1> SUFFICES ASSUME KmutexInit PROVE MInv
  OBVIOUS
<1>1. SchedInv
  BY InitInv DEF KmutexInit
<1>2. KmutexTypeOK
  BY <1>1 DEF KmutexInit, KmutexTypeOK, SchedInv
<1>3. OwnerHolds
  BY DEF KmutexInit, OwnerHolds
<1>4. Behind /\ LockersAccounted
  BY SchedAssumption, MutexIsQueue DEF KmutexInit, SchedInit, Behind, LockersAccounted
<1> QED BY <1>1, <1>2, <1>3, <1>4 DEF MInv

(***************************************************************************)
(* The scheduler's part: every step of Kmutex is one of Sched's.           *)
(***************************************************************************)
LEMMA KmutexSchedInv == SchedInv /\ [KmutexNext]_kmVars => SchedInv'
<1> SUFFICES ASSUME SchedInv, [KmutexNext]_kmVars PROVE [SchedNext]_schedVars
  BY NextInv
<1>1. ASSUME NEW m \in Mutex,
             \/ kmutex_take(m) \/ kmutex_lock(m)
             \/ kmutex_lock_cancellable(m) \/ kmutex_unlock(m)
      PROVE  [SchedNext]_schedVars
  BY <1>1, MutexIsQueue
  DEF kmutex_take, kmutex_lock, kmutex_lock_cancellable, kmutex_unlock, SchedNext, GiveUpCpu, Executing
<1>2. CASE SwitchAndReturn
  BY <1>2 DEF SwitchAndReturn, SchedNext
<1>3. CASE OtherStep
  BY <1>3, OtherIsSched
<1>4. CASE UNCHANGED kmVars
  BY <1>4 DEF kmVars
<1> QED BY <1>1, <1>2, <1>3, <1>4 DEF KmutexNext, OtherStep

(***************************************************************************)
(* kmutex_take: a free mutex has no waiters, so nobody is passed over.     *)
(***************************************************************************)
LEMMA TakeInv ==
  ASSUME MInv, NEW m \in Mutex, kmutex_take(m)
  PROVE  (KmutexTypeOK /\ OwnerHolds /\ Behind /\ LockersAccounted)'
<1> USE SchedAssumption, MutexIsQueue
<1>1. /\ curthr \in Thread /\ kt_wchan[curthr] = NULL /\ km_holder[m] = NULL
      /\ UNCHANGED schedVars /\ UNCHANGED <<lockcall, locking>>
      /\ km_holder' = [km_holder EXCEPT ![m] = curthr]
      /\ owned' = [owned EXCEPT ![curthr] = @ \cup {m}]
  BY DEF kmutex_take, MInv, SchedInv, SchedTypeOK, AssertionsHold, Executing
<1>2. /\ km_holder \in [Mutex -> Thread \cup {NULL}] /\ owned \in [Thread -> SUBSET Mutex]
      /\ locking \in [Thread -> Mutex \cup {NULL}]
  BY DEF MInv, KmutexTypeOK
<1>3. KmutexTypeOK'
  <2>1. SchedTypeOK'
    BY <1>1 DEF MInv, KmutexTypeOK, SchedTypeOK, schedVars
  <2> QED BY <1>1, <1>2, <2>1 DEF MInv, KmutexTypeOK
<1>4. OwnerHolds'
  BY <1>1, <1>2 DEF MInv, OwnerHolds
<1>5. Behind'
  BY <1>1, <1>2 DEF MInv, Behind, schedVars
<1>6. LockersAccounted'
  BY <1>1, <1>2 DEF MInv, LockersAccounted, schedVars
<1> QED BY <1>3, <1>4, <1>5, <1>6

(***************************************************************************)
(* Both lock functions put the caller to sleep behind a holder that is not *)
(* the caller.                                                             *)
(***************************************************************************)
LEMMA LockInv ==
  ASSUME MInv, SchedInv', NEW m \in Mutex, kmutex_lock(m) \/ kmutex_lock_cancellable(m)
  PROVE  (KmutexTypeOK /\ OwnerHolds /\ Behind /\ LockersAccounted)'
<1> USE SchedAssumption, MutexIsQueue
<1>1. PICK call \in LockCall, st \in Sleeping :
        /\ kt_state' = [kt_state EXCEPT ![curthr] = st]
        /\ kt_wchan' = [kt_wchan EXCEPT ![curthr] = m]
        /\ lockcall' = [lockcall EXCEPT ![curthr] = call]
        /\ locking' = [locking EXCEPT ![curthr] = m]
        /\ call = "kmutex_lock" => st = "KT_SLEEP"
  BY DEF kmutex_lock, kmutex_lock_cancellable, sched_sleep_on, sched_cancellable_sleep_on, Sleeping
<1>2. /\ km_holder[m] \notin {NULL, curthr} /\ Executing
      /\ UNCHANGED <<km_holder, owned, kt_cancelled, curthr>>
  BY DEF kmutex_lock, kmutex_lock_cancellable, sched_sleep_on, sched_cancellable_sleep_on
<1>3. /\ curthr \in Thread /\ kt_wchan[curthr] = NULL
      /\ kt_wchan \in [Thread -> AllQueue \cup {NULL}] /\ kt_state \in [Thread -> State]
  BY <1>2 DEF MInv, SchedInv, SchedTypeOK, AssertionsHold, Executing
<1>4. /\ km_holder \in [Mutex -> Thread \cup {NULL}]
      /\ lockcall \in [Thread -> LockCall \cup {"none"}]
      /\ locking \in [Thread -> Mutex \cup {NULL}]
  BY DEF MInv, KmutexTypeOK
<1>5. KmutexTypeOK'
  BY <1>1, <1>2, <1>3, <1>4 DEF MInv, KmutexTypeOK, SchedInv
<1>6. OwnerHolds'
  BY <1>2 DEF MInv, OwnerHolds
<1>7. Behind'
  BY <1>1, <1>2, <1>3, <1>4 DEF MInv, Behind
<1>8. LockersAccounted'
  BY <1>1, <1>2, <1>3, <1>4, KmutexAssumption DEF MInv, LockersAccounted
<1> QED BY <1>5, <1>6, <1>7, <1>8

(***************************************************************************)
(* kmutex_unlock frees the mutex, or makes the first waiter its holder and *)
(* runnable in one step.                                                   *)
(***************************************************************************)
LEMMA UnlockInv ==
  ASSUME MInv, SchedInv', NEW m \in Mutex, kmutex_unlock(m)
  PROVE  (KmutexTypeOK /\ OwnerHolds /\ Behind /\ LockersAccounted)'
<1> USE SchedAssumption, MutexIsQueue
<1>1. /\ Executing /\ m \in owned[curthr] /\ km_holder[m] = curthr
      /\ owned' = [owned EXCEPT ![curthr] = @ \ {m}]
      /\ UNCHANGED <<lockcall, locking>>
  BY DEF kmutex_unlock
<1>2. /\ km_holder \in [Mutex -> Thread \cup {NULL}] /\ owned \in [Thread -> SUBSET Mutex]
      /\ locking \in [Thread -> Mutex \cup {NULL}]
  BY DEF MInv, KmutexTypeOK
<1>3. /\ kt_wchan \in [Thread -> AllQueue \cup {NULL}] /\ kt_state \in [Thread -> State]
      /\ curthr \in Thread /\ kt_wchan[curthr] = NULL
  BY <1>1 DEF MInv, SchedInv, SchedTypeOK, AssertionsHold, Executing
<1>4. PICK h \in Thread \cup {NULL} :
        /\ km_holder' = [km_holder EXCEPT ![m] = h]
        /\ \/ h = NULL /\ UNCHANGED schedVars /\ \A t \in Thread : kt_wchan[t] # m
           \/ /\ h \in Thread /\ kt_wchan[h] = m
              /\ kt_state' = [kt_state EXCEPT ![h] = "KT_RUN"]
              /\ kt_wchan' = [kt_wchan EXCEPT ![h] = kt_runq]
              /\ UNCHANGED kt_cancelled
  <2>1. /\ sched_queue_empty(m) <=> \A t \in Thread : kt_wchan[t] # m
        /\ ~sched_queue_empty(m) => Head(tq_list[m]) \in Thread /\ kt_wchan[Head(tq_list[m])] = m
    BY ListIsWchan DEF MInv
  <2>2. CASE sched_queue_empty(m) /\ km_holder' = [km_holder EXCEPT ![m] = NULL] /\ UNCHANGED schedVars
    BY <2>1, <2>2
  <2>3. CASE ~sched_queue_empty(m) /\ km_holder' = [km_holder EXCEPT ![m] = Head(tq_list[m])]
             /\ sched_wakeup_on(m)
    BY <2>1, <2>3 DEF sched_wakeup_on, MakeRunnable
  <2> QED BY <2>2, <2>3 DEF kmutex_unlock
<1>5. KmutexTypeOK'
  BY <1>1, <1>2, <1>4 DEF MInv, KmutexTypeOK, SchedInv
<1>6. OwnerHolds'
  BY <1>1, <1>2, <1>3, <1>4 DEF MInv, OwnerHolds
<1>7. Behind'
  BY <1>1, <1>2, <1>3, <1>4 DEF MInv, Behind, schedVars
<1>8. LockersAccounted'
  BY <1>1, <1>2, <1>3, <1>4 DEF MInv, LockersAccounted, schedVars
<1> QED BY <1>5, <1>6, <1>7, <1>8

(***************************************************************************)
(* The thread switched to returns from its lock call: it is told that it   *)
(* has the mutex only if it was handed it.                                 *)
(***************************************************************************)
LEMMA ReturnInv ==
  ASSUME SoundCalls, MInv, SchedInv', SwitchAndReturn
  PROVE  (KmutexTypeOK /\ OwnerHolds /\ Behind /\ LockersAccounted)'
<1> USE SchedAssumption, MutexIsQueue
<1>1. PICK t \in Thread : t = curthr' /\ kt_wchan[t] = kt_runq
  <2>1. kt_runq \in AllQueue
    BY DEF AllQueue
  <2> QED BY <2>1, ListIsWchan DEF MInv, SwitchAndReturn, sched_switch
<1>2. /\ kt_wchan' = [kt_wchan EXCEPT ![t] = NULL]
      /\ UNCHANGED <<kt_state, kt_cancelled, km_holder>>
      /\ owned' = [owned EXCEPT ![t] = IF ReturnsOwner(t) THEN @ \cup {locking[t]} ELSE @]
      /\ lockcall' = [lockcall EXCEPT ![t] = "none"]
      /\ locking' = [locking EXCEPT ![t] = NULL]
  BY <1>1 DEF SwitchAndReturn, sched_switch
<1>3. /\ km_holder \in [Mutex -> Thread \cup {NULL}] /\ owned \in [Thread -> SUBSET Mutex]
      /\ lockcall \in [Thread -> LockCall \cup {"none"}]
      /\ locking \in [Thread -> Mutex \cup {NULL}]
      /\ kt_wchan \in [Thread -> AllQueue \cup {NULL}]
  BY DEF MInv, KmutexTypeOK, SchedTypeOK
<1>4. ReturnsOwner(t) => locking[t] \in Mutex /\ km_holder[locking[t]] = t
  <2> SUFFICES ASSUME ReturnsOwner(t) PROVE locking[t] \in Mutex /\ km_holder[locking[t]] = t
    OBVIOUS
  <2>1. lockcall[t] # "none"
    BY DEF ReturnsOwner
  <2>2. locking[t] \in Mutex /\ kt_wchan[t] # locking[t]
    BY <1>1, <1>3, <2>1 DEF MInv, LockersAccounted
  <2>3. lockcall[t] = "kmutex_lock_cancellable" => ~kt_cancelled[t]
    BY <1>3, KmutexAssumption DEF SoundCalls, ReturnsOwner, ReturnsZero_procs
  <2> QED BY <2>1, <2>2, <2>3 DEF MInv, LockersAccounted
<1>5. KmutexTypeOK'
  BY <1>2, <1>3, <1>4 DEF MInv, KmutexTypeOK, SchedInv
<1>6. OwnerHolds'
  BY <1>2, <1>3, <1>4 DEF MInv, OwnerHolds
<1>7. Behind'
  BY <1>1, <1>2, <1>3 DEF MInv, Behind
<1>8. LockersAccounted'
  BY <1>1, <1>2, <1>3 DEF MInv, LockersAccounted
<1> QED BY <1>5, <1>6, <1>7, <1>8

(***************************************************************************)
(* The other steps of threads move nobody on or off a mutex but the ones   *)
(* that sched_cancel wakes, and these are marked.                          *)
(***************************************************************************)
LEMMA OtherInv ==
  ASSUME MInv, SchedInv', OtherStep, UNCHANGED mutexVars
  PROVE  (KmutexTypeOK /\ OwnerHolds /\ Behind /\ LockersAccounted)'
<1> USE SchedAssumption, MutexIsQueue
<1>1. Aside
  BY OtherIsAside DEF MInv
<1>2. UNCHANGED <<km_holder, lockcall, locking, owned>>
  BY DEF mutexVars
<1>3. km_holder \in [Mutex -> Thread \cup {NULL}] /\ locking \in [Thread -> Mutex \cup {NULL}]
  BY DEF MInv, KmutexTypeOK
<1>4. KmutexTypeOK' /\ OwnerHolds'
  BY <1>2 DEF MInv, KmutexTypeOK, SchedInv, OwnerHolds
<1>5. Behind'
  BY <1>1, <1>2, <1>3 DEF MInv, Behind, Aside
<1>6. LockersAccounted'
  <2> SUFFICES ASSUME NEW t \in Thread
               PROVE  /\ lockcall'[t] = "none" <=> locking'[t] = NULL
                      /\ kt_wchan'[t] \in Mutex =>
                           /\ locking'[t] = kt_wchan'[t]
                           /\ lockcall'[t] = "kmutex_lock" => kt_state'[t] = "KT_SLEEP"
                      /\ locking'[t] # NULL /\ kt_wchan'[t] # locking'[t] =>
                           /\ kt_wchan'[t] = kt_runq
                           /\ \/ km_holder'[locking'[t]] = t
                              \/ lockcall'[t] = "kmutex_lock_cancellable" /\ kt_cancelled'[t]
    BY DEF LockersAccounted
  <2>0. lockcall[t] \in LockCall \cup {"none"}
    BY DEF MInv, KmutexTypeOK
  <2>1. lockcall'[t] = "none" <=> locking'[t] = NULL
    BY <1>2 DEF MInv, LockersAccounted
  <2>2. kt_wchan'[t] \in Mutex =>
           /\ locking'[t] = kt_wchan'[t]
           /\ lockcall'[t] = "kmutex_lock" => kt_state'[t] = "KT_SLEEP"
    BY <1>1, <1>2, <2>0 DEF MInv, LockersAccounted, Aside
  <2>3. ASSUME locking'[t] # NULL, kt_wchan'[t] # locking'[t]
        PROVE  /\ kt_wchan'[t] = kt_runq
               /\ \/ km_holder'[locking'[t]] = t
                  \/ lockcall'[t] = "kmutex_lock_cancellable" /\ kt_cancelled'[t]
    <3>1. CASE kt_wchan[t] = locking[t]
      <4>1. kt_wchan[t] \in Mutex
        BY <1>2, <1>3, <2>3, <3>1
      <4>2. kt_state[t] = "KT_SLEEP_CANCELLABLE" /\ kt_wchan'[t] = kt_runq /\ kt_cancelled'[t]
        BY <1>1, <1>2, <2>3, <3>1, <4>1 DEF Aside
      <4>3. lockcall[t] = "kmutex_lock_cancellable"
        BY <1>2, <2>0, <2>1, <2>3, <4>1, <4>2, KmutexAssumption DEF MInv, LockersAccounted
      <4> QED BY <1>2, <4>2, <4>3
    <3>2. CASE kt_wchan[t] # locking[t]
      BY <1>1, <1>2, <2>3, <3>2 DEF MInv, LockersAccounted, Aside
    <3> QED BY <3>1, <3>2
  <2> QED BY <2>1, <2>2, <2>3
<1> QED BY <1>4, <1>5, <1>6

(***************************************************************************)
(* Every step preserves the invariant, one case per action.                *)
(***************************************************************************)
LEMMA KmutexNextInv == SoundCalls /\ MInv /\ [KmutexNext]_kmVars => MInv'
<1> SUFFICES ASSUME SoundCalls, MInv, [KmutexNext]_kmVars
             PROVE  (KmutexTypeOK /\ OwnerHolds /\ Behind /\ LockersAccounted)'
  BY KmutexSchedInv DEF MInv
<1>0. SchedInv'
  BY KmutexSchedInv DEF MInv
<1>1. ASSUME NEW m \in Mutex, kmutex_take(m)
      PROVE  (KmutexTypeOK /\ OwnerHolds /\ Behind /\ LockersAccounted)'
  BY <1>1, TakeInv
<1>2. ASSUME NEW m \in Mutex, kmutex_lock(m) \/ kmutex_lock_cancellable(m)
      PROVE  (KmutexTypeOK /\ OwnerHolds /\ Behind /\ LockersAccounted)'
  BY <1>0, <1>2, LockInv
<1>3. ASSUME NEW m \in Mutex, kmutex_unlock(m)
      PROVE  (KmutexTypeOK /\ OwnerHolds /\ Behind /\ LockersAccounted)'
  BY <1>0, <1>3, UnlockInv
<1>4. CASE SwitchAndReturn
  BY <1>0, <1>4, ReturnInv
<1>5. CASE OtherStep /\ UNCHANGED mutexVars
  BY <1>0, <1>5, OtherInv
<1>6. CASE UNCHANGED kmVars
  BY <1>6 DEF kmVars, schedVars, mutexVars, MInv, KmutexTypeOK, SchedTypeOK, OwnerHolds, Behind,
              LockersAccounted
<1> QED BY <1>1, <1>2, <1>3, <1>4, <1>5, <1>6 DEF KmutexNext, OtherStep

(***************************************************************************)
(* The invariant on wait channels gives the one the run checks, and holds  *)
(* always.                                                                 *)
(***************************************************************************)
LEMMA IInvGivesKmutexInv == MInv => KmutexInv
  BY BehindHolder DEF MInv, KmutexInv

(***************************************************************************)
(* It holds in every reachable state.                                      *)
(***************************************************************************)
LEMMA IInvAlways == SoundCalls /\ KmutexSpec => []MInv
<1> SUFFICES ASSUME SoundCalls PROVE KmutexSpec => []MInv
  OBVIOUS
<1>1. MInv /\ [KmutexNext]_kmVars => MInv'
  BY KmutexNextInv
<1> QED BY <1>1, KmutexInitInv, PTL DEF KmutexSpec

(***************************************************************************)
(* Mutual exclusion as the callers see it, and where waiters are: through  *)
(* every order of unlocks, hand-offs and cancellations, a thread that was  *)
(* told by a lock function that it has the mutex is its km_holder, and     *)
(* waiters stand behind a holder.                                          *)
(***************************************************************************)
THEOREM KmutexInvariant == SoundCalls /\ KmutexSpec => []KmutexInv
  BY IInvAlways, IInvGivesKmutexInv, PTL

(***************************************************************************)
(* A mutex never changes hands past its first waiter: kmutex_unlock serves *)
(* the head of the queue, and a free mutex has no waiters to overtake.     *)
(***************************************************************************)
THEOREM FirstComeFirstServed == SoundCalls /\ KmutexSpec => NoBarging
<1>1. ASSUME MInv, [KmutexNext]_kmVars, NEW m \in Mutex,
             km_holder'[m] # km_holder[m], tq_list[m] # <<>>
      PROVE  km_holder'[m] = Head(tq_list[m])
  <2>1. km_holder \in [Mutex -> Thread \cup {NULL}]
    BY <1>1 DEF MInv, KmutexTypeOK
  <2>2. km_holder[m] # NULL
    <3>1. WaitersBehindHolder
      BY <1>1, IInvGivesKmutexInv DEF KmutexInv
    <3> QED BY <1>1, <3>1 DEF WaitersBehindHolder, sched_queue_empty
  <2>3. ASSUME NEW n \in Mutex, kmutex_take(n) PROVE km_holder'[m] = km_holder[m] \/ km_holder[m] = NULL
    BY <2>1, <2>3 DEF kmutex_take
  <2>4. ASSUME NEW n \in Mutex, kmutex_unlock(n)
        PROVE  km_holder'[m] = km_holder[m] \/ km_holder'[m] = Head(tq_list[m])
    BY <1>1, <2>1, <2>4 DEF kmutex_unlock, sched_queue_empty
  <2>5. ASSUME NEW n \in Mutex, kmutex_lock(n) \/ kmutex_lock_cancellable(n) PROVE UNCHANGED km_holder
    BY <2>5 DEF kmutex_lock, kmutex_lock_cancellable
  <2> QED BY <1>1, <2>2, <2>3, <2>4, <2>5 DEF KmutexNext, SwitchAndReturn, mutexVars, kmVars
<1>2. MInv /\ [KmutexNext]_kmVars =>
        [\A m \in Mutex : km_holder'[m] # km_holder[m] /\ tq_list[m] # <<>>
                            => km_holder'[m] = Head(tq_list[m])]_kmVars
  BY <1>1
<1>3. KmutexSpec => [][KmutexNext]_kmVars
  BY DEF KmutexSpec
<1> QED BY <1>2, <1>3, IInvAlways, PTL DEF NoBarging

(***************************************************************************)
(* The one way to a mutex whose holder does not know of it is the return   *)
(* of -EINTR from kmutex_lock_cancellable after a hand-off.                *)
(***************************************************************************)
THEOREM OnlyCancelledForget == SoundCalls /\ KmutexSpec => HolderOwns
<1> USE SchedAssumption, MutexIsQueue
<1>1. ASSUME MInv, MInv', [KmutexNext]_kmVars, NEW m \in Mutex, Known(m), ~Known(m)'
      PROVE  /\ km_holder'[m] = curthr' /\ kt_cancelled[curthr']
             /\ lockcall[curthr'] = "kmutex_lock_cancellable"
  <2>0. /\ km_holder \in [Mutex -> Thread \cup {NULL}] /\ owned \in [Thread -> SUBSET Mutex]
        /\ locking \in [Thread -> Mutex \cup {NULL}] /\ curthr \in Thread
        /\ lockcall \in [Thread -> LockCall \cup {"none"}]
        /\ kt_wchan \in [Thread -> AllQueue \cup {NULL}]
    BY <1>1 DEF MInv, KmutexTypeOK, SchedTypeOK
  <2>1. PICK t \in Thread : t = km_holder'[m] /\ m \notin owned'[t]
                            /\ ~(locking'[t] = m /\ kt_wchan'[t] = kt_runq)
    BY <1>1, Zenon DEF Known, MInv, KmutexTypeOK
  <2>2. km_holder[m] = t => m \in owned[t] \/ (locking[t] = m /\ kt_wchan[t] = kt_runq)
    BY <1>1, <2>1 DEF Known
  <2>3. ASSUME NEW n \in Mutex, kmutex_take(n) PROVE FALSE
    BY <2>0, <2>1, <2>2, <2>3 DEF kmutex_take, schedVars
  <2>4. ASSUME NEW n \in Mutex, kmutex_lock(n) \/ kmutex_lock_cancellable(n) PROVE FALSE
    <3>1. /\ Executing /\ kt_wchan' = [kt_wchan EXCEPT ![curthr] = n]
          /\ locking' = [locking EXCEPT ![curthr] = n] /\ UNCHANGED <<km_holder, owned>>
      BY <2>4 DEF kmutex_lock, kmutex_lock_cancellable, sched_sleep_on, sched_cancellable_sleep_on
    <3>2. kt_wchan[curthr] = NULL
      BY <1>1, <3>1 DEF MInv, SchedInv, AssertionsHold, Executing
    <3> QED BY <2>0, <2>1, <2>2, <3>1, <3>2
  <2>5. ASSUME NEW n \in Mutex, kmutex_unlock(n) PROVE FALSE
    <3>1. /\ km_holder[n] = curthr /\ owned' = [owned EXCEPT ![curthr] = @ \ {n}]
          /\ UNCHANGED <<lockcall, locking>>
      BY <2>5 DEF kmutex_unlock
    <3>2. CASE km_holder' = [km_holder EXCEPT ![n] = NULL] /\ UNCHANGED schedVars
      BY <2>0, <2>1, <2>2, <3>1, <3>2 DEF schedVars
    <3>3. CASE ~sched_queue_empty(n) /\ km_holder' = [km_holder EXCEPT ![n] = Head(tq_list[n])]
               /\ sched_wakeup_on(n)
      <4>1. Head(tq_list[n]) \in Thread /\ kt_wchan[Head(tq_list[n])] = n
        BY <1>1, <3>3, ListIsWchan DEF MInv
      <4>2. locking[Head(tq_list[n])] = n
        BY <1>1, <4>1 DEF MInv, LockersAccounted
      <4>3. kt_wchan' = [kt_wchan EXCEPT ![Head(tq_list[n])] = kt_runq]
        BY <3>3 DEF sched_wakeup_on, MakeRunnable
      <4> QED BY <2>0, <2>1, <2>2, <3>1, <3>3, <4>1, <4>2, <4>3
    <3> QED BY <2>5, <3>2, <3>3 DEF kmutex_unlock
  <2>6. CASE SwitchAndReturn
    <3>1. PICK u \in Thread : u = curthr'
      BY <1>1 DEF MInv, SchedInv, SchedTypeOK
    <3>2. /\ kt_wchan' = [kt_wchan EXCEPT ![u] = NULL] /\ UNCHANGED km_holder
          /\ owned' = [owned EXCEPT ![u] = IF ReturnsOwner(u) THEN @ \cup {locking[u]} ELSE @]
          /\ locking' = [locking EXCEPT ![u] = NULL]
      BY <2>6, <3>1 DEF SwitchAndReturn, sched_switch
    <3>3. u = t /\ locking[t] = m /\ ~ReturnsOwner(t)
      BY <2>0, <2>1, <2>2, <3>1, <3>2
    <3>4. lockcall[t] # "none"
      BY <1>1, <3>3 DEF MInv, LockersAccounted
    <3>5. lockcall[t] = "kmutex_lock_cancellable" /\ kt_cancelled[t]
      BY <2>0, <3>3, <3>4, KmutexAssumption DEF ReturnsOwner, ReturnsZero_vm, ReturnsZero_procs
    <3> QED BY <2>1, <3>1, <3>3, <3>5
  <2>7. CASE OtherStep /\ UNCHANGED mutexVars
    <3>1. Aside
      BY <1>1, <2>7, OtherIsAside DEF MInv
    <3> QED BY <2>1, <2>2, <2>7, <3>1 DEF Aside, mutexVars
  <2>8. CASE UNCHANGED kmVars
    BY <2>1, <2>2, <2>8 DEF kmVars, schedVars, mutexVars
  <2> QED BY <1>1, <2>3, <2>4, <2>5, <2>6, <2>7, <2>8 DEF KmutexNext, OtherStep
<1>2. MInv /\ MInv' /\ [KmutexNext]_kmVars =>
        [\A m \in Mutex : Known(m) /\ ~Known(m)' =>
           /\ km_holder'[m] = curthr' /\ kt_cancelled[curthr']
           /\ lockcall[curthr'] = "kmutex_lock_cancellable"]_kmVars
  BY <1>1
<1>3. KmutexSpec => [][KmutexNext]_kmVars
  BY DEF KmutexSpec
<1> QED BY <1>2, <1>3, IInvAlways, PTL DEF HolderOwns

-----------------------------------------------------------------------------
(***************************************************************************)
(* Processes.                                                              *)
(***************************************************************************)

(* The tree. *)
TreeOK ==
  /\ proc_list \in Seq(Proc)
  /\ p_state \in [Proc -> {"free", "PROC_RUNNING", "PROC_DEAD"}]
  /\ p_pproc \in [Proc -> Proc \cup {NULL}]
  /\ p_children \in [Proc -> Seq(Proc)]
  /\ TreeConsistent /\ InitAdopts

PidsOK ==
  /\ p_pid \in [Proc -> 0..(PROC_MAX_COUNT - 1) \cup {-1}]
  /\ next_pid \in 0..(PROC_MAX_COUNT - 1)
  /\ PidsUnique

PcOK == pc \in [Proc -> PC] /\ RunsOwnCode

WaitOK == waitfor \in [Proc -> Proc \cup {ANY, NULL}] /\ WaitsForChild

(* A thread asleep on its p_wait has no dead child to wait for. *)
ExitsSeen ==
  \A p \in Proc : kt_wchan[p] = p =>
    \A d \in Range(p_children[p]) : waitfor[p] \in {ANY, d} => p_state[d] # "PROC_DEAD"

RestOK == /\ p_status \in [Proc -> {0, EFAULT}] /\ panic \in BOOLEAN /\ left \subseteq Leftover
          /\ PanicsExplained

IInv == /\ SchedInv /\ TreeOK /\ PidsOK /\ ThreadMatchesProcess /\ PcOK /\ WaitOK
        /\ SleepsWhereExpected /\ ShutdownInOrder /\ ExitsSeen /\ RestOK

(***************************************************************************)
(* The constants.                                                          *)
(***************************************************************************)
LEMMA ProcFacts ==
  /\ idle \in Proc /\ init \in Proc /\ pageoutd \in Proc /\ User \subseteq Proc
  /\ idle # init /\ idle # pageoutd /\ init # pageoutd
  /\ idle \notin User /\ init \notin User /\ pageoutd \notin User
  /\ Proc = User \cup {idle, init, pageoutd}
  /\ NULL \notin Proc /\ ANY \notin Proc /\ ANY # NULL
  /\ Thread = Proc
  BY ProcAssumption, SchedAssumption DEF Proc

(* The wait queues: p_wait of every process, three more, and the run queue. *)
LEMMA QueueFacts ==
  /\ Queue = Proc \cup {tty, disk, pageoutd_waitq} /\ AllQueue = Queue \cup {kt_runq}
  /\ kt_runq \notin Queue /\ kt_runq \notin Proc /\ NULL \notin AllQueue
  /\ tty \notin Proc /\ disk \notin Proc /\ pageoutd_waitq \notin Proc
  /\ tty # disk /\ tty # pageoutd_waitq /\ disk # pageoutd_waitq
  /\ kt_runq # tty /\ kt_runq # disk /\ kt_runq # pageoutd_waitq
  BY ProcAssumption, SchedAssumption DEF AllQueue

(***************************************************************************)
(* The parts make up what the run checks.                                  *)
(***************************************************************************)
LEMMA IInvGives == IInv => ProcInv /\ NoMissedExit /\ PanicsExplained
<1> SUFFICES ASSUME IInv PROVE ProcInv /\ NoMissedExit /\ PanicsExplained
  OBVIOUS
<1>0. /\ SchedInv /\ TreeOK /\ PidsOK /\ ThreadMatchesProcess /\ PcOK /\ WaitOK
      /\ SleepsWhereExpected /\ ShutdownInOrder /\ ExitsSeen /\ RestOK
  BY DEF IInv
<1>1. ProcTypeOK
  BY <1>0 DEF ProcTypeOK, SchedInv, TreeOK, PidsOK, PcOK, WaitOK, RestOK
<1>2. HaltedClean
  <2> SUFFICES ASSUME pc[idle] = "halted" PROVE Allocated = {idle} /\ p_children[idle] = <<>>
    BY DEF HaltedClean
  <2>1. p_state[init] = "free" /\ p_state[pageoutd] = "free" /\ p_state[idle] = "PROC_RUNNING"
    BY <1>0 DEF ShutdownInOrder, TreeOK, InitAdopts
  <2>2. Allocated \cap User = {}
    BY <1>0, <2>1 DEF TreeOK, InitAdopts
  <2>3. Allocated = {idle}
    BY <2>1, <2>2, ProcFacts DEF Allocated
  <2>4. Range(p_children[idle]) = {} /\ p_children[idle] \in Seq(Proc)
    BY <1>0, <2>3, ProcFacts DEF TreeOK, TreeConsistent
  <2>5. p_children[idle] = <<>>
    BY <2>4, HeadTailFacts
  <2> QED BY <2>3, <2>5
<1>3. NoMissedExit
  <2> SUFFICES ASSUME NEW p \in Proc, waitfor[p] # NULL, kt_state[p] = "KT_SLEEP"
               PROVE  \E c \in Range(p_children[p]) :
                        /\ waitfor[p] \in {ANY, c}
                        /\ \A d \in Range(p_children[p]) : waitfor[p] \in {ANY, d} => p_state[d] # "PROC_DEAD"
    BY DEF NoMissedExit
  <2>1. kt_wchan[p] \in Queue
    BY <1>0, ProcFacts DEF SchedInv, NoLostThread, Sleeping
  <2>2. kt_wchan[p] = p
    BY <1>0, <2>1, QueueFacts DEF SleepsWhereExpected
  <2> QED BY <1>0, <2>2 DEF WaitOK, WaitsForChild, ExitsSeen
<1> QED BY <1>0, <1>1, <1>2, <1>3 DEF ProcInv, TreeOK, PidsOK, PcOK, WaitOK, RestOK

-----------------------------------------------------------------------------
(***************************************************************************)
(* What the tree says of processes and parents.                            *)
(***************************************************************************)
LEMMA TreeFacts ==
  ASSUME TreeOK
  PROVE  /\ proc_list \in Seq(Proc) /\ IsInjective(proc_list) /\ Range(proc_list) = Allocated
         /\ p_state \in [Proc -> {"free", "PROC_RUNNING", "PROC_DEAD"}]
         /\ p_pproc \in [Proc -> Proc \cup {NULL}] /\ p_children \in [Proc -> Seq(Proc)]
         /\ p_state[idle] = "PROC_RUNNING" /\ p_pproc[idle] = idle
         /\ Allocated \subseteq Proc /\ idle \in Allocated
         /\ \A p \in Allocated : /\ IsInjective(p_children[p])
                                 /\ Range(p_children[p]) = {c \in Allocated \ {idle} : p_pproc[c] = p}
         /\ \A c \in Allocated : /\ p_pproc[c] \in Allocated /\ p_pproc[c] \in Proc
                                 /\ p_state[p_pproc[c]] = "PROC_RUNNING"
         /\ \A c \in Allocated \ {idle} : /\ p_pproc[c] # pageoutd
                                          /\ p_pproc[c] = idle <=> c \notin User
         /\ p_state[init] # "PROC_RUNNING" => Allocated \cap User = {}
<1>1. Allocated \subseteq Proc
  BY DEF Allocated
<1>2. idle \in Allocated
  BY ProcFacts DEF TreeOK, InitAdopts, Allocated
<1> QED BY <1>1, <1>2 DEF TreeOK, TreeConsistent, InitAdopts

(***************************************************************************)
(* proc_create keeps the tree.  The new process is nobody's parent, and    *)
(* stands last in the list.                                                *)
(***************************************************************************)
LEMMA CreateTree ==
  ASSUME TreeOK, curthr \in {init} \cup User, p_state[curthr] = "PROC_RUNNING",
         NEW c, proc_create(c)
  PROVE  /\ TreeOK' /\ Allocated' = Allocated \cup {c} /\ c \in User \ Allocated
         /\ p_state'[c] = "PROC_RUNNING" /\ \A q \in Proc \ {c} : p_state'[q] = p_state[q]
         /\ \A q \in Proc \ {curthr, c} : p_children'[q] = p_children[q]
         /\ Range(p_children'[curthr]) = Range(p_children[curthr]) \cup {c}
<1> DEFINE p == curthr
<1>0. p \in Proc /\ p # idle /\ p # pageoutd /\ c \in User /\ c \in Proc
  BY ProcFacts DEF proc_create
<1>1. /\ IsInjective(proc_list) /\ Range(proc_list) = Allocated
      /\ p \in Allocated /\ c \notin Allocated /\ p_state[c] = "free" /\ p # c
  BY <1>0, TreeFacts DEF Allocated, proc_create
<1>2. /\ proc_list \in Seq(Proc) /\ p_state \in [Proc -> {"free", "PROC_RUNNING", "PROC_DEAD"}]
      /\ p_pproc \in [Proc -> Proc \cup {NULL}] /\ p_children \in [Proc -> Seq(Proc)]
  BY DEF TreeOK
<1>3. /\ proc_list' = Append(proc_list, c)
      /\ p_state' = [p_state EXCEPT ![c] = "PROC_RUNNING"]
      /\ p_pproc' = [p_pproc EXCEPT ![c] = p]
      /\ p_children' = [p_children EXCEPT ![c] = <<>>, ![p] = Append(@, c)]
  BY DEF proc_create
<1>a. p_state[p] = "PROC_RUNNING"
  OBVIOUS
<1> HIDE DEF p
<1>4. /\ proc_list' \in Seq(Proc) /\ Range(proc_list') = Allocated \cup {c} /\ IsInjective(proc_list')
  BY <1>0, <1>1, <1>2, <1>3, AppendFacts
<1>5. /\ p_state' \in [Proc -> {"free", "PROC_RUNNING", "PROC_DEAD"}]
      /\ p_state'[c] = "PROC_RUNNING" /\ \A q \in Proc \ {c} : p_state'[q] = p_state[q]
  BY <1>0, <1>2, <1>3
<1>6. /\ p_pproc' \in [Proc -> Proc \cup {NULL}]
      /\ p_pproc'[c] = p /\ \A q \in Proc \ {c} : p_pproc'[q] = p_pproc[q]
  BY <1>0, <1>2, <1>3
<1>7. /\ p_children' \in [Proc -> Seq(Proc)]
      /\ p_children'[c] = <<>> /\ p_children'[p] = Append(p_children[p], c)
      /\ \A q \in Proc \ {p, c} : p_children'[q] = p_children[q]
  <2>1. Append(p_children[p], c) \in Seq(Proc) /\ <<>> \in Seq(Proc)
    BY <1>0, <1>2
  <2> QED BY <1>0, <1>1, <1>2, <1>3, <2>1
<1>8. Allocated' = Allocated \cup {c}
  BY <1>0, <1>1, <1>5 DEF Allocated
<1>9. /\ \A d \in Allocated : p_pproc[d] # c /\ p_pproc[d] \in Allocated /\ p_pproc[d] \in Proc
      /\ Allocated \subseteq Proc
  BY <1>1, TreeFacts
<1>10. c # idle /\ c # init /\ p_state[init] = "PROC_RUNNING"
  <2>1. p \in {init} \cup User
    BY DEF p
  <2> QED BY <1>0, <1>1, <1>a, <2>1, TreeFacts, ProcFacts
<1>11. TreeConsistent'
  <2>1. ASSUME NEW q \in Allocated'
        PROVE  /\ IsInjective(p_children'[q])
               /\ Range(p_children'[q]) = {d \in Allocated' \ {idle} : p_pproc'[d] = q}
    <3>1. CASE q = c
      <4>1. IsInjective(<<>>) /\ Range(<<>>) = {}
        BY DEF IsInjective, Range
      <4>2. {d \in Allocated' \ {idle} : p_pproc'[d] = c} = {}
        BY <1>1, <1>6, <1>8, <1>9
      <4> QED BY <1>7, <3>1, <4>1, <4>2
    <3>2. CASE q # c
      <4>1. q \in Allocated /\ q \in Proc
        BY <1>8, <1>9, <3>2
      <4>2. /\ IsInjective(p_children[q]) /\ p_children[q] \in Seq(Proc)
            /\ Range(p_children[q]) = {d \in Allocated \ {idle} : p_pproc[d] = q}
        BY <4>1, TreeFacts
      <4>3. CASE q = p
        <5>1. c \notin Range(p_children[q])
          BY <1>1, <4>2
        <5>2. /\ IsInjective(Append(p_children[q], c))
              /\ Range(Append(p_children[q], c)) = Range(p_children[q]) \cup {c}
          BY <1>0, <4>2, <5>1, AppendFacts
        <5>3. {d \in Allocated' \ {idle} : p_pproc'[d] = q} = {d \in Allocated \ {idle} : p_pproc[d] = q} \cup {c}
          BY <1>1, <1>6, <1>8, <1>9, <1>10, <4>3
        <5> QED BY <1>7, <4>2, <4>3, <5>2, <5>3
      <4>4. CASE q # p
        <5>1. {d \in Allocated' \ {idle} : p_pproc'[d] = q} = {d \in Allocated \ {idle} : p_pproc[d] = q}
          BY <1>1, <1>6, <1>8, <1>9, <4>4
        <5> QED BY <1>7, <3>2, <4>1, <4>2, <4>4, <5>1
      <4> QED BY <4>3, <4>4
    <3> QED BY <3>1, <3>2
  <2>2. ASSUME NEW d \in Allocated'
        PROVE  p_pproc'[d] \in Allocated' /\ p_state'[p_pproc'[d]] = "PROC_RUNNING"
    <3>1. CASE d = c
      BY <1>0, <1>1, <1>a, <1>5, <1>6, <1>8, <3>1
    <3>2. CASE d # c
      <4>1. d \in Allocated /\ d \in Proc /\ p_pproc'[d] = p_pproc[d] /\ p_pproc[d] # c
        BY <1>6, <1>8, <1>9, <3>2
      <4> QED BY <1>5, <1>8, <1>9, <4>1, TreeFacts
    <3> QED BY <3>1, <3>2
  <2> QED BY <1>4, <1>8, <2>1, <2>2 DEF TreeConsistent
<1>12. InitAdopts'
  <2>1. p_state'[idle] = "PROC_RUNNING" /\ p_pproc'[idle] = idle
    BY <1>5, <1>6, <1>10, ProcFacts, TreeFacts
  <2>2. ASSUME NEW d \in Allocated' \ {idle}
        PROVE  /\ p_pproc'[d] # pageoutd
               /\ p_pproc'[d] = idle <=> d \notin User
    <3>1. CASE d = c
      BY <1>0, <1>6, <3>1
    <3>2. CASE d # c
      <4>1. d \in Allocated \ {idle} /\ p_pproc'[d] = p_pproc[d]
        BY <1>6, <1>8, <1>9, <3>2
      <4> QED BY <4>1, TreeFacts
    <3> QED BY <3>1, <3>2
  <2>3. ASSUME NEW i \in 1 .. Len(proc_list'), NEW j \in 1 .. Len(proc_list'),
               Precedes(proc_list[i], proc_list[j])'
        PROVE  i < j
    <3>1. /\ Len(proc_list) \in Nat /\ Len(proc_list') = Len(proc_list) + 1
          /\ proc_list'[Len(proc_list) + 1] = c
          /\ \A n \in 1 .. Len(proc_list) : proc_list'[n] = proc_list[n]
          /\ \A n \in 1 .. Len(proc_list) : proc_list[n] \in Range(proc_list)
      BY <1>0, <1>2, <1>3 DEF Range
    <3>2. CASE j = Len(proc_list) + 1
      <4>1. proc_list'[i] # c
        <5>1. p # c /\ c # init /\ proc_list'[j] = c
          BY <1>1, <1>10, <3>1, <3>2
        <5> QED BY <1>6, <2>3, <5>1 DEF Precedes
      <4>2. i # Len(proc_list) + 1
        BY <3>1, <4>1
      <4> QED BY <3>1, <3>2, <4>2
    <3>3. CASE j # Len(proc_list) + 1
      <4>1. j \in 1 .. Len(proc_list)
        BY <3>1, <3>3
      <4>2. proc_list'[j] = proc_list[j] /\ proc_list[j] \in Allocated /\ proc_list[j] \in Proc /\ proc_list[j] # c
        BY <1>1, <1>9, <3>1, <4>1
      <4>3. p_pproc'[proc_list[j]] = p_pproc[proc_list[j]] /\ p_pproc[proc_list[j]] # c
        BY <1>6, <1>9, <4>2
      <4>4. Precedes(proc_list'[i], proc_list[j])
        BY <2>3, <4>2, <4>3 DEF Precedes
      <4>5. proc_list'[i] # c
        BY <1>10, <4>3, <4>4 DEF Precedes
      <4>6. i \in 1 .. Len(proc_list) /\ proc_list'[i] = proc_list[i]
        BY <3>1, <4>5
      <4> QED BY <4>1, <4>4, <4>6 DEF TreeOK, InitAdopts
    <3> QED BY <3>2, <3>3
  <2>4. p_state'[init] = "PROC_RUNNING"
    BY <1>5, <1>10, ProcFacts
  <2> QED BY <2>1, <2>2, <2>3, <2>4 DEF InitAdopts
<1>13. Range(p_children'[p]) = Range(p_children[p]) \cup {c}
  <2>1. p_children[p] \in Seq(Proc)
    BY <1>0, <1>2
  <2> QED BY <1>0, <1>7, <2>1, AppendFacts
<1>14. TreeOK'
  BY <1>4, <1>5, <1>6, <1>7, <1>11, <1>12 DEF TreeOK
<1> QED BY <1>0, <1>1, <1>5, <1>7, <1>8, <1>13, <1>14 DEF p

(***************************************************************************)
(* When init has no child, no user process is left: the first of them in   *)
(* the list of processes would have a parent before it.                    *)
(***************************************************************************)
LEMMA InitIsLast ==
  ASSUME TreeOK, p_children[init] = <<>>, p_state[init] = "PROC_RUNNING"
  PROVE  Allocated \cap User = {}
<1> SUFFICES ASSUME NEW q \in Allocated, q \in User PROVE FALSE
  OBVIOUS
<1>1. proc_list \in Seq(Proc) /\ Range(proc_list) = Allocated /\ init \in Allocated
  BY ProcFacts, TreeFacts DEF Allocated
<1>2. Len(proc_list) \in Nat /\ DOMAIN proc_list = 1 .. Len(proc_list)
  BY <1>1
<1> DEFINE T == {i \in 1 .. Len(proc_list) : proc_list[i] \in User}
<1>3. T \subseteq Nat /\ T # {}
  BY <1>1, <1>2 DEF Range
<1>4. PICK i \in T : \A j \in T : i <= j
  <2> HIDE DEF T
  <2> QED BY <1>3, LeastNumber
<1> DEFINE c == proc_list[i]
<1>5. c \in Allocated \ {idle} /\ c \in User
  BY <1>1, <1>2, ProcFacts DEF Range
<1>6. /\ p_pproc[c] \in Proc /\ p_pproc[c] \in Allocated /\ p_pproc[c] # idle /\ p_pproc[c] # pageoutd
  BY <1>5, TreeFacts
<1>7. p_pproc[c] # init
  <2>1. Range(p_children[init]) = {d \in Allocated \ {idle} : p_pproc[d] = init}
    BY <1>1, TreeFacts
  <2>2. Range(p_children[init]) = {}
    BY DEF Range
  <2> QED BY <1>5, <2>1, <2>2
<1>8. PICK j \in 1 .. Len(proc_list) : proc_list[j] = p_pproc[c]
  BY <1>1, <1>2, <1>6 DEF Range
<1>9. j < i
  <2>1. Precedes(proc_list[j], proc_list[i])
    BY <1>5, <1>8 DEF Precedes
  <2> QED BY <1>4, <2>1 DEF TreeOK, InitAdopts
<1>10. j \in T
  BY <1>6, <1>7, <1>8, ProcFacts
<1> QED BY <1>2, <1>4, <1>9, <1>10

(***************************************************************************)
(* proc_cleanup keeps the tree: the children of the process that exits are *)
(* init's, which runs as long as there is a user process.                  *)
(***************************************************************************)
LEMMA ExitTree ==
  ASSUME TreeOK, curthr \in Proc \ {idle}, p_state[curthr] = "PROC_RUNNING",
         curthr = init => p_children[init] = <<>>,
         NEW woken, proc_cleanup(woken), UNCHANGED proc_list
  PROVE  /\ TreeOK' /\ Allocated' = Allocated
         /\ p_state'[curthr] = "PROC_DEAD"
         /\ \A q \in Proc \ {curthr} : p_state'[q] = p_state[q]
         /\ \A q \in Proc \ {curthr, init} : p_children'[q] = p_children[q]
         /\ p_children'[curthr] = <<>>
         /\ curthr # init =>
              /\ Range(p_children'[init]) = Range(p_children[init]) \cup Range(p_children[curthr])
              /\ Range(p_children[init]) \cap Range(p_children[curthr]) = {}
<1> DEFINE p == curthr
           K == Range(p_children[p])
<1>0. p \in Proc /\ p # idle /\ p_state[p] = "PROC_RUNNING" /\ (p = init => p_children[p] = <<>>)
  OBVIOUS
<1>1. /\ IsInjective(proc_list) /\ Range(proc_list) = Allocated /\ p \in Allocated
      /\ Allocated \subseteq Proc
  BY <1>0, TreeFacts DEF Allocated
<1>2. /\ proc_list \in Seq(Proc) /\ p_state \in [Proc -> {"free", "PROC_RUNNING", "PROC_DEAD"}]
      /\ p_pproc \in [Proc -> Proc \cup {NULL}] /\ p_children \in [Proc -> Seq(Proc)]
  BY DEF TreeOK
<1>3. /\ proc_list' = proc_list
      /\ p_state' = [p_state EXCEPT ![p] = "PROC_DEAD"]
      /\ p_pproc' = [c \in Proc |-> IF c \in K THEN init ELSE p_pproc[c]]
      /\ p_children' = [p_children EXCEPT ![p] = <<>>, ![init] = @ \o p_children[p]]
  BY DEF proc_cleanup
<1>4. K = {d \in Allocated \ {idle} : p_pproc[d] = p} /\ IsInjective(p_children[p])
  BY <1>1, TreeFacts
<1> HIDE DEF p, K
<1>5. /\ p_state' \in [Proc -> {"free", "PROC_RUNNING", "PROC_DEAD"}]
      /\ p_state'[p] = "PROC_DEAD" /\ \A q \in Proc \ {p} : p_state'[q] = p_state[q]
  BY <1>0, <1>2, <1>3
<1>6. /\ p_pproc' \in [Proc -> Proc \cup {NULL}]
      /\ \A c \in Proc : p_pproc'[c] = IF c \in K THEN init ELSE p_pproc[c]
  BY <1>2, <1>3, ProcFacts
<1>7. /\ p_children' \in [Proc -> Seq(Proc)]
      /\ p # init => p_children'[init] = p_children[init] \o p_children[p]
      /\ p_children'[p] = <<>>
      /\ \A q \in Proc \ {init, p} : p_children'[q] = p_children[q]
  <2>1. p_children[init] \o p_children[p] \in Seq(Proc) /\ <<>> \in Seq(Proc)
    BY <1>0, <1>2, ProcFacts
  <2>2. CASE p # init
    BY <1>0, <1>2, <1>3, <2>1, <2>2, ProcFacts
  <2>3. CASE p = init
    <3>1. p_children[p] = <<>> /\ <<>> \o <<>> = <<>>
      BY <1>0, <2>3
    <3>2. p_children' = [p_children EXCEPT ![init] = <<>>]
      BY <1>2, <1>3, <2>3, <3>1, ProcFacts
    <3> QED BY <1>2, <2>1, <2>3, <3>2, ProcFacts
  <2> QED BY <2>2, <2>3
<1>8. Allocated' = Allocated
  BY <1>0, <1>1, <1>5 DEF Allocated
<1>9. p \in User => p_state[init] = "PROC_RUNNING"
  BY <1>1, TreeFacts
<1>10. p = init => K = {}
  BY <1>0 DEF K, Range
<1>11. K \subseteq User
  <2> SUFFICES ASSUME NEW d \in K PROVE d \in User
    OBVIOUS
  <2> QED BY <1>0, <1>4, TreeFacts
<1>a. K # {} => p \in User /\ p_state[init] = "PROC_RUNNING"
  <2> SUFFICES ASSUME K # {} PROVE p \in User /\ p_state[init] = "PROC_RUNNING"
    OBVIOUS
  <2>1. p # pageoutd
    BY <1>4, TreeFacts
  <2> QED BY <1>0, <1>9, <1>10, <2>1, ProcFacts
<1>12. TreeConsistent'
  <2>1. ASSUME NEW q \in Allocated'
        PROVE  /\ IsInjective(p_children'[q])
               /\ Range(p_children'[q]) = {d \in Allocated' \ {idle} : p_pproc'[d] = q}
    <3>1. q \in Allocated /\ q \in Proc
      BY <1>1, <1>8
    <3>2. /\ IsInjective(p_children[q]) /\ p_children[q] \in Seq(Proc)
          /\ Range(p_children[q]) = {d \in Allocated \ {idle} : p_pproc[d] = q}
      BY <3>1, TreeFacts
    <3>3. CASE q = p
      <4>1. IsInjective(<<>>) /\ Range(<<>>) = {}
        BY DEF IsInjective, Range
      <4>2. {d \in Allocated' \ {idle} : p_pproc'[d] = p} = {}
        <5> SUFFICES ASSUME NEW d \in Allocated' \ {idle}, p_pproc'[d] = p PROVE FALSE
          OBVIOUS
        <5>1. d \in Allocated \ {idle} /\ d \in Proc
          BY <1>1, <1>8
        <5> QED BY <1>4, <1>6, <1>10, <5>1
      <4> QED BY <1>7, <3>3, <4>1, <4>2
    <3>4. CASE q = init /\ q # p
      <4>1. Range(p_children[q]) \cap Range(p_children[p]) = {}
        BY <1>4, <3>2, <3>4 DEF K
      <4>2. p_children[p] \in Seq(Proc)
        BY <1>0, <1>2
      <4>3. /\ IsInjective(p_children[q] \o p_children[p])
            /\ Range(p_children[q] \o p_children[p]) = Range(p_children[q]) \cup Range(p_children[p])
        BY <1>4, <3>2, <4>1, <4>2, ConcatFacts
      <4>4. {d \in Allocated' \ {idle} : p_pproc'[d] = q} = {d \in Allocated \ {idle} : p_pproc[d] = q} \cup K
        BY <1>1, <1>4, <1>6, <1>8, <3>4
      <4> QED BY <1>7, <3>2, <3>4, <4>3, <4>4 DEF K
    <3>5. CASE q # init /\ q # p
      <4>1. {d \in Allocated' \ {idle} : p_pproc'[d] = q} = {d \in Allocated \ {idle} : p_pproc[d] = q}
        BY <1>1, <1>4, <1>6, <1>8, <3>5
      <4> QED BY <1>7, <3>1, <3>2, <3>5, <4>1
    <3> QED BY <3>3, <3>4, <3>5
  <2>2. ASSUME NEW d \in Allocated'
        PROVE  p_pproc'[d] \in Allocated' /\ p_state'[p_pproc'[d]] = "PROC_RUNNING"
    <3>0. d \in Allocated /\ d \in Proc /\ p_pproc[d] \in Proc /\ p_pproc[d] \in Allocated
          /\ p_state[p_pproc[d]] = "PROC_RUNNING"
      BY <1>1, <1>8, TreeFacts
    <3>1. CASE d \in K
      <4>1. p # init /\ p_pproc'[d] = init /\ p_state[init] = "PROC_RUNNING"
        BY <1>6, <1>10, <1>a, <3>0, <3>1
      <4>2. init \in Allocated
        BY <4>1, ProcFacts DEF Allocated
      <4> QED BY <1>5, <1>8, <4>1, <4>2, ProcFacts
    <3>2. CASE d \notin K
      <4>1. p_pproc'[d] = p_pproc[d]
        BY <1>6, <3>0, <3>2
      <4>2. p_pproc[d] # p
        BY <1>0, <1>4, <3>0, <3>2, TreeFacts
      <4> QED BY <1>5, <1>8, <3>0, <4>1, <4>2
    <3> QED BY <3>1, <3>2
  <2> QED BY <1>1, <1>3, <1>8, <2>1, <2>2 DEF TreeConsistent
<1>13. InitAdopts'
  <2>1. p_state'[idle] = "PROC_RUNNING" /\ p_pproc'[idle] = idle
    BY <1>0, <1>5, <1>6, <1>11, ProcFacts, TreeFacts
  <2>2. ASSUME NEW d \in Allocated' \ {idle}
        PROVE  /\ p_pproc'[d] # pageoutd
               /\ p_pproc'[d] = idle <=> d \notin User
    <3>1. d \in Allocated \ {idle} /\ d \in Proc
      BY <1>1, <1>8
    <3>2. p_pproc[d] # pageoutd /\ (p_pproc[d] = idle <=> d \notin User)
      BY <3>1, TreeFacts
    <3> QED BY <1>6, <1>11, <3>1, <3>2, ProcFacts
  <2>3. ASSUME NEW i \in 1 .. Len(proc_list'), NEW j \in 1 .. Len(proc_list'),
               Precedes(proc_list[i], proc_list[j])'
        PROVE  i < j
    <3>1. proc_list[j] \in Proc
      BY <1>2, <1>3
    <3>2. Precedes(proc_list[i], proc_list[j])
      BY <1>3, <1>6, <1>11, <2>3, <3>1 DEF Precedes
    <3> QED BY <1>3, <3>2 DEF TreeOK, InitAdopts
  <2>4. p_state'[init] # "PROC_RUNNING" => Allocated' \cap User = {}
    <3>1. CASE p = init
      BY <1>0, <1>8, <3>1, InitIsLast
    <3>2. CASE p # init
      BY <1>5, <1>8, <3>2, ProcFacts, TreeFacts
    <3> QED BY <3>1, <3>2
  <2> QED BY <2>1, <2>2, <2>3, <2>4 DEF InitAdopts
<1>14. TreeOK'
  BY <1>2, <1>3, <1>5, <1>6, <1>7, <1>12, <1>13 DEF TreeOK
<1>15. ASSUME p # init
       PROVE  /\ Range(p_children'[init]) = Range(p_children[init]) \cup Range(p_children[p])
              /\ Range(p_children[init]) \cap Range(p_children[p]) = {}
  <2>1. p_children[p] \in Seq(Proc) /\ p_children[init] \in Seq(Proc)
    BY <1>0, <1>2, ProcFacts
  <2>2. Range(p_children'[init]) = Range(p_children[init]) \cup Range(p_children[p])
    <3>1. Range(p_children[init] \o p_children[p]) = Range(p_children[init]) \cup Range(p_children[p])
      BY <2>1, ConcatFacts
    <3> QED BY <1>7, <1>15, <3>1
  <2>3. CASE init \in Allocated
    <3>1. Range(p_children[init]) = {d \in Allocated \ {idle} : p_pproc[d] = init}
      BY <2>3, TreeFacts
    <3> QED BY <1>4, <1>15, <2>2, <3>1 DEF K
  <2>4. CASE init \notin Allocated
    <3>1. K = {}
      BY <1>a, <2>4, ProcFacts DEF Allocated
    <3> QED BY <2>2, <3>1 DEF K
  <2> QED BY <2>3, <2>4
<1> QED BY <1>5, <1>7, <1>8, <1>14, <1>15 DEF p

(***************************************************************************)
(* The end of a wait keeps the tree: a dead process is nobody's parent.    *)
(***************************************************************************)
LEMMA ReapTree ==
  ASSUME TreeOK, curthr \in Proc, p_state[curthr] = "PROC_RUNNING",
         NEW c \in Range(p_children[curthr]), p_state[c] = "PROC_DEAD", disposeZombie(c)
  PROVE  /\ TreeOK' /\ Allocated' = Allocated \ {c} /\ c \in Allocated \ {idle}
         /\ p_pproc[c] = curthr
         /\ p_state'[c] = "free" /\ \A q \in Proc \ {c} : p_state'[q] = p_state[q]
         /\ \A q \in Proc \ {curthr} : p_children'[q] = p_children[q]
         /\ Range(p_children'[curthr]) = Range(p_children[curthr]) \ {c}
<1> DEFINE p == curthr
           k == Keep(proc_list, Proc \ {c})
           kc == Keep(p_children[p], Proc \ {c})
<1>0. p \in Allocated /\ p \in Proc
  BY DEF Allocated
<1>1. /\ IsInjective(proc_list) /\ Range(proc_list) = Allocated /\ Allocated \subseteq Proc
      /\ c \in Allocated \ {idle} /\ c \in Proc /\ p_pproc[c] = p /\ c # p /\ c # idle
  BY <1>0, TreeFacts
<1>2. /\ proc_list \in Seq(Proc) /\ p_state \in [Proc -> {"free", "PROC_RUNNING", "PROC_DEAD"}]
      /\ p_pproc \in [Proc -> Proc \cup {NULL}] /\ p_children \in [Proc -> Seq(Proc)]
  BY DEF TreeOK
<1>3. /\ proc_list' = k
      /\ p_state' = [p_state EXCEPT ![c] = "free"]
      /\ p_pproc' = [p_pproc EXCEPT ![c] = NULL]
      /\ p_children' = [p_children EXCEPT ![p] = kc]
  BY DEF disposeZombie, Without
<1>4. /\ k \in Seq(Proc) /\ Range(k) = Range(proc_list) \cap (Proc \ {c})
      /\ IsInjective(k) /\ InOrder(k, proc_list, Len(proc_list))
  BY <1>1, <1>2, KeepFacts
<1>5. /\ kc \in Seq(Proc) /\ IsInjective(kc)
      /\ Range(kc) = Range(p_children[p]) \cap (Proc \ {c})
  <2>1. p_children[p] \in Seq(Proc) /\ IsInjective(p_children[p])
    BY <1>0, <1>2, TreeFacts
  <2> QED BY <2>1, KeepFacts
<1>6. Range(kc) = Range(p_children[p]) \ {c}
  <2>1. Range(p_children[p]) \subseteq Proc
    BY <1>0, <1>1, TreeFacts
  <2> QED BY <1>5, <2>1
<1>a. p_state[p] = "PROC_RUNNING"
  OBVIOUS
<1> HIDE DEF k, kc, p
<1>7. /\ p_state' \in [Proc -> {"free", "PROC_RUNNING", "PROC_DEAD"}]
      /\ p_state'[c] = "free" /\ \A q \in Proc \ {c} : p_state'[q] = p_state[q]
  BY <1>1, <1>2, <1>3
<1>8. /\ p_pproc' \in [Proc -> Proc \cup {NULL}]
      /\ \A q \in Proc \ {c} : p_pproc'[q] = p_pproc[q]
  BY <1>1, <1>2, <1>3
<1>9. /\ p_children' \in [Proc -> Seq(Proc)]
      /\ p_children'[p] = kc
      /\ \A q \in Proc \ {p} : p_children'[q] = p_children[q]
  BY <1>0, <1>2, <1>3, <1>5
<1>10. Allocated' = Allocated \ {c}
  BY <1>1, <1>7 DEF Allocated
<1>11. \A d \in Allocated : /\ p_pproc[d] # c /\ p_pproc[d] \in Proc /\ p_pproc[d] \in Allocated
                            /\ p_state[p_pproc[d]] = "PROC_RUNNING"
  BY TreeFacts
<1>12. Range(k) = Allocated \ {c}
  BY <1>1, <1>4
<1>13. TreeConsistent'
  <2>1. ASSUME NEW q \in Allocated'
        PROVE  /\ IsInjective(p_children'[q])
               /\ Range(p_children'[q]) = {d \in Allocated' \ {idle} : p_pproc'[d] = q}
    <3>1. q \in Allocated /\ q \in Proc /\ q # c
      BY <1>1, <1>10
    <3>2. /\ IsInjective(p_children[q])
          /\ Range(p_children[q]) = {d \in Allocated \ {idle} : p_pproc[d] = q}
      BY <3>1, TreeFacts
    <3>3. {d \in Allocated' \ {idle} : p_pproc'[d] = q} = Range(p_children[q]) \ {c}
      BY <1>1, <1>8, <1>10, <3>2
    <3>4. CASE q = p
      BY <1>5, <1>6, <1>9, <3>3, <3>4
    <3>5. CASE q # p
      <4>1. c \notin Range(p_children[q])
        BY <1>1, <3>2, <3>5
      <4> QED BY <1>9, <3>1, <3>2, <3>3, <3>5, <4>1
    <3> QED BY <3>4, <3>5
  <2>2. ASSUME NEW d \in Allocated'
        PROVE  p_pproc'[d] \in Allocated' /\ p_state'[p_pproc'[d]] = "PROC_RUNNING"
    <3>1. d \in Allocated /\ d \in Proc /\ d # c
      BY <1>1, <1>10
    <3> QED BY <1>7, <1>8, <1>10, <1>11, <3>1
  <2> QED BY <1>3, <1>4, <1>10, <1>12, <2>1, <2>2 DEF TreeConsistent
<1>14. InitAdopts'
  <2>1. p_state'[idle] = "PROC_RUNNING" /\ p_pproc'[idle] = idle
    BY <1>1, <1>7, <1>8, ProcFacts, TreeFacts
  <2>2. ASSUME NEW d \in Allocated' \ {idle}
        PROVE  /\ p_pproc'[d] # pageoutd
               /\ p_pproc'[d] = idle <=> d \notin User
    <3>1. d \in Allocated \ {idle} /\ d \in Proc /\ d # c
      BY <1>1, <1>10
    <3> QED BY <1>8, <3>1, TreeFacts
  <2>3. ASSUME NEW i \in 1 .. Len(proc_list'), NEW j \in 1 .. Len(proc_list'),
               Precedes(proc_list[i], proc_list[j])'
        PROVE  i < j
    <3>0. Len(k) \in Nat /\ DOMAIN k = 1 .. Len(k) /\ i \in 1 .. Len(k) /\ j \in 1 .. Len(k)
      BY <1>3, <1>4
    <3>1. k[j] \in Allocated \ {c} /\ k[i] \in Allocated \ {c} /\ k[j] \in Proc
      BY <1>1, <1>12, <3>0 DEF Range
    <3>2. Precedes(k[i], k[j])
      BY <1>3, <1>8, <2>3, <3>1 DEF Precedes
    <3>3. \A x, y \in 1 .. Len(proc_list) : Precedes(proc_list[x], proc_list[y]) => x < y
      BY DEF TreeOK, InitAdopts
    <3>4. ~(j < i)
      <4> SUFFICES ASSUME j < i PROVE FALSE
        OBVIOUS
      <4>1. PICK x \in 1 .. Len(proc_list), y \in 1 .. Len(proc_list) :
              x < y /\ proc_list[x] = k[j] /\ proc_list[y] = k[i]
        BY <1>4, <3>0 DEF InOrder
      <4>2. y < x
        BY <3>2, <3>3, <4>1
      <4> QED BY <1>2, <4>1, <4>2
    <3>5. i # j
      <4> SUFFICES ASSUME i = j PROVE FALSE
        OBVIOUS
      <4>0. DOMAIN proc_list = 1 .. Len(proc_list) /\ k[i] \in Range(proc_list)
        BY <1>1, <1>2, <3>1
      <4>1. PICK x \in 1 .. Len(proc_list) : proc_list[x] = k[i]
        BY <4>0 DEF Range
      <4>2. x < x
        BY <3>2, <3>3, <4>1
      <4> QED BY <1>2, <4>2
    <3> QED BY <3>0, <3>4, <3>5
  <2>4. p_state'[init] # "PROC_RUNNING" => Allocated' \cap User = {}
    <3>1. CASE c = init
      <4>1. p_state[init] # "PROC_RUNNING"
        BY <3>1
      <4> QED BY <1>10, <4>1, TreeFacts
    <3>2. CASE c # init
      BY <1>7, <1>10, <3>2, ProcFacts, TreeFacts
    <3> QED BY <3>1, <3>2
  <2> QED BY <2>1, <2>2, <2>3, <2>4 DEF InitAdopts
<1>15. TreeOK'
  BY <1>3, <1>4, <1>7, <1>8, <1>9, <1>13, <1>14 DEF TreeOK
<1> QED BY <1>1, <1>6, <1>7, <1>9, <1>10, <1>15 DEF p

-----------------------------------------------------------------------------
(***************************************************************************)
(* There are more pids than processes.                                     *)
(***************************************************************************)
LEMMA PidCount ==
  /\ IsFiniteSet(Proc) /\ Cardinality(Proc) \in Nat
  /\ PROC_MAX_COUNT \in Nat /\ Cardinality(Proc) < PROC_MAX_COUNT /\ PROC_MAX_COUNT > 3
<1>1. /\ IsFiniteSet({idle}) /\ Cardinality({idle}) = 1
  BY FS_Singleton
<1>2. /\ IsFiniteSet({idle} \cup {init}) /\ Cardinality({idle} \cup {init}) = 2
  <2>1. init \notin {idle}
    BY ProcFacts
  <2>2. /\ IsFiniteSet({idle} \cup {init})
        /\ Cardinality({idle} \cup {init}) = Cardinality({idle}) + 1
    BY <1>1, <2>1, FS_AddElement
  <2> QED BY <1>1, <2>2
<1>3. /\ IsFiniteSet({idle} \cup {init} \cup {pageoutd})
      /\ Cardinality({idle} \cup {init} \cup {pageoutd}) = 3
  <2>1. pageoutd \notin {idle} \cup {init}
    BY ProcFacts
  <2>2. /\ IsFiniteSet({idle} \cup {init} \cup {pageoutd})
        /\ Cardinality({idle} \cup {init} \cup {pageoutd}) = Cardinality({idle} \cup {init}) + 1
    BY <1>2, <2>1, FS_AddElement
  <2> QED BY <1>2, <2>2
<1>4. Proc = ({idle} \cup {init} \cup {pageoutd}) \cup User
  BY DEF Proc
<1>5. IsFiniteSet(Proc)
  BY <1>3, <1>4, FS_Union, ProcAssumption
<1>6. 3 <= Cardinality(Proc) /\ Cardinality(Proc) \in Nat
  BY <1>3, <1>4, <1>5, FS_Subset, FS_CardinalityType
<1> QED BY <1>5, <1>6, ProcAssumption

(***************************************************************************)
(* _proc_getid finds a pid that no process has: it looks at every pid, and *)
(* next_pid may have wrapped around.                                       *)
(***************************************************************************)
LEMMA GetidFree ==
  ASSUME TreeOK, PidsOK
  PROVE  /\ _proc_getid \in 0 .. PROC_MAX_COUNT - 1
         /\ \A p \in Allocated : p_pid[p] # _proc_getid
<1> DEFINE N == PROC_MAX_COUNT
           Taken == {p_pid[p] : p \in Allocated}
<1>0. N \in Nat /\ N > 0 /\ next_pid \in 0 .. N - 1
  BY PidCount DEF PidsOK
<1>1. /\ FreeDistance = {i \in 0 .. N - 1 : PidAfter(i) \notin Taken}
  BY TreeFacts DEF FreeDistance
<1>2. PICK p \in 0 .. N - 1 : p \notin Taken
  <2> SUFFICES ASSUME 0 .. N - 1 \subseteq Taken PROVE FALSE
    OBVIOUS
  <2>1. IsFiniteSet(Allocated) /\ Cardinality(Allocated) <= Cardinality(Proc)
    <3>1. Allocated \in SUBSET Proc
      BY DEF Allocated
    <3> QED BY <3>1, PidCount, FS_Subset
  <2> DEFINE f == [p \in Allocated |-> p_pid[p]]
  <2>2. f \in Surjection(Allocated, Taken)
    BY DEF Surjection
  <2>3. IsFiniteSet(Taken) /\ Cardinality(Taken) <= Cardinality(Allocated)
    <3> HIDE DEF f, Taken
    <3> QED BY <2>1, <2>2, FS_Surjection
  <2>4. Cardinality(0 .. N - 1) = N
    BY <1>0, FS_Interval
  <2>5. Cardinality(0 .. N - 1) <= Cardinality(Taken)
    <3> HIDE DEF Taken
    <3> QED BY <2>3, FS_Subset
  <2>6. Cardinality(Taken) \in Nat /\ Cardinality(Allocated) \in Nat /\ Cardinality(Proc) \in Nat
    BY <2>1, <2>3, PidCount, FS_CardinalityType
  <2> HIDE DEF Taken
  <2> QED BY <1>0, <2>1, <2>3, <2>4, <2>5, <2>6, PidCount
<1> HIDE DEF Taken
<1>3. FreeDistance # {}
  <2>1. CASE p >= next_pid
    <3>1. p - next_pid \in 0 .. N - 1 /\ next_pid + (p - next_pid) = p
      BY <1>0, <2>1
    <3>2. p % N = p
      BY <1>0
    <3>3. PidAfter(p - next_pid) = p
      BY <3>1, <3>2 DEF PidAfter
    <3> QED BY <1>1, <1>2, <3>1, <3>3
  <2>2. CASE p < next_pid
    <3>1. p + N - next_pid \in 0 .. N - 1 /\ next_pid + (p + N - next_pid) = p + N
      BY <1>0, <2>2
    <3>2. (p + N) % N = p
      BY <1>0
    <3>3. PidAfter(p + N - next_pid) = p
      BY <3>1, <3>2 DEF PidAfter
    <3> QED BY <1>1, <1>2, <3>1, <3>3
  <2> QED BY <1>0, <2>1, <2>2
<1>4. FreeDistance \subseteq Nat
  BY <1>0, <1>1
<1> DEFINE k == CHOOSE k \in FreeDistance : \A j \in FreeDistance : k <= j
<1>5. k \in FreeDistance
  BY <1>3, <1>4, LeastNumber
<1>6. _proc_getid = PidAfter(k)
  BY <1>3 DEF _proc_getid
<1> HIDE DEF k
<1>7. k \in 0 .. N - 1 /\ PidAfter(k) \notin Taken /\ next_pid + k \in Nat
  BY <1>0, <1>1, <1>5
<1>8. PidAfter(k) \in 0 .. N - 1
  BY <1>0, <1>7 DEF PidAfter
<1> QED BY <1>6, <1>7, <1>8 DEF Taken

(***************************************************************************)
(* Pids stay unique when a process is created or freed.                    *)
(***************************************************************************)
LEMMA CreatePids ==
  ASSUME TreeOK, PidsOK, NEW c \in User \ Allocated, proc_create(c),
         Allocated' = Allocated \cup {c}
  PROVE  PidsOK'
<1> DEFINE pid == _proc_getid
<1>1. pid \in 0 .. PROC_MAX_COUNT - 1 /\ \A p \in Allocated : p_pid[p] # pid
  BY GetidFree
<1>2. /\ p_pid' = [p_pid EXCEPT ![c] = pid]
      /\ next_pid' = NextPid(pid)
  BY DEF proc_create
<1> HIDE DEF pid
<1>3. /\ p_pid \in [Proc -> 0..(PROC_MAX_COUNT - 1) \cup {-1}] /\ p_pid[idle] = PID_IDLE
      /\ \A p, r \in Allocated : p # r => p_pid[p] # p_pid[r]
      /\ c \in Proc /\ c # idle /\ idle \in Proc /\ Allocated \subseteq Proc
  BY ProcFacts DEF PidsOK, PidsUnique, Allocated
<1>4. /\ p_pid' \in [Proc -> 0..(PROC_MAX_COUNT - 1) \cup {-1}]
      /\ p_pid'[c] = pid /\ \A q \in Proc \ {c} : p_pid'[q] = p_pid[q]
  BY <1>1, <1>2, <1>3
<1>5. next_pid' \in 0 .. PROC_MAX_COUNT - 1
  <2>1. pid # -1 /\ pid + 1 \in Nat /\ PROC_MAX_COUNT \in Nat /\ PROC_MAX_COUNT > 0
    BY <1>1, PidCount
  <2>2. next_pid' = (pid + 1) % PROC_MAX_COUNT
    BY <1>2, <2>1 DEF NextPid
  <2> QED BY <2>1, <2>2
<1>6. PidsUnique'
  <2>1. ASSUME NEW p \in Allocated', NEW r \in Allocated', p # r PROVE p_pid'[p] # p_pid'[r]
    <3>1. p \in Allocated \cup {c} /\ r \in Allocated \cup {c}
      OBVIOUS
    <3>2. CASE p = c
      BY <1>1, <1>3, <1>4, <2>1, <3>1, <3>2
    <3>3. CASE r = c
      BY <1>1, <1>3, <1>4, <2>1, <3>1, <3>3
    <3>4. CASE p # c /\ r # c
      BY <1>3, <1>4, <2>1, <3>1, <3>4
    <3> QED BY <3>2, <3>3, <3>4
  <2> QED BY <1>3, <1>4, <2>1 DEF PidsUnique
<1> QED BY <1>4, <1>5, <1>6 DEF PidsOK

(* The same for a process that is freed, whose p_pid nobody looks at. *)
LEMMA ReapPids ==
  ASSUME PidsOK, NEW c \in Allocated \ {idle}, Allocated' = Allocated \ {c},
         p_pid' = [p_pid EXCEPT ![c] = -1], UNCHANGED next_pid
  PROVE  PidsOK'
<1>1. /\ p_pid \in [Proc -> 0..(PROC_MAX_COUNT - 1) \cup {-1}] /\ p_pid[idle] = PID_IDLE
      /\ \A p, r \in Allocated : p # r => p_pid[p] # p_pid[r]
      /\ c \in Proc /\ idle \in Proc /\ Allocated \subseteq Proc
  BY ProcFacts DEF PidsOK, PidsUnique, Allocated
<1>2. /\ p_pid' \in [Proc -> 0..(PROC_MAX_COUNT - 1) \cup {-1}]
      /\ \A q \in Proc \ {c} : p_pid'[q] = p_pid[q]
  BY <1>1
<1>3. PidsUnique'
  BY <1>1, <1>2 DEF PidsUnique
<1> QED BY <1>2, <1>3 DEF PidsOK

(* The pids, when no process comes or goes. *)
LEMMA SamePids ==
  ASSUME PidsOK, Allocated' = Allocated, UNCHANGED <<p_pid, next_pid>>
  PROVE  PidsOK'
  BY DEF PidsOK, PidsUnique

-----------------------------------------------------------------------------
(***************************************************************************)
(* Steps of the scheduler alone.  A thread keeps its state, or becomes     *)
(* runnable or current, or goes to sleep where it may.                     *)
(***************************************************************************)
KeepsState(t) == kt_state'[t] = kt_state[t] /\ kt_wchan'[t] = kt_wchan[t]

BecomesRunnable(t) ==
  /\ kt_state[t] \in Sleeping \cup {"KT_RUN"}
  /\ kt_state'[t] = "KT_RUN" /\ kt_wchan'[t] \in {kt_runq, NULL}

GoesToSleep(t) ==
  /\ kt_state[t] = "KT_RUN"
  /\ \/ /\ kt_wchan'[t] = t /\ waitfor[t] # NULL /\ kt_state'[t] = "KT_SLEEP"
        /\ \A d \in Range(p_children[t]) : waitfor[t] \in {ANY, d} => p_state[d] # "PROC_DEAD"
     \/ kt_wchan'[t] = disk /\ waitfor[t] = NULL /\ kt_state'[t] = "KT_SLEEP"
     \/ /\ kt_wchan'[t] \in {tty, pageoutd_waitq} /\ waitfor[t] = NULL
        /\ kt_state'[t] = "KT_SLEEP_CANCELLABLE"

(* What depends on the threads' states only through such a step. *)
LEMMA ThreadSteps ==
  ASSUME ThreadMatchesProcess, SleepsWhereExpected, ExitsSeen,
         \A t \in Proc : KeepsState(t) \/ BecomesRunnable(t) \/ GoesToSleep(t),
         UNCHANGED <<p_state, p_children, waitfor, panic>>, ~panic
  PROVE  ThreadMatchesProcess' /\ SleepsWhereExpected' /\ ExitsSeen'
<1>1. ThreadMatchesProcess'
  BY DEF ThreadMatchesProcess, StoppedInExit, KeepsState, BecomesRunnable, GoesToSleep, Sleeping
<1>2. ASSUME NEW p \in Proc
      PROVE  /\ kt_wchan'[p] \in Proc => kt_wchan'[p] = p /\ waitfor[p] # NULL /\ kt_state'[p] = "KT_SLEEP"
             /\ kt_wchan'[p] = disk => waitfor[p] = NULL /\ kt_state'[p] = "KT_SLEEP"
             /\ kt_wchan'[p] \in {tty, pageoutd_waitq} =>
                  waitfor[p] = NULL /\ kt_state'[p] = "KT_SLEEP_CANCELLABLE"
             /\ kt_wchan'[p] = p => \A d \in Range(p_children[p]) :
                                       waitfor[p] \in {ANY, d} => p_state[d] # "PROC_DEAD"
  <2>1. CASE KeepsState(p)
    BY <2>1 DEF KeepsState, SleepsWhereExpected, ExitsSeen
  <2>2. CASE BecomesRunnable(p)
    BY <2>2, QueueFacts, ProcFacts DEF BecomesRunnable
  <2>3. CASE GoesToSleep(p)
    BY <2>3, QueueFacts, ProcFacts DEF GoesToSleep
  <2> QED BY <2>1, <2>2, <2>3
<1>3. SleepsWhereExpected'
  BY <1>2 DEF SleepsWhereExpected
<1>4. ExitsSeen'
  BY <1>2 DEF ExitsSeen
<1> QED BY <1>1, <1>3, <1>4

(* The parts that the tree and the calls in progress make up. *)
LEMMA SameTree ==
  ASSUME TreeOK, UNCHANGED <<proc_list, p_state, p_pproc, p_children>>
  PROVE  TreeOK' /\ Allocated' = Allocated
  BY DEF TreeOK, TreeConsistent, InitAdopts, Allocated, Precedes

(* The scheduler's part, when no thread or queue changes. *)
LEMMA StutterSched ==
  ASSUME SchedInv, UNCHANGED <<kt_state, kt_wchan, kt_cancelled, tq_list, curthr, in_switch>>
  PROVE  SchedInv'
  BY DEF SchedInv, SchedTypeOK, QueuesMatchWchan, ListsThreadsOf, NoLostThread, AssertionsHold,
         CancelledNotAsleep, Executing

(* Where threads are, when none moves and no process ends. *)
LEMMA SamePc == ASSUME PcOK, UNCHANGED <<pc, p_state>> PROVE PcOK'
  BY DEF PcOK, RunsOwnCode

(* The calls of do_waitpid, when the families do not change. *)
LEMMA SameWait == ASSUME WaitOK, UNCHANGED <<waitfor, p_state, p_children>> PROVE WaitOK'
  BY DEF WaitOK, WaitsForChild

(* Statuses, the panic flag and what has been left behind. *)
LEMMA SameRest == ASSUME RestOK, UNCHANGED <<p_status, panic, left>>, ~panic PROVE RestOK'
  BY DEF RestOK, PanicsExplained

(* The order of the shutdown, when none of its processes takes a step. *)
LEMMA SameShutdown ==
  ASSUME ShutdownInOrder, UNCHANGED <<pc, waitfor, p_state>>,
         pc[idle] \in {"idleproc_run", "vfs_shutdown"} =>
           kt_cancelled'[pageoutd] = kt_cancelled[pageoutd]
  PROVE  ShutdownInOrder'
  BY DEF ShutdownInOrder

(* A step of the scheduler alone keeps the invariant. *)
LEMMA SchedStep ==
  ASSUME IInv, SchedInv', OnlySched, ~panic, UNCHANGED kt_cancelled,
         \A t \in Proc : KeepsState(t) \/ BecomesRunnable(t) \/ GoesToSleep(t)
  PROVE  IInv'
<1>0. /\ SchedInv /\ TreeOK /\ PidsOK /\ ThreadMatchesProcess /\ PcOK /\ WaitOK
      /\ SleepsWhereExpected /\ ShutdownInOrder /\ ExitsSeen /\ RestOK
  BY DEF IInv
<1>1. UNCHANGED <<p_pid, p_pproc, p_children, p_state, p_status, proc_list, next_pid, pc, waitfor, panic, left>>
  BY DEF OnlySched, procVars
<1>2. TreeOK' /\ Allocated' = Allocated
  BY <1>0, <1>1, SameTree
<1>3. PidsOK' /\ PcOK' /\ WaitOK' /\ RestOK' /\ ShutdownInOrder'
  BY <1>0, <1>1, <1>2, SamePids, SamePc, SameWait, SameRest, SameShutdown
<1>4. ThreadMatchesProcess' /\ SleepsWhereExpected' /\ ExitsSeen'
  BY <1>0, <1>1, ThreadSteps
<1> QED BY <1>2, <1>3, <1>4 DEF IInv

(***************************************************************************)
(* The thread that executes.                                               *)
(***************************************************************************)
LEMMA RunningFacts ==
  ASSUME IInv, Executing
  PROVE  /\ curthr \in Proc /\ curthr \in Allocated
         /\ kt_state[curthr] = "KT_RUN" /\ kt_wchan[curthr] = NULL
         /\ p_state[curthr] = "PROC_RUNNING" /\ pc[curthr] # "none"
         /\ pc[curthr] \in {"user", "proc_kill_all"} => curthr \in User
         /\ pc[curthr] \in {"initproc_create_child", "initproc_run"} => curthr = init
         /\ pc[curthr] = "pageoutd_run" => curthr = pageoutd
         /\ pc[curthr] \in {"idleproc_run", "vfs_shutdown", "pframe_shutdown"} => curthr = idle
<1>1. curthr \in Proc /\ kt_state[curthr] = "KT_RUN" /\ kt_wchan[curthr] = NULL
  BY ProcFacts DEF IInv, SchedInv, SchedTypeOK, AssertionsHold, Executing
<1>2. p_state[curthr] = "PROC_RUNNING"
  BY <1>1 DEF IInv, ThreadMatchesProcess, TreeOK
<1>3. curthr \in Allocated
  BY <1>1, <1>2 DEF Allocated
<1>4. RunsOwnCode
  BY DEF IInv, PcOK
<1>5. CASE curthr \in User
  BY <1>1, <1>2, <1>3, <1>4, <1>5 DEF RunsOwnCode
<1>6. CASE curthr \in {idle, init, pageoutd}
  BY <1>1, <1>2, <1>3, <1>4, <1>6 DEF RunsOwnCode
<1> QED BY <1>1, <1>5, <1>6, ProcFacts

(* Going to sleep, on one's own p_wait or elsewhere. *)
LEMMA SleepStep ==
  ASSUME IInv, ~panic, OnlySched, NEW q \in Queue,
         \/ /\ sched_sleep_on(q)
            /\ \/ q = disk /\ waitfor[curthr] = NULL
               \/ /\ q = curthr /\ waitfor[curthr] # NULL
                  /\ \A d \in Range(p_children[curthr]) :
                       waitfor[curthr] \in {ANY, d} => p_state[d] # "PROC_DEAD"
         \/ /\ sched_cancellable_sleep_on(q)
            /\ q \in {tty, pageoutd_waitq} /\ waitfor[curthr] = NULL
  PROVE  IInv'
<1>1. SchedInv'
  BY SleepInv DEF IInv
<1>2. Executing /\ UNCHANGED kt_cancelled
  BY DEF sched_sleep_on, sched_cancellable_sleep_on
<1>3. /\ curthr \in Proc /\ kt_state[curthr] = "KT_RUN"
      /\ kt_state \in [Proc -> State] /\ kt_wchan \in [Proc -> AllQueue \cup {NULL}]
  BY <1>2, RunningFacts, ProcFacts DEF IInv, SchedInv, SchedTypeOK
<1>4. GoesToSleep(curthr)
  BY <1>3 DEF GoesToSleep, sched_sleep_on, sched_cancellable_sleep_on
<1>5. \A t \in Proc \ {curthr} : KeepsState(t)
  BY <1>3 DEF KeepsState, sched_sleep_on, sched_cancellable_sleep_on
<1> QED BY <1>1, <1>2, <1>4, <1>5, SchedStep

(* The first thread of a queue that is not empty, and all of its threads. *)
LEMMA QueueHead ==
  ASSUME SchedInv, NEW q \in AllQueue, ~sched_queue_empty(q)
  PROVE  /\ Head(tq_list[q]) \in Proc /\ kt_wchan[Head(tq_list[q])] = q
         /\ kt_state[Head(tq_list[q])] \in Sleeping \cup {"KT_RUN"}
<1>1. PICK s \in Seq(Proc) : s = tq_list[q]
  BY ProcFacts DEF SchedInv, SchedTypeOK
<1>2. s # <<>> /\ Len(s) \in Nat /\ Len(s) > 0 /\ Head(s) = s[1] /\ Head(s) \in Proc
  BY <1>1 DEF sched_queue_empty
<1>3. kt_wchan[s[1]] = q
  BY <1>1, <1>2 DEF SchedInv, QueuesMatchWchan, ListsThreadsOf
<1> QED BY <1>1, <1>2, <1>3, ProcFacts DEF SchedInv, AssertionsHold, AllQueue

(* Waking the first thread of a queue. *)
LEMMA WakeupStep ==
  ASSUME IInv, ~panic, OnlySched, NEW q \in Queue, sched_wakeup_on(q)
  PROVE  IInv'
<1> DEFINE h == Head(tq_list[q])
<1>1. SchedInv' /\ UNCHANGED kt_cancelled
  BY WakeupInv DEF IInv, sched_wakeup_on
<1>2. h \in Proc /\ kt_state[h] \in Sleeping \cup {"KT_RUN"}
  BY QueueHead DEF IInv, sched_wakeup_on, AllQueue
<1>3. /\ kt_state' = [kt_state EXCEPT ![h] = "KT_RUN"]
      /\ kt_wchan' = [kt_wchan EXCEPT ![h] = kt_runq]
      /\ kt_state \in [Proc -> State] /\ kt_wchan \in [Proc -> AllQueue \cup {NULL}]
  BY ProcFacts DEF IInv, SchedInv, SchedTypeOK, sched_wakeup_on, MakeRunnable
<1> HIDE DEF h
<1>4. BecomesRunnable(h) /\ \A t \in Proc \ {h} : KeepsState(t)
  BY <1>2, <1>3 DEF BecomesRunnable, KeepsState
<1> QED BY <1>1, <1>4, SchedStep

(* Waking all threads of a queue. *)
LEMMA BroadcastStep ==
  ASSUME IInv, ~panic, OnlySched, NEW q \in Queue, sched_broadcast_on(q)
  PROVE  IInv'
<1>1. SchedInv' /\ UNCHANGED kt_cancelled
  BY BroadcastInv DEF IInv, sched_broadcast_on
<1>2. PICK s \in Seq(Proc) : s = tq_list[q]
  BY ProcFacts DEF IInv, SchedInv, SchedTypeOK, AllQueue
<1>3. ASSUME NEW t \in Proc, t \in Members(q) PROVE kt_state[t] \in Sleeping
  <2>1. kt_wchan[t] = q
    BY <1>2, <1>3 DEF Members, IInv, SchedInv, QueuesMatchWchan, ListsThreadsOf, AllQueue
  <2> QED BY <2>1, ProcFacts DEF IInv, SchedInv, AssertionsHold
<1>4. /\ kt_state' = [t \in Proc |-> IF t \in Members(q) THEN "KT_RUN" ELSE kt_state[t]]
      /\ kt_wchan' = [t \in Proc |-> IF t \in Members(q) THEN kt_runq ELSE kt_wchan[t]]
  BY ProcFacts DEF sched_broadcast_on
<1>5. \A t \in Proc : KeepsState(t) \/ BecomesRunnable(t)
  BY <1>3, <1>4 DEF BecomesRunnable, KeepsState
<1> QED BY <1>1, <1>5, SchedStep

(* Yielding the CPU. *)
LEMMA YieldStep ==
  ASSUME IInv, ~panic, OnlySched, thr_yield
  PROVE  IInv'
<1>1. /\ Executing /\ in_switch' = TRUE /\ UNCHANGED <<kt_cancelled, curthr>>
      /\ tq_list' = [tq_list EXCEPT ![kt_runq] = ktqueue_enqueue(@, curthr)]
      /\ MakeRunnable(curthr)
  BY DEF thr_yield
<1>2. curthr \in Proc /\ kt_state[curthr] = "KT_RUN" /\ kt_wchan[curthr] = NULL /\ curthr \in Thread
  BY <1>1, RunningFacts, ProcFacts
<1>3. SchedInv'
  BY <1>1, <1>2, RunnableInv DEF IInv
<1>4. /\ kt_state' = [kt_state EXCEPT ![curthr] = "KT_RUN"]
      /\ kt_wchan' = [kt_wchan EXCEPT ![curthr] = kt_runq]
      /\ kt_state \in [Proc -> State] /\ kt_wchan \in [Proc -> AllQueue \cup {NULL}]
  BY <1>1, ProcFacts DEF IInv, SchedInv, SchedTypeOK, MakeRunnable
<1>5. BecomesRunnable(curthr) /\ \A t \in Proc \ {curthr} : KeepsState(t)
  BY <1>2, <1>4 DEF BecomesRunnable, KeepsState
<1> QED BY <1>1, <1>3, <1>5, SchedStep

(* Switching to the first thread of the run queue. *)
LEMMA SwitchStep ==
  ASSUME IInv, ~panic, OnlySched, sched_switch
  PROVE  IInv'
<1> DEFINE h == Head(tq_list[kt_runq])
<1>1. SchedInv' /\ UNCHANGED kt_cancelled
  BY SwitchInv DEF IInv, sched_switch
<1>2. h \in Proc /\ kt_wchan[h] = kt_runq
  BY QueueHead DEF IInv, sched_switch, AllQueue
<1>3. kt_state[h] = "KT_RUN"
  BY <1>2, ProcFacts DEF IInv, SchedInv, AssertionsHold
<1>4. /\ kt_state' = kt_state /\ kt_wchan' = [kt_wchan EXCEPT ![h] = NULL]
      /\ kt_wchan \in [Proc -> AllQueue \cup {NULL}]
  BY ProcFacts DEF IInv, SchedInv, SchedTypeOK, sched_switch
<1> HIDE DEF h
<1>5. BecomesRunnable(h) /\ \A t \in Proc \ {h} : KeepsState(t)
  BY <1>2, <1>3, <1>4 DEF BecomesRunnable, KeepsState
<1> QED BY <1>1, <1>5, SchedStep

(***************************************************************************)
(* The calls that only sleep, wake or yield, and the interrupts.           *)
(***************************************************************************)
LEMMA WaitSleepInv == ASSUME IInv, do_waitpid_sleep PROVE IInv'
<1>1. /\ Executing /\ ~panic /\ waitfor[curthr] # NULL /\ DeadChildren(waitfor[curthr]) = <<>>
      /\ sched_sleep_on(curthr) /\ OnlySched
  BY DEF do_waitpid_sleep
<1>2. curthr \in Proc /\ curthr \in Queue
  BY <1>1, RunningFacts, QueueFacts
<1> DEFINE dead == {c \in Proc : p_state[c] = "PROC_DEAD" /\ waitfor[curthr] \in {ANY, c}}
<1>3. p_children[curthr] \in Seq(Proc)
  BY <1>2 DEF IInv, TreeOK
<1>4. Range(Keep(p_children[curthr], dead)) = Range(p_children[curthr]) \cap dead
  <2> HIDE DEF dead
  <2> QED BY <1>3, KeepFacts
<1>5. Range(p_children[curthr]) \cap dead = {} /\ Range(p_children[curthr]) \subseteq Proc
  <2>1. Keep(p_children[curthr], dead) = <<>>
    BY <1>1 DEF DeadChildren
  <2>2. Range(<<>>) = {}
    BY DEF Range
  <2> QED BY <1>3, <1>4, <2>1, <2>2 DEF Range
<1> QED BY <1>1, <1>2, <1>5, SleepStep

(* A read from the terminal sleeps on tty until it is interrupted. *)
LEMMA SysReadInv == ASSUME IInv, sys_read PROVE IInv'
  BY SleepStep, QueueFacts DEF sys_read, Syscall, At

(* Disk I/O sleeps on disk and is not interrupted. *)
LEMMA DiskIoInv == ASSUME IInv, disk_io PROVE IInv'
  BY SleepStep, QueueFacts DEF disk_io, Syscall, At

(* The pageout daemon sleeps on its queue. *)
LEMMA PageoutdSleepInv == ASSUME IInv, pageoutd_sleep PROVE IInv'
  BY SleepStep, QueueFacts DEF pageoutd_sleep, At

(* An allocation wakes the pageout daemon. *)
LEMMA PageoutdWakeupInv == ASSUME IInv, pageoutd_wakeup PROVE IInv'
  BY BroadcastStep, QueueFacts DEF pageoutd_wakeup, Syscall, At

(* SYS_thr_yield gives up the CPU. *)
LEMMA ThrYieldInv == ASSUME IInv, sys_thr_yield PROVE IInv'
  BY YieldStep DEF sys_thr_yield, Syscall, At

(* sched_switch and the interrupts of the two devices. *)
LEMMA InterruptsInv == ASSUME IInv, Switch \/ DiskInterrupt \/ TtyInterrupt PROVE IInv'
  BY SwitchStep, WakeupStep, QueueFacts DEF Switch, DiskInterrupt, TtyInterrupt

-----------------------------------------------------------------------------
(***************************************************************************)
(* Calling do_waitpid for a child that there is.                           *)
(***************************************************************************)
LEMMA CallInv ==
  ASSUME IInv, Executing, ~panic, curthr # idle, curthr # pageoutd, NEW target,
         target # NULL, curthr = init => target # ANY,
         \E c \in Range(p_children[curthr]) : target \in {ANY, c},
         CallWaitpid(target), UNCHANGED pc
  PROVE  IInv'
<1>0. /\ SchedInv /\ TreeOK /\ PidsOK /\ ThreadMatchesProcess /\ PcOK /\ WaitOK
      /\ SleepsWhereExpected /\ ShutdownInOrder /\ ExitsSeen /\ RestOK
  BY DEF IInv
<1>1. /\ waitfor' = [waitfor EXCEPT ![curthr] = target]
      /\ UNCHANGED <<kt_state, kt_wchan, kt_cancelled, tq_list, curthr, in_switch>>
      /\ UNCHANGED <<p_pid, p_pproc, p_children, p_state, p_status, proc_list, next_pid, panic, left>>
  BY DEF CallWaitpid, schedVars
<1>2. /\ curthr \in Proc /\ curthr \in Allocated /\ kt_wchan[curthr] = NULL
      /\ p_state[curthr] = "PROC_RUNNING"
  BY RunningFacts
<1>3. SchedInv'
  BY <1>0, <1>1, StutterSched
<1>4. TreeOK' /\ Allocated' = Allocated
  BY <1>0, <1>1, SameTree
<1>5. PidsOK' /\ PcOK' /\ RestOK' /\ ThreadMatchesProcess'
  <2>1. PidsOK' /\ PcOK' /\ RestOK'
    BY <1>0, <1>1, <1>4, SamePids, SamePc, SameRest
  <2>2. ThreadMatchesProcess'
    BY <1>0, <1>1 DEF ThreadMatchesProcess, StoppedInExit
  <2> QED BY <2>1, <2>2
<1>6. target \in Proc \cup {ANY}
  <2>1. Range(p_children[curthr]) \subseteq Proc
    BY <1>0, <1>2, TreeFacts
  <2> QED BY <2>1
<1>7. /\ waitfor \in [Proc -> Proc \cup {ANY, NULL}] /\ waitfor' \in [Proc -> Proc \cup {ANY, NULL}]
      /\ waitfor'[curthr] = target /\ \A p \in Proc \ {curthr} : waitfor'[p] = waitfor[p]
  BY <1>0, <1>1, <1>2, <1>6 DEF WaitOK
<1>8. WaitOK'
  BY <1>0, <1>1, <1>2, <1>7, ProcFacts DEF WaitOK, WaitsForChild
<1>9. SleepsWhereExpected'
  BY <1>0, <1>1, <1>2, <1>7, ProcFacts, QueueFacts DEF SleepsWhereExpected
<1>10. ExitsSeen'
  BY <1>0, <1>1, <1>2, <1>7, ProcFacts DEF ExitsSeen
<1>11. ShutdownInOrder'
  BY <1>0, <1>1, <1>7, ProcFacts DEF ShutdownInOrder
<1> QED BY <1>3, <1>4, <1>5, <1>8, <1>9, <1>10, <1>11 DEF IInv

(* sys_waitpid waits for any child, or for one that the caller has. *)
LEMMA SysWaitpidInv == ASSUME IInv, sys_waitpid PROVE IInv'
<1>1. Executing /\ ~panic /\ pc[curthr] = "user" /\ p_children[curthr] # <<>>
  BY DEF sys_waitpid, Syscall, At
<1>2. curthr \in User /\ curthr \in Proc /\ curthr \in Allocated
  BY <1>1, RunningFacts
<1>3. p_children[curthr] \in Seq(Proc) /\ Head(p_children[curthr]) \in Range(p_children[curthr])
  <2>1. p_children[curthr] \in Seq(Proc)
    BY <1>2 DEF IInv, TreeOK
  <2> QED BY <1>1, <2>1, HeadTailFacts
<1>4. PICK target \in Range(p_children[curthr]) \cup {ANY} : CallWaitpid(target) /\ UNCHANGED pc
  BY DEF sys_waitpid
<1>5. target # NULL
  <2>1. Range(p_children[curthr]) \subseteq Proc
    BY <1>2, TreeFacts DEF IInv
  <2> QED BY <2>1, ProcFacts
<1>6. \E c \in Range(p_children[curthr]) : target \in {ANY, c}
  BY <1>3
<1>7. curthr # idle /\ curthr # pageoutd /\ curthr # init
  BY <1>2, ProcFacts
<1> QED BY <1>1, <1>4, <1>5, <1>6, <1>7, CallInv

(* proc_kill_all and init wait for their first child. *)
LEMMA WaitFirstInv == ASSUME IInv, proc_kill_all_wait \/ initproc_wait PROVE IInv'
<1>1. /\ Executing /\ ~panic /\ pc[curthr] \in {"proc_kill_all", "initproc_run"}
  BY DEF proc_kill_all_wait, initproc_wait, At
<1>2. curthr \in User \cup {init} /\ curthr \in Proc /\ curthr \in Allocated
  BY <1>1, RunningFacts
<1>3. p_children[curthr] # <<>> /\ CallWaitpid(Head(p_children[curthr])) /\ UNCHANGED pc
  <2>1. pc[curthr] = "initproc_run" => curthr = init
    BY <1>1, RunningFacts
  <2> QED BY <2>1 DEF proc_kill_all_wait, initproc_wait, At
<1> DEFINE target == Head(p_children[curthr])
<1>4. target \in Range(p_children[curthr]) /\ target \in Proc
  <2>1. p_children[curthr] \in Seq(Proc)
    BY <1>2 DEF IInv, TreeOK
  <2> QED BY <1>3, <2>1, HeadTailFacts
<1>5. curthr # idle /\ curthr # pageoutd /\ target # ANY /\ target # NULL
  BY <1>2, <1>4, ProcFacts
<1> QED BY <1>1, <1>3, <1>4, <1>5, CallInv

-----------------------------------------------------------------------------
(***************************************************************************)
(* The scheduler's invariant in terms of single threads and of the sets of *)
(* threads that queues hold, for the steps that combine several of its     *)
(* operations.                                                             *)
(***************************************************************************)
LEMMA ListIsSet ==
  ASSUME NEW s \in Seq(Proc), NEW q, NEW w
  PROVE  ListsThreadsOf(s, q, w) <=> IsInjective(s) /\ Range(s) = {t \in Proc : w[t] = q}
<1>1. DOMAIN s = 1 .. Len(s) /\ \A i \in 1 .. Len(s) : s[i] \in Proc
  OBVIOUS
<1>2. IsInjective(s) <=> \A i, j \in 1 .. Len(s) : s[i] = s[j] => i = j
  BY <1>1 DEF IsInjective
<1>3. ASSUME ListsThreadsOf(s, q, w) PROVE Range(s) = {t \in Proc : w[t] = q}
  BY <1>1, <1>3, ProcFacts DEF Range, ListsThreadsOf
<1>4. ASSUME Range(s) = {t \in Proc : w[t] = q}
      PROVE  /\ \A i \in 1 .. Len(s) : w[s[i]] = q
             /\ \A t \in Proc : w[t] = q => \E i \in 1 .. Len(s) : s[i] = t
  <2>1. \A i \in 1 .. Len(s) : s[i] \in Range(s)
    BY <1>1 DEF Range
  <2>2. \A t \in Range(s) : \E i \in 1 .. Len(s) : s[i] = t
    BY <1>1 DEF Range
  <2> QED BY <1>4, <2>1, <2>2
<1> QED BY <1>2, <1>3, <1>4, ProcFacts DEF ListsThreadsOf

(* State, wait channel and cancellation of one thread fit each other. *)
ThreadFits(state, wchan, isCancelled, executes) ==
  /\ state = "KT_RUN" /\ ~executes => wchan = kt_runq
  /\ state \in Sleeping => wchan \in Queue
  /\ wchan \in Queue => state \in Sleeping
  /\ wchan = kt_runq => state = "KT_RUN"
  /\ executes => state \in {"KT_RUN", "KT_EXITED"} /\ wchan = NULL
  /\ state = "KT_SLEEP_CANCELLABLE" => ~isCancelled

Holds(q) == {t \in Proc : kt_wchan[t] = q}

(* The scheduler's invariant gives these facts. *)
LEMMA SchedFacts ==
  ASSUME SchedInv
  PROVE  /\ kt_state \in [Proc -> State] /\ kt_wchan \in [Proc -> AllQueue \cup {NULL}]
         /\ kt_cancelled \in [Proc -> BOOLEAN] /\ curthr \in Proc /\ in_switch \in BOOLEAN
         /\ tq_list \in [AllQueue -> Seq(Proc)]
         /\ \A q \in AllQueue : IsInjective(tq_list[q]) /\ Range(tq_list[q]) = Holds(q)
         /\ \A t \in Proc : ThreadFits(kt_state[t], kt_wchan[t], kt_cancelled[t], ~in_switch /\ t = curthr)
<1>1. /\ kt_state \in [Proc -> State] /\ kt_wchan \in [Proc -> AllQueue \cup {NULL}]
      /\ kt_cancelled \in [Proc -> BOOLEAN] /\ curthr \in Proc /\ in_switch \in BOOLEAN
      /\ tq_list \in [AllQueue -> Seq(Proc)]
  BY ProcFacts DEF SchedInv, SchedTypeOK
<1>2. \A q \in AllQueue : IsInjective(tq_list[q]) /\ Range(tq_list[q]) = Holds(q)
  BY <1>1, ListIsSet DEF SchedInv, QueuesMatchWchan, Holds
<1>3. \A t \in Proc : ThreadFits(kt_state[t], kt_wchan[t], kt_cancelled[t], ~in_switch /\ t = curthr)
  BY ProcFacts DEF SchedInv, NoLostThread, AssertionsHold, CancelledNotAsleep, Executing, ThreadFits
<1> QED BY <1>1, <1>2, <1>3

(* The same facts about the next state give the scheduler's invariant back. *)
LEMMA SchedRebuilt ==
  ASSUME kt_state' \in [Proc -> State], kt_wchan' \in [Proc -> AllQueue \cup {NULL}],
         kt_cancelled' \in [Proc -> BOOLEAN], curthr' \in Proc, in_switch' \in BOOLEAN,
         tq_list' \in [AllQueue -> Seq(Proc)],
         \A q \in AllQueue : IsInjective(tq_list'[q]) /\ Range(tq_list'[q]) = Holds(q)',
         \A t \in Proc : ThreadFits(kt_state'[t], kt_wchan'[t], kt_cancelled'[t], ~in_switch' /\ t = curthr'),
         kt_state'[curthr'] # "unallocated"
  PROVE  SchedInv'
<1>1. SchedTypeOK'
  BY ProcFacts DEF SchedTypeOK
<1>2. QueuesMatchWchan'
  <2> SUFFICES ASSUME NEW q \in AllQueue PROVE ListsThreadsOf(tq_list'[q], q, kt_wchan')
    BY DEF QueuesMatchWchan, AllQueue
  <2>1. tq_list'[q] \in Seq(Proc) /\ IsInjective(tq_list'[q])
        /\ Range(tq_list'[q]) = {t \in Proc : kt_wchan'[t] = q}
    BY DEF Holds
  <2> QED BY <2>1, ListIsSet
<1>3. NoLostThread' /\ AssertionsHold' /\ CancelledNotAsleep'
  BY ProcFacts, QueueFacts
  DEF NoLostThread, AssertionsHold, CancelledNotAsleep, Executing, ThreadFits, AllQueue
<1> QED BY <1>1, <1>2, <1>3 DEF SchedInv

(***************************************************************************)
(* A new process with a thread on the run queue.                           *)
(***************************************************************************)
LEMMA CreateInv ==
  ASSUME IInv, Executing, ~panic, curthr \in {init} \cup User, NEW c, proc_create(c),
         pc' \in [Proc -> PC], pc'[c] = "user", \A q \in Proc \ {c, init} : pc'[q] = pc[q],
         \/ pc'[init] = pc[init]
         \/ pc'[init] = "initproc_run" /\ curthr = init,
         UNCHANGED <<waitfor, panic>>, left' \subseteq Leftover
  PROVE  IInv'
<1>0. /\ SchedInv /\ TreeOK /\ PidsOK /\ ThreadMatchesProcess /\ PcOK /\ WaitOK
      /\ SleepsWhereExpected /\ ShutdownInOrder /\ ExitsSeen /\ RestOK
  BY DEF IInv
<1>1. /\ curthr \in Proc /\ curthr \in Allocated /\ kt_wchan[curthr] = NULL
      /\ kt_state[curthr] = "KT_RUN" /\ p_state[curthr] = "PROC_RUNNING"
  BY RunningFacts
<1>2. /\ TreeOK' /\ Allocated' = Allocated \cup {c} /\ c \in User \ Allocated
      /\ p_state'[c] = "PROC_RUNNING" /\ \A q \in Proc \ {c} : p_state'[q] = p_state[q]
      /\ \A q \in Proc \ {curthr, c} : p_children'[q] = p_children[q]
      /\ Range(p_children'[curthr]) = Range(p_children[curthr]) \cup {c}
  BY <1>0, <1>1, CreateTree
<1>3. /\ c \in Proc /\ c # idle /\ c # init /\ c # pageoutd /\ c # curthr /\ p_state[c] = "free"
  BY <1>1, <1>2, ProcFacts DEF Allocated
<1>4. PidsOK'
  BY <1>0, <1>2, CreatePids
<1>5. /\ kt_state' = [kt_state EXCEPT ![c] = "KT_RUN"] /\ kt_wchan' = [kt_wchan EXCEPT ![c] = kt_runq]
      /\ kt_cancelled' = [kt_cancelled EXCEPT ![c] = FALSE]
      /\ tq_list' = [tq_list EXCEPT ![kt_runq] = Append(@, c)]
      /\ UNCHANGED <<curthr, in_switch>> /\ p_status' = [p_status EXCEPT ![c] = 0]
  BY DEF proc_create, MakeRunnable, ktqueue_enqueue
<1>6. /\ kt_state \in [Proc -> State] /\ kt_wchan \in [Proc -> AllQueue \cup {NULL}]
      /\ kt_cancelled \in [Proc -> BOOLEAN] /\ in_switch \in BOOLEAN
      /\ tq_list \in [AllQueue -> Seq(Proc)]
      /\ \A q \in AllQueue : IsInjective(tq_list[q]) /\ Range(tq_list[q]) = Holds(q)
      /\ \A t \in Proc : ThreadFits(kt_state[t], kt_wchan[t], kt_cancelled[t], ~in_switch /\ t = curthr)
  BY <1>0, SchedFacts
<1>7. /\ kt_state' \in [Proc -> State] /\ kt_wchan' \in [Proc -> AllQueue \cup {NULL}]
      /\ kt_state'[c] = "KT_RUN" /\ kt_wchan'[c] = kt_runq /\ ~kt_cancelled'[c]
      /\ \A t \in Proc \ {c} : kt_state'[t] = kt_state[t] /\ kt_wchan'[t] = kt_wchan[t]
  BY <1>3, <1>5, <1>6, QueueFacts DEF State
<1>8. /\ kt_cancelled' \in [Proc -> BOOLEAN]
      /\ \A t \in Proc \ {c} : kt_cancelled'[t] = kt_cancelled[t]
  BY <1>3, <1>5, <1>6
<1>9. kt_state[c] = "unallocated" /\ kt_wchan[c] = NULL
  <2>1. kt_state[c] = "unallocated"
    BY <1>0, <1>3 DEF ThreadMatchesProcess
  <2> QED BY <1>3, <1>6, <2>1, QueueFacts DEF ThreadFits, Sleeping
<1>10. SchedInv'
  <2>1. tq_list' \in [AllQueue -> Seq(Proc)]
        /\ tq_list'[kt_runq] = Append(tq_list[kt_runq], c)
        /\ \A q \in AllQueue \ {kt_runq} : tq_list'[q] = tq_list[q]
    BY <1>3, <1>5, <1>6, QueueFacts
  <2>2. ASSUME NEW q \in AllQueue
        PROVE  IsInjective(tq_list'[q]) /\ Range(tq_list'[q]) = Holds(q)'
    <3>1. CASE q = kt_runq
      <4>1. c \notin Range(tq_list[q]) /\ tq_list[q] \in Seq(Proc)
        BY <1>6, <1>9, <3>1, QueueFacts DEF Holds
      <4>2. IsInjective(Append(tq_list[q], c)) /\ Range(Append(tq_list[q], c)) = Holds(q) \cup {c}
        BY <1>3, <1>6, <4>1, AppendFacts
      <4>3. Holds(q)' = Holds(q) \cup {c}
        BY <1>3, <1>7, <3>1 DEF Holds
      <4> QED BY <2>1, <3>1, <4>2, <4>3
    <3>2. CASE q # kt_runq
      <4>1. Holds(q)' = Holds(q)
        BY <1>3, <1>7, <1>9, <3>2, QueueFacts DEF Holds
      <4> QED BY <1>6, <2>1, <3>2, <4>1
    <3> QED BY <3>1, <3>2
  <2>3. ASSUME NEW t \in Proc
        PROVE  ThreadFits(kt_state'[t], kt_wchan'[t], kt_cancelled'[t], ~in_switch' /\ t = curthr')
    <3>1. CASE t = c
      BY <1>3, <1>5, <1>7, <3>1, QueueFacts DEF ThreadFits, Sleeping
    <3>2. CASE t # c
      <4>1. ThreadFits(kt_state[t], kt_wchan[t], kt_cancelled[t], ~in_switch /\ t = curthr)
        BY <1>6
      <4> QED BY <1>5, <1>7, <1>8, <3>2, <4>1
    <3> QED BY <3>1, <3>2
  <2>4. curthr' \in Proc /\ in_switch' \in BOOLEAN /\ kt_state'[curthr'] # "unallocated"
    BY <1>1, <1>3, <1>5, <1>6, <1>7
  <2> QED BY <1>7, <1>8, <2>1, <2>2, <2>3, <2>4, SchedRebuilt
<1>11. ThreadMatchesProcess'
  BY <1>0, <1>2, <1>7 DEF ThreadMatchesProcess, StoppedInExit
<1>12. PcOK'
  <2>1. RunsOwnCode
    BY <1>0 DEF PcOK
  <2>2. pc'[init] # pc[init] => pc'[init] = "initproc_run" /\ p_state[init] = "PROC_RUNNING"
    BY <1>1
  <2>3. /\ pc'[idle] = pc[idle] /\ pc'[pageoutd] = pc[pageoutd]
        /\ \A q \in User \ {c} : pc'[q] = pc[q]
    BY <1>3, ProcFacts
  <2>4. ASSUME NEW p \in Proc PROVE pc'[p] = "none" <=> p_state'[p] # "PROC_RUNNING"
    <3>1. CASE p = c
      BY <1>2, <3>1
    <3>2. CASE p = init
      BY <1>2, <1>3, <2>1, <2>2, <3>2 DEF RunsOwnCode
    <3>3. CASE p # c /\ p # init
      BY <1>2, <2>1, <3>3 DEF RunsOwnCode
    <3> QED BY <3>1, <3>2, <3>3
  <2>5. RunsOwnCode'
    BY <2>1, <2>2, <2>3, <2>4 DEF RunsOwnCode
  <2> QED BY <2>5 DEF PcOK
<1>13. WaitOK'
  <2>1. waitfor[c] = NULL
    BY <1>0, <1>3 DEF WaitOK, WaitsForChild
  <2>2. \A q \in Proc \ {c} : Range(p_children[q]) \subseteq Range(p_children'[q])
    BY <1>2
  <2> QED BY <1>0, <1>2, <2>1, <2>2 DEF WaitOK, WaitsForChild
<1>14. SleepsWhereExpected'
  BY <1>0, <1>7, QueueFacts DEF SleepsWhereExpected
<1>15. ExitsSeen'
  <2> SUFFICES ASSUME NEW q \in Proc, kt_wchan'[q] = q, NEW d \in Range(p_children'[q]),
                      waitfor[q] \in {ANY, d}
               PROVE  p_state'[d] # "PROC_DEAD"
    BY DEF ExitsSeen
  <2>1. q # c /\ kt_wchan[q] = q
    BY <1>7, QueueFacts
  <2>2. q # curthr
    BY <1>1, <2>1, ProcFacts
  <2>3. CASE d = c
    BY <1>2, <2>3
  <2>4. CASE d # c
    <3>1. d \in Range(p_children[q]) /\ p_children[q] \in Seq(Proc)
      BY <1>2, <2>1, <2>2, <1>0 DEF TreeOK
    <3>2. d \in Proc
      BY <3>1 DEF Range
    <3> QED BY <1>0, <1>2, <2>1, <2>4, <3>1, <3>2 DEF ExitsSeen
  <2> QED BY <2>3, <2>4
<1>16. ShutdownInOrder'
  <2>1. /\ pc'[idle] = pc[idle] /\ p_state'[init] = p_state[init] /\ p_state'[pageoutd] = p_state[pageoutd]
        /\ kt_cancelled'[pageoutd] = kt_cancelled[pageoutd]
    BY <1>2, <1>3, <1>8, ProcFacts
  <2> QED BY <1>0, <2>1 DEF ShutdownInOrder
<1>17. RestOK'
  BY <1>0, <1>3, <1>5 DEF RestOK, PanicsExplained
<1> QED BY <1>2, <1>4, <1>10, <1>11, <1>12, <1>13, <1>14, <1>15, <1>16, <1>17 DEF IInv

(* The two callers of proc_create: do_fork, and init for its only child. *)
LEMMA ForkInv == ASSUME IInv, do_fork \/ initproc_create_child PROVE IInv'
<1>1. CASE do_fork
  <2>1. PICK p \in User : proc_create(p) /\ pc' = [pc EXCEPT ![p] = "user"]
    BY <1>1 DEF do_fork
  <2>2. Executing /\ ~panic /\ pc[curthr] = "user" /\ UNCHANGED <<waitfor, panic>>
    BY <1>1 DEF do_fork, Syscall, At
  <2>a. left' \subseteq Leftover
    BY <1>1 DEF do_fork, Leftover, IInv, RestOK
  <2>3. curthr \in User
    BY <2>2, RunningFacts
  <2>4. /\ pc' \in [Proc -> PC] /\ pc'[p] = "user" /\ \A q \in Proc \ {p} : pc'[q] = pc[q]
        /\ p # init /\ init \in Proc
    <3>1. pc \in [Proc -> PC] /\ p \in Proc /\ p # init
      BY ProcFacts DEF IInv, PcOK
    <3> QED BY <2>1, <3>1, ProcFacts DEF PC
  <2> QED BY <2>1, <2>2, <2>a, <2>3, <2>4, CreateInv
<1>2. CASE initproc_create_child
  <2>1. PICK p \in User : proc_create(p) /\ pc' = [pc EXCEPT ![init] = "initproc_run", ![p] = "user"]
    BY <1>2 DEF initproc_create_child
  <2>2. Executing /\ ~panic /\ pc[curthr] = "initproc_create_child" /\ UNCHANGED <<waitfor, panic>>
    BY <1>2 DEF initproc_create_child, At
  <2>a. left' \subseteq Leftover
    BY <1>2 DEF initproc_create_child, IInv, RestOK
  <2>3. curthr = init
    BY <2>2, RunningFacts
  <2>4. /\ pc' \in [Proc -> PC] /\ pc'[p] = "user" /\ \A q \in Proc \ {p, init} : pc'[q] = pc[q]
        /\ pc'[init] = "initproc_run"
    <3>1. pc \in [Proc -> PC] /\ p \in Proc /\ p # init /\ init \in Proc
      BY ProcFacts DEF IInv, PcOK
    <3> QED BY <2>1, <3>1 DEF PC
  <2> QED BY <2>1, <2>2, <2>a, <2>3, <2>4, CreateInv
<1> QED BY <1>1, <1>2

(***************************************************************************)
(* The process part, when a step changes nothing but what is left behind.  *)
(***************************************************************************)
LEMMA DoLinkInv == ASSUME IInv, do_link PROVE IInv'
<1>0. /\ SchedInv /\ TreeOK /\ PidsOK /\ ThreadMatchesProcess /\ PcOK /\ WaitOK
      /\ SleepsWhereExpected /\ ShutdownInOrder /\ ExitsSeen /\ RestOK
  BY DEF IInv
<1>1. /\ UNCHANGED <<kt_state, kt_wchan, kt_cancelled, tq_list, curthr, in_switch>>
      /\ UNCHANGED <<p_pid, p_pproc, p_children, p_state, p_status, proc_list, next_pid, pc, waitfor, panic>>
      /\ ~panic /\ left' = left \cup {"reference"}
  BY DEF do_link, Syscall, At, schedVars
<1>2. TreeOK' /\ Allocated' = Allocated
  BY <1>0, <1>1, SameTree
<1>3. SchedInv' /\ PidsOK' /\ PcOK' /\ WaitOK' /\ ShutdownInOrder'
  BY <1>0, <1>1, <1>2, StutterSched, SamePids, SamePc, SameWait, SameShutdown
<1>4. ThreadMatchesProcess' /\ SleepsWhereExpected' /\ ExitsSeen'
  BY <1>0, <1>1 DEF ThreadMatchesProcess, StoppedInExit, SleepsWhereExpected, ExitsSeen
<1>5. RestOK'
  BY <1>0, <1>1 DEF RestOK, PanicsExplained, Leftover
<1> QED BY <1>2, <1>3, <1>4, <1>5 DEF IInv

-----------------------------------------------------------------------------
(***************************************************************************)
(* The queue p_wait holds its own process or nobody.                       *)
(***************************************************************************)
LEMMA WakeFacts ==
  ASSUME IInv, NEW p \in Proc
  PROVE  \/ Wake(p) = <<>> /\ kt_wchan[p] # p
         \/ /\ Wake(p) = <<p>> /\ kt_wchan[p] = p /\ kt_state[p] = "KT_SLEEP"
            /\ tq_list[p] # <<>> /\ Head(tq_list[p]) = p
<1>0. SchedInv /\ SleepsWhereExpected /\ p \in AllQueue
  BY QueueFacts DEF IInv
<1>1. CASE sched_queue_empty(p)
  <2>1. Wake(p) = <<>> /\ tq_list[p] = <<>>
    BY <1>1 DEF Wake, sched_queue_empty
  <2>2. Range(tq_list[p]) = Holds(p)
    BY <1>0, SchedFacts
  <2>3. Range(<<>>) = {}
    BY DEF Range
  <2> QED BY <2>1, <2>2, <2>3 DEF Holds
<1>2. CASE ~sched_queue_empty(p)
  <2>1. Head(tq_list[p]) \in Proc /\ kt_wchan[Head(tq_list[p])] = p
    BY <1>0, <1>2, QueueHead
  <2>2. Head(tq_list[p]) = p /\ kt_wchan[p] = p /\ kt_state[p] = "KT_SLEEP"
    BY <1>0, <2>1 DEF SleepsWhereExpected
  <2>3. Wake(p) = <<p>> /\ tq_list[p] # <<>>
    BY <1>2, <2>2 DEF Wake, sched_queue_empty
  <2> QED BY <2>2, <2>3
<1> QED BY <1>1, <1>2

(***************************************************************************)
(* A thread exits and wakes its parent if that waits: the scheduler's      *)
(* part.  W is the parent, or nobody.                                      *)
(***************************************************************************)
LEMMA ExitSched ==
  ASSUME IInv, Executing, curthr \in Proc \ {idle}, Released
  PROVE  /\ SchedInv' /\ UNCHANGED <<curthr, kt_cancelled>>
         /\ p_pproc[curthr] \in Proc
         /\ kt_state'[curthr] = "KT_EXITED" /\ kt_wchan'[curthr] = NULL
         /\ \A t \in Proc \ {curthr} :
              \/ KeepsState(t) /\ ~(t = p_pproc[curthr] /\ kt_wchan[t] = t)
              \/ BecomesRunnable(t)
<1> DEFINE P == p_pproc[curthr]
           w == Wake(P)
<1>0. SchedInv /\ TreeOK
  BY DEF IInv
<1>1. /\ curthr \in Proc /\ curthr \in Allocated /\ kt_wchan[curthr] = NULL /\ kt_state[curthr] = "KT_RUN"
  BY RunningFacts
<1>2. P \in Proc /\ P \in AllQueue /\ P # kt_runq /\ kt_runq \in AllQueue
  BY <1>0, <1>1, TreeFacts, QueueFacts
<1>3. /\ tq_list' = [tq_list EXCEPT ![P] = IF w = <<>> THEN @ ELSE Tail(@), ![kt_runq] = @ \o w]
      /\ kt_wchan' = [p \in Proc |-> IF p \in Range(w) THEN kt_runq ELSE kt_wchan[p]]
      /\ kt_state' = [p \in Proc |-> CASE p = curthr    -> "KT_EXITED"
                                       [] p \in Range(w) -> "KT_RUN"
                                       [] OTHER          -> kt_state[p]]
      /\ in_switch' = TRUE /\ UNCHANGED <<curthr, kt_cancelled>>
  BY DEF Released, proc_cleanup
<1>4. \/ w = <<>> /\ kt_wchan[P] # P
      \/ /\ w = <<P>> /\ kt_wchan[P] = P /\ kt_state[P] = "KT_SLEEP"
         /\ tq_list[P] # <<>> /\ Head(tq_list[P]) = P
  BY <1>2, WakeFacts
<1> HIDE DEF P, w
<1>5. /\ kt_state \in [Proc -> State] /\ kt_wchan \in [Proc -> AllQueue \cup {NULL}]
      /\ kt_cancelled \in [Proc -> BOOLEAN] /\ in_switch \in BOOLEAN
      /\ tq_list \in [AllQueue -> Seq(Proc)]
      /\ \A q \in AllQueue : IsInjective(tq_list[q]) /\ Range(tq_list[q]) = Holds(q)
      /\ \A t \in Proc : ThreadFits(kt_state[t], kt_wchan[t], kt_cancelled[t], ~in_switch /\ t = curthr)
  BY <1>0, SchedFacts
<1>6. CASE w = <<>> /\ kt_wchan[P] # P
  <2>1. Range(w) = {}
    BY <1>6 DEF Range
  <2>2. /\ kt_wchan' = kt_wchan /\ kt_state' \in [Proc -> State]
        /\ kt_state'[curthr] = "KT_EXITED" /\ \A t \in Proc \ {curthr} : kt_state'[t] = kt_state[t]
    BY <1>1, <1>3, <1>5, <2>1 DEF State
  <2>3. tq_list' = tq_list
    <3>1. tq_list[kt_runq] \o <<>> = tq_list[kt_runq]
      BY <1>2, <1>5
    <3> QED BY <1>2, <1>3, <1>5, <1>6, <3>1
  <2>4. \A q \in AllQueue : Holds(q)' = Holds(q)
    BY <2>2 DEF Holds
  <2>5. ASSUME NEW t \in Proc
        PROVE  ThreadFits(kt_state'[t], kt_wchan'[t], kt_cancelled'[t], ~in_switch' /\ t = curthr')
    <3>1. ThreadFits(kt_state[t], kt_wchan[t], kt_cancelled[t], ~in_switch /\ t = curthr)
      BY <1>5
    <3>2. CASE t = curthr
      BY <1>1, <1>3, <2>2, <3>2, QueueFacts DEF ThreadFits, Sleeping
    <3>3. CASE t # curthr
      BY <1>3, <2>2, <3>1, <3>3 DEF ThreadFits
    <3> QED BY <3>2, <3>3
  <2>6. SchedInv'
    BY <1>1, <1>3, <1>5, <2>2, <2>3, <2>4, <2>5, SchedRebuilt
  <2>7. \A t \in Proc \ {curthr} : KeepsState(t) /\ ~(t = P /\ kt_wchan[t] = t)
    BY <1>6, <2>2 DEF KeepsState
  <2> QED BY <1>1, <1>2, <1>3, <2>2, <2>6, <2>7 DEF P
<1>7. CASE /\ w = <<P>> /\ kt_wchan[P] = P /\ kt_state[P] = "KT_SLEEP"
           /\ tq_list[P] # <<>> /\ Head(tq_list[P]) = P
  <2>1. Range(w) = {P} /\ P # curthr
    BY <1>1, <1>2, <1>7, ProcFacts DEF Range
  <2>2. /\ kt_wchan' \in [Proc -> AllQueue \cup {NULL}] /\ kt_wchan'[P] = kt_runq
        /\ \A t \in Proc \ {P} : kt_wchan'[t] = kt_wchan[t]
    BY <1>2, <1>3, <1>5, <2>1
  <2>3. /\ kt_state' \in [Proc -> State]
        /\ kt_state'[curthr] = "KT_EXITED" /\ kt_state'[P] = "KT_RUN"
        /\ \A t \in Proc \ {curthr, P} : kt_state'[t] = kt_state[t]
    BY <1>1, <1>2, <1>3, <1>5, <2>1 DEF State
  <2>4. /\ tq_list[P] \in Seq(Proc) /\ IsInjective(tq_list[P]) /\ Range(tq_list[P]) = Holds(P)
        /\ tq_list[kt_runq] \in Seq(Proc) /\ IsInjective(tq_list[kt_runq])
        /\ Range(tq_list[kt_runq]) = Holds(kt_runq)
        /\ w \in Seq(Proc) /\ IsInjective(w)
    <3>1. w \in Seq(Proc) /\ IsInjective(w)
      BY <1>2, <1>7 DEF IsInjective
    <3> QED BY <1>2, <1>5, <3>1
  <2>5. /\ Tail(tq_list[P]) \in Seq(Proc) /\ IsInjective(Tail(tq_list[P]))
        /\ Range(Tail(tq_list[P])) = Holds(P) \ {P}
    BY <1>7, <2>4, HeadTailFacts
  <2>6. /\ tq_list[kt_runq] \o w \in Seq(Proc) /\ IsInjective(tq_list[kt_runq] \o w)
        /\ Range(tq_list[kt_runq] \o w) = Holds(kt_runq) \cup {P}
    <3>1. Range(tq_list[kt_runq]) \cap Range(w) = {}
      BY <1>2, <1>7, <2>1, <2>4 DEF Holds
    <3> QED BY <2>1, <2>4, <3>1, ConcatFacts
  <2>7. /\ tq_list' \in [AllQueue -> Seq(Proc)]
        /\ tq_list'[P] = Tail(tq_list[P]) /\ tq_list'[kt_runq] = tq_list[kt_runq] \o w
        /\ \A q \in AllQueue \ {P, kt_runq} : tq_list'[q] = tq_list[q]
    BY <1>2, <1>3, <1>5, <1>7, <2>5, <2>6
  <2>8. ASSUME NEW q \in AllQueue
        PROVE  IsInjective(tq_list'[q]) /\ Range(tq_list'[q]) = Holds(q)'
    <3>1. CASE q = P
      <4>1. Holds(q)' = Holds(q) \ {P}
        BY <1>2, <2>2, <3>1 DEF Holds
      <4> QED BY <2>5, <2>7, <3>1, <4>1
    <3>2. CASE q = kt_runq
      <4>1. Holds(q)' = Holds(q) \cup {P}
        BY <1>2, <2>2, <3>2 DEF Holds
      <4> QED BY <2>6, <2>7, <3>2, <4>1
    <3>3. CASE q # P /\ q # kt_runq
      <4>1. Holds(q)' = Holds(q)
        BY <1>2, <1>7, <2>2, <3>3 DEF Holds
      <4> QED BY <1>5, <2>7, <3>3, <4>1
    <3> QED BY <3>1, <3>2, <3>3
  <2>9. ASSUME NEW t \in Proc
        PROVE  ThreadFits(kt_state'[t], kt_wchan'[t], kt_cancelled'[t], ~in_switch' /\ t = curthr')
    <3>1. ThreadFits(kt_state[t], kt_wchan[t], kt_cancelled[t], ~in_switch /\ t = curthr)
      BY <1>5
    <3>2. CASE t = curthr
      BY <1>1, <1>3, <2>1, <2>2, <2>3, <3>2, QueueFacts DEF ThreadFits, Sleeping
    <3>3. CASE t = P
      BY <1>3, <2>1, <2>2, <2>3, <3>3, QueueFacts DEF ThreadFits, Sleeping
    <3>4. CASE t # curthr /\ t # P
      BY <1>3, <2>2, <2>3, <3>1, <3>4 DEF ThreadFits
    <3> QED BY <3>2, <3>3, <3>4
  <2>10. SchedInv'
    BY <1>1, <1>3, <1>5, <2>2, <2>3, <2>7, <2>8, <2>9, SchedRebuilt
  <2>11. BecomesRunnable(P)
    BY <1>7, <2>2, <2>3 DEF BecomesRunnable, Sleeping
  <2>12. \A t \in Proc \ {curthr, P} : KeepsState(t)
    BY <2>2, <2>3 DEF KeepsState
  <2>13. kt_wchan'[curthr] = NULL
    BY <1>1, <2>1, <2>2
  <2> QED BY <1>2, <1>3, <2>3, <2>10, <2>11, <2>12, <2>13 DEF P
<1> QED BY <1>4, <1>6, <1>7

(***************************************************************************)
(* All of it.  The parent does not miss the exit because it is woken, and  *)
(* init none of the children it adopts because it waits for another.       *)
(***************************************************************************)
LEMMA ExitInv ==
  ASSUME IInv, Executing, ~panic, curthr # idle, waitfor[curthr] = NULL, Released,
         curthr = init => p_children[init] = <<>>,
         curthr = pageoutd => kt_cancelled[pageoutd],
         p_status' \in [Proc -> {0, EFAULT}]
  PROVE  IInv'
<1>0. /\ SchedInv /\ TreeOK /\ PidsOK /\ ThreadMatchesProcess /\ PcOK /\ WaitOK
      /\ SleepsWhereExpected /\ ShutdownInOrder /\ ExitsSeen /\ RestOK
  BY DEF IInv
<1>1. /\ curthr \in Proc \ {idle} /\ curthr \in Allocated /\ kt_wchan[curthr] = NULL
      /\ p_state[curthr] = "PROC_RUNNING"
  BY RunningFacts
<1>2. /\ SchedInv' /\ UNCHANGED <<curthr, kt_cancelled>> /\ p_pproc[curthr] \in Proc
      /\ kt_state'[curthr] = "KT_EXITED" /\ kt_wchan'[curthr] = NULL
      /\ \A t \in Proc \ {curthr} :
           \/ KeepsState(t) /\ ~(t = p_pproc[curthr] /\ kt_wchan[t] = t)
           \/ BecomesRunnable(t)
  BY <1>1, ExitSched
<1>3. /\ proc_cleanup(Wake(p_pproc[curthr])) /\ pc' = [pc EXCEPT ![curthr] = "none"]
      /\ UNCHANGED <<p_pid, proc_list, next_pid, waitfor, panic>>
      /\ left' \in {left, left \cup {"pin"}}
  BY DEF Released
<1>4. /\ TreeOK' /\ Allocated' = Allocated
      /\ p_state'[curthr] = "PROC_DEAD"
      /\ \A q \in Proc \ {curthr} : p_state'[q] = p_state[q]
      /\ \A q \in Proc \ {curthr, init} : p_children'[q] = p_children[q]
      /\ curthr # init =>
           /\ Range(p_children'[init]) = Range(p_children[init]) \cup Range(p_children[curthr])
           /\ Range(p_children[init]) \cap Range(p_children[curthr]) = {}
  BY <1>0, <1>1, <1>3, ExitTree
<1>5. PidsOK'
  BY <1>0, <1>3, <1>4, SamePids
<1>6. ThreadMatchesProcess'
  BY <1>0, <1>1, <1>2, <1>3, <1>4 DEF ThreadMatchesProcess, StoppedInExit, KeepsState, BecomesRunnable, Sleeping
<1>7. PcOK'
  <2>1. pc \in [Proc -> PC] /\ RunsOwnCode
    BY <1>0 DEF PcOK
  <2>2. /\ pc' \in [Proc -> PC] /\ pc'[curthr] = "none" /\ \A q \in Proc \ {curthr} : pc'[q] = pc[q]
    BY <1>1, <1>3, <2>1 DEF PC
  <2>3. RunsOwnCode'
    BY <1>1, <1>4, <2>1, <2>2, ProcFacts DEF RunsOwnCode
  <2> QED BY <2>2, <2>3 DEF PcOK
<1>8. \A q \in Proc \ {curthr} : Range(p_children[q]) \subseteq Range(p_children'[q])
  BY <1>4
<1>9. WaitOK'
  BY <1>0, <1>3, <1>4, <1>8 DEF WaitOK, WaitsForChild
<1>10. SleepsWhereExpected'
  <2> SUFFICES ASSUME NEW p \in Proc
               PROVE  /\ kt_wchan'[p] \in Proc => kt_wchan'[p] = p /\ waitfor[p] # NULL /\ kt_state'[p] = "KT_SLEEP"
                      /\ kt_wchan'[p] = disk => waitfor[p] = NULL /\ kt_state'[p] = "KT_SLEEP"
                      /\ kt_wchan'[p] \in {tty, pageoutd_waitq} =>
                           waitfor[p] = NULL /\ kt_state'[p] = "KT_SLEEP_CANCELLABLE"
    BY <1>3 DEF SleepsWhereExpected
  <2>1. CASE p = curthr
    BY <1>2, <2>1, ProcFacts, QueueFacts
  <2>2. CASE p # curthr /\ BecomesRunnable(p)
    BY <2>2, ProcFacts, QueueFacts DEF BecomesRunnable
  <2>3. CASE p # curthr /\ KeepsState(p)
    BY <1>0, <2>3 DEF KeepsState, SleepsWhereExpected
  <2> QED BY <1>2, <2>1, <2>2, <2>3
<1>11. ExitsSeen'
  <2> SUFFICES ASSUME NEW q \in Proc, kt_wchan'[q] = q, NEW d \in Range(p_children'[q]),
                      waitfor[q] \in {ANY, d}
               PROVE  p_state'[d] # "PROC_DEAD"
    BY <1>3 DEF ExitsSeen
  <2>1. q # curthr /\ kt_wchan[q] = q /\ q # p_pproc[curthr]
    <3>1. q # curthr /\ ~BecomesRunnable(q)
      BY <1>2, ProcFacts, QueueFacts DEF BecomesRunnable
    <3> QED BY <1>2, <3>1 DEF KeepsState
  <2>2. /\ waitfor[q] # NULL /\ p_state[q] = "PROC_RUNNING"
        /\ \E c \in Range(p_children[q]) : waitfor[q] \in {ANY, c}
        /\ (q = init => waitfor[q] # ANY)
    BY <1>0, <2>1 DEF SleepsWhereExpected, WaitOK, WaitsForChild
  <2>3. q \in Allocated /\ Range(p_children[q]) = {c \in Allocated \ {idle} : p_pproc[c] = q}
    <3>1. q \in Allocated
      BY <2>2 DEF Allocated
    <3> QED BY <1>0, <3>1, TreeFacts
  <2>4. d \in Range(p_children[q])
    <3>1. CASE q # init
      BY <1>4, <2>1, <3>1
    <3>2. CASE q = init
      BY <1>4, <2>1, <2>2, <3>2
    <3> QED BY <3>1, <3>2
  <2>5. d # curthr /\ d \in Proc
    BY <2>1, <2>3, <2>4 DEF Allocated
  <2>6. p_state[d] # "PROC_DEAD"
    BY <1>0, <2>1, <2>4 DEF ExitsSeen
  <2> QED BY <1>4, <2>5, <2>6
<1>12. ShutdownInOrder'
  <2>1. pc'[idle] = pc[idle]
    BY <1>0, <1>1, <1>3, ProcFacts DEF PcOK
  <2>2. (p_state'[init] = "free" <=> p_state[init] = "free")
        /\ (p_state'[pageoutd] = "free" <=> p_state[pageoutd] = "free")
    BY <1>1, <1>4, ProcFacts
  <2>3. pc[idle] \in {"idleproc_run", "vfs_shutdown"} =>
          p_state'[pageoutd] = "PROC_RUNNING" /\ ~kt_cancelled'[pageoutd]
    BY <1>0, <1>2, <1>4, ProcFacts DEF ShutdownInOrder
  <2> QED BY <1>0, <1>3, <2>1, <2>2, <2>3 DEF ShutdownInOrder
<1>13. RestOK'
  BY <1>0, <1>3 DEF RestOK, PanicsExplained, Leftover
<1> QED BY <1>2, <1>4, <1>5, <1>6, <1>7, <1>9, <1>10, <1>11, <1>12, <1>13 DEF IInv

(***************************************************************************)
(* The other outcome: the machine stops with the thread exited and its     *)
(* process not yet PROC_DEAD.                                              *)
(***************************************************************************)
LEMMA ReleaseSleepsInv ==
  ASSUME IInv, Executing, ReleaseSleeps, p_status' \in [Proc -> {0, EFAULT}]
  PROVE  IInv'
<1>0. /\ SchedInv /\ TreeOK /\ PidsOK /\ ThreadMatchesProcess /\ PcOK /\ WaitOK
      /\ SleepsWhereExpected /\ ShutdownInOrder /\ ExitsSeen /\ RestOK
  BY DEF IInv
<1>1. /\ curthr \in User /\ kt_state' = [kt_state EXCEPT ![curthr] = "KT_EXITED"] /\ panic' = TRUE
      /\ UNCHANGED <<kt_wchan, kt_cancelled, tq_list, curthr, in_switch>>
      /\ UNCHANGED <<p_pid, p_pproc, p_children, p_state, proc_list, next_pid, pc, waitfor, left>>
  BY DEF ReleaseSleeps
<1>2. /\ curthr \in Proc /\ kt_wchan[curthr] = NULL /\ p_state[curthr] = "PROC_RUNNING"
      /\ kt_state[curthr] = "KT_RUN"
  BY RunningFacts
<1>3. SchedInv'
  <2>1. kthread_exit
    BY <1>1 DEF kthread_exit
  <2> QED BY <1>0, <2>1, OffQueueInv
<1>4. TreeOK' /\ Allocated' = Allocated
  BY <1>0, <1>1, SameTree
<1>5. PidsOK' /\ PcOK' /\ WaitOK' /\ ShutdownInOrder'
  BY <1>0, <1>1, <1>4, SamePids, SamePc, SameWait, SameShutdown
<1>6. kt_state'[curthr] = "KT_EXITED" /\ \A q \in Proc \ {curthr} : kt_state'[q] = kt_state[q]
  <2>1. kt_state \in [Proc -> State]
    BY <1>0, SchedFacts
  <2> QED BY <1>1, <1>2, <2>1
<1>7. StoppedInExit'
  BY <1>1, <1>6 DEF StoppedInExit
<1>8. ThreadMatchesProcess'
  <2> SUFFICES ASSUME NEW q \in Proc
               PROVE  /\ p_state[q] = "PROC_DEAD" <=> kt_state'[q] = "KT_EXITED" /\ ~(StoppedInExit' /\ q = curthr)
                      /\ p_state[q] = "free" <=> kt_state'[q] = "unallocated"
                      /\ kt_state'[q] # "KT_NO_STATE"
    BY <1>1 DEF ThreadMatchesProcess
  <2>1. CASE q = curthr
    BY <1>2, <1>6, <1>7, <2>1
  <2>2. CASE q # curthr
    BY <1>0, <1>6, <2>2 DEF ThreadMatchesProcess
  <2> QED BY <2>1, <2>2
<1>9. SleepsWhereExpected'
  BY <1>0, <1>1, <1>2, <1>6, ProcFacts, QueueFacts DEF SleepsWhereExpected
<1>10. ExitsSeen'
  BY <1>0, <1>1 DEF ExitsSeen
<1>11. RestOK'
  BY <1>0, <1>1, <1>2, <1>7 DEF RestOK, PanicsExplained
<1> QED BY <1>3, <1>4, <1>5, <1>8, <1>9, <1>10, <1>11 DEF IInv

(* The six ways to kthread_exit, each of a process that may exit. *)
LEMMA ExitsInv ==
  ASSUME IInv, \/ do_exit \/ handle_pagefault \/ syscall_exit
               \/ proc_kill_all_exit \/ initproc_exit \/ pageoutd_quit
  PROVE  IInv'
<1>1. /\ Executing /\ ~panic /\ waitfor[curthr] = NULL /\ Exit
      /\ pc[curthr] \in {"user", "proc_kill_all", "initproc_run", "pageoutd_run"}
      /\ pc[curthr] = "initproc_run" => p_children[init] = <<>>
      /\ pc[curthr] = "pageoutd_run" => kt_cancelled[pageoutd]
  BY DEF do_exit, handle_pagefault, syscall_exit, proc_kill_all_exit, initproc_exit, pageoutd_quit,
         Syscall, At
<1>2. /\ curthr \in Proc /\ pc[curthr] \in {"user", "proc_kill_all"} => curthr \in User
      /\ pc[curthr] = "initproc_run" => curthr = init
      /\ pc[curthr] = "pageoutd_run" => curthr = pageoutd
  BY <1>1, RunningFacts
<1>3. p_status' \in [Proc -> {0, EFAULT}]
  <2>1. p_status \in [Proc -> {0, EFAULT}] /\ curthr \in Proc
    BY <1>1, RunningFacts DEF IInv, RestOK
  <2>2. p_status' = p_status \/ p_status' = [p_status EXCEPT ![curthr] = EFAULT]
    BY DEF do_exit, handle_pagefault, syscall_exit, proc_kill_all_exit, initproc_exit, pageoutd_quit
  <2> QED BY <2>1, <2>2
<1>4. /\ curthr # idle
      /\ curthr = init => p_children[init] = <<>>
      /\ curthr = pageoutd => kt_cancelled[pageoutd]
  BY <1>1, <1>2, RunningFacts, ProcFacts
<1>5. CASE Released
  BY <1>1, <1>3, <1>4, <1>5, ExitInv
<1>6. CASE ReleaseSleeps
  BY <1>1, <1>3, <1>6, ReleaseSleepsInv
<1> QED BY <1>1, <1>5, <1>6 DEF Exit

-----------------------------------------------------------------------------
(***************************************************************************)
(* do_waitpid finds a dead child and frees it.  A child of idle that is    *)
(* dead is init, and after init the pageout daemon.                        *)
(***************************************************************************)
LEMMA ReapInv == ASSUME IInv, do_waitpid_reap PROVE IInv'
<1> DEFINE target == waitfor[curthr]
           dead == {d \in Proc : p_state[d] = "PROC_DEAD" /\ target \in {ANY, d}}
           c == Head(Keep(p_children[curthr], dead))
<1>0. /\ SchedInv /\ TreeOK /\ PidsOK /\ ThreadMatchesProcess /\ PcOK /\ WaitOK
      /\ SleepsWhereExpected /\ ShutdownInOrder /\ ExitsSeen /\ RestOK
  BY DEF IInv
<1>1. /\ Executing /\ ~panic /\ target # NULL /\ Keep(p_children[curthr], dead) # <<>>
      /\ disposeZombie(c) /\ waitfor' = [waitfor EXCEPT ![curthr] = NULL] /\ UNCHANGED <<pc, panic, left>>
  BY DEF do_waitpid_reap, DeadChildren
<1>2. /\ curthr \in Proc /\ curthr \in Allocated /\ kt_wchan[curthr] = NULL
      /\ p_state[curthr] = "PROC_RUNNING"
  BY <1>1, RunningFacts
<1>3. c \in Range(p_children[curthr]) /\ c \in Proc /\ p_state[c] = "PROC_DEAD"
  <2>1. p_children[curthr] \in Seq(Proc)
    BY <1>0, <1>2 DEF TreeOK
  <2>2. c \in Range(p_children[curthr]) \cap dead
    <3> HIDE DEF dead
    <3>1. /\ Keep(p_children[curthr], dead) \in Seq(Proc)
          /\ Range(Keep(p_children[curthr], dead)) = Range(p_children[curthr]) \cap dead
      BY <2>1, KeepFacts
    <3> QED BY <1>1, <3>1, HeadTailFacts
  <2> QED BY <2>2
<1> HIDE DEF dead, c, target
<1>4. /\ TreeOK' /\ Allocated' = Allocated \ {c} /\ c \in Allocated \ {idle} /\ p_pproc[c] = curthr
      /\ p_state'[c] = "free" /\ \A q \in Proc \ {c} : p_state'[q] = p_state[q]
      /\ \A q \in Proc \ {curthr} : p_children'[q] = p_children[q]
  BY <1>0, <1>1, <1>2, <1>3, ReapTree
<1>5. /\ kt_state' = [kt_state EXCEPT ![c] = "unallocated"] /\ p_pid' = [p_pid EXCEPT ![c] = -1]
      /\ p_status' = [p_status EXCEPT ![c] = 0]
      /\ UNCHANGED <<kt_wchan, kt_cancelled, tq_list, curthr, in_switch, next_pid>>
  BY <1>1 DEF disposeZombie
<1>6. kt_state[c] = "KT_EXITED" /\ c # curthr
  BY <1>0, <1>2, <1>3 DEF ThreadMatchesProcess
<1>7. SchedInv'
  <2>1. kthread_destroy(c) /\ c \in Thread
    BY <1>1, <1>3, <1>5, <1>6, ProcFacts DEF kthread_destroy
  <2> QED BY <1>0, <2>1, OffQueueInv
<1>8. PidsOK'
  BY <1>0, <1>4, <1>5, ReapPids
<1>9. kt_state'[c] = "unallocated" /\ \A q \in Proc \ {c} : kt_state'[q] = kt_state[q]
  <2>1. kt_state \in [Proc -> State]
    BY <1>0, SchedFacts
  <2> QED BY <1>3, <1>5, <2>1
<1>10. ThreadMatchesProcess'
  BY <1>0, <1>1, <1>4, <1>9 DEF ThreadMatchesProcess, StoppedInExit
<1>11. PcOK'
  <2>1. pc[c] = "none"
    BY <1>0, <1>3 DEF PcOK, RunsOwnCode
  <2> QED BY <1>0, <1>1, <1>4, <2>1 DEF PcOK, RunsOwnCode
<1>12. /\ waitfor' \in [Proc -> Proc \cup {ANY, NULL}] /\ waitfor'[curthr] = NULL
       /\ \A q \in Proc \ {curthr} : waitfor'[q] = waitfor[q]
  BY <1>0, <1>1, <1>2 DEF WaitOK
<1>13. WaitOK'
  <2>1. ASSUME NEW q \in Proc, waitfor'[q] # NULL
        PROVE  p_state'[q] = "PROC_RUNNING" /\ \E d \in Range(p_children'[q]) : waitfor'[q] \in {ANY, d}
    <3>1. q # curthr /\ waitfor[q] # NULL /\ waitfor'[q] = waitfor[q]
      BY <1>12, <2>1
    <3>2. p_state[q] = "PROC_RUNNING" /\ \E d \in Range(p_children[q]) : waitfor[q] \in {ANY, d}
      BY <1>0, <3>1 DEF WaitOK, WaitsForChild
    <3>3. q # c
      BY <1>3, <3>2
    <3> QED BY <1>4, <3>1, <3>2, <3>3
  <2>2. waitfor'[init] # ANY /\ waitfor'[pageoutd] = NULL
    BY <1>0, <1>12, ProcFacts DEF WaitOK, WaitsForChild
  <2> QED BY <1>12, <2>1, <2>2 DEF WaitOK, WaitsForChild
<1>14. SleepsWhereExpected'
  <2> SUFFICES ASSUME NEW p \in Proc
               PROVE  /\ kt_wchan[p] \in Proc => kt_wchan[p] = p /\ waitfor'[p] # NULL /\ kt_state'[p] = "KT_SLEEP"
                      /\ kt_wchan[p] = disk => waitfor'[p] = NULL /\ kt_state'[p] = "KT_SLEEP"
                      /\ kt_wchan[p] \in {tty, pageoutd_waitq} =>
                           waitfor'[p] = NULL /\ kt_state'[p] = "KT_SLEEP_CANCELLABLE"
    BY <1>5 DEF SleepsWhereExpected
  <2>1. CASE p = curthr
    BY <1>2, <2>1, ProcFacts, QueueFacts
  <2>2. CASE p # curthr
    BY <1>0, <1>6, <1>9, <1>12, <2>2 DEF SleepsWhereExpected
  <2> QED BY <2>1, <2>2
<1>15. ExitsSeen'
  <2> SUFFICES ASSUME NEW q \in Proc, kt_wchan[q] = q, NEW d \in Range(p_children'[q]),
                      waitfor'[q] \in {ANY, d}
               PROVE  p_state'[d] # "PROC_DEAD"
    BY <1>5 DEF ExitsSeen
  <2>1. q # curthr
    BY <1>2, ProcFacts
  <2>2. d \in Range(p_children[q]) /\ waitfor[q] \in {ANY, d} /\ p_children[q] \in Seq(Proc)
    BY <1>0, <1>4, <1>12, <2>1 DEF TreeOK
  <2>3. p_state[d] # "PROC_DEAD" /\ d \in Proc
    BY <1>0, <2>2 DEF ExitsSeen, Range
  <2> QED BY <1>4, <2>3
<1>16. ShutdownInOrder'
  <2>1. CASE curthr = idle
    <3>1. c \in {init, pageoutd}
      BY <1>0, <1>3, <1>4, <2>1, ProcFacts, TreeFacts
    <3>2. CASE pc[idle] = "idleproc_run"
      <4>1. c = init /\ p_state[pageoutd] = "PROC_RUNNING" /\ ~kt_cancelled[pageoutd]
        BY <1>0, <1>3, <3>1, <3>2 DEF ShutdownInOrder
      <4> QED BY <1>1, <1>4, <1>5, <1>12, <2>1, <3>2, <4>1, ProcFacts DEF ShutdownInOrder
    <3>3. CASE pc[idle] = "pframe_shutdown"
      <4>1. c = pageoutd /\ p_state[init] = "free"
        BY <1>0, <1>3, <3>1, <3>3 DEF ShutdownInOrder
      <4> QED BY <1>1, <1>4, <1>12, <2>1, <3>3, <4>1, ProcFacts DEF ShutdownInOrder
    <3>4. CASE pc[idle] \in {"vfs_shutdown", "halted"}
      BY <1>0, <1>1, <2>1, <3>4 DEF ShutdownInOrder, target
    <3> QED BY <1>0, <3>2, <3>3, <3>4 DEF PcOK, RunsOwnCode
  <2>2. CASE curthr # idle
    <3>1. c \in User
      BY <1>0, <1>4, <2>2, TreeFacts
    <3>2. /\ p_state'[init] = p_state[init] /\ p_state'[pageoutd] = p_state[pageoutd]
          /\ waitfor'[idle] = waitfor[idle]
      BY <1>4, <1>12, <2>2, <3>1, ProcFacts
    <3> QED BY <1>0, <1>1, <1>5, <3>2 DEF ShutdownInOrder
  <2> QED BY <2>1, <2>2
<1>17. RestOK'
  BY <1>0, <1>1, <1>5 DEF RestOK, PanicsExplained
<1> QED BY <1>4, <1>7, <1>8, <1>10, <1>11, <1>13, <1>14, <1>15, <1>16, <1>17 DEF IInv

(***************************************************************************)
(* kthread_cancel on each thread of a list.  The ones that are woken leave *)
(* their queues for the run queue.                                         *)
(***************************************************************************)
LEMMA CancelStep ==
  ASSUME SchedInv, NEW list \in Seq(Proc), IsInjective(list), CancelEach(list),
         kt_state[curthr] # "KT_SLEEP_CANCELLABLE"
  PROVE  /\ SchedInv' /\ UNCHANGED <<curthr, in_switch>>
         /\ \A t \in Proc : kt_cancelled'[t] <=> t \in Range(list) \/ kt_cancelled[t]
         /\ \A t \in Proc : KeepsState(t) \/ BecomesRunnable(t)
<1> DEFINE canc == {p \in Proc : kt_state[p] = "KT_SLEEP_CANCELLABLE"}
           w == Keep(list, canc)
<1>1. /\ kt_state \in [Proc -> State] /\ kt_wchan \in [Proc -> AllQueue \cup {NULL}]
      /\ kt_cancelled \in [Proc -> BOOLEAN] /\ curthr \in Proc /\ in_switch \in BOOLEAN
      /\ tq_list \in [AllQueue -> Seq(Proc)]
      /\ \A q \in AllQueue : IsInjective(tq_list[q]) /\ Range(tq_list[q]) = Holds(q)
      /\ \A t \in Proc : ThreadFits(kt_state[t], kt_wchan[t], kt_cancelled[t], ~in_switch /\ t = curthr)
  BY SchedFacts
<1>2. w \in Seq(Proc) /\ IsInjective(w) /\ Range(w) = Range(list) \cap canc
  <2> HIDE DEF canc
  <2> QED BY KeepFacts
<1>3. /\ kt_cancelled' = [p \in Proc |-> p \in Range(list) \/ kt_cancelled[p]]
      /\ kt_state' = [p \in Proc |-> IF p \in Range(w) THEN "KT_RUN" ELSE kt_state[p]]
      /\ kt_wchan' = [p \in Proc |-> IF p \in Range(w) THEN kt_runq ELSE kt_wchan[p]]
      /\ tq_list' = [q \in AllQueue |->
                       IF q = kt_runq THEN tq_list[q] \o w ELSE Keep(tq_list[q], Proc \ Range(w))]
      /\ UNCHANGED <<curthr, in_switch>>
  BY DEF CancelEach
<1>4. \A t \in Range(w) : /\ t \in Proc /\ kt_state[t] = "KT_SLEEP_CANCELLABLE"
                          /\ t # curthr /\ kt_wchan[t] \in Queue
  BY <1>1, <1>2 DEF ThreadFits, Sleeping
<1> HIDE DEF w
<1>5. /\ kt_state' \in [Proc -> State] /\ kt_wchan' \in [Proc -> AllQueue \cup {NULL}]
      /\ kt_cancelled' \in [Proc -> BOOLEAN]
      /\ \A t \in Range(w) : kt_state'[t] = "KT_RUN" /\ kt_wchan'[t] = kt_runq
      /\ \A t \in Proc \ Range(w) : kt_state'[t] = kt_state[t] /\ kt_wchan'[t] = kt_wchan[t]
  BY <1>1, <1>3, <1>4, QueueFacts DEF State
<1>6. /\ tq_list[kt_runq] \o w \in Seq(Proc) /\ IsInjective(tq_list[kt_runq] \o w)
      /\ Range(tq_list[kt_runq] \o w) = Holds(kt_runq) \cup Range(w)
  <2>1. /\ tq_list[kt_runq] \in Seq(Proc) /\ IsInjective(tq_list[kt_runq])
        /\ Range(tq_list[kt_runq]) = Holds(kt_runq)
    BY <1>1, QueueFacts
  <2>2. Range(tq_list[kt_runq]) \cap Range(w) = {}
    BY <1>4, <2>1, QueueFacts DEF Holds
  <2> QED BY <1>2, <2>1, <2>2, ConcatFacts
<1>7. ASSUME NEW q \in AllQueue
      PROVE  /\ tq_list'[q] \in Seq(Proc) /\ IsInjective(tq_list'[q])
             /\ Range(tq_list'[q]) = Holds(q)'
  <2>1. CASE q = kt_runq
    <3>1. Holds(q)' = Holds(q) \cup Range(w)
      BY <1>4, <1>5, <2>1 DEF Holds
    <3> QED BY <1>3, <1>6, <2>1, <3>1
  <2>2. CASE q # kt_runq
    <3>1. tq_list[q] \in Seq(Proc) /\ IsInjective(tq_list[q]) /\ Range(tq_list[q]) = Holds(q)
      BY <1>1
    <3>2. /\ Keep(tq_list[q], Proc \ Range(w)) \in Seq(Proc)
          /\ IsInjective(Keep(tq_list[q], Proc \ Range(w)))
          /\ Range(Keep(tq_list[q], Proc \ Range(w))) = Holds(q) \cap (Proc \ Range(w))
      BY <3>1, KeepFacts
    <3>3. Holds(q)' = Holds(q) \cap (Proc \ Range(w))
      BY <1>4, <1>5, <2>2 DEF Holds
    <3> QED BY <1>3, <2>2, <3>2, <3>3
  <2> QED BY <2>1, <2>2
<1>8. tq_list' \in [AllQueue -> Seq(Proc)]
  BY <1>3, <1>7
<1>9. ASSUME NEW t \in Proc
      PROVE  ThreadFits(kt_state'[t], kt_wchan'[t], kt_cancelled'[t], ~in_switch' /\ t = curthr')
  <2>1. ThreadFits(kt_state[t], kt_wchan[t], kt_cancelled[t], ~in_switch /\ t = curthr)
    BY <1>1
  <2>2. CASE t \in Range(w)
    BY <1>3, <1>4, <1>5, <2>2, QueueFacts DEF ThreadFits, Sleeping
  <2>3. CASE t \notin Range(w)
    <3>1. kt_state'[t] = "KT_SLEEP_CANCELLABLE" => ~kt_cancelled'[t]
      BY <1>2, <1>3, <1>5, <2>1, <2>3 DEF ThreadFits
    <3> QED BY <1>3, <1>5, <2>1, <2>3, <3>1 DEF ThreadFits
  <2> QED BY <2>2, <2>3
<1>10. kt_state[curthr] # "unallocated"
  BY DEF SchedInv, AssertionsHold
<1>11. SchedInv'
  <2>1. kt_state'[curthr'] # "unallocated"
    BY <1>1, <1>3, <1>4, <1>5, <1>10
  <2> QED BY <1>1, <1>3, <1>5, <1>7, <1>8, <1>9, <2>1, SchedRebuilt
<1>12. \A t \in Proc : kt_cancelled'[t] <=> t \in Range(list) \/ kt_cancelled[t]
  BY <1>1, <1>3
<1>13. \A t \in Proc : KeepsState(t) \/ BecomesRunnable(t)
  BY <1>4, <1>5 DEF KeepsState, BecomesRunnable, Sleeping
<1> QED BY <1>3, <1>11, <1>12, <1>13

(***************************************************************************)
(* sys_halt: the pageout daemon, a child of idle, is not a victim, and the *)
(* caller is a user process.                                               *)
(***************************************************************************)
LEMMA HaltInv == ASSUME IInv, sys_halt PROVE IInv'
<1>0. /\ SchedInv /\ TreeOK /\ PidsOK /\ ThreadMatchesProcess /\ PcOK /\ WaitOK
      /\ SleepsWhereExpected /\ ShutdownInOrder /\ ExitsSeen /\ RestOK
  BY DEF IInv
<1>1. /\ Executing /\ ~panic /\ pc[curthr] = "user" /\ waitfor[curthr] = NULL
      /\ UNCHANGED <<p_pid, p_pproc, p_children, p_state, p_status, proc_list, next_pid, waitfor, left>>
  BY DEF sys_halt, Syscall, At
<1>2. /\ curthr \in User /\ curthr \in Proc /\ kt_state[curthr] = "KT_RUN"
      /\ p_state[curthr] = "PROC_RUNNING"
  BY <1>1, RunningFacts
<1>3. TreeOK' /\ Allocated' = Allocated
  BY <1>0, <1>1, SameTree
<1>4. PidsOK' /\ WaitOK'
  BY <1>0, <1>1, <1>3, SamePids, SameWait
<1> DEFINE S == {p \in Range(proc_list) : p # curthr /\ p_pid[p] # PID_IDLE /\ p_pid[p_pproc[p]] # PID_IDLE}
<1>a. Victims \in Seq(Proc) /\ IsInjective(Victims) /\ Range(Victims) = Range(proc_list) \cap S
  <2>1. Victims = Keep(proc_list, S) /\ proc_list \in Seq(Proc) /\ IsInjective(proc_list)
    BY <1>0, TreeFacts DEF Victims
  <2> HIDE DEF S
  <2> QED BY <2>1, KeepFacts
<1>5. CASE /\ CancelEach(Victims) /\ pc' = [pc EXCEPT ![curthr] = "proc_kill_all"]
           /\ UNCHANGED panic
  <2>2. pageoutd \notin Range(Victims)
    <3> SUFFICES ASSUME pageoutd \in Range(Victims) PROVE FALSE
      OBVIOUS
    <3>1. pageoutd \in Allocated \ {idle} /\ p_pid[p_pproc[pageoutd]] # PID_IDLE
      BY <1>0, <1>a, ProcFacts, TreeFacts
    <3>2. p_pproc[pageoutd] = idle
      BY <1>0, <3>1, ProcFacts, TreeFacts
    <3> QED BY <1>0, <3>1, <3>2 DEF PidsOK, PidsUnique
  <2>3. /\ SchedInv' /\ \A t \in Proc : KeepsState(t) \/ BecomesRunnable(t)
        /\ \A t \in Proc : kt_cancelled'[t] <=> t \in Range(Victims) \/ kt_cancelled[t]
    BY <1>0, <1>2, <1>5, <1>a, CancelStep
  <2>4. ThreadMatchesProcess' /\ SleepsWhereExpected' /\ ExitsSeen'
    BY <1>0, <1>1, <1>5, <2>3, ThreadSteps
  <2>5. /\ pc \in [Proc -> PC] /\ pc' \in [Proc -> PC] /\ pc'[curthr] = "proc_kill_all"
        /\ \A q \in Proc \ {curthr} : pc'[q] = pc[q]
    BY <1>0, <1>2, <1>5 DEF PcOK, PC
  <2>6. PcOK'
    BY <1>0, <1>1, <1>2, <2>5, ProcFacts DEF PcOK, RunsOwnCode
  <2>7. ShutdownInOrder'
    <3>1. pc'[idle] = pc[idle] /\ (kt_cancelled'[pageoutd] <=> kt_cancelled[pageoutd])
      BY <1>2, <2>2, <2>3, <2>5, ProcFacts
    <3> QED BY <1>0, <1>1, <3>1 DEF ShutdownInOrder
  <2>8. RestOK'
    BY <1>0, <1>1, <1>5, SameRest
  <2> QED BY <1>3, <1>4, <2>3, <2>4, <2>6, <2>7, <2>8 DEF IInv
<1>6. CASE /\ \E p \in Range(Victims) : ~Cancellable(p)
           /\ panic' = TRUE /\ UNCHANGED <<schedVars, pc>>
  <2>1. UNCHANGED <<kt_state, kt_wchan, kt_cancelled, tq_list, curthr, in_switch, pc>>
    BY <1>6 DEF schedVars
  <2>2. SchedInv'
    BY <1>0, <2>1, StutterSched
  <2>3. ThreadMatchesProcess' /\ SleepsWhereExpected' /\ ExitsSeen'
    BY <1>0, <1>1, <1>2, <1>6, <2>1 DEF ThreadMatchesProcess, StoppedInExit, SleepsWhereExpected, ExitsSeen
  <2>4. PcOK' /\ ShutdownInOrder'
    BY <1>0, <1>1, <2>1, SamePc, SameShutdown
  <2>5. \E p \in Range(Victims) : p_state[p] = "PROC_DEAD"
    <3>1. PICK p \in Range(Victims) : ~Cancellable(p)
      BY <1>6
    <3>2. p \in Proc /\ p \in Allocated /\ p # curthr
      BY <1>0, <1>a, TreeFacts
    <3>3. /\ ThreadFits(kt_state[p], kt_wchan[p], kt_cancelled[p], ~in_switch /\ p = curthr)
          /\ kt_state[p] \in State
      BY <1>0, <3>2, SchedFacts
    <3>4. kt_state[p] = "KT_EXITED"
      <4>1. kt_state[p] \notin {"unallocated", "KT_NO_STATE"}
        BY <1>0, <3>2 DEF ThreadMatchesProcess, Allocated
      <4>2. kt_state[p] \in Sleeping \cup {"KT_RUN"} => kt_wchan[p] # NULL
        BY <3>2, <3>3, QueueFacts DEF ThreadFits, Sleeping, AllQueue
      <4> QED BY <3>1, <3>3, <4>1, <4>2 DEF Cancellable, State, Sleeping
    <3> QED BY <1>0, <1>1, <3>2, <3>4 DEF ThreadMatchesProcess, StoppedInExit
  <2>6. Victims' = Victims
    BY <1>1, <2>1 DEF Victims
  <2>7. RestOK'
    BY <1>0, <1>1, <1>2, <1>6, <2>1, <2>5, <2>6 DEF RestOK, PanicsExplained
  <2> QED BY <1>3, <1>4, <2>2, <2>3, <2>4, <2>7 DEF IInv
<1> QED BY <1>5, <1>6 DEF sys_halt

(***************************************************************************)
(* vfs_shutdown: init is the child that idle has reaped.  The machine      *)
(* stops if a reference has been left behind.                              *)
(***************************************************************************)
LEMMA VfsShutdownInv == ASSUME IInv, vfs_shutdown PROVE IInv'
<1>0. /\ SchedInv /\ TreeOK /\ PidsOK /\ ThreadMatchesProcess /\ PcOK /\ WaitOK
      /\ SleepsWhereExpected /\ ShutdownInOrder /\ ExitsSeen /\ RestOK
  BY DEF IInv
<1>1. /\ Executing /\ ~panic /\ pc[curthr] = "idleproc_run" /\ waitfor[curthr] = NULL
      /\ UNCHANGED <<kt_state, kt_wchan, kt_cancelled, tq_list, curthr, in_switch>>
      /\ UNCHANGED <<p_pid, p_pproc, p_children, p_state, p_status, proc_list, next_pid, waitfor, left>>
  BY DEF vfs_shutdown, At, schedVars
<1>2. curthr = idle /\ p_state[idle] = "PROC_RUNNING" /\ kt_state[idle] = "KT_RUN"
  BY <1>1, RunningFacts
<1>3. p_state[init] = "free" /\ p_state[pageoutd] = "PROC_RUNNING" /\ ~kt_cancelled[pageoutd]
  BY <1>0, <1>1, <1>2 DEF ShutdownInOrder
<1>4. TreeOK' /\ Allocated' = Allocated
  BY <1>0, <1>1, SameTree
<1>5. SchedInv' /\ PidsOK' /\ WaitOK'
  BY <1>0, <1>1, <1>4, StutterSched, SamePids, SameWait
<1>6. ThreadMatchesProcess' /\ SleepsWhereExpected' /\ ExitsSeen'
  BY <1>0, <1>1, <1>2 DEF ThreadMatchesProcess, StoppedInExit, SleepsWhereExpected, ExitsSeen
<1>7. CASE pc' = [pc EXCEPT ![idle] = "vfs_shutdown"] /\ UNCHANGED panic
  <2>1. /\ pc' \in [Proc -> PC] /\ pc'[idle] = "vfs_shutdown" /\ \A q \in Proc \ {idle} : pc'[q] = pc[q]
    BY <1>0, <1>7, ProcFacts DEF PcOK, PC
  <2>2. PcOK'
    BY <1>0, <1>1, <1>2, <2>1, ProcFacts DEF PcOK, RunsOwnCode
  <2>3. ShutdownInOrder'
    BY <1>1, <1>2, <1>3, <2>1 DEF ShutdownInOrder
  <2>4. RestOK'
    BY <1>0, <1>1, <1>7, SameRest
  <2> QED BY <1>4, <1>5, <1>6, <2>2, <2>3, <2>4 DEF IInv
<1>8. CASE "reference" \in left /\ panic' = TRUE /\ UNCHANGED pc
  <2>1. PcOK' /\ ShutdownInOrder'
    BY <1>0, <1>1, <1>8, SamePc, SameShutdown
  <2>2. RestOK'
    BY <1>0, <1>1, <1>2, <1>3, <1>8 DEF RestOK, PanicsExplained
  <2> QED BY <1>4, <1>5, <1>6, <2>1, <2>2 DEF IInv
<1> QED BY <1>3, <1>7, <1>8 DEF vfs_shutdown, Goes

(***************************************************************************)
(* pframe_shutdown: init is gone and the daemon is on a queue, so that no  *)
(* assertion fails, and idle has the daemon to wait for.                   *)
(***************************************************************************)
LEMMA PframeShutdownInv == ASSUME IInv, pframe_shutdown PROVE IInv'
<1>0. /\ SchedInv /\ TreeOK /\ PidsOK /\ ThreadMatchesProcess /\ PcOK /\ WaitOK
      /\ SleepsWhereExpected /\ ShutdownInOrder /\ ExitsSeen /\ RestOK
  BY DEF IInv
<1>1. /\ Executing /\ ~panic /\ pc[curthr] = "vfs_shutdown" /\ waitfor[curthr] = NULL
      /\ UNCHANGED <<p_pid, p_pproc, p_children, p_state, p_status, proc_list, next_pid, left>>
  BY DEF pframe_shutdown, At
<1>2. curthr = idle /\ curthr \in Proc /\ kt_state[idle] = "KT_RUN" /\ kt_wchan[idle] = NULL
      /\ p_state[idle] = "PROC_RUNNING"
  BY <1>1, RunningFacts
<1>3. p_state[init] = "free" /\ p_state[pageoutd] = "PROC_RUNNING" /\ ~in_switch
  BY <1>0, <1>1, <1>2 DEF ShutdownInOrder, Executing
<1>4. Cancellable(pageoutd)
  <2>1. kt_state[pageoutd] \in {"KT_RUN"} \cup Sleeping
    <3>1. kt_state \in [Proc -> State]
      BY <1>0, SchedFacts
    <3> QED BY <1>0, <1>1, <1>3, <3>1, ProcFacts DEF ThreadMatchesProcess, StoppedInExit, State, Sleeping
  <2>2. kt_wchan[pageoutd] # NULL
    <3>1. ThreadFits(kt_state[pageoutd], kt_wchan[pageoutd], kt_cancelled[pageoutd], FALSE)
      <4>1. ThreadFits(kt_state[pageoutd], kt_wchan[pageoutd], kt_cancelled[pageoutd],
                       ~in_switch /\ pageoutd = curthr)
        BY <1>0, SchedFacts, ProcFacts
      <4> QED BY <1>2, <4>1, ProcFacts DEF ThreadFits
    <3> QED BY <2>1, <3>1, QueueFacts DEF ThreadFits, AllQueue
  <2> QED BY <2>1, <2>2 DEF Cancellable, Sleeping
<1>5. /\ CancelEach(<<pageoutd>>) /\ pc' = [pc EXCEPT ![idle] = "pframe_shutdown"]
      /\ waitfor' = [waitfor EXCEPT ![idle] = ANY] /\ UNCHANGED panic
  BY <1>4 DEF pframe_shutdown, Goes
<1>6. TreeOK' /\ Allocated' = Allocated
  BY <1>0, <1>1, SameTree
<1>7. PidsOK' /\ RestOK'
  BY <1>0, <1>1, <1>5, <1>6, SamePids, SameRest
<1>8. SchedInv' /\ \A t \in Proc : KeepsState(t) \/ BecomesRunnable(t)
  <2>1. <<pageoutd>> \in Seq(Proc) /\ IsInjective(<<pageoutd>>)
    BY ProcFacts DEF IsInjective
  <2> QED BY <1>0, <1>2, <1>5, <2>1, CancelStep
<1>9. /\ waitfor \in [Proc -> Proc \cup {ANY, NULL}] /\ waitfor' \in [Proc -> Proc \cup {ANY, NULL}]
      /\ waitfor'[idle] = ANY /\ \A q \in Proc \ {idle} : waitfor'[q] = waitfor[q]
  BY <1>0, <1>5, ProcFacts DEF WaitOK
<1>10. pageoutd \in Range(p_children[idle])
  <2>1. pageoutd \in Allocated \ {idle}
    BY <1>3, ProcFacts DEF Allocated
  <2> QED BY <1>0, <2>1, ProcFacts, TreeFacts
<1>11. WaitOK'
  BY <1>0, <1>1, <1>2, <1>9, <1>10, ProcFacts DEF WaitOK, WaitsForChild
<1>12. /\ pc \in [Proc -> PC] /\ pc' \in [Proc -> PC] /\ pc'[idle] = "pframe_shutdown"
       /\ \A q \in Proc \ {idle} : pc'[q] = pc[q]
  BY <1>0, <1>5, ProcFacts DEF PcOK, PC
<1>13. PcOK'
  BY <1>0, <1>1, <1>2, <1>12, ProcFacts DEF PcOK, RunsOwnCode
<1>14. ThreadMatchesProcess'
  BY <1>0, <1>1, <1>5, <1>8 DEF ThreadMatchesProcess, StoppedInExit, KeepsState, BecomesRunnable, Sleeping
<1>15. kt_wchan'[idle] \in {NULL, kt_runq}
  BY <1>2, <1>8, ProcFacts DEF KeepsState, BecomesRunnable
<1>16. ASSUME NEW p \in Proc
       PROVE  /\ kt_wchan'[p] \in Proc => kt_wchan'[p] = p /\ waitfor'[p] # NULL /\ kt_state'[p] = "KT_SLEEP"
              /\ kt_wchan'[p] = disk => waitfor'[p] = NULL /\ kt_state'[p] = "KT_SLEEP"
              /\ kt_wchan'[p] \in {tty, pageoutd_waitq} =>
                   waitfor'[p] = NULL /\ kt_state'[p] = "KT_SLEEP_CANCELLABLE"
              /\ kt_wchan'[p] = p => \A d \in Range(p_children'[p]) :
                                        waitfor'[p] \in {ANY, d} => p_state'[d] # "PROC_DEAD"
  <2>1. CASE p = idle
    BY <1>15, <2>1, ProcFacts, QueueFacts
  <2>2. CASE p # idle /\ KeepsState(p)
    BY <1>0, <1>1, <1>9, <2>2 DEF KeepsState, SleepsWhereExpected, ExitsSeen
  <2>3. CASE BecomesRunnable(p)
    BY <2>3, ProcFacts, QueueFacts DEF BecomesRunnable
  <2> QED BY <1>8, <2>1, <2>2, <2>3
<1>17. SleepsWhereExpected' /\ ExitsSeen'
  BY <1>16 DEF SleepsWhereExpected, ExitsSeen
<1>18. ShutdownInOrder'
  BY <1>1, <1>3, <1>9, <1>12, ProcFacts DEF ShutdownInOrder
<1> QED BY <1>6, <1>7, <1>8, <1>11, <1>13, <1>14, <1>17, <1>18 DEF IInv

(***************************************************************************)
(* hard_shutdown: the daemon has been reaped.  The machine stops early if  *)
(* a page has been left pinned.                                            *)
(***************************************************************************)
LEMMA HardShutdownInv == ASSUME IInv, hard_shutdown PROVE IInv'
<1>0. /\ SchedInv /\ TreeOK /\ PidsOK /\ ThreadMatchesProcess /\ PcOK /\ WaitOK
      /\ SleepsWhereExpected /\ ShutdownInOrder /\ ExitsSeen /\ RestOK
  BY DEF IInv
<1>1. /\ Executing /\ ~panic /\ pc[curthr] = "pframe_shutdown" /\ waitfor[curthr] = NULL
      /\ UNCHANGED <<kt_state, kt_wchan, kt_cancelled, tq_list, curthr, in_switch>>
      /\ UNCHANGED <<p_pid, p_pproc, p_children, p_state, p_status, proc_list, next_pid, waitfor, left>>
  BY DEF hard_shutdown, At, schedVars
<1>2. curthr = idle /\ p_state[idle] = "PROC_RUNNING" /\ kt_state[idle] = "KT_RUN"
  BY <1>1, RunningFacts
<1>3. p_state[init] = "free" /\ p_state[pageoutd] = "free" /\ waitfor[idle] = NULL
  BY <1>0, <1>1, <1>2 DEF ShutdownInOrder
<1>4. TreeOK' /\ Allocated' = Allocated
  BY <1>0, <1>1, SameTree
<1>5. SchedInv' /\ PidsOK' /\ WaitOK'
  BY <1>0, <1>1, <1>4, StutterSched, SamePids, SameWait
<1>6. ThreadMatchesProcess' /\ SleepsWhereExpected' /\ ExitsSeen'
  BY <1>0, <1>1, <1>2 DEF ThreadMatchesProcess, StoppedInExit, SleepsWhereExpected, ExitsSeen
<1>7. CASE pc' = [pc EXCEPT ![idle] = "halted"] /\ UNCHANGED panic
  <2>1. /\ pc' \in [Proc -> PC] /\ pc'[idle] = "halted" /\ \A q \in Proc \ {idle} : pc'[q] = pc[q]
    BY <1>0, <1>7, ProcFacts DEF PcOK, PC
  <2>2. PcOK'
    BY <1>0, <1>1, <1>2, <2>1, ProcFacts DEF PcOK, RunsOwnCode
  <2>3. ShutdownInOrder'
    BY <1>1, <1>3, <2>1 DEF ShutdownInOrder
  <2>4. RestOK'
    BY <1>0, <1>1, <1>7, SameRest
  <2> QED BY <1>4, <1>5, <1>6, <2>2, <2>3, <2>4 DEF IInv
<1>8. CASE "pin" \in left /\ panic' = TRUE /\ UNCHANGED pc
  <2>1. PcOK' /\ ShutdownInOrder'
    BY <1>0, <1>1, <1>8, SamePc, SameShutdown
  <2>2. Allocated = {idle}
    <3>1. Allocated \cap User = {}
      BY <1>0, <1>3 DEF TreeOK, InitAdopts
    <3> QED BY <1>2, <1>3, <3>1, ProcFacts DEF Allocated
  <2>3. RestOK'
    BY <1>0, <1>1, <1>2, <1>4, <1>8, <2>2 DEF RestOK, PanicsExplained
  <2> QED BY <1>4, <1>5, <1>6, <2>1, <2>3 DEF IInv
<1> QED BY <1>3, <1>7, <1>8 DEF hard_shutdown, Goes

-----------------------------------------------------------------------------
(***************************************************************************)
(* The machine as idleproc_run has set it up.                              *)
(***************************************************************************)
LEMMA ProcInitInv == ProcInit => IInv
<1> SUFFICES ASSUME ProcInit PROVE IInv
  OBVIOUS
<1> DEFINE sys == {idle, init, pageoutd}
<1>1. /\ kt_state = [p \in Proc |-> IF p \in sys THEN "KT_RUN" ELSE "unallocated"]
      /\ kt_wchan = [p \in Proc |-> IF p \in {init, pageoutd} THEN kt_runq ELSE NULL]
      /\ kt_cancelled = [p \in Proc |-> FALSE]
      /\ tq_list = [q \in AllQueue |-> IF q = kt_runq THEN <<pageoutd, init>> ELSE <<>>]
      /\ curthr = idle /\ in_switch = FALSE
  BY DEF ProcInit
<1>2. /\ p_pid = [p \in Proc |-> CASE p = idle     -> PID_IDLE
                                   [] p = init     -> PID_INIT
                                   [] p = pageoutd -> 2
                                   [] OTHER        -> -1]
      /\ p_pproc = [p \in Proc |-> IF p \in sys THEN idle ELSE NULL]
      /\ p_children = [p \in Proc |-> IF p = idle THEN <<init, pageoutd>> ELSE <<>>]
      /\ p_state = [p \in Proc |-> IF p \in sys THEN "PROC_RUNNING" ELSE "free"]
      /\ p_status = [p \in Proc |-> 0]
      /\ proc_list = <<idle, init, pageoutd>>
      /\ next_pid = 3 /\ panic = FALSE /\ left = {}
      /\ waitfor = [p \in Proc |-> IF p = idle THEN ANY ELSE NULL]
  BY DEF ProcInit
<1>3. pc = [p \in Proc |-> CASE p = idle     -> "idleproc_run"
                             [] p = init     -> "initproc_create_child"
                             [] p = pageoutd -> "pageoutd_run"
                             [] OTHER        -> "none"]
  BY DEF ProcInit
<1>4. Allocated = sys /\ sys \subseteq Proc
  BY <1>2, ProcFacts DEF Allocated
<1>5. SchedInv
  <2>1. /\ kt_state \in [Proc -> State] /\ kt_wchan \in [Proc -> AllQueue \cup {NULL}]
        /\ kt_cancelled \in [Proc -> BOOLEAN] /\ tq_list \in [AllQueue -> Seq(Proc)]
    <3>1. <<pageoutd, init>> \in Seq(Proc) /\ <<>> \in Seq(Proc) /\ kt_runq \in AllQueue
      BY ProcFacts, QueueFacts
    <3> QED BY <1>1, <3>1 DEF State
  <2>2. SchedTypeOK
    BY <1>1, <2>1, ProcFacts DEF SchedTypeOK
  <2>3. QueuesMatchWchan
    <3> SUFFICES ASSUME NEW q \in AllQueue PROVE ListsThreadsOf(tq_list[q], q, kt_wchan)
      BY DEF QueuesMatchWchan
    <3>1. CASE q = kt_runq
      <4>1. tq_list[q] = <<pageoutd, init>>
        BY <1>1, <3>1
      <4>2. IsInjective(<<pageoutd, init>>) /\ Range(<<pageoutd, init>>) = {init, pageoutd}
        BY ProcFacts DEF IsInjective, Range
      <4>3. {t \in Proc : kt_wchan[t] = q} = {init, pageoutd}
        BY <1>1, <3>1, ProcFacts, QueueFacts
      <4>4. IsInjective(tq_list[q]) /\ Range(tq_list[q]) = {t \in Proc : kt_wchan[t] = q}
        BY <4>1, <4>2, <4>3
      <4>5. tq_list[q] \in Seq(Proc)
        BY <2>1
      <4> QED BY <4>4, <4>5, ListIsSet
    <3>2. CASE q # kt_runq
      <4>1. tq_list[q] = <<>>
        BY <1>1, <3>2
      <4>2. IsInjective(<<>>) /\ Range(<<>>) = {}
        BY DEF IsInjective, Range
      <4>3. {t \in Proc : kt_wchan[t] = q} = {}
        BY <1>1, <3>2, QueueFacts
      <4> QED BY <2>1, <4>1, <4>2, <4>3, ListIsSet
    <3> QED BY <3>1, <3>2
  <2>4. NoLostThread /\ AssertionsHold /\ CancelledNotAsleep
    BY <1>1, ProcFacts, QueueFacts
    DEF NoLostThread, AssertionsHold, CancelledNotAsleep, Executing, Sleeping
  <2> QED BY <2>2, <2>3, <2>4 DEF SchedInv
<1>6. TreeOK
  <2>1. /\ IsInjective(<<idle, init, pageoutd>>) /\ Range(<<idle, init, pageoutd>>) = sys
        /\ IsInjective(<<init, pageoutd>>) /\ Range(<<init, pageoutd>>) = {init, pageoutd}
        /\ IsInjective(<<>>) /\ Range(<<>>) = {}
    BY ProcFacts DEF IsInjective, Range
  <2>2. TreeConsistent
    <3>1. ASSUME NEW p \in Allocated
          PROVE  /\ IsInjective(p_children[p])
                 /\ Range(p_children[p]) = {c \in Allocated \ {idle} : p_pproc[c] = p}
      <4>1. CASE p = idle
        BY <1>2, <1>4, <2>1, <4>1, ProcFacts
      <4>2. CASE p # idle
        BY <1>2, <1>4, <2>1, <4>2, ProcFacts
      <4> QED BY <4>1, <4>2
    <3>2. \A c \in Allocated : p_pproc[c] \in Allocated /\ p_state[p_pproc[c]] = "PROC_RUNNING"
      BY <1>2, <1>4
    <3> QED BY <1>2, <1>4, <2>1, <3>1, <3>2 DEF TreeConsistent
  <2>3. InitAdopts
    <3>1. p_state[idle] = "PROC_RUNNING" /\ p_pproc[idle] = idle /\ p_state[init] = "PROC_RUNNING"
      BY <1>2, ProcFacts
    <3>2. \A c \in Allocated \ {idle} : /\ p_pproc[c] # pageoutd
                                        /\ p_pproc[c] = idle <=> c \notin User
      BY <1>2, <1>4, ProcFacts
    <3>3. ASSUME NEW i \in 1 .. Len(proc_list), NEW j \in 1 .. Len(proc_list),
                 Precedes(proc_list[i], proc_list[j])
          PROVE  i < j
      <4>1. Len(proc_list) = 3 /\ proc_list[1] = idle /\ proc_list[2] = init /\ proc_list[3] = pageoutd
        BY <1>2
      <4>2. i \in {1, 2, 3} /\ j \in {1, 2, 3}
        BY <4>1
      <4>3. proc_list[j] # idle /\ p_pproc[proc_list[j]] = idle /\ proc_list[j] \notin User
        BY <1>2, <3>3, <4>1, <4>2, ProcFacts DEF Precedes
      <4>4. proc_list[i] = idle
        BY <3>3, <4>3 DEF Precedes
      <4> QED BY <4>1, <4>2, <4>3, <4>4, ProcFacts
    <3> QED BY <3>1, <3>2, <3>3 DEF InitAdopts
  <2>4. /\ proc_list \in Seq(Proc) /\ p_children \in [Proc -> Seq(Proc)]
    <3>1. <<idle, init, pageoutd>> \in Seq(Proc) /\ <<init, pageoutd>> \in Seq(Proc) /\ <<>> \in Seq(Proc)
      BY ProcFacts
    <3> QED BY <1>2, <3>1
  <2>5. /\ p_state \in [Proc -> {"free", "PROC_RUNNING", "PROC_DEAD"}]
        /\ p_pproc \in [Proc -> Proc \cup {NULL}]
    BY <1>2, ProcFacts
  <2> QED BY <2>2, <2>3, <2>4, <2>5 DEF TreeOK
<1>7. PidsOK
  <2>1. PROC_MAX_COUNT \in Nat /\ PROC_MAX_COUNT > 3
    BY PidCount
  <2>2. /\ p_pid[idle] = 0 /\ p_pid[init] = 1 /\ p_pid[pageoutd] = 2
        /\ \A p \in Proc : p_pid[p] \in {0, 1, 2, -1}
    BY <1>2, ProcFacts DEF PID_IDLE, PID_INIT
  <2>3. p_pid \in [Proc -> 0..(PROC_MAX_COUNT - 1) \cup {-1}]
    <3>1. {0, 1, 2, -1} \subseteq 0..(PROC_MAX_COUNT - 1) \cup {-1}
      BY <2>1
    <3>2. p_pid = [p \in Proc |-> p_pid[p]]
      BY <1>2
    <3> QED BY <2>2, <3>1, <3>2
  <2>4. PidsUnique
    BY <1>4, <2>2 DEF PidsUnique, PID_IDLE
  <2>5. next_pid \in 0..(PROC_MAX_COUNT - 1)
    BY <1>2, <2>1
  <2> QED BY <2>3, <2>4, <2>5 DEF PidsOK
<1>8. ThreadMatchesProcess
  BY <1>1, <1>2 DEF ThreadMatchesProcess, StoppedInExit
<1>9. PcOK
  <2>1. /\ pc[idle] = "idleproc_run" /\ pc[init] = "initproc_create_child"
        /\ pc[pageoutd] = "pageoutd_run" /\ \A p \in User : pc[p] = "none"
    BY <1>3, ProcFacts
  <2>2. pc \in [Proc -> PC]
    BY <1>3 DEF PC
  <2>3. \A p \in Proc : pc[p] = "none" <=> p_state[p] # "PROC_RUNNING"
    BY <1>2, <2>1, ProcFacts
  <2> QED BY <2>1, <2>2, <2>3 DEF PcOK, RunsOwnCode
<1>10. WaitOK
  <2>1. init \in Range(p_children[idle])
    <3>1. init \in Range(<<init, pageoutd>>)
      BY DEF Range
    <3> QED BY <1>2, <3>1, ProcFacts
  <2> QED BY <1>2, <2>1, ProcFacts DEF WaitOK, WaitsForChild
<1>11. SleepsWhereExpected /\ ExitsSeen
  BY <1>1, ProcFacts, QueueFacts DEF SleepsWhereExpected, ExitsSeen
<1>12. ShutdownInOrder
  <2>1. /\ pc[idle] = "idleproc_run" /\ p_state[pageoutd] = "PROC_RUNNING" /\ p_state[init] = "PROC_RUNNING"
        /\ ~kt_cancelled[pageoutd] /\ waitfor[idle] = ANY
    BY <1>1, <1>2, <1>3, ProcFacts
  <2> QED BY <2>1, ProcFacts DEF ShutdownInOrder
<1>13. RestOK
  BY <1>2 DEF RestOK, PanicsExplained
<1> QED BY <1>5, <1>6, <1>7, <1>8, <1>9, <1>10, <1>11, <1>12, <1>13 DEF IInv

(***************************************************************************)
(* Every step.                                                             *)
(***************************************************************************)
LEMMA ProcNextInv == IInv /\ [ProcNext]_vars => IInv'
<1> SUFFICES ASSUME IInv, [ProcNext]_vars PROVE IInv'
  OBVIOUS
<1>1. CASE UNCHANGED vars
  <2>1. /\ UNCHANGED <<kt_state, kt_wchan, kt_cancelled, tq_list, curthr, in_switch>>
        /\ UNCHANGED <<p_pid, p_pproc, p_children, p_state, p_status, proc_list, next_pid, pc,
                       waitfor, panic, left>>
    BY <1>1 DEF vars, schedVars, procVars
  <2>2. TreeOK' /\ Allocated' = Allocated
    BY <2>1, SameTree DEF IInv
  <2>3. SchedInv' /\ PidsOK' /\ WaitOK' /\ PcOK' /\ ShutdownInOrder'
    BY <2>1, <2>2, StutterSched, SamePids, SameWait, SamePc, SameShutdown DEF IInv
  <2>4. ThreadMatchesProcess' /\ SleepsWhereExpected' /\ ExitsSeen'
    BY <2>1 DEF IInv, ThreadMatchesProcess, StoppedInExit, SleepsWhereExpected, ExitsSeen
  <2>5. Victims' = Victims
    BY <2>1 DEF Victims
  <2>6. RestOK'
    BY <2>1, <2>2, <2>5 DEF IInv, RestOK, PanicsExplained, StoppedInExit
  <2> QED BY <2>2, <2>3, <2>4, <2>6 DEF IInv
<1>2. CASE initproc_create_child \/ do_fork
  BY <1>2, ForkInv
<1>3. CASE initproc_wait \/ proc_kill_all_wait
  BY <1>3, WaitFirstInv
<1>4. CASE \/ do_exit \/ handle_pagefault \/ syscall_exit
           \/ proc_kill_all_exit \/ initproc_exit \/ pageoutd_quit
  BY <1>4, ExitsInv
<1>5. CASE sys_waitpid
  BY <1>5, SysWaitpidInv
<1>6. CASE do_waitpid_reap
  BY <1>6, ReapInv
<1>7. CASE do_waitpid_sleep
  BY <1>7, WaitSleepInv
<1>8. CASE sys_halt
  BY <1>8, HaltInv
<1>9. CASE pframe_shutdown
  BY <1>9, PframeShutdownInv
<1>10. CASE hard_shutdown
  BY <1>10, HardShutdownInv
<1>11. CASE pageoutd_sleep \/ pageoutd_wakeup
  BY <1>11, PageoutdSleepInv, PageoutdWakeupInv
<1>12. CASE sys_read \/ disk_io \/ sys_thr_yield
  BY <1>12, SysReadInv, DiskIoInv, ThrYieldInv
<1>13. CASE Switch \/ DiskInterrupt \/ TtyInterrupt
  BY <1>13, InterruptsInv
<1>14. CASE Stopped
  BY <1>1, <1>14 DEF Stopped
<1>15. CASE do_link \/ vfs_shutdown
  BY <1>15, DoLinkInv, VfsShutdownInv
<1> QED BY <1>1, <1>2, <1>3, <1>4, <1>5, <1>6, <1>7, <1>8, <1>9, <1>10, <1>11, <1>12, <1>13, <1>14, <1>15
        DEF ProcNext, ThreadStep

(* The inductive invariant holds throughout. *)
LEMMA ProcAlways == ProcSpec => []IInv
<1>1. ProcInit => IInv
  BY ProcInitInv
<1>2. IInv /\ [ProcNext]_vars => IInv'
  BY ProcNextInv
<1> QED BY <1>1, <1>2, PTL DEF ProcSpec

(***************************************************************************)
(* proc.c, do_waitpid, proc_kill_all and the shutdown keep the process     *)
(* tree, the pids, the threads and the scheduler's queues consistent with  *)
(* each other in every order of fork, exit, adoption, wait and kill, and   *)
(* only idle is left when the machine has halted.                          *)
(***************************************************************************)
THEOREM ProcessesConsistent == ProcSpec => []ProcInv
<1>1. IInv => ProcInv
  BY IInvGives
<1> QED BY <1>1, ProcAlways, PTL

(***************************************************************************)
(* No parent sleeps in do_waitpid beside a dead child that it waits for,   *)
(* or with no child to wait for.                                           *)
(***************************************************************************)
THEOREM ExitsNeverMissed == ProcSpec => []NoMissedExit
<1>1. IInv => NoMissedExit
  BY IInvGives
<1> QED BY <1>1, ProcAlways, PTL

(***************************************************************************)
(* The machine never stops before it halts, except in an exit that has to  *)
(* sleep, in a halt with a zombie that nobody has waited for, and for what *)
(* vfs_shutdown and pframe_shutdown find left behind.  The assertions of   *)
(* idleproc_run and pframe_shutdown about the child that do_waitpid        *)
(* returns, and sched_cancel's about the pageout daemon, hold.             *)
(***************************************************************************)
THEOREM IdleSafe == ProcSpec => []PanicsExplained
<1>1. IInv => PanicsExplained
  BY IInvGives
<1> QED BY <1>1, ProcAlways, PTL

(***************************************************************************)
(* System calls.                                                           *)
(***************************************************************************)

Locals == [call : Calls \cup {Nil},
           pc : {"user", "args", "kmalloc", "copyin", "vector", "array", "vecstr", "veccopy",
                 "do", "copyout", "return", "exited"},
           own : 0 .. NBuffers, strs : 0 .. 2, vecs : 0 .. 2,
           ret : {"ok", "fail", Nil}, err : {NoError} \cup Errno, done : BOOLEAN,
           faulted : BOOLEAN]

LocalOK(r) ==
  /\ r.pc \in {"user", "args", "return", "exited"} => r.own = 0
  /\ r.pc = "kmalloc" => IF UsesBuffer(r.call) THEN r.own = 0 ELSE r.strs > 0
  /\ r.pc = "copyin" /\ r.call # "write" => r.strs > 0 /\ ~UsesBuffer(r.call)
  /\ r.pc \in {"vector", "array", "vecstr", "veccopy"} => r.vecs > 0
  /\ r.pc = "veccopy" => r.own > 0
  /\ r.err # NoError => \/ r.pc = "return"
                        \/ r.pc = "copyout" /\ r.call = "read"
  /\ r.done => \/ r.pc = "return"
               \/ r.pc = "copyout" /\ HasResult(r.call)
               \/ r.pc = "do" /\ r.call = "getdents"
  /\ r.faulted => CopiesBlindly(r.call)

(***************************************************************************)
(* ErrnoReported and ResultTruthful for one thread with locals r and       *)
(* kt_errno e.                                                             *)
(***************************************************************************)
ReturnOK(r, e) ==
  r.pc = "return" =>
    /\ r.ret = "fail" => r.err # NoError /\ e = r.err
    /\ r.ret = "ok" /\ r.err # NoError => r.call \in {"write", "getdents", "debug"}
    /\ r.ret = "ok" /\ ~r.done => r.err # NoError /\ r.call \in {"write", "getdents", "debug"}
    /\ r.ret = "fail" /\ r.done => \/ r.err = "EFAULT" /\ r.call \in {"waitpid", "stat"}
                                   \/ r.call = "getdents"
                                   \/ r.err = "EDO" /\ HalfDone(r.call)

CallsInv ==
  /\ SyscallTypeOK /\ BuffersOwned
  /\ \A t \in Threads : LocalOK(th[t]) /\ ReturnOK(th[t], kt_errno[t])

(***************************************************************************)
(* A thread's buffers are among the used ones.                             *)
(***************************************************************************)
LEMMA OwnIsUsed ==
  ASSUME CallsInv, NEW t \in Threads
  PROVE  /\ th[t] \in Locals /\ used \in Nat /\ lost \in Nat /\ th[t].own \in Nat
         /\ lost + th[t].own <= used /\ used <= NBuffers /\ NBuffers \in Nat
<1>1. th[t] \in Locals /\ used \in 0 .. NBuffers /\ lost \in 0 .. NBuffers /\ NBuffers \in Nat
  BY SyscallAssumption DEF CallsInv, SyscallTypeOK, Locals
<1> DEFINE f == [u \in Threads |-> th[u].own]
<1>2. \A u \in Threads : f[u] \in Nat
  BY SyscallAssumption DEF CallsInv, SyscallTypeOK
<1>3. Total(f, Threads) \in Nat /\ f[t] <= Total(f, Threads)
  <2> HIDE DEF f
  <2> QED BY <1>2, TotalUpdate, SyscallAssumption
<1>4. used = lost + Total(f, Threads)
  BY DEF CallsInv, BuffersOwned
<1>5. th[t].own = f[t] /\ f[t] \in Nat
  BY <1>2
<1> HIDE DEF f
<1> QED BY <1>1, <1>3, <1>4, <1>5

(***************************************************************************)
(* One thread moves to locals r.                                           *)
(***************************************************************************)
LEMMA MoveInv ==
  ASSUME CallsInv, NEW t \in Threads, NEW r \in Locals,
         th' = [th EXCEPT ![t] = r],
         used' \in 0 .. NBuffers, lost' \in 0 .. NBuffers,
         used' - lost' = used - lost - th[t].own + r.own,
         kt_errno' \in [Threads -> {NoError, "EOLD"} \cup Errno],
         \A u \in Threads \ {t} : kt_errno'[u] = kt_errno[u],
         UNCHANGED <<cancelled, wild>>,
         LocalOK(r), ReturnOK(r, kt_errno'[t])
  PROVE  CallsInv'
<1>1. th \in [Threads -> Locals]
  BY DEF CallsInv, SyscallTypeOK, Locals
<1>2. th' \in [Threads -> Locals]
  BY <1>1
<1>3. SyscallTypeOK'
  BY <1>2 DEF CallsInv, SyscallTypeOK, Locals
<1>4. BuffersOwned'
  <2> DEFINE f == [u \in Threads |-> th[u].own]
             g == [u \in Threads |-> th'[u].own]
  <2>1. \A u \in Threads : f[u] \in Nat
    BY <1>1, SyscallAssumption DEF Locals
  <2>2. f[t] = th[t].own /\ g[t] = r.own /\ g[t] \in Nat
    BY <1>1, SyscallAssumption DEF Locals
  <2>3. \A u \in Threads \ {t} : g[u] = f[u]
    BY <1>1
  <2>4. used = lost + Total(f, Threads)
    BY DEF CallsInv, BuffersOwned
  <2>5. used \in Nat /\ lost \in Nat /\ used' \in Nat /\ lost' \in Nat
    BY SyscallAssumption DEF CallsInv, SyscallTypeOK
  <2>6. used' = lost' + Total(g, Threads)
    <3> HIDE DEF f, g
    <3>1. /\ Total(f, Threads) \in Nat /\ Total(g, Threads) \in Nat
          /\ Total(g, Threads) = Total(f, Threads) - f[t] + g[t]
      <4>1. g[t] \in Nat
        BY <2>2
      <4>2. PICK F, G : F = f /\ G = g
        OBVIOUS
      <4>3. (\A u \in Threads : F[u] \in Nat) /\ G[t] \in Nat
        BY <2>1, <4>1, <4>2
      <4>4. \A u \in Threads \ {t} : G[u] = F[u]
        BY <2>3, <4>2
      <4>5. IsFiniteSet(Threads)
        BY SyscallAssumption
      <4>6. /\ Total(F, Threads) \in Nat /\ Total(G, Threads) \in Nat
            /\ Total(G, Threads) = Total(F, Threads) - F[t] + G[t]
        BY ONLY <4>3, <4>4, <4>5, t \in Threads, TotalUpdate
      <4> QED BY ONLY <4>2, <4>6
    <3>2. f[t] \in Nat
      BY <2>1
    <3> QED BY <2>2, <2>4, <2>5, <3>1, <3>2
  <2> QED BY <2>6 DEF BuffersOwned
<1>5. \A u \in Threads : LocalOK(th'[u]) /\ ReturnOK(th'[u], kt_errno'[u])
  <2> TAKE u \in Threads
  <2>1. CASE u = t
    BY <1>1, <2>1
  <2>2. CASE u # t
    <3>1. th'[u] = th[u] /\ kt_errno'[u] = kt_errno[u]
      BY <1>1, <2>2
    <3> QED BY <3>1 DEF CallsInv
  <2> QED BY <2>1, <2>2
<1> QED BY <1>3, <1>4, <1>5 DEF CallsInv

(***************************************************************************)
(* The end of a wrapper that frees all the buffers of the call.            *)
(***************************************************************************)
LEMMA CallsReturnInv ==
  ASSUME CallsInv, NEW t \in Threads,
         NEW ret \in {"ok", "fail"}, NEW e \in {NoError} \cup Errno, NEW freed, NEW done \in BOOLEAN,
         Return(t, ret, e, freed, done), freed = th[t].own,
         ret = "fail" => e # NoError,
         e # NoError /\ ret = "ok" => th[t].call \in {"write", "getdents", "debug"},
         ret = "ok" /\ ~done => e # NoError,
         ret = "fail" /\ done => \/ e = "EFAULT" /\ th[t].call \in {"waitpid", "stat"}
                                 \/ th[t].call = "getdents"
                                 \/ e = "EDO" /\ HalfDone(th[t].call)
  PROVE  CallsInv'
<1> DEFINE r == [th[t] EXCEPT !.pc = "return", !.own = 0, !.strs = 0, !.vecs = 0,
                              !.ret = ret, !.err = e, !.done = done]
<1>1. /\ th[t] \in Locals /\ used \in Nat /\ lost \in Nat /\ th[t].own \in Nat
      /\ lost + th[t].own <= used /\ used <= NBuffers /\ NBuffers \in Nat
  BY OwnIsUsed
<1>2. /\ r \in Locals
      /\ r.own = 0 /\ r.pc = "return" /\ r.call = th[t].call /\ r.ret = ret
      /\ r.err = e /\ r.done = done /\ r.faulted = th[t].faulted
  <2>1. /\ r.own = 0 /\ r.pc = "return" /\ r.call = th[t].call /\ r.ret = ret
        /\ r.err = e
    BY <1>1 DEF Locals
  <2>2. r.done = done /\ r.faulted = th[t].faulted
    BY <1>1, Zenon DEF Locals
  <2>3. r \in Locals
    <3>1. 0 \in 0 .. NBuffers /\ 0 \in 0 .. 2
      BY <1>1
    <3> DEFINE a == [th[t] EXCEPT !.pc = "return", !.own = 0, !.strs = 0, !.vecs = 0, !.ret = ret, !.err = e]
    <3>2. a \in Locals /\ r = [a EXCEPT !.done = done]
      BY <1>1, <3>1 DEF Locals
    <3> HIDE DEF a, r
    <3>3. [a EXCEPT !.done = done] \in Locals
      BY <3>2, Zenon DEF Locals
    <3> QED BY <3>2, <3>3
  <2> QED BY <2>1, <2>2, <2>3
<1>3. th' = [th EXCEPT ![t] = r]
  BY DEF Return
<1>4. used' = used - th[t].own /\ lost' = lost
  BY DEF Return
<1>5. /\ kt_errno' \in [Threads -> {NoError, "EOLD"} \cup Errno]
      /\ \A u \in Threads \ {t} : kt_errno'[u] = kt_errno[u]
      /\ e # NoError => kt_errno'[t] = e
  BY DEF Return, CallsInv, SyscallTypeOK
<1>6. UNCHANGED <<cancelled, wild>>
  BY DEF Return
<1>7. LocalOK(r) /\ ReturnOK(r, kt_errno'[t])
  <2>1. LocalOK(th[t])
    BY DEF CallsInv
  <2> HIDE DEF r
  <2> QED BY <1>2, <1>5, <2>1 DEF LocalOK, ReturnOK
<1>8. /\ used' \in 0 .. NBuffers /\ lost' \in 0 .. NBuffers
      /\ used' - lost' = used - lost - th[t].own + r.own
  BY <1>1, <1>2, <1>4
<1> HIDE DEF r
<1> QED BY <1>2, <1>3, <1>5, <1>6, <1>7, <1>8, MoveInv

-----------------------------------------------------------------------------
(***************************************************************************)
(* The actions.  A thread is dispatched, exits or returns to user mode.    *)
(***************************************************************************)
LEMMA HandlerInv ==
  ASSUME CallsInv, NEW t \in Threads, syscall_handler(t)
  PROVE  CallsInv'
<1>0. /\ th[t] \in Locals /\ used \in Nat /\ lost \in Nat /\ th[t].own \in Nat
      /\ lost + th[t].own <= used /\ used <= NBuffers /\ NBuffers \in Nat
  BY OwnIsUsed
<1>1. th[t].pc = "user" /\ UNCHANGED <<used, lost, kt_errno, cancelled, wild>>
  BY DEF syscall_handler, AtPc
<1>2. /\ used' \in 0 .. NBuffers /\ lost' \in 0 .. NBuffers
      /\ kt_errno' \in [Threads -> {NoError, "EOLD"} \cup Errno]
      /\ \A u \in Threads \ {t} : kt_errno'[u] = kt_errno[u]
  BY <1>0, <1>1 DEF CallsInv, SyscallTypeOK
<1>3. LocalOK(th[t])
  BY DEF CallsInv
<1>4. CASE th' = [th EXCEPT ![t].pc = "exited"]
  <2> DEFINE r == [th[t] EXCEPT !.pc = "exited"]
  <2>1. r \in Locals /\ r.pc = "exited" /\ r.own = 0 /\ r.own = th[t].own /\ th' = [th EXCEPT ![t] = r]
    BY <1>0, <1>1, <1>3, <1>4 DEF Locals, LocalOK
  <2>2. r.err = th[t].err /\ th[t].err = NoError
    BY <1>0, <1>1, <1>3 DEF Locals, LocalOK
  <2>3. r.done = th[t].done /\ ~th[t].done /\ r.faulted = th[t].faulted /\ r.call = th[t].call
    BY <1>0, <1>1, <1>3 DEF Locals, LocalOK
  <2> HIDE DEF r
  <2>4. LocalOK(r) /\ ReturnOK(r, kt_errno'[t])
    BY <1>3, <2>1, <2>2, <2>3 DEF LocalOK, ReturnOK
  <2>5. used' - lost' = used - lost - th[t].own + r.own
    BY <1>0, <1>1, <2>1
  <2> QED BY <1>1, <1>2, <2>1, <2>4, <2>5, MoveInv
<1>5. ASSUME NEW c \in Calls, NEW v \in 0 .. 2, c # "execve" => v = 0,
             th' = [th EXCEPT ![t] = [InUser EXCEPT !.call = c, !.pc = FirstPc(c),
                                                    !.strs = Strings(c), !.vecs = v]]
      PROVE  CallsInv'
  <2> DEFINE r == [InUser EXCEPT !.call = c, !.pc = FirstPc(c), !.strs = Strings(c), !.vecs = v]
  <2>1. /\ r.call = c /\ r.pc = FirstPc(c) /\ r.own = 0 /\ r.strs = Strings(c) /\ r.vecs = v
        /\ r.err = NoError /\ r.ret = Nil
    BY DEF InUser
  <2>2. ~r.done /\ ~r.faulted
    BY DEF InUser
  <2>3. Strings(c) \in 0 .. 2 /\ FirstPc(c) \in {"do", "copyout", "args"} /\ 0 \in 0 .. NBuffers
    BY <1>0 DEF Strings, FirstPc
  <2>4. r \in Locals
    BY <2>3, Zenon DEF InUser, Locals
  <2>5. LocalOK(r) /\ ReturnOK(r, kt_errno'[t])
    <3> HIDE DEF r
    <3> QED BY <2>1, <2>2, <2>3 DEF LocalOK, ReturnOK
  <2>6. th[t].own = 0
    BY <1>1, <1>3 DEF LocalOK
  <2>7. th' = [th EXCEPT ![t] = r]
    BY <1>5
  <2> HIDE DEF r
  <2>8. used' - lost' = used - lost - th[t].own + r.own
    BY <1>0, <1>1, <2>1, <2>6
  <2> QED BY <1>1, <1>2, <2>4, <2>5, <2>7, <2>8, MoveInv
<1>6. ASSUME NEW c \in Calls, NEW v, v \in IF c = "execve" THEN 0 .. 2 ELSE {0}
      PROVE  v \in 0 .. 2 /\ (c # "execve" => v = 0)
  BY <1>6
<1> QED BY <1>4, <1>5, <1>6 DEF syscall_handler

(* A call that is over returns to user mode. *)
LEMMA ReturnsInv ==
  ASSUME CallsInv, NEW t \in Threads, syscall_returns(t)
  PROVE  CallsInv'
<1>0. /\ th[t] \in Locals /\ used \in Nat /\ lost \in Nat /\ th[t].own \in Nat
      /\ lost + th[t].own <= used /\ used <= NBuffers /\ NBuffers \in Nat
  BY OwnIsUsed
<1>1. /\ th[t].pc = "return" /\ th[t].own = 0 /\ UNCHANGED <<used, lost, cancelled, wild>>
      /\ kt_errno' = [kt_errno EXCEPT ![t] = IF @ = NoError THEN NoError ELSE "EOLD"]
  BY DEF syscall_returns, AtPc, CallsInv, LocalOK
<1>2. ASSUME NEW r \in Locals, r.own = 0, r.err = NoError, ~r.done, ~r.faulted, r.pc \in {"user", "exited"},
             th' = [th EXCEPT ![t] = r]
      PROVE  CallsInv'
  <2>1. LocalOK(r) /\ ReturnOK(r, kt_errno'[t])
    BY <1>2 DEF LocalOK, ReturnOK
  <2>2. /\ used' \in 0 .. NBuffers /\ lost' \in 0 .. NBuffers
        /\ used' - lost' = used - lost - th[t].own + r.own
    BY <1>0, <1>1, <1>2
  <2>3. /\ kt_errno' \in [Threads -> {NoError, "EOLD"} \cup Errno]
        /\ \A u \in Threads \ {t} : kt_errno'[u] = kt_errno[u]
    BY <1>1 DEF CallsInv, SyscallTypeOK
  <2> QED BY <1>1, <1>2, <2>1, <2>2, <2>3, MoveInv
<1>3. 0 \in 0 .. NBuffers /\ 0 \in 0 .. 2
  BY <1>0
<1>4. InUser \in Locals /\ ~InUser.done /\ ~InUser.faulted
  BY <1>3, Zenon DEF InUser, Locals
<1>5. InUser.own = 0 /\ InUser.err = NoError /\ InUser.pc = "user"
  BY DEF InUser
<1> DEFINE x == [InUser EXCEPT !.pc = "exited"]
<1>6. x \in Locals /\ ~x.done /\ ~x.faulted
  BY <1>3, Zenon DEF InUser, Locals
<1>7. x.own = 0 /\ x.err = NoError /\ x.pc = "exited"
  BY DEF InUser
<1>8. th' = [th EXCEPT ![t] = x] \/ th' = [th EXCEPT ![t] = InUser]
  BY DEF syscall_returns
<1> HIDE DEF x
<1> QED BY <1>2, <1>4, <1>5, <1>6, <1>7, <1>8

(* syscall_handler calls a wrapper. *)
LEMMA DispatchInv ==
  ASSUME CallsInv, NEW t \in Threads, syscall_dispatch(t)
  PROVE  CallsInv'
<1>0. th[t].pc = "user" /\ LocalOK(th[t])
  BY DEF syscall_dispatch, AtPc, CallsInv
<1>1. CASE kt_errno' = [kt_errno EXCEPT ![t] = NoError] /\ UNCHANGED <<used, lost, th, cancelled, wild>>
  <2>1. SyscallTypeOK' /\ BuffersOwned'
    BY <1>1 DEF CallsInv, SyscallTypeOK, BuffersOwned
  <2>2. \A u \in Threads : LocalOK(th'[u]) /\ ReturnOK(th'[u], kt_errno'[u])
    <3> TAKE u \in Threads
    <3>1. LocalOK(th[u]) /\ ReturnOK(th[u], kt_errno[u])
      BY DEF CallsInv
    <3>2. th'[u] = th[u] /\ (u # t => kt_errno'[u] = kt_errno[u])
      BY <1>1 DEF CallsInv, SyscallTypeOK
    <3>3. CASE u = t
      BY <1>0, <3>1, <3>2, <3>3 DEF ReturnOK
    <3> QED BY <3>1, <3>2, <3>3
  <2> QED BY <2>1, <2>2 DEF CallsInv
<1>2. CASE Return(t, "fail", "EDO", 0, FALSE)
  <2>1. th[t].own = 0
    BY <1>0 DEF LocalOK
  <2> QED BY <1>2, <2>1, CallsReturnInv DEF Errno, NoError
<1> QED BY <1>1, <1>2 DEF syscall_dispatch

(***************************************************************************)
(* Steps within a call that move no buffer.                                *)
(***************************************************************************)
LEMMA GotoInv ==
  ASSUME CallsInv, NEW t \in Threads,
         NEW place \in {"kmalloc", "copyin", "vector", "vecstr", "do"}, Goto(t, place),
         th[t].pc \notin {"user", "return", "exited"},
         th[t].err = NoError, th[t].done => place = "do" /\ th[t].call = "getdents",
         place = "kmalloc" => IF UsesBuffer(th[t].call) THEN th[t].own = 0 ELSE th[t].strs > 0,
         place = "copyin" /\ th[t].call # "write" => th[t].strs > 0 /\ ~UsesBuffer(th[t].call),
         place \in {"vector", "vecstr"} => th[t].vecs > 0
  PROVE  CallsInv'
<1>0. /\ th[t] \in Locals /\ used \in Nat /\ lost \in Nat /\ th[t].own \in Nat
      /\ lost + th[t].own <= used /\ used <= NBuffers /\ NBuffers \in Nat
  BY OwnIsUsed
<1> DEFINE r == [th[t] EXCEPT !.pc = place]
<1>1. /\ r \in Locals /\ r.pc = place /\ r.own = th[t].own /\ r.call = th[t].call /\ r.strs = th[t].strs
      /\ r.vecs = th[t].vecs /\ r.err = NoError
  BY <1>0 DEF Locals
<1>2. r.done = th[t].done /\ r.faulted = th[t].faulted
  BY <1>0 DEF Locals
<1>3. th' = [th EXCEPT ![t] = r] /\ UNCHANGED <<used, lost, kt_errno, cancelled, wild>>
  BY DEF Goto
<1> HIDE DEF r
<1>4. LocalOK(r) /\ ReturnOK(r, kt_errno'[t])
  <2>1. LocalOK(th[t])
    BY DEF CallsInv
  <2> QED BY <1>1, <1>2, <2>1 DEF LocalOK, ReturnOK
<1>5. /\ used' \in 0 .. NBuffers /\ lost' \in 0 .. NBuffers
      /\ used' - lost' = used - lost - th[t].own + r.own
  BY <1>0, <1>1, <1>3
<1>6. /\ kt_errno' \in [Threads -> {NoError, "EOLD"} \cup Errno]
      /\ \A u \in Threads \ {t} : kt_errno'[u] = kt_errno[u]
  BY <1>3 DEF CallsInv, SyscallTypeOK
<1> QED BY <1>1, <1>3, <1>4, <1>5, <1>6, MoveInv

(***************************************************************************)
(* A copy that failed in a call that does not look.                        *)
(***************************************************************************)
LEMMA GoOnWithoutInv ==
  ASSUME CallsInv, NEW t \in Threads,
         NEW place \in {"do", "copyout"}, GoOnWithout(t, place),
         CopiesBlindly(th[t].call),
         \/ place = "copyout" /\ th[t].pc = "copyout"
         \/ place = "do" /\ th[t].pc = "copyin" /\ th[t].err = NoError /\ ~th[t].done
  PROVE  CallsInv'
<1>0. /\ th[t] \in Locals /\ used \in Nat /\ lost \in Nat /\ th[t].own \in Nat
      /\ lost + th[t].own <= used /\ used <= NBuffers /\ NBuffers \in Nat
  BY OwnIsUsed
<1> DEFINE r == [th[t] EXCEPT !.faulted = TRUE, !.pc = place]
<1>1. /\ r \in Locals /\ r.pc = place /\ r.own = th[t].own /\ r.call = th[t].call /\ r.err = th[t].err
  BY <1>0, Zenon DEF Locals
<1>2. r.done = th[t].done
  BY <1>0 DEF Locals
<1>3. th' = [th EXCEPT ![t] = r] /\ UNCHANGED <<used, lost, kt_errno, cancelled, wild>>
  BY DEF GoOnWithout
<1> HIDE DEF r
<1>4. LocalOK(r) /\ ReturnOK(r, kt_errno'[t])
  <2>1. LocalOK(th[t])
    BY DEF CallsInv
  <2> QED BY <1>1, <1>2, <2>1 DEF LocalOK, ReturnOK
<1>5. /\ used' \in 0 .. NBuffers /\ lost' \in 0 .. NBuffers
      /\ used' - lost' = used - lost - th[t].own + r.own
  BY <1>0, <1>1, <1>3
<1>6. /\ kt_errno' \in [Threads -> {NoError, "EOLD"} \cup Errno]
      /\ \A u \in Threads \ {t} : kt_errno'[u] = kt_errno[u]
  BY <1>3 DEF CallsInv, SyscallTypeOK
<1> QED BY <1>1, <1>3, <1>4, <1>5, <1>6, MoveInv

(***************************************************************************)
(* The locals of a call in progress, before its do_ function: no error and *)
(* no effect yet.                                                          *)
(***************************************************************************)
LEMMA NothingYet ==
  ASSUME CallsInv, NEW t \in Threads,
         th[t].pc \in {"args", "kmalloc", "copyin", "vector", "array", "vecstr", "veccopy", "do"}
  PROVE  /\ th[t].err = NoError
         /\ th[t].done => th[t].pc = "do" /\ th[t].call = "getdents"
<1>1. LocalOK(th[t])
  BY DEF CallsInv
<1>2. th[t].err = NoError
  BY <1>1 DEF LocalOK
<1> QED BY <1>1, <1>2 DEF LocalOK

(***************************************************************************)
(* A call moves on before its do_ function with locals r, and buffers come *)
(* or go.                                                                  *)
(***************************************************************************)
LEMMA ProceedInv ==
  ASSUME CallsInv, NEW t \in Threads, NEW r \in Locals,
         th[t].pc \in {"args", "kmalloc", "copyin", "vector", "array", "vecstr", "veccopy"},
         th' = [th EXCEPT ![t] = r],
         used' = used - th[t].own + r.own, used' <= NBuffers,
         UNCHANGED <<lost, kt_errno, cancelled, wild>>,
         r.pc \in {"kmalloc", "copyin", "vector", "array", "vecstr", "veccopy", "do"},
         r.call = th[t].call, r.err = th[t].err, r.done = th[t].done, r.faulted = th[t].faulted,
         r.pc = "kmalloc" => IF UsesBuffer(r.call) THEN r.own = 0 ELSE r.strs > 0,
         r.pc = "copyin" /\ r.call # "write" => r.strs > 0 /\ ~UsesBuffer(r.call),
         r.pc \in {"vector", "array", "vecstr", "veccopy"} => r.vecs > 0,
         r.pc = "veccopy" => r.own > 0
  PROVE  CallsInv'
<1>0. /\ th[t] \in Locals /\ used \in Nat /\ lost \in Nat /\ th[t].own \in Nat
      /\ lost + th[t].own <= used /\ used <= NBuffers /\ NBuffers \in Nat
  BY OwnIsUsed
<1>1. th[t].err = NoError /\ ~th[t].done
  BY NothingYet
<1>2. r.own \in 0 .. NBuffers
  BY DEF Locals
<1>3. LocalOK(r) /\ ReturnOK(r, kt_errno'[t])
  <2>1. LocalOK(th[t])
    BY DEF CallsInv
  <2> QED BY <1>1, <2>1 DEF LocalOK, ReturnOK
<1>4. /\ used' \in 0 .. NBuffers /\ lost' \in 0 .. NBuffers
      /\ used' - lost' = used - lost - th[t].own + r.own
  BY <1>0, <1>2
<1>5. /\ kt_errno' \in [Threads -> {NoError, "EOLD"} \cup Errno]
      /\ \A u \in Threads \ {t} : kt_errno'[u] = kt_errno[u]
  BY DEF CallsInv, SyscallTypeOK
<1> QED BY <1>3, <1>4, <1>5, MoveInv

(***************************************************************************)
(* kmalloc of one or two buffers that are there.                           *)
(***************************************************************************)
LEMMA AllocateInv ==
  ASSUME CallsInv, NEW t \in Threads, NEW n \in {1, 2}, Available >= n,
         NEW place \in {"copyin", "array", "veccopy", "do"}, Allocate(t, n, place),
         th[t].pc \in {"kmalloc", "vector", "vecstr"},
         place = "copyin" /\ th[t].call # "write" => th[t].strs > 0 /\ ~UsesBuffer(th[t].call),
         place \in {"array", "veccopy"} => th[t].vecs > 0
  PROVE  CallsInv'
<1>0. /\ th[t] \in Locals /\ used \in Nat /\ lost \in Nat /\ th[t].own \in Nat
      /\ lost + th[t].own <= used /\ used <= NBuffers /\ NBuffers \in Nat
  BY OwnIsUsed
<1> DEFINE r == [th[t] EXCEPT !.own = @ + n, !.pc = place]
<1>1. th' = [th EXCEPT ![t] = r]
  BY DEF Allocate
<1>2. used' = used + n /\ used + n <= NBuffers /\ UNCHANGED <<lost, kt_errno, cancelled, wild>>
  BY <1>0 DEF Allocate, Available
<1>3. th[t].own + n \in 0 .. NBuffers
  BY <1>0, <1>2
<1>4. /\ r \in Locals /\ r.pc = place /\ r.own = th[t].own + n /\ r.call = th[t].call
      /\ r.strs = th[t].strs /\ r.vecs = th[t].vecs /\ r.err = th[t].err
  BY <1>0, <1>3 DEF Locals
<1>5. r.done = th[t].done /\ r.faulted = th[t].faulted
  BY <1>0 DEF Locals
<1> HIDE DEF r
<1>6. used' = used - th[t].own + r.own /\ used' <= NBuffers /\ r.own > 0
  BY <1>0, <1>2, <1>4
<1> QED BY <1>1, <1>2, <1>4, <1>5, <1>6, ProceedInv

-----------------------------------------------------------------------------
(***************************************************************************)
(* Copying in.                                                             *)
(***************************************************************************)
LEMMA CopyArgsInv ==
  ASSUME CallsInv, NEW t \in Threads, CopyArgs(t)
  PROVE  CallsInv'
<1>0. /\ th[t] \in Locals /\ th[t].pc = "args" /\ th[t].own = 0
      /\ th[t].err = NoError /\ ~th[t].done
  <2>1. th[t].pc = "args"
    BY DEF CopyArgs, AtPc
  <2> QED BY <2>1, OwnIsUsed, NothingYet DEF CallsInv, LocalOK
<1>1. CASE Goto(t, IF UsesBuffer(th[t].call) THEN "kmalloc" ELSE AfterStrings(t, th[t].strs))
  <2> DEFINE place == IF UsesBuffer(th[t].call) THEN "kmalloc" ELSE AfterStrings(t, th[t].strs)
  <2>1. /\ place \in {"kmalloc", "copyin", "vector", "vecstr", "do"} /\ place # "copyin"
        /\ place = "kmalloc" => IF UsesBuffer(th[t].call) THEN th[t].own = 0 ELSE th[t].strs > 0
        /\ place \in {"vector", "vecstr"} => th[t].vecs > 0
    BY <1>0 DEF AfterStrings
  <2>2. Goto(t, place)
    BY <1>1
  <2> HIDE DEF place
  <2> QED BY <1>0, <2>1, <2>2, GotoInv
<1>2. CASE Return(t, "fail", "EFAULT", 0, FALSE)
  BY <1>0, <1>2, CallsReturnInv DEF Errno, NoError
<1> QED BY <1>1, <1>2 DEF CopyArgs

(***************************************************************************)
(* A string that could not be copied in.                                   *)
(***************************************************************************)
LEMMA StrdupFailsInv ==
  ASSUME CallsInv, NEW t \in Threads, NEW e \in Errno, StrdupFails(t, e)
  PROVE  CallsInv'
<1>1. e # NoError /\ e \in {NoError} \cup Errno /\ StrdupError(t, e) \in {NoError} \cup Errno
      /\ StrdupError(t, e) # NoError
  BY DEF Errno, NoError, StrdupError
<1>2. CASE th[t].call = "debug"
  <2>1. Return(t, "ok", e, th[t].own, FALSE)
    BY <1>2 DEF StrdupFails
  <2> QED BY <1>1, <1>2, <2>1, CallsReturnInv
<1>3. CASE th[t].call # "debug"
  <2>1. Return(t, "fail", StrdupError(t, e), th[t].own, FALSE)
    BY <1>3 DEF StrdupFails
  <2> QED BY <1>1, <2>1, CallsReturnInv
<1> QED BY <1>2, <1>3

(* An allocation of a wrapper, which may fail. *)
LEMMA KmallocInv ==
  ASSUME CallsInv, NEW t \in Threads, kmalloc(t)
  PROVE  CallsInv'
<1>0. /\ th[t] \in Locals /\ th[t].pc = "kmalloc" /\ Available \in Int
      /\ IF UsesBuffer(th[t].call) THEN th[t].own = 0 ELSE th[t].strs > 0
  <2>1. th[t].pc = "kmalloc"
    BY DEF kmalloc, AtPc
  <2> QED BY <2>1, OwnIsUsed DEF CallsInv, LocalOK, Available
<1>1. CASE Available > 0 /\ Allocate(t, 1, IF th[t].call \in {"read", "getdents"} THEN "do" ELSE "copyin")
  <2>1. th[t].call \notin {"read", "getdents", "write"} => th[t].strs > 0 /\ ~UsesBuffer(th[t].call)
    BY <1>0 DEF UsesBuffer
  <2>2. Available >= 1
    BY <1>0, <1>1
  <2> QED BY <1>0, <1>1, <2>1, <2>2, AllocateInv
<1>2. CASE /\ UsesBuffer(th[t].call)
           /\ Return(t, IF th[t].call = "read" THEN "fail" ELSE "ok", "ENOMEM", 0, FALSE)
  <2>1. th[t].own = 0 /\ (th[t].call # "read" => th[t].call \in {"write", "getdents", "debug"})
    BY <1>0, <1>2 DEF UsesBuffer
  <2> QED BY <1>2, <2>1, CallsReturnInv DEF Errno, NoError
<1>3. CASE StrdupFails(t, "ENOMEM")
  BY <1>3, StrdupFailsInv DEF Errno
<1> QED BY <1>1, <1>2, <1>3 DEF kmalloc

(* The copy of the arguments, which may fail. *)
LEMMA CopyFromUserInv ==
  ASSUME CallsInv, NEW t \in Threads, copy_from_user(t)
  PROVE  CallsInv'
<1>0. /\ th[t] \in Locals /\ used \in Nat /\ lost \in Nat /\ th[t].own \in Nat
      /\ lost + th[t].own <= used /\ used <= NBuffers /\ NBuffers \in Nat
  BY OwnIsUsed
<1>1. /\ th[t].pc = "copyin" /\ (th[t].call # "write" => th[t].strs > 0 /\ ~UsesBuffer(th[t].call))
      /\ th[t].err = NoError /\ ~th[t].done
  <2>1. th[t].pc = "copyin"
    BY DEF copy_from_user, AtPc
  <2> QED BY <2>1, NothingYet DEF CallsInv, LocalOK
<1>2. CASE th[t].call = "write" /\ (Goto(t, "do") \/ GoOnWithout(t, "do"))
  <2>1. CASE Goto(t, "do")
    BY <1>1, <1>2, <2>1, GotoInv
  <2>2. CASE GoOnWithout(t, "do")
    BY <1>1, <1>2, <2>2, GoOnWithoutInv DEF CopiesBlindly
  <2> QED BY <1>2, <2>1, <2>2
<1>3. CASE /\ th[t].call # "write"
           /\ th' = [th EXCEPT ![t].strs = @ - 1, ![t].pc = AfterStrings(t, th[t].strs - 1)]
           /\ UNCHANGED <<used, lost, kt_errno, cancelled, wild>>
  <2> DEFINE place == AfterStrings(t, th[t].strs - 1)
             r == [th[t] EXCEPT !.strs = @ - 1, !.pc = place]
  <2>1. th[t].strs - 1 \in 0 .. 2 /\ th[t].vecs \in 0 .. 2
    BY <1>0, <1>1, <1>3 DEF Locals
  <2>2. /\ place \in {"kmalloc", "vector", "do"}
        /\ place = "kmalloc" => th[t].strs - 1 > 0
        /\ place = "vector" => th[t].vecs > 0
    BY <2>1 DEF AfterStrings
  <2>3. th' = [th EXCEPT ![t] = r]
    BY <1>3
  <2> HIDE DEF place
  <2>4. /\ r \in Locals /\ r.pc = place /\ r.own = th[t].own /\ r.call = th[t].call
        /\ r.strs = th[t].strs - 1 /\ r.vecs = th[t].vecs /\ r.err = th[t].err
    BY <1>0, <2>1, <2>2 DEF Locals
  <2>5. r.done = th[t].done /\ r.faulted = th[t].faulted
    BY <1>0 DEF Locals
  <2> HIDE DEF r
  <2>6. used' = used - th[t].own + r.own /\ used' <= NBuffers
    BY <1>0, <1>3, <2>4
  <2> QED BY <1>1, <1>3, <2>2, <2>3, <2>4, <2>5, <2>6, ProceedInv
<1>4. CASE StrdupFails(t, "EFAULT")
  BY <1>4, StrdupFailsInv DEF Errno
<1> QED BY <1>2, <1>3, <1>4 DEF copy_from_user

(***************************************************************************)
(* The vectors of execve.                                                  *)
(***************************************************************************)
LEMMA VecdupInv ==
  ASSUME CallsInv, NEW t \in Threads, user_vecdup(t)
  PROVE  CallsInv'
<1>0. th[t] \in Locals /\ th[t].pc = "vector" /\ th[t].vecs > 0
  <2>1. th[t].pc = "vector"
    BY DEF user_vecdup, AtPc
  <2> QED BY <2>1, OwnIsUsed DEF CallsInv, LocalOK
<1>1. CASE Return(t, "fail", "ENOMEM", th[t].own, FALSE)
  BY <1>1, CallsReturnInv DEF Errno, NoError
<1>2. CASE Available >= 2 /\ Allocate(t, 2, "array")
  BY <1>0, <1>2, AllocateInv
<1> QED BY <1>1, <1>2 DEF user_vecdup

(* user_vecdup: the array of pointers. *)
LEMMA VecdupArrayInv ==
  ASSUME CallsInv, NEW t \in Threads, user_vecdup_array(t)
  PROVE  CallsInv'
<1>0. /\ th[t] \in Locals /\ th[t].pc = "array" /\ th[t].vecs > 0
      /\ th[t].err = NoError /\ ~th[t].done
  <2>1. th[t].pc = "array"
    BY DEF user_vecdup_array, AtPc
  <2> QED BY <2>1, OwnIsUsed, NothingYet DEF CallsInv, LocalOK
<1>1. CASE Goto(t, "vecstr")
  BY <1>0, <1>1, GotoInv
<1>2. CASE Return(t, "fail", "EFAULT", th[t].own, FALSE)
  BY <1>2, CallsReturnInv DEF Errno, NoError
<1>3. CASE wild' = TRUE /\ UNCHANGED <<used, lost, th, kt_errno, cancelled>>
  <2>1. SyscallTypeOK'
    BY <1>3 DEF CallsInv, SyscallTypeOK
  <2>2. BuffersOwned'
    BY <1>3 DEF CallsInv, BuffersOwned
  <2>3. \A u \in Threads : LocalOK(th'[u]) /\ ReturnOK(th'[u], kt_errno'[u])
    BY <1>3 DEF CallsInv
  <2> QED BY <2>1, <2>2, <2>3 DEF CallsInv
<1> QED BY <1>1, <1>2, <1>3 DEF user_vecdup_array

(* user_vecdup: one string more. *)
LEMMA VecdupStringInv ==
  ASSUME CallsInv, NEW t \in Threads, user_vecdup_string(t)
  PROVE  CallsInv'
<1>0. th[t] \in Locals /\ th[t].pc = "vecstr" /\ th[t].vecs > 0 /\ Available \in Int
  <2>1. th[t].pc = "vecstr"
    BY DEF user_vecdup_string, AtPc
  <2> QED BY <2>1, OwnIsUsed DEF CallsInv, LocalOK, Available
<1>1. CASE StrdupFails(t, "ENOMEM")
  BY <1>1, StrdupFailsInv DEF Errno
<1>2. CASE Available > 0 /\ Allocate(t, 1, "veccopy")
  <2>1. Available >= 1
    BY <1>0, <1>2
  <2> QED BY <1>0, <1>2, <2>1, AllocateInv
<1> QED BY <1>1, <1>2 DEF user_vecdup_string

(* user_vecdup: its end. *)
LEMMA VecdupReturnsInv ==
  ASSUME CallsInv, NEW t \in Threads, user_vecdup_returns(t)
  PROVE  CallsInv'
<1>0. /\ th[t] \in Locals /\ used \in Nat /\ lost \in Nat /\ th[t].own \in Nat
      /\ lost + th[t].own <= used /\ used <= NBuffers /\ NBuffers \in Nat
  BY OwnIsUsed
<1>1. th[t].pc = "veccopy" /\ th[t].vecs > 0 /\ th[t].own > 0
  <2>1. th[t].pc = "veccopy"
    BY DEF user_vecdup_returns, AtPc
  <2> QED BY <2>1 DEF CallsInv, LocalOK
<1>2. CASE StrdupFails(t, "EFAULT")
  BY <1>2, StrdupFailsInv DEF Errno
<1>3. CASE /\ used' = used - 1
           /\ th' = [th EXCEPT ![t].own = @ - 1, ![t].vecs = @ - 1,
                               ![t].pc = IF th[t].vecs > 1 THEN "vector" ELSE "do"]
           /\ UNCHANGED <<lost, kt_errno, cancelled, wild>>
  <2> DEFINE place == IF th[t].vecs > 1 THEN "vector" ELSE "do"
             r == [th[t] EXCEPT !.own = @ - 1, !.vecs = @ - 1, !.pc = place]
  <2>1. th[t].vecs - 1 \in 0 .. 2 /\ th[t].own - 1 \in 0 .. NBuffers
    BY <1>0, <1>1 DEF Locals
  <2>2. place \in {"vector", "do"} /\ (place = "vector" => th[t].vecs - 1 > 0)
    BY <1>0 DEF Locals
  <2>3. th' = [th EXCEPT ![t] = r]
    BY <1>3
  <2> HIDE DEF place
  <2>4. /\ r \in Locals /\ r.pc = place /\ r.own = th[t].own - 1 /\ r.call = th[t].call
        /\ r.strs = th[t].strs /\ r.vecs = th[t].vecs - 1 /\ r.err = th[t].err
    BY <1>0, <2>1, <2>2 DEF Locals
  <2>5. r.done = th[t].done /\ r.faulted = th[t].faulted
    BY <1>0 DEF Locals
  <2> HIDE DEF r
  <2>6. used' = used - th[t].own + r.own /\ used' <= NBuffers
    BY <1>0, <1>3, <2>4
  <2> QED BY <1>1, <1>3, <2>2, <2>3, <2>4, <2>5, <2>6, ProceedInv, ZenonT(60)
<1> QED BY <1>2, <1>3 DEF user_vecdup_returns

-----------------------------------------------------------------------------
(***************************************************************************)
(* The do_ function and what follows.                                      *)
(***************************************************************************)
LEMMA DoFailsInv ==
  ASSUME CallsInv, NEW t \in Threads, do_fails(t)
  PROVE  CallsInv'
<1>0. /\ th[t] \in Locals /\ used \in Nat /\ lost \in Nat /\ th[t].own \in Nat
      /\ lost + th[t].own <= used /\ used <= NBuffers /\ NBuffers \in Nat
  BY OwnIsUsed
<1>1. /\ th[t].pc = "do" /\ th[t].err = NoError
      /\ th[t].done => th[t].call = "getdents"
  <2>1. th[t].pc = "do"
    BY DEF do_fails, AtPc
  <2> QED BY <2>1, NothingYet
<1>2. CASE /\ th[t].call = "read"
           /\ th' = [th EXCEPT ![t].pc = "copyout", ![t].err = "EDO"]
           /\ UNCHANGED <<used, lost, kt_errno, cancelled, wild>>
  <2> DEFINE r == [th[t] EXCEPT !.pc = "copyout", !.err = "EDO"]
  <2>1. r \in Locals /\ r.pc = "copyout" /\ r.own = th[t].own /\ r.call = "read"
    BY <1>0, <1>2 DEF Locals, Errno
  <2>2. r.done = th[t].done /\ r.faulted = th[t].faulted
    BY <1>0 DEF Locals
  <2>3. th' = [th EXCEPT ![t] = r]
    BY <1>2
  <2> HIDE DEF r
  <2>4. LocalOK(r) /\ ReturnOK(r, kt_errno'[t])
    <3>1. LocalOK(th[t])
      BY DEF CallsInv
    <3> QED BY <1>1, <1>2, <2>1, <2>2, <3>1 DEF LocalOK, ReturnOK
  <2>5. /\ used' \in 0 .. NBuffers /\ lost' \in 0 .. NBuffers
        /\ used' - lost' = used - lost - th[t].own + r.own
    BY <1>0, <1>2, <2>1
  <2>6. /\ kt_errno' \in [Threads -> {NoError, "EOLD"} \cup Errno]
        /\ \A u \in Threads \ {t} : kt_errno'[u] = kt_errno[u]
    BY <1>2 DEF CallsInv, SyscallTypeOK
  <2> QED BY <1>2, <2>1, <2>3, <2>4, <2>5, <2>6, MoveInv
<1>3. CASE /\ th[t].call = "getdents"
           /\ lost' = lost + th[t].own
           /\ kt_errno' = [kt_errno EXCEPT ![t] = "EDO"]
           /\ th' = [th EXCEPT ![t].pc = "return", ![t].own = 0, ![t].ret = "fail", ![t].err = "EDO"]
           /\ UNCHANGED <<used, cancelled, wild>>
  <2> DEFINE r == [th[t] EXCEPT !.pc = "return", !.own = 0, !.ret = "fail", !.err = "EDO"]
  <2>0. 0 \in 0 .. NBuffers /\ "EDO" \in Errno
    BY <1>0 DEF Errno
  <2>1. /\ r \in Locals /\ r.pc = "return" /\ r.own = 0 /\ r.call = "getdents"
        /\ r.ret = "fail" /\ r.err = "EDO"
    BY <1>0, <1>3, <2>0 DEF Locals
  <2>2. r.faulted = th[t].faulted
    BY <1>0 DEF Locals
  <2>3. th' = [th EXCEPT ![t] = r]
    BY <1>3
  <2> HIDE DEF r
  <2>6. /\ kt_errno' \in [Threads -> {NoError, "EOLD"} \cup Errno]
        /\ \A u \in Threads \ {t} : kt_errno'[u] = kt_errno[u]
        /\ kt_errno'[t] = "EDO"
    BY <1>3, <2>0 DEF CallsInv, SyscallTypeOK
  <2>4. LocalOK(r) /\ ReturnOK(r, kt_errno'[t])
    BY <2>1, <2>6 DEF LocalOK, ReturnOK, NoError, CopiesBlindly
  <2>5. /\ used' \in 0 .. NBuffers /\ lost' \in 0 .. NBuffers
        /\ used' - lost' = used - lost - th[t].own + r.own
    BY <1>0, <1>3, <2>1
  <2> QED BY <1>3, <2>1, <2>3, <2>4, <2>5, <2>6, MoveInv
<1>4. ASSUME NEW half \in {FALSE, HalfDone(th[t].call)}, Return(t, "fail", "EDO", th[t].own, half)
      PROVE  CallsInv'
  <2>1. HalfDone(th[t].call) \in BOOLEAN
    BY DEF HalfDone
  <2>2. half \in BOOLEAN /\ (half => HalfDone(th[t].call))
    <3>1. CASE half = FALSE
      BY <3>1
    <3>2. CASE half = HalfDone(th[t].call)
      BY <2>1, <3>2
    <3> QED BY <3>1, <3>2
  <2> QED BY <1>4, <2>2, CallsReturnInv DEF Errno, NoError
<1> QED BY <1>2, <1>3, <1>4 DEF do_fails

(* The do_ function succeeds. *)
LEMMA DoSucceedsInv ==
  ASSUME CallsInv, NEW t \in Threads, do_succeeds(t)
  PROVE  CallsInv'
<1>0. /\ th[t] \in Locals /\ used \in Nat /\ lost \in Nat /\ th[t].own \in Nat
      /\ lost + th[t].own <= used /\ used <= NBuffers /\ NBuffers \in Nat
  BY OwnIsUsed
<1>1. th[t].pc = "do" /\ th[t].err = NoError
  <2>1. th[t].pc = "do"
    BY DEF do_succeeds, AtPc
  <2> QED BY <2>1, NothingYet
<1>2. CASE /\ HasResult(th[t].call)
           /\ th' = [th EXCEPT ![t].pc = "copyout", ![t].done = TRUE]
           /\ UNCHANGED <<used, lost, kt_errno, cancelled, wild>>
  <2> DEFINE r == [th[t] EXCEPT !.pc = "copyout", !.done = TRUE]
  <2>1. r.pc = "copyout" /\ r.own = th[t].own /\ r.call = th[t].call /\ r.err = NoError
    BY <1>0, <1>1 DEF Locals
  <2>2. r \in Locals
    BY <1>0, Zenon DEF Locals
  <2>7. r.faulted = th[t].faulted
    BY <1>0, Zenon DEF Locals
  <2>3. th' = [th EXCEPT ![t] = r]
    BY <1>2
  <2> HIDE DEF r
  <2>4. LocalOK(r) /\ ReturnOK(r, kt_errno'[t])
    <3>1. LocalOK(th[t])
      BY DEF CallsInv
    <3> QED BY <1>2, <2>1, <2>7, <3>1 DEF LocalOK, ReturnOK
  <2>5. /\ used' \in 0 .. NBuffers /\ lost' \in 0 .. NBuffers
        /\ used' - lost' = used - lost - th[t].own + r.own
    BY <1>0, <1>2, <2>1
  <2>6. /\ kt_errno' \in [Threads -> {NoError, "EOLD"} \cup Errno]
        /\ \A u \in Threads \ {t} : kt_errno'[u] = kt_errno[u]
    BY <1>2 DEF CallsInv, SyscallTypeOK
  <2> QED BY <1>2, <2>2, <2>3, <2>4, <2>5, <2>6, MoveInv
<1>3. CASE Return(t, "ok", NoError, th[t].own, TRUE)
  BY <1>3, CallsReturnInv
<1>4. CASE execve_succeeds(t)
  <2> DEFINE r == [th[t] EXCEPT !.pc = "return", !.own = 0, !.ret = "ok", !.done = TRUE]
  <2>0. 0 \in 0 .. NBuffers
    BY <1>0
  <2>1. r.pc = "return" /\ r.own = 0 /\ r.ret = "ok" /\ r.err = NoError
    BY <1>0, <1>1 DEF Locals
  <2>2. r \in Locals /\ r.done /\ r.faulted = th[t].faulted /\ r.call = th[t].call
    BY <1>0, <2>0, Zenon DEF Locals
  <2>3. /\ th' = [th EXCEPT ![t] = r] /\ used' = used - th[t].own
        /\ kt_errno' = [kt_errno EXCEPT ![t] = NoError] /\ UNCHANGED <<lost, cancelled, wild>>
    BY <1>4 DEF execve_succeeds
  <2> HIDE DEF r
  <2>4. LocalOK(r) /\ ReturnOK(r, kt_errno'[t])
    <3>1. LocalOK(th[t])
      BY DEF CallsInv
    <3> QED BY <2>1, <2>2, <3>1 DEF LocalOK, ReturnOK
  <2>5. /\ used' \in 0 .. NBuffers /\ lost' \in 0 .. NBuffers
        /\ used' - lost' = used - lost - th[t].own + r.own
    BY <1>0, <2>1, <2>3
  <2>6. /\ kt_errno' \in [Threads -> {NoError, "EOLD"} \cup Errno]
        /\ \A u \in Threads \ {t} : kt_errno'[u] = kt_errno[u]
    BY <2>3 DEF CallsInv, SyscallTypeOK
  <2> QED BY <2>2, <2>3, <2>4, <2>5, <2>6, MoveInv
<1> QED BY <1>2, <1>3, <1>4 DEF do_succeeds

(* The copy of the result, which may fail. *)
LEMMA CopyToUserInv ==
  ASSUME CallsInv, NEW t \in Threads, copy_to_user(t)
  PROVE  CallsInv'
<1>0. th[t] \in Locals
  BY OwnIsUsed
<1>1. /\ th[t].pc = "copyout"
      /\ th[t].err # NoError => th[t].call = "read"
      /\ th[t].done => HasResult(th[t].call)
      /\ th[t].err \in {NoError} \cup Errno
  <2>1. th[t].pc = "copyout"
    BY DEF copy_to_user, AtPc
  <2> QED BY <1>0, <2>1 DEF CallsInv, LocalOK, Locals
<1>2. CASE Return(t, "ok", NoError, th[t].own, TRUE)
  BY <1>2, CallsReturnInv
<1>3. CASE th[t].err # NoError /\ Return(t, "fail", th[t].err, th[t].own, FALSE)
  BY <1>1, <1>3, CallsReturnInv
<1>4. CASE th[t].call = "getdents" /\ Goto(t, "do")
  BY <1>1, <1>4, GotoInv
<1>6. CASE th[t].call \in {"read", "getdents"} /\ GoOnWithout(t, "copyout")
  BY <1>1, <1>6, GoOnWithoutInv DEF CopiesBlindly
<1>5. CASE th[t].call \notin {"read", "getdents"} /\ CopyOutFails(t)
  <2>1. th[t].done \in BOOLEAN
    BY <1>0 DEF Locals
  <2>2. Return(t, "fail", "EFAULT", th[t].own, th[t].done)
    BY <1>5 DEF CopyOutFails
  <2>3. th[t].done => th[t].call \in {"waitpid", "stat"}
    BY <1>1, <1>5 DEF HasResult
  <2> QED BY <2>1, <2>2, <2>3, CallsReturnInv DEF Errno, NoError
<1> QED BY <1>2, <1>3, <1>4, <1>5, <1>6 DEF copy_to_user

(* Another thread cancels this one. *)
LEMMA CallsCancelInv ==
  ASSUME CallsInv, NEW t \in Threads, Cancel(t)
  PROVE  CallsInv'
<1>1. SyscallTypeOK'
  BY DEF CallsInv, SyscallTypeOK, Cancel
<1>2. BuffersOwned'
  BY DEF CallsInv, BuffersOwned, Cancel
<1>3. \A u \in Threads : LocalOK(th'[u]) /\ ReturnOK(th'[u], kt_errno'[u])
  BY DEF CallsInv, Cancel
<1> QED BY <1>1, <1>2, <1>3 DEF CallsInv

-----------------------------------------------------------------------------
(* The invariant holds at the start. *)
LEMMA CallsInitInv == Init => CallsInv
<1> SUFFICES ASSUME Init PROVE CallsInv
  OBVIOUS
<1>1. 0 \in 0 .. NBuffers /\ 0 \in 0 .. 2
  BY SyscallAssumption
<1>2. InUser \in Locals
  BY <1>1, Zenon DEF InUser, Locals
<1>3. \A t \in Threads : th[t] = InUser
  BY DEF Init
<1>4. SyscallTypeOK
  <2>1. th \in [Threads -> Locals]
    BY <1>2 DEF Init
  <2> QED BY <1>1, <2>1 DEF Init, SyscallTypeOK, Locals
<1>5. InUser.own = 0 /\ InUser.pc = "user" /\ InUser.err = NoError
  BY DEF InUser
<1>6. ~InUser.done /\ ~InUser.faulted
  BY DEF InUser
<1>7. \A t \in Threads : LocalOK(th[t]) /\ ReturnOK(th[t], kt_errno[t])
  BY <1>3, <1>5, <1>6 DEF LocalOK, ReturnOK
<1>8. BuffersOwned
  <2> DEFINE f == [t \in Threads |-> th[t].own]
  <2>1. \A t \in Threads : f[t] = 0
    BY <1>3, <1>5
  <2>2. Total(f, Threads) = 0
    <3> HIDE DEF f
    <3> QED BY <2>1, TotalZero
  <2> QED BY <2>2 DEF Init, BuffersOwned
<1> QED BY <1>4, <1>7, <1>8 DEF CallsInv

(* Every step keeps it. *)
LEMMA CallsNextInv == CallsInv /\ [Next]_callVars => CallsInv'
<1> SUFFICES ASSUME CallsInv, [Next]_callVars PROVE CallsInv'
  OBVIOUS
<1>1. CASE UNCHANGED callVars
  <2>1. SyscallTypeOK' /\ BuffersOwned'
    BY <1>1 DEF CallsInv, SyscallTypeOK, BuffersOwned, callVars
  <2>2. \A u \in Threads : LocalOK(th'[u]) /\ ReturnOK(th'[u], kt_errno'[u])
    BY <1>1 DEF CallsInv, callVars
  <2> QED BY <2>1, <2>2 DEF CallsInv
<1>2. ASSUME NEW t \in Threads,
             \/ syscall_handler(t) \/ syscall_dispatch(t) \/ syscall_returns(t) \/ Cancel(t)
             \/ CopyArgs(t) \/ kmalloc(t) \/ copy_from_user(t)
             \/ user_vecdup(t) \/ user_vecdup_array(t) \/ user_vecdup_string(t) \/ user_vecdup_returns(t)
             \/ do_fails(t) \/ do_succeeds(t) \/ copy_to_user(t)
      PROVE  CallsInv'
  BY <1>2, HandlerInv, DispatchInv, ReturnsInv, CallsCancelInv, CopyArgsInv, KmallocInv, CopyFromUserInv,
     VecdupInv, VecdupArrayInv, VecdupStringInv, VecdupReturnsInv, DoFailsInv, DoSucceedsInv, CopyToUserInv
<1> QED BY <1>1, <1>2 DEF Next

(* The inductive invariant holds in every reachable state. *)
LEMMA CallsInvHolds == Spec => []CallsInv
BY CallsInitInv, CallsNextInv, PTL DEF Spec

(***************************************************************************)
(* For any number of threads and buffers: as long as the kernel frees no   *)
(* pointer it never set, the buffers in use are exactly those some call in *)
(* progress points to and those a failed getdents left behind, and every   *)
(* call finds the locals its next step relies on.                          *)
(***************************************************************************)
THEOREM BuffersAccounted == Spec => []SyscallInv
<1>1. CallsInv => SyscallInv
  BY DEF CallsInv, SyscallInv, LocalsMatchPc, LocalOK
<1> QED BY <1>1, CallsInvHolds, PTL

(***************************************************************************)
(* A call that returns -1 has stored its own error, whatever other threads *)
(* did meanwhile.                                                          *)
(***************************************************************************)
THEOREM FailureStoresErrno == Spec => []ErrnoReported
<1>1. CallsInv => ErrnoReported
  BY DEF CallsInv, ErrnoReported, ReturnOK, AtPc
<1> QED BY <1>1, CallsInvHolds, PTL

(***************************************************************************)
(* Success means the call had its effect and failure that it had none,     *)
(* with the exceptions ResultTruthful names.                               *)
(***************************************************************************)
THEOREM ResultsTruthful == Spec => []ResultTruthful
<1>1. CallsInv => ResultTruthful
  BY DEF CallsInv, ResultTruthful, ReturnOK, LocalOK, AtPc
<1> QED BY <1>1, CallsInvHolds, PTL
=============================================================================
