---------------------------- MODULE ProcsProofs -----------------------------
(***************************************************************************)
(* Proofs about Procs: the tree of processes, the queues and the calls of  *)
(* threads stay consistent, statuses reach the parent that waits, and      *)
(* creation, exit and wait implement ProcTree, for every number of         *)
(* processes.  The invariant falls into parts over few variables each, and *)
(* an action is shown to keep the parts that it touches.                   *)
(***************************************************************************)
EXTENDS Procs, LibraryProofs

(* The tree. *)
TreeOK ==
  /\ proc_list \in Seq(Pids)
  /\ p_state \in [Pids -> {"none", "running", "dead"}]
  /\ p_pproc \in [Pids -> Pids \cup {NoPid}]
  /\ p_children \in [Pids -> Seq(Pids)]
  /\ LinksAgree /\ ParentsRun

(* The run queue and the CPU. *)
RunqOK ==
  /\ runq \in Seq(Pids) /\ IsInjective(runq)
  /\ cur \in Pids /\ cpu \in {"run", "unmasked", "halted", "off"}
  /\ Range(runq) = Threads("run") \ (IF cpu \in {"run", "off"} THEN {cur} ELSE {})
  /\ cpu \in {"run", "off"} => kt_state[cur] = "run"

(* The queue of the device and cancellation. *)
DevqOK ==
  /\ devq \in Seq(Pids) /\ IsInjective(devq)
  /\ Range(devq) = Threads("cancellable")
  /\ kt_cancelled \in [Pids -> BOOLEAN]
  /\ CancelWakes

(* Threads and processes. *)
ThreadsOK ==
  /\ kt_state \in [Pids -> {"run", "sleep", "cancellable", "exited"}]
  /\ \A p \in Pids : p_state[p] = "running" <=> kt_state[p] # "exited"

(* The calls threads are blocked in. *)
CallsOK ==
  /\ pc \in [Pids -> [op : {"user", "waitany", "waitpid"}, child : Pids \cup {NoPid}]]
  /\ WaitsForChild

(* What exit was given, and what wait returned. *)
StatusOK ==
  /\ p_status \in [Pids -> Statuses] /\ given \in [Pids -> Statuses]
  /\ reaped \in [pid : Pids \cup {NoPid}, status : Statuses]
  /\ \A p \in Pids : p_state[p] = "dead" => p_status[p] = given[p]
  /\ StatusDelivered

(* The rest. *)
RestOK ==
  /\ next_pid \in Pids /\ panicked \in {"no", "live thread destroyed"}
  /\ nDevice \in 0 .. MaxDevice /\ missed \in BOOLEAN

IInv == TreeOK /\ RunqOK /\ DevqOK /\ ThreadsOK /\ CallsOK /\ StatusOK /\ RestOK

(***************************************************************************)
(* The parts make up the invariant that the run checks.                    *)
(***************************************************************************)
LEMMA IInvGives == IInv => ProcsInv /\ StatusDelivered
<1> SUFFICES ASSUME IInv PROVE ProcsInv /\ StatusDelivered
  OBVIOUS
<1>1. ProcsTypeOK
  BY DEF IInv, TreeOK, RunqOK, DevqOK, ThreadsOK, CallsOK, StatusOK, RestOK, ProcsTypeOK
<1>2. LinksAgree /\ ParentsRun /\ WaitsForChild /\ CancelWakes /\ StatusDelivered
  BY DEF IInv, TreeOK, CallsOK, DevqOK, StatusOK
<1>3. OnOneQueue
  BY DEF IInv, RunqOK, DevqOK, OnOneQueue
<1>4. ThreadsMatch
  BY DEF IInv, RunqOK, ThreadsOK, ThreadsMatch
<1> QED BY <1>1, <1>2, <1>3, <1>4 DEF ProcsInv

----------------------------------------------------------------------------
(***************************************************************************)
(* The two pids with a meaning of their own.                               *)
(***************************************************************************)
LEMMA PidFacts == /\ PID_IDLE \in Pids /\ PID_INIT \in Pids /\ PID_IDLE # PID_INIT
                  /\ NoPid \notin Pids /\ Pids \subseteq Nat /\ 0 \in Statuses
  BY ProcsAssumption DEF Pids, PID_IDLE, PID_INIT, NoPid

(***************************************************************************)
(* _proc_getid finds a pid that no process has, if there is one: it looks  *)
(* at every pid, and next_pid may have wrapped around.                     *)
(***************************************************************************)
LEMMA GetidFree ==
  ASSUME next_pid \in Pids, Taken \subseteq Pids, Taken # Pids
  PROVE  _proc_getid \in Pids \ Taken
<1> DEFINE N == PROC_MAX_COUNT
<1>0. N \in Nat /\ N > 0 /\ Pids = 0 .. N - 1
  BY ProcsAssumption DEF Pids
<1> DEFINE T == {i \in 0 .. N - 1 : PidAfter(i) \notin Taken}
<1>1. PICK p \in Pids : p \notin Taken
  OBVIOUS
<1>2. T # {}
  <2>1. CASE p >= next_pid
    <3>1. p - next_pid \in 0 .. N - 1 /\ next_pid + (p - next_pid) = p
      BY <1>0, <2>1
    <3>2. p % N = p
      BY <1>0
    <3>3. PidAfter(p - next_pid) = p
      BY <3>1, <3>2 DEF PidAfter
    <3> QED BY <1>1, <3>1, <3>3
  <2>2. CASE p < next_pid
    <3>1. p + N - next_pid \in 0 .. N - 1 /\ next_pid + (p + N - next_pid) = p + N
      BY <1>0, <2>2
    <3>2. (p + N) % N = p
      BY <1>0
    <3>3. PidAfter(p + N - next_pid) = p
      BY <3>1, <3>2 DEF PidAfter
    <3> QED BY <1>1, <3>1, <3>3
  <2> QED BY <1>0, <2>1, <2>2
<1>3. T \subseteq Nat
  BY <1>0
<1>4. PICK i \in T : \A j \in T : i <= j
  <2> HIDE DEF T
  <2> QED BY <1>2, <1>3, LeastNumber
<1>5. FirstFree(i)
  <2>1. \A j \in 0 .. i - 1 : j \in 0 .. N - 1 /\ ~(i <= j)
    BY <1>0, <1>4
  <2> QED BY <1>4, <2>1 DEF FirstFree
<1> DEFINE k == CHOOSE k \in 0 .. N - 1 : FirstFree(k)
<1>6. k \in 0 .. N - 1 /\ FirstFree(k)
  BY <1>5
<1>7. _proc_getid = PidAfter(k)
  BY DEF _proc_getid
<1> HIDE DEF k
<1>8. next_pid + k \in Nat
  BY <1>0, <1>6
<1>9. PidAfter(k) \in 0 .. N - 1
  BY <1>0, <1>8 DEF PidAfter
<1> QED BY <1>0, <1>6, <1>7, <1>9 DEF FirstFree

----------------------------------------------------------------------------
(***************************************************************************)
(* proc_create keeps the tree.  The new process is nobody's parent, and    *)
(* stands last in the list.                                                *)
(***************************************************************************)
LEMMA CreateTree ==
  ASSUME TreeOK, NEW p \in Pids, p_state[p] = "running", p # PID_IDLE,
         NEW c \in Pids \ Taken, proc_create(p, c)
  PROVE  TreeOK'
<1>1. /\ IsInjective(proc_list) /\ Range(proc_list) = Live /\ Taken = Live
      /\ p \in Live /\ c \notin Live /\ p_state[c] = "none" /\ p # c
  BY DEF TreeOK, LinksAgree, Live, Taken
<1>2. /\ proc_list \in Seq(Pids) /\ p_state \in [Pids -> {"none", "running", "dead"}]
      /\ p_pproc \in [Pids -> Pids \cup {NoPid}] /\ p_children \in [Pids -> Seq(Pids)]
  BY DEF TreeOK
<1>3. /\ proc_list' = Append(proc_list, c)
      /\ p_state' = [p_state EXCEPT ![c] = "running"]
      /\ p_pproc' = [p_pproc EXCEPT ![c] = p]
      /\ p_children' = [p_children EXCEPT ![p] = Append(@, c), ![c] = <<>>]
  BY DEF proc_create
<1>4. /\ proc_list' \in Seq(Pids) /\ Range(proc_list') = Live \cup {c} /\ IsInjective(proc_list')
  BY <1>1, <1>2, <1>3, AppendFacts
<1>5. /\ p_state' \in [Pids -> {"none", "running", "dead"}]
      /\ p_state'[c] = "running" /\ \A q \in Pids \ {c} : p_state'[q] = p_state[q]
  BY <1>2, <1>3
<1>6. /\ p_pproc' \in [Pids -> Pids \cup {NoPid}]
      /\ p_pproc'[c] = p /\ \A q \in Pids \ {c} : p_pproc'[q] = p_pproc[q]
  BY <1>2, <1>3
<1>7. /\ p_children' \in [Pids -> Seq(Pids)]
      /\ p_children'[c] = <<>> /\ p_children'[p] = Append(p_children[p], c)
      /\ \A q \in Pids \ {p, c} : p_children'[q] = p_children[q]
  <2>1. Append(p_children[p], c) \in Seq(Pids) /\ <<>> \in Seq(Pids)
    BY <1>2
  <2> QED BY <1>1, <1>2, <1>3, <2>1
<1>8. Live' = Live \cup {c}
  BY <1>1, <1>5 DEF Live
<1>9. /\ p_state[PID_IDLE] = "running" /\ p_pproc[PID_IDLE] = NoPid
      /\ \A d \in Live \ {PID_IDLE} : /\ p_pproc[d] \in Pids /\ p_state[p_pproc[d]] = "running"
                                      /\ p_pproc[d] = PID_IDLE <=> d = PID_INIT
      /\ p_state[PID_INIT] # "running" => Live \subseteq {PID_IDLE, PID_INIT}
  BY DEF TreeOK, ParentsRun
<1>10. \A d \in Live : p_pproc[d] # c
  BY <1>1, <1>9, PidFacts
<1>11. c # PID_IDLE /\ c # PID_INIT /\ p_state[PID_INIT] = "running"
  BY <1>1, <1>9, PidFacts
<1>12. LinksAgree'
  <2> SUFFICES ASSUME NEW q \in Live', p_state'[q] = "running"
               PROVE  /\ IsInjective(p_children'[q])
                      /\ Range(p_children'[q]) = {d \in Live' : p_pproc'[d] = q}
    BY <1>4, <1>8 DEF LinksAgree
  <2>1. CASE q = c
    <3>1. IsInjective(<<>>) /\ Range(<<>>) = {}
      BY DEF IsInjective, Range
    <3>2. {d \in Live' : p_pproc'[d] = c} = {}
      BY <1>1, <1>6, <1>8, <1>10 DEF Live
    <3> QED BY <1>7, <2>1, <3>1, <3>2
  <2>2. CASE q # c
    <3>1. q \in Live /\ q \in Pids /\ p_state[q] = "running"
      BY <1>5, <1>8, <2>2 DEF Live
    <3>2. /\ IsInjective(p_children[q]) /\ p_children[q] \in Seq(Pids)
          /\ Range(p_children[q]) = {d \in Live : p_pproc[d] = q}
      BY <1>2, <3>1 DEF TreeOK, LinksAgree
    <3>3. CASE q = p
      <4>1. c \notin Range(p_children[q])
        BY <1>1, <3>2
      <4>2. /\ IsInjective(Append(p_children[q], c))
            /\ Range(Append(p_children[q], c)) = Range(p_children[q]) \cup {c}
        BY <3>2, <4>1, AppendFacts
      <4>3. {d \in Live' : p_pproc'[d] = q} = {d \in Live : p_pproc[d] = q} \cup {c}
        BY <1>1, <1>6, <1>8, <3>3 DEF Live
      <4> QED BY <1>7, <3>2, <3>3, <4>2, <4>3
    <3>4. CASE q # p
      <4>1. {d \in Live' : p_pproc'[d] = q} = {d \in Live : p_pproc[d] = q}
        BY <1>1, <1>6, <1>8, <3>4 DEF Live
      <4> QED BY <1>7, <2>2, <3>1, <3>2, <3>4, <4>1
    <3> QED BY <3>3, <3>4
  <2> QED BY <2>1, <2>2
<1>13. ParentsRun'
  <2>1. p_state'[PID_IDLE] = "running" /\ p_pproc'[PID_IDLE] = NoPid
    BY <1>5, <1>6, <1>9, <1>11, PidFacts
  <2>2. ASSUME NEW d \in Live' \ {PID_IDLE}
        PROVE  /\ p_pproc'[d] \in Pids /\ p_state'[p_pproc'[d]] = "running"
               /\ p_pproc'[d] = PID_IDLE <=> d = PID_INIT
    <3>1. CASE d = c
      BY <1>1, <1>5, <1>6, <1>11, <3>1
    <3>2. CASE d # c
      <4>1. d \in Live /\ d \in Pids /\ p_pproc'[d] = p_pproc[d] /\ p_pproc[d] # c
        BY <1>6, <1>8, <1>10, <3>2 DEF Live
      <4> QED BY <1>5, <1>9, <2>2, <4>1
    <3> QED BY <3>1, <3>2
  <2>3. ASSUME NEW i \in 1 .. Len(proc_list'), NEW j \in 1 .. Len(proc_list'),
               Precedes(proc_list[i], proc_list[j])'
        PROVE  i < j
    <3>1. /\ Len(proc_list) \in Nat /\ Len(proc_list') = Len(proc_list) + 1
          /\ proc_list'[Len(proc_list) + 1] = c
          /\ \A n \in 1 .. Len(proc_list) : proc_list'[n] = proc_list[n]
          /\ \A n \in 1 .. Len(proc_list) : proc_list[n] \in Range(proc_list)
      BY <1>2, <1>3 DEF Range
    <3>2. CASE j = Len(proc_list) + 1
      <4>1. proc_list'[i] # c
        <5>1. p # c /\ c # PID_INIT /\ proc_list'[j] = c
          BY <1>1, <1>11, <3>1, <3>2
        <5> QED BY <1>6, <2>3, <5>1 DEF Precedes
      <4>2. i # Len(proc_list) + 1
        BY <3>1, <4>1
      <4> QED BY <3>1, <3>2, <4>2
    <3>3. CASE j # Len(proc_list) + 1
      <4>1. j \in 1 .. Len(proc_list)
        BY <3>1, <3>3
      <4>2. proc_list'[j] = proc_list[j] /\ proc_list[j] \in Live /\ proc_list[j] \in Pids /\ proc_list[j] # c
        BY <1>1, <3>1, <4>1 DEF Live
      <4>3. p_pproc'[proc_list[j]] = p_pproc[proc_list[j]] /\ p_pproc[proc_list[j]] # c
        BY <1>6, <1>10, <4>2
      <4>4. Precedes(proc_list'[i], proc_list[j])
        BY <2>3, <4>2, <4>3 DEF Precedes
      <4>5. proc_list'[i] # c
        BY <1>11, <4>3, <4>4 DEF Precedes
      <4>6. i \in 1 .. Len(proc_list) /\ proc_list'[i] = proc_list[i]
        BY <3>1, <4>5
      <4> QED BY <4>1, <4>4, <4>6 DEF TreeOK, ParentsRun
    <3> QED BY <3>2, <3>3
  <2>4. p_state'[PID_INIT] = "running"
    BY <1>5, <1>11, PidFacts
  <2> QED BY <2>1, <2>2, <2>3, <2>4 DEF ParentsRun
<1> QED BY <1>4, <1>5, <1>6, <1>7, <1>12, <1>13 DEF TreeOK

(***************************************************************************)
(* When init has no child, nobody is left but idle and init: of the others *)
(* the first in the list of processes would have a parent before it.       *)
(***************************************************************************)
LEMMA InitIsLast ==
  ASSUME TreeOK, p_state[PID_INIT] = "running", p_children[PID_INIT] = <<>>
  PROVE  Live \subseteq {PID_IDLE, PID_INIT}
<1> SUFFICES ASSUME NEW q \in Live, q \notin {PID_IDLE, PID_INIT} PROVE FALSE
  OBVIOUS
<1>1. proc_list \in Seq(Pids) /\ Range(proc_list) = Live /\ PID_INIT \in Live
  BY PidFacts DEF TreeOK, LinksAgree, Live
<1>2. Len(proc_list) \in Nat /\ DOMAIN proc_list = 1 .. Len(proc_list)
  BY <1>1
<1> DEFINE T == {i \in 1 .. Len(proc_list) : proc_list[i] \notin {PID_IDLE, PID_INIT}}
<1>3. T \subseteq Nat /\ T # {}
  BY <1>1, <1>2 DEF Range
<1>4. PICK i \in T : \A j \in T : i <= j
  <2> HIDE DEF T
  <2> QED BY <1>3, LeastNumber
<1> DEFINE c == proc_list[i]
<1>5. c \in Live \ {PID_IDLE, PID_INIT} /\ c \in Pids
  BY <1>1, <1>2 DEF Range, Live
<1>6. /\ p_pproc[c] \in Pids /\ p_state[p_pproc[c]] = "running" /\ p_pproc[c] # PID_IDLE
  BY <1>5 DEF TreeOK, ParentsRun
<1>7. p_pproc[c] # PID_INIT
  <2>1. Range(p_children[PID_INIT]) = {d \in Live : p_pproc[d] = PID_INIT}
    BY <1>1 DEF TreeOK, LinksAgree
  <2>2. Range(p_children[PID_INIT]) = {}
    BY DEF Range
  <2> QED BY <1>5, <2>1, <2>2
<1>8. p_pproc[c] \in Live
  BY <1>6 DEF Live
<1>9. PICK j \in 1 .. Len(proc_list) : proc_list[j] = p_pproc[c]
  BY <1>1, <1>2, <1>8 DEF Range
<1>10. j < i
  <2>1. Precedes(proc_list[j], proc_list[i])
    BY <1>5, <1>9 DEF Precedes
  <2> QED BY <1>4, <2>1 DEF TreeOK, ParentsRun
<1>11. j \in T
  BY <1>6, <1>7, <1>9
<1> QED BY <1>2, <1>4, <1>10, <1>11

(***************************************************************************)
(* proc_cleanup keeps the tree: the children of the process that exits are *)
(* init's, which runs as long as there is anybody else.                    *)
(***************************************************************************)
LEMMA ExitTree ==
  ASSUME TreeOK, NEW p \in Pids, p_state[p] = "running", p # PID_IDLE,
         p = PID_INIT => p_children[p] = <<>>,
         NEW status, proc_cleanup(p, status)
  PROVE  TreeOK' /\ Live' = Live
<1>1. /\ IsInjective(proc_list) /\ Range(proc_list) = Live /\ p \in Live
  BY DEF TreeOK, LinksAgree, Live
<1>2. /\ proc_list \in Seq(Pids) /\ p_state \in [Pids -> {"none", "running", "dead"}]
      /\ p_pproc \in [Pids -> Pids \cup {NoPid}] /\ p_children \in [Pids -> Seq(Pids)]
  BY DEF TreeOK
<1> DEFINE K == Range(p_children[p])
<1>3. /\ proc_list' = proc_list
      /\ p_state' = [p_state EXCEPT ![p] = "dead"]
      /\ p_pproc' = [c \in Pids |-> IF c \in K THEN PID_INIT ELSE p_pproc[c]]
      /\ p_children' = [p_children EXCEPT ![PID_INIT] = @ \o p_children[p]]
  BY DEF proc_cleanup, proc_initproc
<1>4. K = {d \in Live : p_pproc[d] = p} /\ IsInjective(p_children[p])
  BY <1>1 DEF TreeOK, LinksAgree
<1> HIDE DEF K
<1>5. /\ p_state' \in [Pids -> {"none", "running", "dead"}]
      /\ p_state'[p] = "dead" /\ \A q \in Pids \ {p} : p_state'[q] = p_state[q]
  BY <1>2, <1>3
<1>6. /\ p_pproc' \in [Pids -> Pids \cup {NoPid}]
      /\ \A c \in Pids : p_pproc'[c] = IF c \in K THEN PID_INIT ELSE p_pproc[c]
  BY <1>2, <1>3, PidFacts
<1>7. /\ p_children' \in [Pids -> Seq(Pids)]
      /\ p_children'[PID_INIT] = p_children[PID_INIT] \o p_children[p]
      /\ \A q \in Pids \ {PID_INIT} : p_children'[q] = p_children[q]
  <2>1. p_children[PID_INIT] \o p_children[p] \in Seq(Pids)
    BY <1>2, PidFacts
  <2> QED BY <1>2, <1>3, <2>1, PidFacts
<1>8. Live' = Live
  BY <1>1, <1>5 DEF Live
<1>9. /\ p_state[PID_IDLE] = "running" /\ p_pproc[PID_IDLE] = NoPid
      /\ \A d \in Live \ {PID_IDLE} : /\ p_pproc[d] \in Pids /\ p_state[p_pproc[d]] = "running"
                                      /\ p_pproc[d] = PID_IDLE <=> d = PID_INIT
      /\ p_state[PID_INIT] # "running" => Live \subseteq {PID_IDLE, PID_INIT}
  BY DEF TreeOK, ParentsRun
<1>10. p_state[PID_INIT] = "running"
  BY <1>1, <1>9
<1>11. p = PID_INIT => K = {}
  BY DEF K, Range
<1>12. PID_IDLE \notin K /\ PID_INIT \notin K
  <2>1. PID_INIT \in Live
    BY <1>10, PidFacts DEF Live
  <2> QED BY <1>4, <1>9, <2>1, PidFacts
<1>13. LinksAgree'
  <2> SUFFICES ASSUME NEW q \in Live', p_state'[q] = "running"
               PROVE  /\ IsInjective(p_children'[q])
                      /\ Range(p_children'[q]) = {d \in Live' : p_pproc'[d] = q}
    BY <1>1, <1>3, <1>8 DEF LinksAgree
  <2>1. q \in Live /\ q \in Pids /\ q # p /\ p_state[q] = "running"
    BY <1>5, <1>8 DEF Live
  <2>2. /\ IsInjective(p_children[q]) /\ p_children[q] \in Seq(Pids)
        /\ Range(p_children[q]) = {d \in Live : p_pproc[d] = q}
    BY <1>2, <2>1 DEF TreeOK, LinksAgree
  <2>3. CASE q = PID_INIT
    <3>1. Range(p_children[q]) \cap Range(p_children[p]) = {}
      BY <1>4, <2>1, <2>2 DEF K
    <3>2. p_children[p] \in Seq(Pids)
      BY <1>2
    <3>3. /\ IsInjective(p_children[q] \o p_children[p])
          /\ Range(p_children[q] \o p_children[p]) = Range(p_children[q]) \cup Range(p_children[p])
      BY <1>4, <2>2, <3>1, <3>2, ConcatFacts
    <3>4. {d \in Live' : p_pproc'[d] = q} = {d \in Live : p_pproc[d] = q} \cup K
      BY <1>4, <1>6, <1>8, <2>3 DEF Live
    <3> QED BY <1>7, <2>2, <2>3, <3>3, <3>4 DEF K
  <2>4. CASE q # PID_INIT
    <3>1. {d \in Live' : p_pproc'[d] = q} = {d \in Live : p_pproc[d] = q}
      BY <1>4, <1>6, <1>8, <2>1, <2>4 DEF Live
    <3> QED BY <1>7, <2>1, <2>2, <2>4, <3>1
  <2> QED BY <2>3, <2>4
<1>14. ParentsRun'
  <2>1. p_state'[PID_IDLE] = "running" /\ p_pproc'[PID_IDLE] = NoPid
    BY <1>5, <1>6, <1>9, <1>12, PidFacts
  <2>2. ASSUME NEW d \in Live' \ {PID_IDLE}
        PROVE  /\ p_pproc'[d] \in Pids /\ p_state'[p_pproc'[d]] = "running"
               /\ p_pproc'[d] = PID_IDLE <=> d = PID_INIT
    <3>0. d \in Live \ {PID_IDLE} /\ d \in Pids
      BY <1>8 DEF Live
    <3>1. CASE d \in K
      <4>1. p # PID_INIT /\ d # PID_INIT /\ p_pproc'[d] = PID_INIT
        BY <1>6, <1>11, <1>12, <3>0, <3>1
      <4> QED BY <1>5, <1>10, <4>1, PidFacts
    <3>2. CASE d \notin K
      <4>1. p_pproc'[d] = p_pproc[d] /\ p_pproc[d] # p
        BY <1>4, <1>6, <3>0, <3>2
      <4> QED BY <1>5, <1>9, <3>0, <4>1
    <3> QED BY <3>1, <3>2
  <2>3. ASSUME NEW i \in 1 .. Len(proc_list'), NEW j \in 1 .. Len(proc_list'),
               Precedes(proc_list[i], proc_list[j])'
        PROVE  i < j
    <3>1. proc_list[j] \in Pids
      BY <1>2, <1>3
    <3>2. Precedes(proc_list[i], proc_list[j])
      BY <1>3, <1>6, <1>12, <2>3, <3>1 DEF Precedes
    <3> QED BY <1>3, <3>2 DEF TreeOK, ParentsRun
  <2>4. p_state'[PID_INIT] # "running" => Live' \subseteq {PID_IDLE, PID_INIT}
    BY <1>5, <1>8, <1>10, InitIsLast, PidFacts
  <2> QED BY <2>1, <2>2, <2>3, <2>4 DEF ParentsRun
<1> QED BY <1>2, <1>3, <1>5, <1>6, <1>7, <1>8, <1>13, <1>14 DEF TreeOK

(***************************************************************************)
(* The end of a wait keeps the tree: a dead process is nobody's parent.    *)
(***************************************************************************)
LEMMA ReapTree ==
  ASSUME TreeOK, NEW p \in Pids, p_state[p] = "running",
         NEW c \in Live, p_pproc[c] = p, p_state[c] = "dead", Reap(p, c)
  PROVE  TreeOK' /\ Live' = Live \ {c}
<1>1. /\ IsInjective(proc_list) /\ Range(proc_list) = Live /\ p \in Live /\ c \in Pids /\ c # p
  BY DEF TreeOK, LinksAgree, Live
<1>2. /\ proc_list \in Seq(Pids) /\ p_state \in [Pids -> {"none", "running", "dead"}]
      /\ p_pproc \in [Pids -> Pids \cup {NoPid}] /\ p_children \in [Pids -> Seq(Pids)]
  BY DEF TreeOK
<1> DEFINE k == Keep(proc_list, Pids \ {c})
<1>3. /\ proc_list' = k
      /\ p_state' = [p_state EXCEPT ![c] = "none"]
      /\ p_pproc' = [p_pproc EXCEPT ![c] = NoPid]
      /\ p_children' = [p_children EXCEPT ![p] = Keep(@, Pids \ {c})]
  BY DEF Reap
<1>4. /\ k \in Seq(Pids) /\ Range(k) = Range(proc_list) \cap (Pids \ {c})
      /\ IsInjective(k) /\ InOrder(k, proc_list, Len(proc_list))
  BY <1>1, <1>2, KeepFacts
<1> HIDE DEF k
<1>5. /\ p_state' \in [Pids -> {"none", "running", "dead"}]
      /\ p_state'[c] = "none" /\ \A q \in Pids \ {c} : p_state'[q] = p_state[q]
  BY <1>1, <1>2, <1>3
<1>6. /\ p_pproc' \in [Pids -> Pids \cup {NoPid}]
      /\ p_pproc'[c] = NoPid /\ \A q \in Pids \ {c} : p_pproc'[q] = p_pproc[q]
  BY <1>1, <1>2, <1>3
<1>7. /\ p_children' \in [Pids -> Seq(Pids)]
      /\ p_children'[p] = Keep(p_children[p], Pids \ {c})
      /\ \A q \in Pids \ {p} : p_children'[q] = p_children[q]
  <2>1. p_children[p] \in Seq(Pids)
    BY <1>2
  <2>2. Keep(p_children[p], Pids \ {c}) \in Seq(Pids)
    BY <2>1, KeepFacts
  <2> QED BY <1>2, <1>3, <2>2
<1>8. Live' = Live \ {c}
  BY <1>1, <1>5 DEF Live
<1>9. /\ p_state[PID_IDLE] = "running" /\ p_pproc[PID_IDLE] = NoPid
      /\ \A d \in Live \ {PID_IDLE} : /\ p_pproc[d] \in Pids /\ p_state[p_pproc[d]] = "running"
                                      /\ p_pproc[d] = PID_IDLE <=> d = PID_INIT
      /\ p_state[PID_INIT] # "running" => Live \subseteq {PID_IDLE, PID_INIT}
  BY DEF TreeOK, ParentsRun
<1>10. \A d \in Live : p_pproc[d] # c
  BY <1>1, <1>9, PidFacts
<1>11. Range(k) = Live \ {c}
  BY <1>1, <1>4 DEF Live
<1>12. LinksAgree'
  <2> SUFFICES ASSUME NEW q \in Live', p_state'[q] = "running"
               PROVE  /\ IsInjective(p_children'[q])
                      /\ Range(p_children'[q]) = {d \in Live' : p_pproc'[d] = q}
    BY <1>3, <1>4, <1>8, <1>11 DEF LinksAgree
  <2>1. q \in Live /\ q \in Pids /\ q # c /\ p_state[q] = "running"
    BY <1>5, <1>8 DEF Live
  <2>2. /\ IsInjective(p_children[q]) /\ p_children[q] \in Seq(Pids)
        /\ Range(p_children[q]) = {d \in Live : p_pproc[d] = q}
    BY <1>2, <2>1 DEF TreeOK, LinksAgree
  <2>3. CASE q = p
    <3>1. /\ IsInjective(Keep(p_children[q], Pids \ {c}))
          /\ Range(Keep(p_children[q], Pids \ {c})) = Range(p_children[q]) \cap (Pids \ {c})
      BY <2>2, KeepFacts
    <3>2. {d \in Live' : p_pproc'[d] = q} = {d \in Live : p_pproc[d] = q} \cap (Pids \ {c})
      BY <1>6, <1>8, <2>3 DEF Live
    <3> QED BY <1>7, <2>2, <2>3, <3>1, <3>2
  <2>4. CASE q # p
    <3>1. {d \in Live' : p_pproc'[d] = q} = {d \in Live : p_pproc[d] = q}
      BY <1>6, <1>8, <2>1, <2>4 DEF Live
    <3> QED BY <1>7, <2>1, <2>2, <2>4, <3>1
  <2> QED BY <2>3, <2>4
<1>13. ParentsRun'
  <2>1. p_state'[PID_IDLE] = "running" /\ p_pproc'[PID_IDLE] = NoPid
    BY <1>5, <1>6, <1>9, PidFacts
  <2>2. ASSUME NEW d \in Live' \ {PID_IDLE}
        PROVE  /\ p_pproc'[d] \in Pids /\ p_state'[p_pproc'[d]] = "running"
               /\ p_pproc'[d] = PID_IDLE <=> d = PID_INIT
    <3>0. d \in Live \ {PID_IDLE} /\ d \in Pids /\ d # c
      BY <1>8 DEF Live
    <3>1. p_pproc'[d] = p_pproc[d] /\ p_pproc[d] # c
      BY <1>6, <1>10, <3>0
    <3> QED BY <1>5, <1>9, <3>0, <3>1
  <2>3. ASSUME NEW i \in 1 .. Len(proc_list'), NEW j \in 1 .. Len(proc_list'),
               Precedes(proc_list[i], proc_list[j])'
        PROVE  i < j
    <3>0. Len(k) \in Nat /\ DOMAIN k = 1 .. Len(k) /\ i \in 1 .. Len(k) /\ j \in 1 .. Len(k)
      BY <1>3, <1>4
    <3>1. k[j] \in Live \ {c} /\ k[i] \in Live \ {c} /\ k[j] \in Pids
      BY <1>11, <3>0 DEF Range, Live
    <3>2. Precedes(k[i], k[j])
      BY <1>3, <1>6, <2>3, <3>1 DEF Precedes
    <3>3. \A x, y \in 1 .. Len(proc_list) : Precedes(proc_list[x], proc_list[y]) => x < y
      BY DEF TreeOK, ParentsRun
    <3>4. ~(j < i)
      <4> SUFFICES ASSUME j < i PROVE FALSE
        OBVIOUS
      <4>1. PICK x \in 1 .. Len(proc_list), y \in 1 .. Len(proc_list) :
              x < y /\ proc_list[x] = k[j] /\ proc_list[y] = k[i]
        BY <1>4, <3>0 DEF InOrder
      <4>2. y < x
        BY <3>2, <3>3, <4>1
      <4> QED BY <1>2, <4>1, <4>2
    <3>5. i # j
      <4> SUFFICES ASSUME i = j PROVE FALSE
        OBVIOUS
      <4>0. DOMAIN proc_list = 1 .. Len(proc_list) /\ k[i] \in Range(proc_list)
        BY <1>1, <1>2, <3>1
      <4>1. PICK x \in 1 .. Len(proc_list) : proc_list[x] = k[i]
        BY <4>0 DEF Range
      <4>2. x < x
        BY <3>2, <3>3, <4>1
      <4> QED BY <1>2, <4>2
    <3> QED BY <3>0, <3>4, <3>5
  <2>4. p_state'[PID_INIT] # "running" => Live' \subseteq {PID_IDLE, PID_INIT}
    BY <1>5, <1>8, <1>9, PidFacts
  <2> QED BY <2>1, <2>2, <2>3, <2>4 DEF ParentsRun
<1> QED BY <1>3, <1>4, <1>5, <1>6, <1>7, <1>8, <1>12, <1>13 DEF TreeOK

----------------------------------------------------------------------------
(***************************************************************************)
(* sched_switch of a thread that gives up the CPU: q lists the threads     *)
(* that can run, and the first of them, if any, gets the CPU.              *)
(***************************************************************************)
LEMMA SwitchRunq ==
  ASSUME NEW q \in Seq(Pids), IsInjective(q), Range(q) = Threads("run")',
         cpu = "run", cur \in Pids, sched_switch(q)
  PROVE  RunqOK'
<1>1. CASE q = <<>>
  <2>1. cpu' = "unmasked" /\ runq' = q /\ cur' = cur
    BY <1>1 DEF sched_switch
  <2> QED BY <2>1 DEF RunqOK
<1>2. CASE q # <<>>
  <2>1. cpu' = "run" /\ runq' = Tail(q) /\ cur' = Head(q)
    BY <1>2 DEF sched_switch
  <2>2. /\ Head(q) \in Pids /\ Head(q) \in Range(q) /\ Tail(q) \in Seq(Pids)
        /\ IsInjective(Tail(q)) /\ Range(Tail(q)) = Range(q) \ {Head(q)}
    BY <1>2, HeadTailFacts
  <2>3. kt_state'[cur'] = "run"
    BY <2>1, <2>2 DEF Threads
  <2> QED BY <2>1, <2>2, <2>3 DEF RunqOK
<1> QED BY <1>1, <1>2

(***************************************************************************)
(* The thread that executes is runnable, its process runs, and it is in no *)
(* queue.                                                                  *)
(***************************************************************************)
LEMMA RunningFacts ==
  ASSUME RunqOK, ThreadsOK, cpu = "run"
  PROVE  /\ cur \in Pids /\ kt_state[cur] = "run" /\ p_state[cur] = "running" /\ cur \in Live
         /\ runq \in Seq(Pids) /\ IsInjective(runq)
         /\ Range(runq) = Threads("run") \ {cur} /\ cur \in Threads("run")
<1>1. cur \in Pids /\ kt_state[cur] = "run"
  BY DEF RunqOK
<1>2. p_state[cur] = "running"
  BY <1>1 DEF ThreadsOK
<1> QED BY <1>1, <1>2 DEF RunqOK, Live, Threads

(***************************************************************************)
(* sched_cancel takes exactly the threads that it wakes off the device's   *)
(* queue.                                                                  *)
(***************************************************************************)
LEMMA CancelledDevq ==
  ASSUME DevqOK, NEW S, sched_cancel(S), kt_state \in [Pids -> {"run", "sleep", "cancellable", "exited"}],
         \A t \in Pids : kt_state'[t] = "cancellable" <=> (kt_state[t] = "cancellable" /\ t \notin Woken(S))
  PROVE  DevqOK'
<1>1. devq' = Keep(devq, Pids \ Woken(S)) /\ devq \in Seq(Pids) /\ IsInjective(devq)
  BY DEF sched_cancel, CancelDevq, DevqOK
<1>2. /\ devq' \in Seq(Pids) /\ Range(devq') = Range(devq) \cap (Pids \ Woken(S)) /\ IsInjective(devq')
  BY <1>1, KeepFacts
<1>3. Range(devq') = Threads("cancellable")'
  BY <1>2 DEF DevqOK, Threads
<1>4. kt_cancelled' \in [Pids -> BOOLEAN]
  BY DEF sched_cancel
<1>5. CancelWakes'
  <2> SUFFICES ASSUME NEW t \in Pids, kt_cancelled'[t], kt_state'[t] = "cancellable" PROVE FALSE
    BY DEF CancelWakes
  <2>1. kt_state[t] = "cancellable" /\ t \notin Woken(S)
    OBVIOUS
  <2>2. t \notin S
    BY <2>1 DEF Woken
  <2>3. kt_cancelled[t]
    BY <2>2 DEF sched_cancel
  <2> QED BY <2>1, <2>3 DEF DevqOK, CancelWakes
<1> QED BY <1>2, <1>3, <1>4, <1>5 DEF DevqOK

(***************************************************************************)
(* They go to the run queue, and were not in it.                           *)
(***************************************************************************)
LEMMA CancelledRunq ==
  ASSUME TreeOK, RunqOK, ThreadsOK, cpu = "run", NEW S, S \subseteq Live
  PROVE  /\ CancelRunq(S) \in Seq(Pids) /\ IsInjective(CancelRunq(S))
         /\ Range(CancelRunq(S)) = {t \in Pids : CancelStates(S)[t] = "run"} \ {cur}
         /\ CancelStates(S) \in [Pids -> {"run", "sleep", "cancellable", "exited"}]
         /\ \A t \in Pids : /\ kt_state[t] = "run" => CancelStates(S)[t] = "run"
                            /\ CancelStates(S)[t] = "sleep" <=> kt_state[t] = "sleep"
                            /\ CancelStates(S)[t] = "exited" <=> kt_state[t] = "exited"
                            /\ CancelStates(S)[t] = "cancellable"
                                 <=> (kt_state[t] = "cancellable" /\ t \notin Woken(S))
<1> DEFINE k == Keep(proc_list, Woken(S))
<1>1. /\ proc_list \in Seq(Pids) /\ IsInjective(proc_list) /\ Range(proc_list) = Live
  BY DEF TreeOK, LinksAgree
<1>2. k \in Seq(Pids) /\ Range(k) = Range(proc_list) \cap Woken(S) /\ IsInjective(k)
  BY <1>1, KeepFacts
<1> HIDE DEF k
<1>3. Range(k) = Woken(S) /\ Woken(S) \subseteq Threads("cancellable")
  BY <1>1, <1>2 DEF Woken, Threads, Live
<1>4. /\ runq \in Seq(Pids) /\ IsInjective(runq) /\ Range(runq) = Threads("run") \ {cur}
      /\ kt_state[cur] = "run" /\ cur \in Pids
  BY RunningFacts
<1>5. Range(runq) \cap Range(k) = {}
  BY <1>3, <1>4 DEF Threads
<1>6. /\ runq \o k \in Seq(Pids) /\ IsInjective(runq \o k)
      /\ Range(runq \o k) = Range(runq) \cup Range(k)
  BY <1>2, <1>4, <1>5, ConcatFacts
<1>7. /\ CancelStates(S) \in [Pids -> {"run", "sleep", "cancellable", "exited"}]
      /\ \A t \in Pids : CancelStates(S)[t] = IF t \in Woken(S) THEN "run" ELSE kt_state[t]
  BY DEF CancelStates, ThreadsOK
<1>8. \A t \in Woken(S) : kt_state[t] = "cancellable"
  BY DEF Woken
<1>9. {t \in Pids : CancelStates(S)[t] = "run"} \ {cur} = (Threads("run") \ {cur}) \cup Woken(S)
  BY <1>3, <1>4, <1>7, <1>8 DEF Threads
<1> QED BY <1>3, <1>4, <1>6, <1>7, <1>8, <1>9 DEF CancelRunq, k

(***************************************************************************)
(* The exit of a thread and its process.  st and q are what is left of the *)
(* threads' states and the run queue after a cancellation, if any.         *)
(***************************************************************************)
LEMMA ExitSteps ==
  ASSUME IInv, NEW p \in Pids, InUser(p), p # PID_IDLE,
         p = PID_INIT => p_children[p] = <<>>,
         NEW status \in Statuses,
         NEW st \in [Pids -> {"run", "sleep", "cancellable", "exited"}],
         NEW q \in Seq(Pids), IsInjective(q),
         Range(q) = {t \in Pids : st[t] = "run"} \ {p},
         \A t \in Pids : /\ st[t] = "sleep" <=> kt_state[t] = "sleep"
                         /\ st[t] = "exited" <=> kt_state[t] = "exited",
         kthread_exit(p, status, st, q)
  PROVE  /\ TreeOK' /\ RunqOK' /\ ThreadsOK' /\ CallsOK' /\ StatusOK' /\ RestOK'
         /\ \A t \in Pids \ {p} : kt_state'[t] = "cancellable" <=> st[t] = "cancellable"
         /\ kt_state'[p] = "exited"
<1> DEFINE w == WakeParent(p_pproc[p])
<1>1. TreeOK /\ RunqOK /\ ThreadsOK /\ CallsOK /\ StatusOK /\ RestOK
  BY DEF IInv
<1>2. cpu = "run" /\ cur = p /\ pc[p] = User
  BY DEF InUser
<1>3. p_state[p] = "running" /\ kt_state[p] = "run" /\ p \in Live
  BY <1>1, <1>2, RunningFacts
<1>4. /\ proc_cleanup(p, status)
      /\ kt_state' = [t \in Pids |-> IF t = p THEN "exited" ELSE IF t \in Range(w) THEN "run" ELSE st[t]]
      /\ sched_switch(q \o w)
  BY DEF kthread_exit
<1>5. TreeOK' /\ Live' = Live
  BY <1>1, <1>3, <1>4, ExitTree
<1>6. p_pproc[p] \in Pids /\ p_pproc[p] # p
  <2>1. p_pproc[p] \in Pids
    BY <1>1, <1>3 DEF TreeOK, ParentsRun
  <2>2. /\ Len(proc_list) \in Nat /\ DOMAIN proc_list = 1 .. Len(proc_list) /\ p \in Range(proc_list)
    BY <1>1, <1>3 DEF TreeOK, LinksAgree
  <2>3. PICK i \in 1 .. Len(proc_list) : proc_list[i] = p
    BY <2>2 DEF Range
  <2>4. Precedes(proc_list[i], proc_list[i]) => i < i
    BY <1>1 DEF TreeOK, ParentsRun
  <2> QED BY <2>1, <2>2, <2>3, <2>4 DEF Precedes
<1>7. /\ w \in Seq(Pids) /\ IsInjective(w)
      /\ Range(w) = IF kt_state[p_pproc[p]] = "sleep" THEN {p_pproc[p]} ELSE {}
  <2>1. CASE kt_state[p_pproc[p]] = "sleep"
    <3>1. w = <<p_pproc[p]>>
      BY <2>1 DEF WakeParent, Waiting
    <3>2. DOMAIN <<p_pproc[p]>> = {1}
      OBVIOUS
    <3> QED BY <1>6, <2>1, <3>1, <3>2 DEF IsInjective, Range
  <2>2. CASE kt_state[p_pproc[p]] # "sleep"
    <3>1. w = <<>>
      BY <2>2 DEF WakeParent, Waiting
    <3> QED BY <2>2, <3>1 DEF IsInjective, Range
  <2> QED BY <2>1, <2>2
<1> HIDE DEF w
<1>8. Range(q) \cap Range(w) = {} /\ p \notin Range(w)
  BY <1>6, <1>7
<1>9. /\ q \o w \in Seq(Pids) /\ IsInjective(q \o w)
      /\ Range(q \o w) = Range(q) \cup Range(w)
  BY <1>7, <1>8, ConcatFacts
<1>10. /\ kt_state' \in [Pids -> {"run", "sleep", "cancellable", "exited"}]
       /\ kt_state'[p] = "exited"
       /\ \A t \in Pids \ {p} : kt_state'[t] = IF t \in Range(w) THEN "run" ELSE st[t]
  BY <1>4
<1>11. Range(q \o w) = Threads("run")'
  <2>1. Threads("run")' = {t \in Pids : kt_state'[t] = "run"}
    BY DEF Threads
  <2>2. Range(w) \subseteq Pids
    BY <1>6, <1>7
  <2> QED BY <1>8, <1>9, <1>10, <2>1, <2>2
<1>12. RunqOK'
  BY <1>2, <1>4, <1>9, <1>11, SwitchRunq
<1>13. ThreadsOK'
  <2>1. p_state' = [p_state EXCEPT ![p] = "dead"] /\ p_state \in [Pids -> {"none", "running", "dead"}]
    BY <1>1, <1>4 DEF proc_cleanup, TreeOK
  <2>2. \A t \in Range(w) : kt_state[t] = "sleep"
    BY <1>7
  <2>3. ASSUME NEW t \in Pids PROVE p_state'[t] = "running" <=> kt_state'[t] # "exited"
    <3>1. CASE t = p
      BY <1>10, <2>1, <3>1
    <3>2. CASE t # p
      <4>1. p_state[t] = "running" <=> kt_state[t] # "exited"
        BY <1>1 DEF ThreadsOK
      <4> QED BY <1>10, <2>1, <2>2, <3>2, <4>1
    <3> QED BY <3>1, <3>2
  <2> QED BY <1>10, <2>3 DEF ThreadsOK
<1>14. CallsOK'
  <2>1. pc' = pc /\ p_state' = [p_state EXCEPT ![p] = "dead"]
        /\ p_pproc' = [c \in Pids |-> IF c \in Range(p_children[p]) THEN PID_INIT ELSE p_pproc[c]]
    BY <1>4 DEF proc_cleanup, proc_initproc
  <2>2. Range(p_children[p]) = {d \in Live : p_pproc[d] = p} /\ p_state \in [Pids -> {"none", "running", "dead"}]
    BY <1>1, <1>3 DEF TreeOK, LinksAgree
  <2>3. ASSUME NEW t \in Pids, pc'[t].op = "waitpid"
        PROVE  /\ p_state'[t] = "running"
               /\ pc'[t].child \in Live' \ {PID_IDLE} /\ p_pproc'[pc'[t].child] = t
    <3>1. t # p
      BY <1>2, <2>1, <2>3 DEF User
    <3>2. /\ p_state[t] = "running"
          /\ pc[t].child \in Live \ {PID_IDLE} /\ p_pproc[pc[t].child] = t
      BY <1>1, <2>1, <2>3 DEF CallsOK, WaitsForChild
    <3> QED BY <1>5, <2>1, <2>2, <3>1, <3>2 DEF Live
  <2>4. WaitsForChild'
    BY <2>3 DEF WaitsForChild
  <2> QED BY <1>1, <2>1, <2>4 DEF CallsOK
<1>15. StatusOK'
  <2>1. /\ p_status' = [p_status EXCEPT ![p] = status] /\ p_state' = [p_state EXCEPT ![p] = "dead"]
        /\ given' = [given EXCEPT ![p] = status] /\ reaped' = reaped
    BY <1>4 DEF proc_cleanup, SetStatus
  <2>2. /\ p_state \in [Pids -> {"none", "running", "dead"}]
        /\ p_status \in [Pids -> Statuses] /\ given \in [Pids -> Statuses]
        /\ reaped \in [pid : Pids \cup {NoPid}, status : Statuses]
        /\ \A t \in Pids : p_state[t] = "dead" => p_status[t] = given[t]
        /\ StatusDelivered
    BY <1>1 DEF StatusOK, TreeOK
  <2>3. p_status' \in [Pids -> Statuses] /\ given' \in [Pids -> Statuses]
    BY <2>1, <2>2
  <2>4. \A t \in Pids : p_state'[t] = "dead" => p_status'[t] = given'[t]
    BY <2>1, <2>2
  <2>5. StatusDelivered'
    <3> SUFFICES ASSUME reaped.pid # NoPid
                 PROVE  p_state'[reaped.pid] # "none" \/ reaped.status = given'[reaped.pid]
      BY <2>1 DEF StatusDelivered
    <3>1. reaped.pid \in Pids
      BY <2>2
    <3>2. p_state[reaped.pid] # "none" \/ reaped.status = given[reaped.pid]
      BY <2>2 DEF StatusDelivered
    <3> QED BY <2>1, <2>2, <3>1, <3>2
  <2> QED BY <2>1, <2>2, <2>3, <2>4, <2>5 DEF StatusOK
<1>16. RestOK'
  BY <1>1, <1>4 DEF proc_cleanup, RestOK
<1>17. \A t \in Pids \ {p} : kt_state'[t] = "cancellable" <=> st[t] = "cancellable"
  <2>1. \A t \in Range(w) : kt_state[t] = "sleep"
    BY <1>7
  <2> QED BY <1>10, <2>1
<1> QED BY <1>5, <1>10, <1>12, <1>13, <1>14, <1>15, <1>16, <1>17

----------------------------------------------------------------------------
(***************************************************************************)
(* Parts whose variables a step leaves alone.                              *)
(***************************************************************************)
LEMMA SameTree ==
  ASSUME TreeOK, UNCHANGED <<proc_list, p_state, p_pproc, p_children>> PROVE TreeOK'
  BY DEF TreeOK, LinksAgree, Live, ParentsRun, Precedes

(* The same for the device's queue: the set of threads that sleep there must stay. *)
LEMMA SameDevq ==
  ASSUME DevqOK, UNCHANGED <<devq, kt_cancelled>>,
         \A t \in Pids : kt_state'[t] = "cancellable" <=> kt_state[t] = "cancellable"
  PROVE  DevqOK'
  BY DEF DevqOK, Threads, CancelWakes

(* The same for the agreement of processes and threads. *)
LEMMA SameThreads ==
  ASSUME ThreadsOK, kt_state' \in [Pids -> {"run", "sleep", "cancellable", "exited"}],
         \A t \in Pids : p_state'[t] = "running" <=> p_state[t] = "running",
         \A t \in Pids : kt_state'[t] = "exited" <=> kt_state[t] = "exited"
  PROVE  ThreadsOK'
  BY DEF ThreadsOK

(* The same for the calls in progress. *)
LEMMA SameCalls == ASSUME CallsOK, UNCHANGED <<pc, p_state, p_pproc>> PROVE CallsOK'
  BY DEF CallsOK, WaitsForChild, Live

(* The same for the statuses. *)
LEMMA SameStatus == ASSUME StatusOK, UNCHANGED <<p_status, given, reaped, p_state>> PROVE StatusOK'
  BY DEF StatusOK, StatusDelivered

(* The same for the rest. *)
LEMMA SameRest == ASSUME RestOK, UNCHANGED <<next_pid, panicked, nDevice, missed>> PROVE RestOK'
  BY DEF RestOK

(* A step of the scheduler alone leaves tree, statuses and calls as they are. *)
LEMMA SameProcs ==
  ASSUME IInv, UNCHANGED procs, UNCHANGED <<given, reaped>>
  PROVE  TreeOK' /\ StatusOK' /\ (UNCHANGED pc => CallsOK')
<1>1. TreeOK /\ StatusOK /\ CallsOK
  BY DEF IInv
<1>2. UNCHANGED <<proc_list, p_state, p_pproc, p_children, p_status>>
  BY DEF procs
<1> QED BY <1>1, <1>2, SameTree, SameStatus, SameCalls

(***************************************************************************)
(* Actions of the scheduler.                                               *)
(***************************************************************************)
LEMMA YieldInv == ASSUME IInv, NEW p \in Pids, Yield(p) PROVE IInv'
<1>0. TreeOK /\ RunqOK /\ DevqOK /\ ThreadsOK /\ CallsOK /\ StatusOK /\ RestOK
  BY DEF IInv
<1>1. /\ cpu = "run" /\ cur = p /\ sched_switch(Append(runq, p)) /\ UNCHANGED kt_state
      /\ UNCHANGED procs /\ UNCHANGED <<given, reaped, nDevice, panicked, missed, kt_cancelled, devq, pc>>
  BY DEF Yield, InUser, history
<1>2. TreeOK' /\ StatusOK' /\ CallsOK'
  BY <1>1, SameProcs
<1>3. DevqOK' /\ ThreadsOK' /\ RestOK'
  BY <1>0, <1>1 DEF DevqOK, ThreadsOK, RestOK, Threads, CancelWakes, procs
<1>4. /\ runq \in Seq(Pids) /\ IsInjective(runq) /\ Range(runq) = Threads("run") \ {p}
      /\ p \in Threads("run")
  BY <1>0, <1>1, RunningFacts
<1>5. /\ Append(runq, p) \in Seq(Pids) /\ IsInjective(Append(runq, p))
      /\ Range(Append(runq, p)) = Range(runq) \cup {p}
  BY <1>4, AppendFacts
<1>6. Range(Append(runq, p)) = Threads("run")'
  BY <1>1, <1>4, <1>5 DEF Threads
<1>7. RunqOK'
  BY <1>1, <1>5, <1>6, SwitchRunq
<1> QED BY <1>2, <1>3, <1>7 DEF IInv

(* The running thread goes to sleep, in state s. *)
LEMMA SleepingRunq ==
  ASSUME RunqOK, ThreadsOK, cpu = "run", NEW s \in {"sleep", "cancellable"},
         kt_state' = [kt_state EXCEPT ![cur] = s], sched_switch(runq)
  PROVE  /\ RunqOK'
         /\ kt_state' \in [Pids -> {"run", "sleep", "cancellable", "exited"}]
         /\ \A t \in Pids : kt_state'[t] = IF t = cur THEN s ELSE kt_state[t]
<1>1. /\ cur \in Pids /\ kt_state[cur] = "run"
      /\ runq \in Seq(Pids) /\ IsInjective(runq) /\ Range(runq) = Threads("run") \ {cur}
  BY RunningFacts
<1>2. /\ kt_state' \in [Pids -> {"run", "sleep", "cancellable", "exited"}]
      /\ \A t \in Pids : kt_state'[t] = IF t = cur THEN s ELSE kt_state[t]
  BY <1>1 DEF ThreadsOK
<1>3. Range(runq) = Threads("run")'
  BY <1>1, <1>2 DEF Threads
<1> QED BY <1>1, <1>2, <1>3, SwitchRunq

(* Sleeping on the device. *)
LEMMA DeviceSleepInv == ASSUME IInv, NEW p \in Pids, sched_cancellable_sleep_on(p) PROVE IInv'
<1>0. TreeOK /\ RunqOK /\ DevqOK /\ ThreadsOK /\ CallsOK /\ StatusOK /\ RestOK
  BY DEF IInv
<1>1. /\ cpu = "run" /\ cur = p /\ ~kt_cancelled[p] /\ nDevice < MaxDevice
      /\ kt_state' = [kt_state EXCEPT ![cur] = "cancellable"]
      /\ devq' = Append(devq, p) /\ nDevice' = nDevice + 1 /\ sched_switch(runq)
      /\ UNCHANGED procs /\ UNCHANGED <<panicked, missed, given, reaped, kt_cancelled, pc>>
  BY DEF sched_cancellable_sleep_on, InUser, MaySleep
<1>2. TreeOK' /\ StatusOK' /\ CallsOK'
  BY <1>1, SameProcs
<1>3. /\ RunqOK' /\ kt_state' \in [Pids -> {"run", "sleep", "cancellable", "exited"}]
      /\ \A t \in Pids : kt_state'[t] = IF t = p THEN "cancellable" ELSE kt_state[t]
  BY <1>0, <1>1, SleepingRunq
<1>4. kt_state[p] = "run"
  BY <1>0, <1>1, RunningFacts
<1>5. ThreadsOK'
  <2>1. p_state' = p_state
    BY <1>1 DEF procs
  <2> QED BY <1>0, <1>3, <1>4, <2>1, SameThreads
<1>6. DevqOK'
  <2>1. /\ devq \in Seq(Pids) /\ IsInjective(devq) /\ Range(devq) = Threads("cancellable")
        /\ kt_cancelled \in [Pids -> BOOLEAN] /\ CancelWakes
    BY <1>0 DEF DevqOK
  <2>2. p \notin Range(devq)
    BY <1>4, <2>1 DEF Threads
  <2>3. /\ devq' \in Seq(Pids) /\ IsInjective(devq') /\ Range(devq') = Range(devq) \cup {p}
    BY <1>1, <2>1, <2>2, AppendFacts
  <2>4. Range(devq') = Threads("cancellable")'
    BY <1>3, <2>1, <2>3 DEF Threads
  <2>5. CancelWakes'
    BY <1>1, <1>3, <2>1 DEF CancelWakes
  <2> QED BY <1>1, <2>1, <2>3, <2>4, <2>5 DEF DevqOK
<1>7. RestOK'
  <2>1. nDevice' \in 0 .. MaxDevice
    <3>1. nDevice \in 0 .. MaxDevice /\ nDevice < MaxDevice /\ nDevice' = nDevice + 1 /\ MaxDevice \in Nat
      BY <1>0, <1>1, ProcsAssumption DEF RestOK
    <3> QED BY <3>1
  <2> QED BY <1>0, <1>1, <2>1 DEF RestOK, procs
<1> QED BY <1>2, <1>3, <1>5, <1>6, <1>7 DEF IInv

(* The device's interrupt, in the window before intr_wait or during it. *)
LEMMA InterruptInv == ASSUME IInv, Interrupt PROVE IInv'
<1>0. TreeOK /\ RunqOK /\ DevqOK /\ ThreadsOK /\ CallsOK /\ StatusOK /\ RestOK
  BY DEF IInv
<1> DEFINE t == Head(devq)
           q == Append(runq, t)
<1>1. /\ devq # <<>> /\ cpu # "off"
      /\ kt_state' = [kt_state EXCEPT ![t] = "run"] /\ devq' = Tail(devq)
      /\ IF cpu = "halted" THEN cpu' = "run" /\ cur' = Head(q) /\ runq' = Tail(q)
         ELSE runq' = q /\ UNCHANGED <<cpu, cur>>
      /\ missed' = (cpu = "unmasked")
      /\ UNCHANGED procs /\ UNCHANGED <<given, reaped, nDevice, panicked, kt_cancelled, pc>>
  BY DEF Interrupt, history
<1>2. TreeOK' /\ StatusOK' /\ CallsOK'
  BY <1>1, SameProcs
<1>3. /\ devq \in Seq(Pids) /\ IsInjective(devq) /\ Range(devq) = Threads("cancellable")
  BY <1>0 DEF DevqOK
<1>4. /\ t \in Pids /\ t \in Range(devq) /\ devq' \in Seq(Pids)
      /\ IsInjective(devq') /\ Range(devq') = Range(devq) \ {t}
  BY <1>1, <1>3, HeadTailFacts
<1> HIDE DEF t
<1>5. kt_state[t] = "cancellable"
  BY <1>3, <1>4 DEF Threads
<1>6. /\ kt_state' \in [Pids -> {"run", "sleep", "cancellable", "exited"}]
      /\ \A u \in Pids : kt_state'[u] = IF u = t THEN "run" ELSE kt_state[u]
  BY <1>0, <1>1, <1>4 DEF ThreadsOK
<1>7. DevqOK'
  <2>1. Range(devq') = Threads("cancellable")'
    BY <1>3, <1>4, <1>6 DEF Threads
  <2>2. CancelWakes'
    BY <1>0, <1>1, <1>6 DEF DevqOK, CancelWakes
  <2> QED BY <1>0, <1>1, <1>4, <2>1, <2>2 DEF DevqOK
<1>8. ThreadsOK'
  <2>1. p_state' = p_state
    BY <1>1 DEF procs
  <2> QED BY <1>0, <1>5, <1>6, <2>1, SameThreads
<1>9. RestOK'
  BY <1>0, <1>1 DEF RestOK, procs
<1>10. /\ runq \in Seq(Pids) /\ IsInjective(runq) /\ cur \in Pids
       /\ cpu \in {"run", "unmasked", "halted", "off"}
       /\ Range(runq) = Threads("run") \ (IF cpu \in {"run", "off"} THEN {cur} ELSE {})
       /\ cpu \in {"run", "off"} => kt_state[cur] = "run"
  BY <1>0 DEF RunqOK
<1>11. t \notin Range(runq)
  BY <1>5, <1>10 DEF Threads
<1>12. q \in Seq(Pids) /\ IsInjective(q) /\ Range(q) = Range(runq) \cup {t}
  BY <1>4, <1>10, <1>11, AppendFacts
<1>13. q # <<>>
  <2>1. Range(<<>>) = {}
    BY DEF Range
  <2>2. t \in Range(q)
    BY <1>12
  <2> QED BY <2>1, <2>2
<1> HIDE DEF q
<1>14. CASE cpu = "halted"
  <2>1. cpu' = "run" /\ cur' = Head(q) /\ runq' = Tail(q)
    BY <1>1, <1>14
  <2>2. /\ Head(q) \in Pids /\ Head(q) \in Range(q) /\ Tail(q) \in Seq(Pids)
        /\ IsInjective(Tail(q)) /\ Range(Tail(q)) = Range(q) \ {Head(q)}
    BY <1>12, <1>13, HeadTailFacts
  <2>3. Range(q) = Threads("run")'
    BY <1>4, <1>6, <1>10, <1>12, <1>14 DEF Threads
  <2>4. kt_state'[cur'] = "run"
    BY <2>1, <2>2, <2>3 DEF Threads
  <2>5. RunqOK'
    BY <2>1, <2>2, <2>3, <2>4 DEF RunqOK
  <2> QED BY <1>2, <1>7, <1>8, <1>9, <2>5 DEF IInv
<1>15. CASE cpu # "halted"
  <2>1. cpu' = cpu /\ cur' = cur /\ runq' = q
    BY <1>1, <1>15
  <2>2. cpu = "run" => cur # t /\ kt_state'[cur] = "run"
    BY <1>5, <1>6, <1>10
  <2>3. Threads("run")' = Threads("run") \cup {t}
    BY <1>4, <1>6 DEF Threads
  <2>4. Range(q) = Threads("run")' \ (IF cpu \in {"run", "off"} THEN {cur} ELSE {})
    BY <1>1, <1>10, <1>12, <2>2, <2>3
  <2>5. RunqOK'
    BY <1>1, <1>10, <1>12, <2>1, <2>2, <2>4 DEF RunqOK
  <2> QED BY <1>2, <1>7, <1>8, <1>9, <2>5 DEF IInv
<1> QED BY <1>14, <1>15

(* The CPU stops until an interrupt. *)
LEMMA IntrWaitInv == ASSUME IInv, intr_wait PROVE IInv'
<1>0. TreeOK /\ RunqOK /\ DevqOK /\ ThreadsOK /\ CallsOK /\ StatusOK /\ RestOK
  BY DEF IInv
<1>1. /\ cpu = "unmasked" /\ cpu' = "halted" /\ UNCHANGED procs
      /\ UNCHANGED <<given, reaped, nDevice, panicked, missed, kt_state, kt_cancelled, runq, devq, pc, cur>>
  BY DEF intr_wait, history
<1>2. TreeOK' /\ StatusOK' /\ CallsOK'
  BY <1>1, SameProcs
<1>3. DevqOK' /\ ThreadsOK' /\ RestOK' /\ RunqOK'
  BY <1>0, <1>1 DEF DevqOK, ThreadsOK, RestOK, RunqOK, Threads, CancelWakes, procs
<1> QED BY <1>2, <1>3 DEF IInv

(* Another device's interrupt. *)
LEMMA OtherInterruptInv == ASSUME IInv, OtherInterrupt PROVE IInv'
<1>0. TreeOK /\ RunqOK /\ DevqOK /\ ThreadsOK /\ CallsOK /\ StatusOK /\ RestOK
  BY DEF IInv
<1>1. /\ cpu = "halted" /\ missed' = FALSE /\ UNCHANGED procs
      /\ IF runq = <<>> THEN cpu' = "unmasked" /\ UNCHANGED <<runq, cur>>
         ELSE cpu' = "run" /\ cur' = Head(runq) /\ runq' = Tail(runq)
      /\ UNCHANGED <<given, reaped, nDevice, panicked, kt_state, kt_cancelled, devq, pc>>
  BY DEF OtherInterrupt, history
<1>2. TreeOK' /\ StatusOK' /\ CallsOK'
  BY <1>1, SameProcs
<1>3. DevqOK' /\ ThreadsOK' /\ RestOK'
  BY <1>0, <1>1 DEF DevqOK, ThreadsOK, RestOK, Threads, CancelWakes, procs
<1>4. /\ runq \in Seq(Pids) /\ IsInjective(runq) /\ cur \in Pids /\ Range(runq) = Threads("run")
  BY <1>0, <1>1 DEF RunqOK
<1>5. Threads("run")' = Threads("run")
  BY <1>1 DEF Threads
<1>6. CASE runq = <<>>
  <2>1. RunqOK'
    BY <1>1, <1>4, <1>5, <1>6 DEF RunqOK
  <2> QED BY <1>2, <1>3, <2>1 DEF IInv
<1>7. CASE runq # <<>>
  <2>1. /\ Head(runq) \in Pids /\ Head(runq) \in Range(runq) /\ Tail(runq) \in Seq(Pids)
        /\ IsInjective(Tail(runq)) /\ Range(Tail(runq)) = Range(runq) \ {Head(runq)}
    BY <1>4, <1>7, HeadTailFacts
  <2>2. cpu' = "run" /\ cur' = Head(runq) /\ runq' = Tail(runq)
    BY <1>1, <1>7
  <2>3. kt_state'[cur'] = "run"
    BY <1>1, <1>4, <2>1, <2>2 DEF Threads
  <2>4. RunqOK'
    BY <1>4, <1>5, <2>1, <2>2, <2>3 DEF RunqOK
  <2> QED BY <1>2, <1>3, <2>4 DEF IInv
<1> QED BY <1>6, <1>7

(* idle halts the machine. *)
LEMMA HaltsInv == ASSUME IInv, idleproc_run_halts PROVE IInv'
<1>0. TreeOK /\ RunqOK /\ DevqOK /\ ThreadsOK /\ CallsOK /\ StatusOK /\ RestOK
  BY DEF IInv
<1>1. /\ cpu = "run" /\ cpu' = "off" /\ UNCHANGED procs
      /\ UNCHANGED <<given, reaped, nDevice, panicked, missed, kt_state, kt_cancelled, runq, devq, pc, cur>>
  BY DEF idleproc_run_halts, history, InUser
<1>2. TreeOK' /\ StatusOK' /\ CallsOK'
  BY <1>1, SameProcs
<1>3. DevqOK' /\ ThreadsOK' /\ RestOK' /\ RunqOK'
  BY <1>0, <1>1 DEF DevqOK, ThreadsOK, RestOK, RunqOK, Threads, CancelWakes, procs
<1> QED BY <1>2, <1>3 DEF IInv

(***************************************************************************)
(* Actions on processes.                                                   *)
(***************************************************************************)
LEMMA SpawnInv == ASSUME IInv, NEW p \in Pids, Spawn(p) PROVE IInv'
<1>0. TreeOK /\ RunqOK /\ DevqOK /\ ThreadsOK /\ CallsOK /\ StatusOK /\ RestOK
  BY DEF IInv
<1> DEFINE c == _proc_getid
<1>1. /\ cpu = "run" /\ cur = p /\ p # PID_IDLE /\ Taken # Pids
      /\ proc_create(p, c) /\ kthread_create(c) /\ runq' = Append(runq, c)
      /\ UNCHANGED <<given, reaped, nDevice, panicked, missed, devq, cur, cpu>>
  BY DEF Spawn, InUser, history
<1>2. Taken = Live /\ Live \subseteq Pids
  BY <1>0 DEF TreeOK, LinksAgree, Taken, Live
<1>3. c \in Pids \ Taken
  <2>1. next_pid \in Pids
    BY <1>0 DEF RestOK
  <2> QED BY <1>1, <1>2, <2>1, GetidFree
<1> HIDE DEF c
<1>4. p_state[p] = "running" /\ kt_state[p] = "run"
  BY <1>0, <1>1, RunningFacts
<1>5. TreeOK'
  BY <1>0, <1>1, <1>3, <1>4, CreateTree
<1>6. /\ p_state \in [Pids -> {"none", "running", "dead"}] /\ p_state[c] = "none"
      /\ p_state' = [p_state EXCEPT ![c] = "running"] /\ p_pproc' = [p_pproc EXCEPT ![c] = p]
      /\ p_status' = [p_status EXCEPT ![c] = 0] /\ next_pid' = NextPid(c)
      /\ p_pproc \in [Pids -> Pids \cup {NoPid}]
  BY <1>0, <1>1, <1>2, <1>3 DEF TreeOK, Live, proc_create
<1>7. /\ kt_state' = [kt_state EXCEPT ![c] = "run"]
      /\ kt_cancelled' = [kt_cancelled EXCEPT ![c] = FALSE]
      /\ pc' = [pc EXCEPT ![c] = User]
  BY <1>1 DEF kthread_create
<1>8. kt_state[c] = "exited" /\ c # p
  BY <1>0, <1>3, <1>4, <1>6 DEF ThreadsOK
<1>9. /\ kt_state' \in [Pids -> {"run", "sleep", "cancellable", "exited"}]
      /\ \A t \in Pids : kt_state'[t] = IF t = c THEN "run" ELSE kt_state[t]
  BY <1>0, <1>3, <1>7 DEF ThreadsOK
<1>10. ThreadsOK'
  <2>1. \A t \in Pids : p_state[t] = "running" <=> kt_state[t] # "exited"
    BY <1>0 DEF ThreadsOK
  <2>2. \A t \in Pids : p_state'[t] = "running" <=> kt_state'[t] # "exited"
    BY <1>3, <1>6, <1>9, <2>1
  <2> QED BY <1>9, <2>2 DEF ThreadsOK
<1>11. RunqOK'
  <2>1. /\ runq \in Seq(Pids) /\ IsInjective(runq) /\ Range(runq) = Threads("run") \ {p}
    BY <1>0, <1>1, RunningFacts
  <2>2. c \notin Range(runq)
    BY <1>8, <2>1 DEF Threads
  <2>3. /\ runq' \in Seq(Pids) /\ IsInjective(runq') /\ Range(runq') = Range(runq) \cup {c}
    BY <1>1, <1>3, <2>1, <2>2, AppendFacts
  <2>4. Range(runq') = Threads("run")' \ {p}
    BY <1>3, <1>8, <1>9, <2>1, <2>3 DEF Threads
  <2>5. kt_state'[p] = "run" /\ cpu' = "run" /\ cur' = p
    BY <1>1, <1>4, <1>8, <1>9
  <2> QED BY <2>3, <2>4, <2>5 DEF RunqOK
<1>12. DevqOK'
  <2>1. Threads("cancellable")' = Threads("cancellable")
    BY <1>8, <1>9 DEF Threads
  <2>2. kt_cancelled' \in [Pids -> BOOLEAN] /\ CancelWakes'
    BY <1>0, <1>7, <1>9 DEF DevqOK, CancelWakes
  <2> QED BY <1>0, <1>1, <2>1, <2>2 DEF DevqOK
<1>13. CallsOK'
  <2>1. pc \in [Pids -> [op : {"user", "waitany", "waitpid"}, child : Pids \cup {NoPid}]] /\ WaitsForChild
    BY <1>0 DEF CallsOK
  <2>2. User \in [op : {"user", "waitany", "waitpid"}, child : Pids \cup {NoPid}] /\ User.op = "user"
    BY DEF User
  <2>3. pc' \in [Pids -> [op : {"user", "waitany", "waitpid"}, child : Pids \cup {NoPid}]]
    BY <1>7, <2>1, <2>2
  <2>4. ASSUME NEW t \in Pids, pc'[t].op = "waitpid"
        PROVE  /\ p_state'[t] = "running"
               /\ pc'[t].child \in Live' \ {PID_IDLE} /\ p_pproc'[pc'[t].child] = t
    <3>1. t # c /\ pc'[t] = pc[t]
      BY <1>3, <1>7, <2>1, <2>2, <2>4
    <3>2. /\ p_state[t] = "running"
          /\ pc[t].child \in Live \ {PID_IDLE} /\ p_pproc[pc[t].child] = t
      BY <2>1, <2>4, <3>1 DEF WaitsForChild
    <3>3. pc[t].child \in Pids /\ pc[t].child # c
      BY <1>2, <1>3, <3>2
    <3> QED BY <1>6, <3>1, <3>2, <3>3 DEF Live
  <2>5. WaitsForChild'
    BY <2>4 DEF WaitsForChild
  <2> QED BY <2>3, <2>5 DEF CallsOK
<1>14. StatusOK'
  <2>1. /\ p_status \in [Pids -> Statuses] /\ given \in [Pids -> Statuses]
        /\ reaped \in [pid : Pids \cup {NoPid}, status : Statuses]
        /\ \A t \in Pids : p_state[t] = "dead" => p_status[t] = given[t]
        /\ StatusDelivered
    BY <1>0 DEF StatusOK
  <2>2. p_status' \in [Pids -> Statuses]
    BY <1>6, <2>1, PidFacts
  <2>3. \A t \in Pids : p_state'[t] = "dead" => p_status'[t] = given'[t]
    BY <1>1, <1>3, <1>6, <2>1
  <2>4. StatusDelivered'
    <3> SUFFICES ASSUME reaped.pid # NoPid
                 PROVE  p_state'[reaped.pid] # "none" \/ reaped.status = given[reaped.pid]
      BY <1>1 DEF StatusDelivered
    <3>1. reaped.pid \in Pids
      BY <2>1
    <3>2. p_state[reaped.pid] # "none" \/ reaped.status = given[reaped.pid]
      BY <2>1 DEF StatusDelivered
    <3> QED BY <1>6, <3>1, <3>2
  <2> QED BY <1>1, <2>1, <2>2, <2>3, <2>4 DEF StatusOK
<1>15. RestOK'
  <2>1. c \in 0 .. PROC_MAX_COUNT - 1 /\ PROC_MAX_COUNT \in Nat /\ PROC_MAX_COUNT > 0
    BY <1>3, ProcsAssumption DEF Pids
  <2>2. c + 1 \in Nat
    BY <2>1
  <2>3. (c + 1) % PROC_MAX_COUNT \in 0 .. PROC_MAX_COUNT - 1
    BY <2>1, <2>2
  <2>4. next_pid' \in Pids
    BY <1>6, <2>3 DEF NextPid, Pids
  <2> QED BY <1>0, <1>1, <2>4 DEF RestOK
<1> QED BY <1>5, <1>10, <1>11, <1>12, <1>13, <1>14, <1>15 DEF IInv

(* A process exits by itself. *)
LEMMA ExitInv == ASSUME IInv, NEW p \in Pids, NEW s \in Statuses, do_exit(p, s) PROVE IInv'
<1>0. RunqOK /\ ThreadsOK /\ DevqOK
  BY DEF IInv
<1>1. /\ InUser(p) /\ p # PID_IDLE /\ (p = PID_INIT => p_children[p] = <<>>)
      /\ kthread_exit(p, s, kt_state, runq) /\ UNCHANGED <<kt_cancelled, devq>>
  BY DEF do_exit
<1>2. cpu = "run" /\ cur = p
  BY <1>1 DEF InUser
<1>3. /\ runq \in Seq(Pids) /\ IsInjective(runq) /\ kt_state[p] = "run"
      /\ Range(runq) = {t \in Pids : kt_state[t] = "run"} \ {p}
  BY <1>0, <1>2, RunningFacts DEF Threads
<1>4. kt_state \in [Pids -> {"run", "sleep", "cancellable", "exited"}]
  BY <1>0 DEF ThreadsOK
<1>5. /\ TreeOK' /\ RunqOK' /\ ThreadsOK' /\ CallsOK' /\ StatusOK' /\ RestOK'
      /\ \A t \in Pids \ {p} : kt_state'[t] = "cancellable" <=> kt_state[t] = "cancellable"
      /\ kt_state'[p] = "exited"
  BY <1>1, <1>3, <1>4, ExitSteps
<1>6. DevqOK'
  BY <1>0, <1>1, <1>3, <1>5, SameDevq
<1> QED BY <1>5, <1>6 DEF IInv

(* sched_cancel of some processes by one that goes on. *)
LEMMA CancelInv ==
  ASSUME IInv, cpu = "run", NEW S, S \subseteq Live, sched_cancel(S),
         kt_state' = CancelStates(S), runq' = CancelRunq(S),
         UNCHANGED procs, UNCHANGED <<given, reaped, nDevice, panicked, missed, pc, cur, cpu>>
  PROVE  IInv'
<1>0. TreeOK /\ RunqOK /\ DevqOK /\ ThreadsOK /\ CallsOK /\ StatusOK /\ RestOK
  BY DEF IInv
<1>1. TreeOK' /\ StatusOK' /\ CallsOK'
  BY SameProcs
<1>2. /\ runq' \in Seq(Pids) /\ IsInjective(runq')
      /\ Range(runq') = {t \in Pids : kt_state'[t] = "run"} \ {cur}
      /\ kt_state' \in [Pids -> {"run", "sleep", "cancellable", "exited"}]
      /\ \A t \in Pids : /\ kt_state[t] = "run" => kt_state'[t] = "run"
                         /\ kt_state'[t] = "exited" <=> kt_state[t] = "exited"
                         /\ kt_state'[t] = "cancellable"
                              <=> (kt_state[t] = "cancellable" /\ t \notin Woken(S))
  BY <1>0, CancelledRunq
<1>3. kt_state \in [Pids -> {"run", "sleep", "cancellable", "exited"}] /\ p_state' = p_state
  BY <1>0 DEF ThreadsOK, procs
<1>4. DevqOK'
  BY <1>0, <1>2, <1>3, CancelledDevq
<1>5. ThreadsOK'
  BY <1>0, <1>2, <1>3, SameThreads
<1>6. RunqOK'
  <2>1. cur \in Pids /\ kt_state[cur] = "run"
    BY <1>0, RunningFacts
  <2>2. kt_state'[cur] = "run" /\ cur' = cur /\ cpu' = "run"
    BY <1>2, <2>1
  <2> QED BY <1>2, <2>1, <2>2 DEF RunqOK, Threads
<1>7. RestOK'
  BY <1>0 DEF RestOK, procs
<1> QED BY <1>1, <1>4, <1>5, <1>6, <1>7 DEF IInv

(* proc_kill of a child. *)
LEMMA KillInv == ASSUME IInv, NEW p \in Pids, NEW c \in Pids, proc_kill(p, c) PROVE IInv'
<1>0. TreeOK /\ RunqOK /\ DevqOK /\ ThreadsOK /\ CallsOK /\ StatusOK /\ RestOK
  BY DEF IInv
<1>1. /\ cpu = "run" /\ cur = p /\ c \in Range(p_children[p])
      /\ sched_cancel({c}) /\ kt_state' = CancelStates({c}) /\ runq' = CancelRunq({c})
      /\ UNCHANGED procs /\ UNCHANGED <<given, reaped, nDevice, panicked, missed, pc, cur, cpu>>
  BY DEF proc_kill, InUser, history
<1>2. p \in Live /\ p_state[p] = "running" /\ kt_state[p] = "run"
  BY <1>0, <1>1, RunningFacts
<1>3. {c} \subseteq Live
  BY <1>0, <1>1, <1>2 DEF TreeOK, LinksAgree
<1> QED BY <1>1, <1>3, CancelInv

(* proc_kill_all, the caller's own exit included. *)
LEMMA KillAllInv == ASSUME IInv, NEW p \in Pids, proc_kill_all(p) PROVE IInv'
<1>0. TreeOK /\ RunqOK /\ DevqOK /\ ThreadsOK /\ StatusOK
  BY DEF IInv
<1> DEFINE S == Range(proc_list) \ {p, PID_IDLE, PID_INIT, 2}
           Exits == p # PID_INIT /\ Last(proc_list) # 2
<1>1. /\ InUser(p) /\ p # PID_IDLE /\ sched_cancel(S)
      /\ IF Exits
         THEN kthread_exit(p, p_status[p], CancelStates(S), CancelRunq(S))
         ELSE /\ kt_state' = CancelStates(S) /\ runq' = CancelRunq(S)
              /\ UNCHANGED <<procs, history, panicked, missed, pc, cur, cpu>>
  BY DEF proc_kill_all
<1>2. S \subseteq Live
  BY <1>0 DEF TreeOK, LinksAgree
<1>3. cpu = "run" /\ cur = p
  BY <1>1 DEF InUser
<1> HIDE DEF S
<1>4. CASE ~Exits
  <2>1. /\ kt_state' = CancelStates(S) /\ runq' = CancelRunq(S)
        /\ UNCHANGED procs /\ UNCHANGED <<given, reaped, nDevice, panicked, missed, pc, cur, cpu>>
    BY <1>1, <1>4 DEF history
  <2> QED BY <1>1, <1>2, <1>3, <2>1, CancelInv
<1>5. CASE Exits
  <2> DEFINE st == CancelStates(S)
             q == CancelRunq(S)
  <2>1. kthread_exit(p, p_status[p], st, q) /\ p # PID_INIT
    BY <1>1, <1>5
  <2>2. /\ q \in Seq(Pids) /\ IsInjective(q)
        /\ Range(q) = {t \in Pids : st[t] = "run"} \ {p}
        /\ st \in [Pids -> {"run", "sleep", "cancellable", "exited"}]
        /\ \A t \in Pids : /\ kt_state[t] = "run" => st[t] = "run"
                           /\ st[t] = "sleep" <=> kt_state[t] = "sleep"
                           /\ st[t] = "exited" <=> kt_state[t] = "exited"
                           /\ st[t] = "cancellable" <=> (kt_state[t] = "cancellable" /\ t \notin Woken(S))
    BY <1>0, <1>2, <1>3, CancelledRunq
  <2> HIDE DEF st, q
  <2>3. p_status[p] \in Statuses
    BY <1>0 DEF StatusOK
  <2>4. /\ TreeOK' /\ RunqOK' /\ ThreadsOK' /\ CallsOK' /\ StatusOK' /\ RestOK'
        /\ \A t \in Pids \ {p} : kt_state'[t] = "cancellable" <=> st[t] = "cancellable"
        /\ kt_state'[p] = "exited"
    BY <1>1, <2>1, <2>2, <2>3, ExitSteps
  <2>5. kt_state[p] = "run" /\ kt_state \in [Pids -> {"run", "sleep", "cancellable", "exited"}]
    BY <1>0, <1>3, RunningFacts DEF ThreadsOK
  <2>6. DevqOK'
    <3>1. \A t \in Pids : kt_state'[t] = "cancellable"
                            <=> (kt_state[t] = "cancellable" /\ t \notin Woken(S))
      BY <2>2, <2>4, <2>5
    <3> QED BY <1>0, <1>1, <2>5, <3>1, CancelledDevq
  <2> QED BY <2>4, <2>6 DEF IInv
<1> QED BY <1>4, <1>5

(* A thread goes to sleep on the p_wait of its process. *)
LEMMA WaitSleepInv ==
  ASSUME IInv, NEW p \in Pids, cpu = "run", cur = p, NEW op \in {"waitany", "waitpid"},
         NEW c \in Pids \cup {NoPid}, Sleep(p, op, c),
         op = "waitpid" => c \in Live \ {PID_IDLE} /\ p_pproc[c] = p
  PROVE  IInv'
<1>0. TreeOK /\ RunqOK /\ DevqOK /\ ThreadsOK /\ CallsOK /\ StatusOK /\ RestOK
  BY DEF IInv
<1>1. /\ kt_state' = [kt_state EXCEPT ![cur] = "sleep"]
      /\ pc' = [pc EXCEPT ![p] = [op |-> op, child |-> c]] /\ sched_switch(runq)
      /\ UNCHANGED procs /\ UNCHANGED <<given, reaped, nDevice, panicked, missed, kt_cancelled, devq>>
  BY DEF Sleep, history
<1>2. TreeOK' /\ StatusOK'
  BY <1>1, SameProcs
<1>3. /\ RunqOK' /\ kt_state' \in [Pids -> {"run", "sleep", "cancellable", "exited"}]
      /\ \A t \in Pids : kt_state'[t] = IF t = p THEN "sleep" ELSE kt_state[t]
  BY <1>0, <1>1, SleepingRunq
<1>4. kt_state[p] = "run" /\ p_state[p] = "running"
  BY <1>0, RunningFacts
<1>5. p_state' = p_state /\ p_pproc' = p_pproc /\ next_pid' = next_pid
  BY <1>1 DEF procs
<1>6. ThreadsOK'
  BY <1>0, <1>3, <1>4, <1>5, SameThreads
<1>7. DevqOK'
  BY <1>0, <1>1, <1>3, <1>4, SameDevq
<1>8. CallsOK'
  <2>1. pc \in [Pids -> [op : {"user", "waitany", "waitpid"}, child : Pids \cup {NoPid}]] /\ WaitsForChild
    BY <1>0 DEF CallsOK
  <2>2. pc' \in [Pids -> [op : {"user", "waitany", "waitpid"}, child : Pids \cup {NoPid}]]
    BY <1>1, <2>1
  <2>3. pc'[p].op = op /\ pc'[p].child = c /\ \A t \in Pids \ {p} : pc'[t] = pc[t]
    BY <1>1, <2>1
  <2>4. Live' = Live
    BY <1>5 DEF Live
  <2>5. WaitsForChild'
    BY <1>4, <1>5, <2>1, <2>3, <2>4 DEF WaitsForChild
  <2> QED BY <2>2, <2>5 DEF CallsOK
<1>9. RestOK'
  BY <1>0, <1>1, <1>5 DEF RestOK
<1> QED BY <1>2, <1>3, <1>6, <1>7, <1>8, <1>9 DEF IInv

(* A wait ends with child c, which has exited. *)
LEMMA ReapInv ==
  ASSUME IInv, NEW p \in Pids, cpu = "run", cur = p, NEW c \in Live,
         p_pproc[c] = p, p_state[c] = "dead", Reap(p, c),
         pc' = [pc EXCEPT ![p] = User],
         UNCHANGED <<kt_state, kt_cancelled, runq, devq, cur, cpu>>
  PROVE  IInv'
<1>0. TreeOK /\ RunqOK /\ DevqOK /\ ThreadsOK /\ CallsOK /\ StatusOK /\ RestOK
  BY DEF IInv
<1>1. p_state[p] = "running" /\ c \in Pids /\ c # p
  BY <1>0, RunningFacts DEF Live
<1>2. TreeOK' /\ Live' = Live \ {c}
  BY <1>0, <1>1, ReapTree
<1>3. /\ reaped' = [pid |-> c, status |-> p_status[c]]
      /\ p_state' = [p_state EXCEPT ![c] = "none"] /\ p_pproc' = [p_pproc EXCEPT ![c] = NoPid]
      /\ UNCHANGED <<p_status, next_pid, given, nDevice, panicked, missed>>
  BY DEF Reap
<1>4. /\ p_state \in [Pids -> {"none", "running", "dead"}] /\ p_pproc \in [Pids -> Pids \cup {NoPid}]
  BY <1>0 DEF TreeOK
<1>5. \A t \in Pids : p_state'[t] = IF t = c THEN "none" ELSE p_state[t]
  BY <1>1, <1>3, <1>4
<1>6. RunqOK' /\ DevqOK' /\ RestOK'
  BY <1>0, <1>3 DEF RunqOK, DevqOK, RestOK, Threads, CancelWakes
<1>7. ThreadsOK'
  BY <1>0, <1>5 DEF ThreadsOK
<1>8. CallsOK'
  <2>1. pc \in [Pids -> [op : {"user", "waitany", "waitpid"}, child : Pids \cup {NoPid}]] /\ WaitsForChild
    BY <1>0 DEF CallsOK
  <2>2. User \in [op : {"user", "waitany", "waitpid"}, child : Pids \cup {NoPid}] /\ User.op = "user"
    BY DEF User
  <2>3. /\ pc' \in [Pids -> [op : {"user", "waitany", "waitpid"}, child : Pids \cup {NoPid}]]
        /\ pc'[p] = User /\ \A t \in Pids \ {p} : pc'[t] = pc[t]
    BY <2>1, <2>2
  <2>4. ASSUME NEW t \in Pids, pc'[t].op = "waitpid"
        PROVE  /\ p_state'[t] = "running"
               /\ pc'[t].child \in Live' \ {PID_IDLE} /\ p_pproc'[pc'[t].child] = t
    <3>1. t # p
      BY <2>2, <2>3, <2>4
    <3>2. /\ p_state[t] = "running"
          /\ pc[t].child \in Live \ {PID_IDLE} /\ p_pproc[pc[t].child] = t
      BY <2>1, <2>3, <2>4, <3>1 DEF WaitsForChild
    <3>3. pc[t].child \in Pids /\ pc[t].child # c /\ pc'[t] = pc[t]
      BY <2>3, <3>1, <3>2 DEF Live
    <3>4. p_pproc'[pc[t].child] = p_pproc[pc[t].child]
      BY <1>3, <1>4, <3>3
    <3> QED BY <1>2, <1>5, <3>2, <3>3, <3>4
  <2>5. WaitsForChild'
    BY <2>4 DEF WaitsForChild
  <2> QED BY <2>3, <2>5 DEF CallsOK
<1>9. StatusOK'
  <2>1. /\ p_status \in [Pids -> Statuses] /\ given \in [Pids -> Statuses]
        /\ \A t \in Pids : p_state[t] = "dead" => p_status[t] = given[t]
    BY <1>0 DEF StatusOK
  <2>2. reaped' \in [pid : Pids \cup {NoPid}, status : Statuses]
    BY <1>1, <1>3, <2>1
  <2>3. reaped'.pid = c /\ reaped'.status = given[c]
    BY <1>1, <1>3, <2>1
  <2>4. StatusDelivered'
    BY <1>3, <2>3 DEF StatusDelivered
  <2>5. \A t \in Pids : p_state'[t] = "dead" => p_status'[t] = given'[t]
    BY <1>3, <1>5, <2>1
  <2> QED BY <1>3, <2>1, <2>2, <2>4, <2>5 DEF StatusOK
<1> QED BY <1>2, <1>6, <1>7, <1>8, <1>9 DEF IInv

(***************************************************************************)
(* What do_waitpid_any finds: a child that has exited.                     *)
(***************************************************************************)
LEMMA DeadChildFacts ==
  ASSUME IInv, cpu = "run",
         Keep(p_children[cur], {c \in Pids : p_state[c] = "dead"}) # <<>>
  PROVE  LET c == Head(Keep(p_children[cur], {d \in Pids : p_state[d] = "dead"}))
         IN c \in Live /\ p_pproc[c] = cur /\ p_state[c] = "dead"
<1> DEFINE D == {d \in Pids : p_state[d] = "dead"}
           k == Keep(p_children[cur], D)
<1>1. TreeOK /\ RunqOK /\ ThreadsOK
  BY DEF IInv
<1>2. cur \in Pids /\ cur \in Live /\ p_state[cur] = "running"
  BY <1>1, RunningFacts
<1>3. p_children[cur] \in Seq(Pids) /\ Range(p_children[cur]) = {d \in Live : p_pproc[d] = cur}
  BY <1>1, <1>2 DEF TreeOK, LinksAgree
<1>4. k \in Seq(Pids) /\ Range(k) = Range(p_children[cur]) \cap D
  BY <1>3, KeepFacts
<1>5. k # <<>>
  OBVIOUS
<1> HIDE DEF k
<1>6. Head(k) \in Range(k)
  BY <1>4, <1>5, HeadTailFacts
<1>7. Head(k) \in Live /\ p_pproc[Head(k)] = cur /\ p_state[Head(k)] = "dead"
  BY <1>3, <1>4, <1>6
<1> QED BY <1>7 DEF k

(* How the three waits go on: asleep, with a child, or in a panic. *)
LEMMA WaitAnyCases ==
  ASSUME IInv, NEW p \in Pids, do_waitpid_any(p)
  PROVE  /\ cpu = "run" /\ cur = p
         /\ \/ Sleep(p, "waitany", NoPid)
            \/ \E c \in Live : /\ p_pproc[c] = p /\ p_state[c] = "dead" /\ Reap(p, c)
                               /\ pc' = [pc EXCEPT ![p] = User]
                               /\ UNCHANGED <<kt_state, kt_cancelled, runq, devq, cur, cpu>>
<1> DEFINE k == Keep(p_children[p], {c \in Pids : p_state[c] = "dead"})
<1>1. /\ cpu = "run" /\ cur = p
      /\ IF k = <<>> THEN Sleep(p, "waitany", NoPid)
         ELSE /\ Reap(p, Head(k))
              /\ pc' = [pc EXCEPT ![p] = User]
              /\ UNCHANGED <<kt_state, kt_cancelled, runq, devq, cur, cpu>>
  BY DEF do_waitpid_any
<1>2. CASE k = <<>>
  BY <1>1, <1>2
<1>3. CASE k # <<>>
  <2>1. Head(k) \in Live /\ p_pproc[Head(k)] = p /\ p_state[Head(k)] = "dead"
    BY <1>1, <1>3, DeadChildFacts
  <2> HIDE DEF k
  <2> QED BY <1>1, <1>3, <2>1
<1> QED BY <1>2, <1>3

(* What a thread finds that comes back from the sleep in do_waitpid. *)
LEMMA WaitWokenCases ==
  ASSUME IInv, NEW p \in Pids, do_waitpid_woken(p)
  PROVE  /\ cpu = "run" /\ cur = p
         /\ UNCHANGED <<kt_state, kt_cancelled, runq, devq, cur, cpu>>
         /\ \/ \E c \in Live : /\ p_pproc[c] = p /\ p_state[c] = "dead" /\ Reap(p, c)
                               /\ pc' = [pc EXCEPT ![p] = User]
            \/ panicked' = "live thread destroyed" /\ UNCHANGED <<procs, history, missed, pc>>
<1> DEFINE c == pc[p].child
<1>1. /\ cpu = "run" /\ cur = p /\ pc[p].op = "waitpid"
      /\ IF kt_state[c] = "exited" THEN Reap(p, c) /\ pc' = [pc EXCEPT ![p] = User]
         ELSE panicked' = "live thread destroyed" /\ UNCHANGED <<procs, history, missed, pc>>
      /\ UNCHANGED <<kt_state, kt_cancelled, runq, devq, cur, cpu>>
  BY DEF do_waitpid_woken
<1>2. c \in Live /\ c \in Pids /\ p_pproc[c] = p
  BY <1>1 DEF IInv, CallsOK, WaitsForChild, Live
<1>3. CASE kt_state[c] = "exited"
  <2>1. p_state[c] # "running" /\ p_state[c] # "none" /\ p_state[c] \in {"none", "running", "dead"}
    BY <1>2, <1>3 DEF IInv, ThreadsOK, TreeOK, Live
  <2> HIDE DEF c
  <2> QED BY <1>1, <1>2, <1>3, <2>1
<1>4. CASE kt_state[c] # "exited"
  BY <1>1, <1>4
<1> QED BY <1>3, <1>4

(* do_waitpid for any child. *)
LEMMA WaitAnyInv == ASSUME IInv, NEW p \in Pids, do_waitpid_any(p) PROVE IInv'
<1>1. cpu = "run" /\ cur = p
  BY WaitAnyCases
<1>2. CASE Sleep(p, "waitany", NoPid)
  BY <1>1, <1>2, WaitSleepInv
<1>3. ASSUME NEW c \in Live, p_pproc[c] = p, p_state[c] = "dead", Reap(p, c),
             pc' = [pc EXCEPT ![p] = User],
             UNCHANGED <<kt_state, kt_cancelled, runq, devq, cur, cpu>>
      PROVE  IInv'
  BY <1>1, <1>3, ReapInv
<1> QED BY <1>2, <1>3, WaitAnyCases

(* do_waitpid for one child. *)
LEMMA WaitPidInv == ASSUME IInv, NEW p \in Pids, NEW c \in Pids, do_waitpid_pid(p, c) PROVE IInv'
<1>1. /\ cpu = "run" /\ cur = p /\ c \in Range(p_children[p]) /\ Sleep(p, "waitpid", c)
  BY DEF do_waitpid_pid, InUser
<1>2. TreeOK /\ RunqOK /\ ThreadsOK
  BY DEF IInv
<1>3. p_state[p] = "running" /\ p \in Live
  BY <1>1, <1>2, RunningFacts
<1>4. c \in Live /\ p_pproc[c] = p
  BY <1>1, <1>2, <1>3 DEF TreeOK, LinksAgree
<1>5. c # PID_IDLE
  BY <1>2, <1>4, PidFacts DEF TreeOK, ParentsRun
<1> QED BY <1>1, <1>4, <1>5, WaitSleepInv

(* do_waitpid after its sleep. *)
LEMMA WaitWokenInv == ASSUME IInv, NEW p \in Pids, do_waitpid_woken(p) PROVE IInv'
<1>1. cpu = "run" /\ cur = p /\ UNCHANGED <<kt_state, kt_cancelled, runq, devq, cur, cpu>>
  BY WaitWokenCases
<1>2. ASSUME NEW c \in Live, p_pproc[c] = p, p_state[c] = "dead", Reap(p, c),
             pc' = [pc EXCEPT ![p] = User]
      PROVE  IInv'
  BY <1>1, <1>2, ReapInv
<1>3. CASE panicked' = "live thread destroyed" /\ UNCHANGED <<procs, history, missed, pc>>
  <2>1. TreeOK' /\ StatusOK' /\ CallsOK'
    BY <1>3, SameProcs DEF history
  <2>2. RunqOK' /\ DevqOK' /\ ThreadsOK' /\ RestOK'
    BY <1>1, <1>3 DEF IInv, RunqOK, DevqOK, ThreadsOK, RestOK, Threads, CancelWakes, procs, history
  <2> QED BY <2>1, <2>2 DEF IInv
<1> QED BY <1>2, <1>3, WaitWokenCases

(* A step that changes nothing. *)
LEMMA StutterInv == ASSUME IInv, UNCHANGED vars PROVE IInv'
<1>1. /\ UNCHANGED procs /\ UNCHANGED <<given, reaped, nDevice>>
      /\ UNCHANGED <<kt_state, kt_cancelled, runq, devq, pc, cur, cpu, panicked, missed>>
  BY DEF vars, threads, history
<1>2. TreeOK' /\ StatusOK' /\ CallsOK'
  BY <1>1, SameProcs
<1>3. RunqOK' /\ DevqOK' /\ ThreadsOK' /\ RestOK'
  BY <1>1 DEF IInv, RunqOK, DevqOK, ThreadsOK, RestOK, Threads, CancelWakes, procs
<1> QED BY <1>2, <1>3 DEF IInv

----------------------------------------------------------------------------
(***************************************************************************)
(* The machine starts with idle and init.                                  *)
(***************************************************************************)
LEMMA InitInv == Init => IInv
<1> SUFFICES ASSUME Init PROVE IInv
  OBVIOUS
<1>0. 0 \in Pids /\ 1 \in Pids /\ 2 \in Pids /\ NoPid \notin Pids
  BY ProcsAssumption DEF Pids, NoPid
<1>1. /\ proc_list = <<0, 1>> /\ Len(proc_list) = 2 /\ DOMAIN proc_list = 1 .. 2
      /\ proc_list[1] = 0 /\ proc_list[2] = 1 /\ proc_list \in Seq(Pids)
  BY <1>0 DEF Init, PID_IDLE, PID_INIT
<1>2. Range(proc_list) = {0, 1} /\ IsInjective(proc_list)
  <2>1. \A i : i \in 1 .. 2 <=> i = 1 \/ i = 2
    OBVIOUS
  <2> QED BY <1>1, <2>1 DEF Range, IsInjective
<1>3. /\ p_state \in [Pids -> {"none", "running", "dead"}]
      /\ \A p \in Pids : p_state[p] = IF p \in {0, 1} THEN "running" ELSE "none"
  BY DEF Init, PID_IDLE, PID_INIT
<1>4. /\ p_pproc \in [Pids -> Pids \cup {NoPid}]
      /\ \A p \in Pids : p_pproc[p] = IF p = 1 THEN 0 ELSE NoPid
  BY <1>0 DEF Init, PID_IDLE, PID_INIT
<1>5. /\ p_children \in [Pids -> Seq(Pids)]
      /\ \A p \in Pids : p_children[p] = IF p = 0 THEN <<1>> ELSE <<>>
  <2>1. <<1>> \in Seq(Pids) /\ <<>> \in Seq(Pids)
    BY <1>0
  <2> QED BY <2>1 DEF Init, PID_IDLE, PID_INIT
<1>6. Live = {0, 1}
  BY <1>0, <1>3 DEF Live
<1>7. LinksAgree
  <2>1. IsInjective(<<1>>) /\ Range(<<1>>) = {1} /\ IsInjective(<<>>) /\ Range(<<>>) = {}
    BY DEF IsInjective, Range
  <2>2. {d \in Live : p_pproc[d] = 0} = {1} /\ {d \in Live : p_pproc[d] = 1} = {}
    BY <1>0, <1>4, <1>6
  <2> QED BY <1>0, <1>2, <1>5, <1>6, <2>1, <2>2 DEF LinksAgree
<1>8. ParentsRun
  <2>1. \A i, j \in 1 .. Len(proc_list) : Precedes(proc_list[i], proc_list[j]) => i < j
    <3> SUFFICES ASSUME NEW i \in 1 .. 2, NEW j \in 1 .. 2, Precedes(proc_list[i], proc_list[j])
                 PROVE  i < j
      BY <1>1
    <3>1. \A n \in 1 .. 2 : n = 1 \/ n = 2
      OBVIOUS
    <3> QED BY <1>0, <1>1, <1>4, <3>1 DEF Precedes, PID_IDLE, PID_INIT
  <2> QED BY <1>0, <1>3, <1>4, <1>6, <2>1 DEF ParentsRun, PID_IDLE, PID_INIT
<1>9. TreeOK
  BY <1>1, <1>3, <1>4, <1>5, <1>7, <1>8 DEF TreeOK
<1>10. /\ kt_state \in [Pids -> {"run", "sleep", "cancellable", "exited"}]
       /\ \A p \in Pids : kt_state[p] = IF p \in {0, 1} THEN "run" ELSE "exited"
  BY DEF Init, PID_IDLE, PID_INIT
<1>11. ThreadsOK
  BY <1>3, <1>10 DEF ThreadsOK
<1>12. RunqOK
  <2>1. /\ <<1>> \in Seq(Pids) /\ IsInjective(<<1>>) /\ Range(<<1>>) = {1}
    BY <1>0 DEF IsInjective, Range
  <2>2. Threads("run") \ {0} = {1}
    BY <1>0, <1>10 DEF Threads
  <2>3. cpu = "run" /\ cur = 0 /\ runq = <<1>>
    BY DEF Init, PID_IDLE, PID_INIT
  <2> QED BY <1>0, <1>10, <2>1, <2>2, <2>3 DEF RunqOK
<1>13. DevqOK
  <2>1. devq = <<>> /\ kt_cancelled = [p \in Pids |-> FALSE]
    BY DEF Init
  <2>2. <<>> \in Seq(Pids) /\ IsInjective(<<>>) /\ Range(<<>>) = {}
    BY DEF IsInjective, Range
  <2>3. Threads("cancellable") = {}
    BY <1>10 DEF Threads
  <2>4. CancelWakes
    BY <1>10 DEF CancelWakes
  <2> QED BY <2>1, <2>2, <2>3, <2>4 DEF DevqOK
<1>14. CallsOK
  <2>1. pc = [p \in Pids |-> User]
    BY DEF Init
  <2>2. User \in [op : {"user", "waitany", "waitpid"}, child : Pids \cup {NoPid}] /\ User.op = "user"
    BY DEF User
  <2> QED BY <2>1, <2>2 DEF CallsOK, WaitsForChild
<1>15. StatusOK
  <2>1. /\ p_status = [p \in Pids |-> 0] /\ given = [p \in Pids |-> 0]
        /\ reaped = [pid |-> NoPid, status |-> 0]
    BY DEF Init
  <2> QED BY <2>1, PidFacts DEF StatusOK, StatusDelivered
<1>16. RestOK
  BY <1>0, ProcsAssumption DEF Init, RestOK
<1> QED BY <1>9, <1>11, <1>12, <1>13, <1>14, <1>15, <1>16 DEF IInv

(***************************************************************************)
(* Every step keeps the invariant.                                         *)
(***************************************************************************)
LEMMA NextInv == IInv /\ [Next]_vars => IInv'
<1> SUFFICES ASSUME IInv, [Next]_vars PROVE IInv'
  OBVIOUS
<1>1. CASE UNCHANGED vars
  BY <1>1, StutterInv
<1>2. ASSUME NEW p \in Pids, Yield(p) PROVE IInv'
  BY <1>2, YieldInv
<1>3. ASSUME NEW p \in Pids, sched_cancellable_sleep_on(p) PROVE IInv'
  BY <1>3, DeviceSleepInv
<1>4. ASSUME NEW p \in Pids, Spawn(p) PROVE IInv'
  BY <1>4, SpawnInv
<1>5. ASSUME NEW p \in Pids, NEW s \in Statuses, do_exit(p, s) PROVE IInv'
  BY <1>5, ExitInv
<1>6. ASSUME NEW p \in Pids, NEW c \in Pids, proc_kill(p, c) PROVE IInv'
  BY <1>6, KillInv
<1>7. ASSUME NEW p \in Pids, NEW c \in Pids, do_waitpid_pid(p, c) PROVE IInv'
  BY <1>7, WaitPidInv
<1>8. ASSUME NEW p \in Pids, proc_kill_all(p) PROVE IInv'
  BY <1>8, KillAllInv
<1>9. ASSUME NEW p \in Pids, do_waitpid_any(p) PROVE IInv'
  BY <1>9, WaitAnyInv
<1>10. ASSUME NEW p \in Pids, do_waitpid_woken(p) PROVE IInv'
  BY <1>10, WaitWokenInv
<1>11. CASE Interrupt \/ intr_wait \/ OtherInterrupt \/ idleproc_run_halts
  BY <1>11, InterruptInv, IntrWaitInv, OtherInterruptInv, HaltsInv
<1>12. CASE Stopped
  BY <1>1, <1>12 DEF Stopped
<1> QED BY <1>1, <1>2, <1>3, <1>4, <1>5, <1>6, <1>7, <1>8, <1>9, <1>10, <1>11, <1>12 DEF Next

(* The inductive invariant holds in every reachable state. *)
LEMMA IInvHolds == Spec => []IInv
  BY InitInv, NextInv, PTL DEF Spec

(***************************************************************************)
(* Links, queues, calls and cancellation stay consistent together, through *)
(* every order of spawns, exits, adoptions, waits, kills and interrupts,   *)
(* for any number of pids and device waits.                                *)
(***************************************************************************)
THEOREM ProcsConsistent == Spec => []ProcsInv
  BY IInvHolds, IInvGives, PTL

(***************************************************************************)
(* do_waitpid returns the status that the child gave to exit, whoever was  *)
(* its parent then, also when its pid is used again later.                 *)
(***************************************************************************)
THEOREM StatusesDelivered == Spec => []StatusDelivered
  BY IInvHolds, IInvGives, PTL

----------------------------------------------------------------------------
(***************************************************************************)
(* Refinement: each step of the kernel creates, ends or removes one        *)
(* process of the abstract tree, or leaves the tree alone.                 *)
(***************************************************************************)
LEMMA ExitInTree ==
  ASSUME IInv, NEW p \in Pids, InUser(p), p # PID_IDLE, NEW status, proc_cleanup(p, status)
  PROVE  Tree!Exit(p)
<1>1. cpu = "run" /\ cur = p /\ TreeOK /\ RunqOK /\ ThreadsOK
  BY DEF InUser, IInv
<1>2. p_state[p] = "running" /\ p \in Live
  BY <1>1, RunningFacts
<1>3. Range(p_children[p]) = {d \in Live : p_pproc[d] = p}
  BY <1>1, <1>2 DEF TreeOK, LinksAgree
<1>4. Tree!Children(p) = Range(p_children[p])
  BY <1>3 DEF Tree!Children, Live
<1>5. /\ p_state' = [p_state EXCEPT ![p] = "dead"]
      /\ p_pproc' = [c \in Pids |-> IF c \in Range(p_children[p]) THEN PID_INIT ELSE p_pproc[c]]
  BY DEF proc_cleanup, proc_initproc
<1> QED BY <1>2, <1>4, <1>5 DEF Tree!Exit

(* Reaping a dead child is ProcTree's Reap. *)
LEMMA ReapInTree ==
  ASSUME IInv, NEW p \in Pids, cpu = "run", cur = p, NEW c \in Live,
         p_pproc[c] = p, p_state[c] = "dead", Reap(p, c)
  PROVE  c \in Pids /\ Tree!Reap(p, c)
<1>1. p_state[p] = "running"
  BY RunningFacts DEF IInv
<1>2. c \in Tree!Children(p) /\ c \in Pids
  BY DEF Tree!Children, Live
<1> QED BY <1>1, <1>2 DEF Tree!Reap, Reap

(* Every step is a step of ProcTree or leaves its variables alone. *)
LEMMA NextInTree == IInv /\ [Next]_vars => [Tree!Next]_(Tree!vars)
<1> SUFFICES ASSUME IInv, [Next]_vars PROVE Tree!Next \/ UNCHANGED <<p_state, p_pproc>>
  BY DEF Tree!vars
<1>1. ASSUME UNCHANGED procs PROVE UNCHANGED <<p_state, p_pproc>>
  BY <1>1 DEF procs
<1>2. CASE UNCHANGED vars
  BY <1>2 DEF vars, procs
<1>3. ASSUME NEW p \in Pids, Spawn(p) PROVE Tree!Next
  <2> DEFINE c == _proc_getid
  <2>1. cpu = "run" /\ cur = p /\ Taken # Pids /\ proc_create(p, c)
    BY <1>3 DEF Spawn, InUser
  <2>2. p_state[p] = "running"
    BY <2>1, RunningFacts DEF IInv
  <2>3. Taken = Live /\ Live \subseteq Pids /\ next_pid \in Pids
    BY DEF IInv, TreeOK, RestOK, LinksAgree, Taken, Live
  <2>4. c \in Pids \ Taken
    BY <2>1, <2>3, GetidFree
  <2> HIDE DEF c
  <2>5. p_state[c] = "none"
    BY <2>3, <2>4 DEF Live
  <2>6. Tree!Create(p, c)
    BY <2>1, <2>2, <2>5 DEF Tree!Create, proc_create
  <2> QED BY <2>4, <2>6 DEF Tree!Next
<1>4. ASSUME NEW p \in Pids, NEW s \in Statuses, do_exit(p, s) PROVE Tree!Next
  <2>1. Tree!Exit(p)
    BY <1>4, ExitInTree DEF do_exit, kthread_exit
  <2> QED BY <2>1 DEF Tree!Next
<1>5. ASSUME NEW p \in Pids, proc_kill_all(p) PROVE Tree!Next \/ UNCHANGED <<p_state, p_pproc>>
  <2>1. CASE p # PID_INIT /\ Last(proc_list) # 2
    <3>1. InUser(p) /\ p # PID_IDLE /\ proc_cleanup(p, p_status[p])
      BY <1>5, <2>1 DEF proc_kill_all, kthread_exit
    <3>2. Tree!Exit(p)
      BY <3>1, ExitInTree
    <3> QED BY <3>2 DEF Tree!Next
  <2>2. CASE ~(p # PID_INIT /\ Last(proc_list) # 2)
    BY <1>5, <2>2 DEF proc_kill_all, procs
  <2> QED BY <2>1, <2>2
<1>6. ASSUME NEW p \in Pids, do_waitpid_any(p) PROVE Tree!Next \/ UNCHANGED <<p_state, p_pproc>>
  <2>1. cpu = "run" /\ cur = p
    BY <1>6, WaitAnyCases
  <2>2. ASSUME NEW c \in Live, p_pproc[c] = p, p_state[c] = "dead", Reap(p, c) PROVE Tree!Next
    BY <2>1, <2>2, ReapInTree DEF Tree!Next
  <2>3. CASE Sleep(p, "waitany", NoPid)
    BY <2>3 DEF Sleep, procs
  <2> QED BY <1>6, <2>2, <2>3, WaitAnyCases
<1>7. ASSUME NEW p \in Pids, do_waitpid_woken(p) PROVE Tree!Next \/ UNCHANGED <<p_state, p_pproc>>
  <2>1. cpu = "run" /\ cur = p
    BY <1>7, WaitWokenCases
  <2>2. ASSUME NEW c \in Live, p_pproc[c] = p, p_state[c] = "dead", Reap(p, c) PROVE Tree!Next
    BY <2>1, <2>2, ReapInTree DEF Tree!Next
  <2> QED BY <1>1, <1>7, <2>2, WaitWokenCases
<1>8. ASSUME NEW p \in Pids, NEW c \in Pids,
             Yield(p) \/ sched_cancellable_sleep_on(p) \/ proc_kill(p, c) \/ do_waitpid_pid(p, c)
      PROVE  UNCHANGED procs
  BY <1>8 DEF Yield, sched_cancellable_sleep_on, proc_kill, do_waitpid_pid, Sleep
<1>9. CASE Interrupt \/ intr_wait \/ OtherInterrupt \/ idleproc_run_halts
  BY <1>1, <1>9 DEF Interrupt, intr_wait, OtherInterrupt, idleproc_run_halts
<1>10. CASE Stopped
  BY <1>2, <1>10 DEF Stopped
<1> QED BY <1>1, <1>2, <1>3, <1>4, <1>5, <1>6, <1>7, <1>8, <1>9, <1>10 DEF Next

(***************************************************************************)
(* Process management implements the abstract tree of processes.           *)
(***************************************************************************)
THEOREM RefinesProcTree == Spec => ImplementsProcTree
<1>1. Init => Tree!Start
  BY DEF Init, Tree!Start
<1>2. IInv /\ [Next]_vars => [Tree!Next]_(Tree!vars)
  BY NextInTree
<1> QED BY <1>1, <1>2, IInvHolds, PTL DEF Spec, ImplementsProcTree, Tree!Spec
=============================================================================
