---------------------------- MODULE VnodeProofs -----------------------------
(***************************************************************************)
(* The vnode cache, for any number of threads, inodes, vnodes and pages.   *)
(* Nearly every step replaces one vnode, the references one thread has to  *)
(* it, and what that thread is blocked in; StepInv says what the three     *)
(* must satisfy together, and against the other threads blocked in the     *)
(* same vnode.                                                             *)
(***************************************************************************)
EXTENDS Vnode, LibraryProofs

Res(v) == {g \in Pages : v.page[g] # "out"}

Held(s) == Total([t \in Threads |-> held[t][s]], Threads)

Blocks == [pc : {"ready", "asleep", "woken", "reading", "filling", "dropping", "deleting"},
           slot : Slots \cup {0}, vno : Inodes \cup {Nil}, pages : SUBSET Pages]

OneSlot == \A s, q \in InUse : vn[s].vno = vn[q].vno => s = q

DroppingResident == \A t \in Threads : th[t].pc = "dropping" => th[t].pages \subseteq Resident(th[t].slot)

IInv ==
  /\ VnodeTypeOK /\ OneSlot /\ RefsArePagesAndUsers /\ UsersOnLive /\ DroppingResident
  /\ FlushEmpties /\ BusyUnreferenced /\ BlockedRelyOn /\ BlockedApart

(***************************************************************************)
(* v as vnode s, to which t has h references, against the cache.           *)
(***************************************************************************)
VnodeOK(t, s, v, h) ==
  /\ \A q \in InUse : q # s => vn[q].vno # v.vno
  /\ vn[s] # Nil => v.vno = vn[s].vno
  /\ v.ref = Cardinality(Res(v)) + Held(s) - held[t][s] + h
  /\ v.busy => v.ref = 0

(***************************************************************************)
(* v as vnode s and x as the block of t, against the other threads that    *)
(* are blocked in vnode s and against sync.                                *)
(***************************************************************************)
OthersOK(t, s, v, x) ==
  /\ \A u \in Threads \ {t} : th[u].slot = s =>
       /\ th[u].pc \in {"reading", "deleting"} => v.busy /\ (x.slot = s => x.pc = "asleep")
       /\ x.slot = s /\ x.pc \in {"reading", "deleting"} => th[u].pc = "asleep"
       /\ th[u].pc = "dropping" => th[u].pages \subseteq Res(v) /\ (x.slot = s => x.pc # "dropping")
       /\ th[u].pc = "filling" => /\ \A g \in th[u].pages : v.page[g] = "busy"
                                  /\ x.slot = s /\ x.pc = "filling" => th[u].pages \cap x.pages = {}
  /\ \A g \in Pages : sync = <<s, g>> => v.page[g] = "busy" /\ (x.pc = "filling" => g \notin x.pages)

(***************************************************************************)
(* x as the block of t in vnode s, which is v.                             *)
(***************************************************************************)
BlockOK(s, v, h, x) ==
  /\ x.slot \in {0, s} /\ x.pc # "woken" /\ (x.pc = "ready" <=> x.slot = 0)
  /\ x.slot = s => x.vno = v.vno
  /\ x.pc = "asleep" => h = 0
  /\ x.pc \in {"reading", "deleting"} => v.busy
  /\ x.pc \in {"filling", "dropping"} => h > 0
  /\ x.pc = "filling" => \A g \in x.pages : v.page[g] = "busy"
  /\ x.pc = "dropping" => x.pages \subseteq Res(v)

-----------------------------------------------------------------------------
(***************************************************************************)
(* The references to a vnode add up, and two threads' are not more than    *)
(* all.                                                                    *)
(***************************************************************************)
LEMMA HeldFacts ==
  ASSUME VnodeTypeOK, NEW s \in Slots
  PROVE  /\ Held(s) \in Nat
         /\ \A t \in Threads : held[t][s] \in Nat /\ held[t][s] <= Held(s)
         /\ \A t, u \in Threads : t # u => held[t][s] + held[u][s] <= Held(s)
<1> DEFINE f == [t \in Threads |-> held[t][s]]
<1>1. \A t \in Threads : f[t] = held[t][s] /\ f[t] \in Nat
  BY VnodeAssumption DEF VnodeTypeOK
<1>2. IsFiniteSet(Threads)
  BY VnodeAssumption
<1>3. Held(s) = Total(f, Threads)
  BY DEF Held
<1> HIDE DEF f
<1>4. \A t \in Threads : Total(f, Threads) \in Nat /\ f[t] <= Total(f, Threads)
  <2> TAKE t \in Threads
  <2> QED BY <1>1, <1>2, TotalUpdate
<1>5. \A t, u \in Threads : t # u => f[t] + f[u] <= Total(f, Threads)
  <2> TAKE t, u \in Threads
  <2> QED BY <1>1, <1>2, TotalTwo
<1>6. Total(f, Threads) \in Nat
  <2>1. CASE Threads = {}
    BY <2>1, TotalZero
  <2> QED BY <1>4, <2>1
<1> QED BY <1>1, <1>3, <1>4, <1>5, <1>6

(***************************************************************************)
(* They move with the references of one thread.                            *)
(***************************************************************************)
LEMMA HeldMoves ==
  ASSUME VnodeTypeOK, NEW s \in Slots, NEW t \in Threads, held'[t][s] \in Nat,
         \A u \in Threads \ {t} : held'[u][s] = held[u][s]
  PROVE  Held(s)' = Held(s) - held[t][s] + held'[t][s]
<1> DEFINE f == [u \in Threads |-> held[u][s]]
           g == [u \in Threads |-> held'[u][s]]
<1>1. \A u \in Threads : f[u] = held[u][s] /\ f[u] \in Nat
  BY VnodeAssumption DEF VnodeTypeOK
<1>2. IsFiniteSet(Threads)
  BY VnodeAssumption
<1>3. Held(s) = Total(f, Threads) /\ Held(s)' = Total(g, Threads)
  BY DEF Held
<1>4. g[t] = held'[t][s] /\ g[t] \in Nat /\ \A u \in Threads \ {t} : g[u] = f[u]
  OBVIOUS
<1> HIDE DEF f, g
<1>5. Total(g, Threads) = Total(f, Threads) - f[t] + g[t]
  BY <1>1, <1>2, <1>4, TotalUpdate
<1> QED BY <1>1, <1>3, <1>4, <1>5

(***************************************************************************)
(* The pages of a vnode are finitely many.                                 *)
(***************************************************************************)
LEMMA ResFinite ==
  ASSUME NEW v
  PROVE  IsFiniteSet(Res(v)) /\ Cardinality(Res(v)) \in Nat
<1>1. IsFiniteSet(Pages)
  BY VnodeAssumption, FS_Interval DEF Pages
<1>2. Res(v) \in SUBSET Pages
  BY DEF Res
<1>3. IsFiniteSet(Res(v))
  BY <1>1, <1>2, FS_Subset
<1> QED BY <1>3, FS_CardinalityType

(***************************************************************************)
(* One thread, one vnode.                                                  *)
(***************************************************************************)
LEMMA StepInv ==
  ASSUME IInv, mode = "up", NEW t \in Threads, NEW s \in Slots, NEW v \in Vnodes, NEW x \in Blocks,
         vn' = [vn EXCEPT ![s] = v], th' = [th EXCEPT ![t] = x],
         held' \in [Threads -> [Slots -> 0 .. MaxHeld]],
         \A u \in Threads, q \in Slots : u # t \/ q # s => held'[u][q] = held[u][q],
         UNCHANGED <<linked, sync, mode>>,
         VnodeOK(t, s, v, held'[t][s]), OthersOK(t, s, v, x), BlockOK(s, v, held'[t][s], x)
  PROVE  IInv'
<1>0. vn \in [Slots -> Vnodes \cup {Nil}] /\ th \in [Threads -> Blocks] /\ v # Nil /\ 0 \notin Slots
  BY VnodeAssumption DEF IInv, VnodeTypeOK, Blocks, Slots
<1>1. /\ vn' \in [Slots -> Vnodes \cup {Nil}] /\ th' \in [Threads -> Blocks]
      /\ vn'[s] = v /\ \A q \in Slots : q # s => vn'[q] = vn[q]
      /\ th'[t] = x /\ \A u \in Threads : u # t => th'[u] = th[u]
  BY <1>0
<1>2. VnodeTypeOK'
  BY <1>1 DEF IInv, VnodeTypeOK, Blocks
<1>3. InUse' = InUse \cup {s} /\ InUse \subseteq Slots
  BY <1>0, <1>1 DEF InUse
<1>4. OneSlot'
  BY <1>1, <1>3 DEF IInv, OneSlot, VnodeOK
<1>5. RefsArePagesAndUsers'
  <2> SUFFICES ASSUME NEW q \in InUse'
               PROVE  vn'[q].ref = nrespages(q)' + Held(q)'
    BY DEF RefsArePagesAndUsers, Held
  <2>0. q \in Slots
    BY <1>3
  <2>1. nrespages(q)' = Cardinality(Res(vn'[q])) /\ nrespages(q) = Cardinality(Res(vn[q]))
    BY DEF nrespages, Res
  <2>2. VnodeTypeOK
    BY DEF IInv
  <2>3. CASE q = s
    <3>1. held'[t][s] \in Nat /\ \A u \in Threads \ {t} : held'[u][s] = held[u][s]
      BY VnodeAssumption
    <3>2. Held(s)' = Held(s) - held[t][s] + held'[t][s]
      BY <2>2, <3>1, HeldMoves
    <3>3. v.ref = Cardinality(Res(v)) + Held(s) - held[t][s] + held'[t][s]
      BY DEF VnodeOK
    <3>4. Held(s) \in Nat /\ held[t][s] \in Nat /\ Cardinality(Res(v)) \in Nat
      BY <2>2, HeldFacts, ResFinite
    <3>5. vn'[q] = v /\ nrespages(q)' = Cardinality(Res(v)) /\ Held(q)' = Held(s)'
      BY <1>1, <2>1, <2>3
    <3> QED BY <3>1, <3>2, <3>3, <3>4, <3>5
  <2>4. CASE q # s
    <3>1. vn'[q] = vn[q] /\ q \in InUse
      BY <1>1, <1>3, <2>0, <2>4
    <3>2. Held(q)' = Held(q)
      <4>1. \A u \in Threads : held'[u][q] = held[u][q]
        BY <2>0, <2>4
      <4> QED BY <4>1 DEF Held
    <3>3. vn[q].ref = nrespages(q) + Held(q)
      BY <3>1 DEF IInv, RefsArePagesAndUsers, Held
    <3> QED BY <2>1, <3>1, <3>2, <3>3
  <2> QED BY <2>3, <2>4
<1>6. UsersOnLive'
  <2>1. \A u \in Threads : th'[u].slot # 0 => vn'[th'[u].slot] # Nil /\ vn'[th'[u].slot].vno = th'[u].vno
    <3> TAKE u \in Threads
    <3>1. CASE u = t
      BY <1>0, <1>1, <3>1 DEF BlockOK
    <3>2. CASE u # t
      <4>1. th[u].slot # 0 => th[u].slot \in Slots /\ vn[th[u].slot] # Nil /\ vn[th[u].slot].vno = th[u].vno
        BY <1>0 DEF IInv, UsersOnLive, Blocks
      <4> QED BY <1>0, <1>1, <3>2, <4>1 DEF VnodeOK
    <3> QED BY <3>1, <3>2
  <2>2. \A u \in Threads, q \in Slots : held'[u][q] > 0 => vn'[q] # Nil
    <3> TAKE u \in Threads, q \in Slots
    <3>1. held[u][q] > 0 => vn[q] # Nil
      BY DEF IInv, UsersOnLive
    <3> QED BY <1>0, <1>1, <3>1
  <2>3. sync' # Nil => vn'[sync'[1]] # Nil
    <3>1. sync # Nil => sync[1] \in Slots /\ vn[sync[1]] # Nil
      BY DEF IInv, UsersOnLive, VnodeTypeOK
    <3> QED BY <1>0, <1>1, <3>1
  <2> QED BY <2>1, <2>2, <2>3 DEF UsersOnLive
<1>7. DroppingResident'
  <2> SUFFICES ASSUME NEW u \in Threads, th'[u].pc = "dropping"
               PROVE  th'[u].pages \subseteq Res(vn'[th'[u].slot])
    BY DEF DroppingResident, Resident, Res
  <2>1. CASE u = t
    <3>1. x.pc = "dropping" /\ x.slot = s /\ x.pages \subseteq Res(v)
      BY <1>1, <2>1 DEF BlockOK
    <3> QED BY <1>1, <2>1, <3>1
  <2>2. CASE u # t
    <3>1. th'[u] = th[u] /\ th[u].pc = "dropping"
      BY <1>1, <2>2
    <3>2. th[u].slot \in Slots
      BY <1>0, <3>1, ZenonT(60) DEF IInv, BlockedRelyOn, Blocks
    <3>3. th[u].pages \subseteq Res(vn[th[u].slot])
      BY <3>1 DEF IInv, DroppingResident, Resident, Res
    <3>4. th[u].slot = s => th[u].pages \subseteq Res(v)
      BY <2>2, <3>1 DEF OthersOK
    <3> QED BY <1>1, <3>1, <3>2, <3>3, <3>4
  <2> QED BY <2>1, <2>2
<1>8. FlushEmpties'
  BY DEF FlushEmpties
<1>9. BusyUnreferenced'
  BY <1>1, <1>3 DEF IInv, BusyUnreferenced, VnodeOK
<1>10. BlockedRelyOn'
  <2> SUFFICES ASSUME NEW u \in Threads
               PROVE  /\ th'[u].pc \in {"ready", "woken"} <=> th'[u].slot = 0
                      /\ th'[u].pc \in {"asleep", "woken"} =>
                           th'[u].vno \in Inodes /\ \A q \in InUse' : vn'[q].vno = th'[u].vno => held'[u][q] = 0
                      /\ th'[u].pc \in {"reading", "deleting"} => vn'[th'[u].slot].busy
                      /\ th'[u].pc \in {"filling", "dropping"} => held'[u][th'[u].slot] > 0
                      /\ th'[u].pc = "filling" => \A g \in th'[u].pages : vn'[th'[u].slot].page[g] = "busy"
    BY DEF BlockedRelyOn
  <2>1. CASE u = t
    <3>1. th'[u] = x /\ v.vno \in Inodes
      BY <1>1, <2>1 DEF Vnodes
    <3>2. x.pc \in {"ready", "woken"} <=> x.slot = 0
      BY DEF BlockOK
    <3>3. x.pc # "ready" => x.slot = s /\ x.vno = v.vno
      BY DEF BlockOK
    <3>4. x.pc \in {"asleep", "woken"} =>
            x.vno \in Inodes /\ \A q \in InUse' : vn'[q].vno = x.vno => held'[t][q] = 0
      <4> SUFFICES ASSUME x.pc \in {"asleep", "woken"}
                   PROVE  x.vno \in Inodes /\ \A q \in InUse' : vn'[q].vno = x.vno => held'[t][q] = 0
        OBVIOUS
      <4>1. x.vno = v.vno /\ held'[t][s] = 0
        BY <3>3 DEF BlockOK
      <4>2. \A q \in InUse' : vn'[q].vno = v.vno => q = s
        BY <1>1, <1>3 DEF VnodeOK
      <4> QED BY <3>1, <4>1, <4>2
    <3>5. /\ x.pc \in {"reading", "deleting"} => v.busy
          /\ x.pc \in {"filling", "dropping"} => held'[t][s] > 0
          /\ x.pc = "filling" => \A g \in x.pages : v.page[g] = "busy"
      BY DEF BlockOK
    <3> QED BY <1>1, <2>1, <3>1, <3>2, <3>3, <3>4, <3>5
  <2>2. CASE u # t
    <3>0. th'[u] = th[u] /\ th[u] \in Blocks
      BY <1>0, <1>1, <2>2
    <3>1. th[u].pc \in {"ready", "woken"} <=> th[u].slot = 0
      BY DEF IInv, BlockedRelyOn
    <3>2. th[u].pc \in {"asleep", "woken"} =>
            th[u].vno \in Inodes /\ \A q \in InUse' : vn'[q].vno = th[u].vno => held'[u][q] = 0
      <4> SUFFICES ASSUME th[u].pc \in {"asleep", "woken"}
                   PROVE  th[u].vno \in Inodes /\ \A q \in InUse' : vn'[q].vno = th[u].vno => held'[u][q] = 0
        OBVIOUS
      <4>1. th[u].vno \in Inodes /\ \A q \in InUse : vn[q].vno = th[u].vno => held[u][q] = 0
        BY DEF IInv, BlockedRelyOn
      <4>2. \A q \in Slots : held'[u][q] = held[u][q]
        BY <2>2
      <4>3. ASSUME NEW q \in InUse', vn'[q].vno = th[u].vno PROVE held[u][q] = 0
        <5>1. CASE q \in InUse
          BY <1>1, <1>3, <4>1, <4>3, <5>1 DEF VnodeOK, InUse
        <5>2. CASE q \notin InUse
          <6>1. q \in Slots /\ vn[q] = Nil
            BY <1>3, <5>2 DEF InUse
          <6>2. held[u][q] \in Nat /\ ~(held[u][q] > 0)
            BY <6>1, VnodeAssumption DEF IInv, UsersOnLive, VnodeTypeOK
          <6> QED BY <6>2
        <5> QED BY <5>1, <5>2
      <4> QED BY <1>3, <4>1, <4>2, <4>3
    <3>3. ASSUME th[u].slot # 0
          PROVE  /\ th[u].pc \in {"reading", "deleting"} => vn'[th[u].slot].busy
                 /\ th[u].pc \in {"filling", "dropping"} => held'[u][th[u].slot] > 0
                 /\ th[u].pc = "filling" => \A g \in th[u].pages : vn'[th[u].slot].page[g] = "busy"
      <4>1. th[u].slot \in Slots
        BY <3>0, <3>3 DEF Blocks
      <4>2. /\ th[u].pc \in {"reading", "deleting"} => vn[th[u].slot].busy
            /\ th[u].pc \in {"filling", "dropping"} => held[u][th[u].slot] > 0
            /\ th[u].pc = "filling" => \A g \in th[u].pages : vn[th[u].slot].page[g] = "busy"
        BY DEF IInv, BlockedRelyOn
      <4>3. CASE th[u].slot = s
        <5>1. /\ th[u].pc \in {"reading", "deleting"} => v.busy
              /\ th[u].pc = "filling" => \A g \in th[u].pages : v.page[g] = "busy"
          BY <2>2, <4>3 DEF OthersOK
        <5> QED BY <1>1, <2>2, <4>2, <4>3, <5>1
      <4>4. CASE th[u].slot # s
        BY <1>1, <2>2, <4>1, <4>2, <4>4
      <4> QED BY <4>3, <4>4
    <3> QED BY <3>0, <3>1, <3>2, <3>3
  <2> QED BY <2>1, <2>2
<1>11. BlockedApart'
  <2>1. ASSUME NEW a \in Threads, NEW b \in Threads, a # b, th'[a].slot # 0, th'[a].slot = th'[b].slot
        PROVE  /\ th'[a].pc \in {"reading", "deleting"} => th'[b].pc = "asleep"
               /\ th'[a].pc = "dropping" => th'[b].pc # "dropping"
               /\ th'[a].pc = "filling" /\ th'[b].pc = "filling" => th'[a].pages \cap th'[b].pages = {}
    <3>1. CASE a # t /\ b # t
      <4>1. th'[a] = th[a] /\ th'[b] = th[b]
        BY <1>1, <3>1
      <4> QED BY <2>1, <4>1 DEF IInv, BlockedApart
    <3>2. CASE a = t
      <4>1. th'[a] = x /\ th'[b] = th[b] /\ x.slot = s /\ th[b].slot = s /\ b \in Threads \ {t}
        BY <1>1, <2>1, <3>2 DEF BlockOK
      <4> QED BY <4>1 DEF OthersOK
    <3>3. CASE b = t
      <4>1. th'[b] = x /\ th'[a] = th[a] /\ x.slot = s /\ th[a].slot = s /\ a \in Threads \ {t}
        BY <1>1, <2>1, <3>3 DEF BlockOK
      <4> QED BY <4>1 DEF OthersOK
    <3> QED BY <3>1, <3>2, <3>3
  <2>2. ASSUME sync' # Nil
        PROVE  /\ vn'[sync'[1]].page[sync'[2]] = "busy"
               /\ \A u \in Threads : th'[u].pc = "filling" /\ th'[u].slot = sync'[1] => sync'[2] \notin th'[u].pages
    <3>1. PICK q \in Slots, g \in Pages : sync = <<q, g>>
      BY <2>2 DEF IInv, VnodeTypeOK
    <3>2. /\ sync' = <<q, g>> /\ sync'[1] = q /\ sync'[2] = g
          /\ vn[q].page[g] = "busy"
          /\ \A u \in Threads : th[u].pc = "filling" /\ th[u].slot = q => g \notin th[u].pages
      BY <2>2, <3>1 DEF IInv, BlockedApart
    <3>3. q = s => v.page[g] = "busy" /\ (x.pc = "filling" => g \notin x.pages)
      BY <3>1 DEF OthersOK
    <3>4. vn'[q].page[g] = "busy"
      BY <1>1, <3>2, <3>3
    <3>5. ASSUME NEW u \in Threads, th'[u].pc = "filling", th'[u].slot = q PROVE g \notin th'[u].pages
      <4>1. CASE u = t
        <5>1. x.slot = s
          BY <1>1, <3>5, <4>1 DEF BlockOK
        <5> QED BY <1>1, <3>3, <3>5, <4>1, <5>1
      <4>2. CASE u # t
        BY <1>1, <3>2, <3>5, <4>2
      <4> QED BY <4>1, <4>2
    <3> QED BY <3>2, <3>4, <3>5
  <2> QED BY <2>1, <2>2 DEF BlockedApart
<1> QED BY <1>2, <1>4, <1>5, <1>6, <1>7, <1>8, <1>9, <1>10, <1>11 DEF IInv

-----------------------------------------------------------------------------
(***************************************************************************)
(* What is known of a vnode in the cache: its count, and what the threads  *)
(* blocked in it, and sync, have of its pages.                             *)
(***************************************************************************)
LEMMA LiveFacts ==
  ASSUME IInv, NEW s \in Slots, vn[s] # Nil
  PROVE  /\ vn[s] \in Vnodes /\ s \in InUse /\ s # 0
         /\ Held(s) \in Nat /\ Cardinality(Res(vn[s])) \in Nat /\ nrespages(s) = Cardinality(Res(vn[s]))
         /\ vn[s].ref = Cardinality(Res(vn[s])) + Held(s)
         /\ vn[s].busy => vn[s].ref = 0
         /\ \A t \in Threads : held[t][s] \in Nat /\ held[t][s] <= Held(s)
         /\ \A q \in InUse : q # s => vn[q].vno # vn[s].vno
         /\ \A u \in Threads : th[u].slot = s =>
              /\ th[u].pc \notin {"ready", "woken"}
              /\ th[u].pc \in {"reading", "deleting"} => vn[s].busy
              /\ th[u].pc \in {"filling", "dropping"} => held[u][s] > 0
              /\ th[u].pc = "dropping" => th[u].pages \subseteq Res(vn[s])
              /\ th[u].pc = "filling" => \A g \in th[u].pages : vn[s].page[g] = "busy"
         /\ \A g \in Pages : sync = <<s, g>> => vn[s].page[g] = "busy"
<1>1. vn[s] \in Vnodes /\ s \in InUse /\ s # 0 /\ VnodeTypeOK
  BY DEF IInv, VnodeTypeOK, InUse, Slots
<1>2. nrespages(s) = Cardinality(Res(vn[s])) /\ Resident(s) = Res(vn[s])
  BY DEF nrespages, Res, Resident
<1>3. Cardinality(Res(vn[s])) \in Nat
  BY ResFinite
<1>4. vn[s].ref = Cardinality(Res(vn[s])) + Held(s) /\ (vn[s].busy => vn[s].ref = 0)
  BY <1>1, <1>2 DEF IInv, RefsArePagesAndUsers, BusyUnreferenced, Held
<1>5. Held(s) \in Nat /\ \A t \in Threads : held[t][s] \in Nat /\ held[t][s] <= Held(s)
  BY <1>1, HeldFacts
<1>6. \A q \in InUse : q # s => vn[q].vno # vn[s].vno
  BY <1>1 DEF IInv, OneSlot
<1>7. ASSUME NEW u \in Threads, th[u].slot = s
      PROVE  /\ th[u].pc \notin {"ready", "woken"}
             /\ th[u].pc \in {"reading", "deleting"} => vn[s].busy
             /\ th[u].pc \in {"filling", "dropping"} => held[u][s] > 0
             /\ th[u].pc = "dropping" => th[u].pages \subseteq Res(vn[s])
             /\ th[u].pc = "filling" => \A g \in th[u].pages : vn[s].page[g] = "busy"
  BY <1>1, <1>2, <1>7 DEF IInv, BlockedRelyOn, DroppingResident
<1>8. \A g \in Pages : sync = <<s, g>> => vn[s].page[g] = "busy"
  BY VnodeAssumption DEF IInv, BlockedApart
<1> QED BY <1>1, <1>2, <1>3, <1>4, <1>5, <1>6, <1>7, <1>8

(***************************************************************************)
(* Nobody has references to, or is blocked in, a free slot.                *)
(***************************************************************************)
LEMMA FreeFacts ==
  ASSUME IInv, NEW s \in Slots, vn[s] = Nil
  PROVE  /\ Held(s) = 0 /\ \A t \in Threads : held[t][s] = 0 /\ th[t].slot # s
         /\ \A g \in Pages : sync # <<s, g>>
<1>1. s # 0
  BY DEF Slots
<1>2. \A t \in Threads : held[t][s] = 0 /\ th[t].slot # s
  BY <1>1, VnodeAssumption DEF IInv, UsersOnLive, VnodeTypeOK
<1>3. Held(s) = 0
  <2> DEFINE f == [t \in Threads |-> held[t][s]]
  <2>1. \A t \in Threads : f[t] = 0
    BY <1>2
  <2>2. Total(f, Threads) = 0
    <3> HIDE DEF f
    <3> QED BY <2>1, TotalZero
  <2> QED BY <2>2 DEF Held
<1>4. \A g \in Pages : sync # <<s, g>>
  BY VnodeAssumption DEF IInv, UsersOnLive
<1> QED BY <1>2, <1>3, <1>4

(***************************************************************************)
(* A vnode without references has neither users nor pages.                 *)
(***************************************************************************)
LEMMA UnreferencedFacts ==
  ASSUME IInv, NEW s \in Slots, vn[s] # Nil, vn[s].ref = 0
  PROVE  /\ Held(s) = 0 /\ Res(vn[s]) = {}
         /\ \A t \in Threads : held[t][s] = 0
         /\ \A g \in Pages : sync # <<s, g>> /\ vn[s].page[g] # "busy"
<1>1. /\ vn[s].ref = Cardinality(Res(vn[s])) + Held(s) /\ Held(s) \in Nat /\ Cardinality(Res(vn[s])) \in Nat
      /\ \A t \in Threads : held[t][s] \in Nat /\ held[t][s] <= Held(s)
      /\ \A g \in Pages : sync = <<s, g>> => vn[s].page[g] = "busy"
  BY LiveFacts
<1>2. Held(s) = 0 /\ Cardinality(Res(vn[s])) = 0
  BY <1>1
<1>3. Res(vn[s]) = {}
  BY <1>2, ResFinite, FS_EmptySet
<1>4. \A g \in Pages : vn[s].page[g] # "busy"
  BY <1>3 DEF Res
<1> QED BY <1>1, <1>2, <1>3, <1>4

(***************************************************************************)
(* A thread leaves vnode s, or never was in it, and the pages stay as far  *)
(* as other threads rely on them.                                          *)
(***************************************************************************)
LEMMA ReadyOthers ==
  ASSUME IInv, NEW t \in Threads, NEW s \in Slots, vn[s] # Nil, NEW v,
         ~vn[s].busy \/ (th[t].slot = s /\ th[t].pc = "reading"),
         v.page = vn[s].page
  PROVE  OthersOK(t, s, v, Ready)
<1>1. /\ \A u \in Threads : th[u].slot = s =>
           /\ th[u].pc \in {"reading", "deleting"} => vn[s].busy
           /\ th[u].pc = "dropping" => th[u].pages \subseteq Res(vn[s])
           /\ th[u].pc = "filling" => \A g \in th[u].pages : vn[s].page[g] = "busy"
      /\ \A g \in Pages : sync = <<s, g>> => vn[s].page[g] = "busy"
      /\ s # 0
  BY LiveFacts
<1>2. Ready.slot = 0 /\ Ready.pc = "ready" /\ Res(v) = Res(vn[s])
  BY DEF Ready, Res
<1>3. \A u \in Threads \ {t} : th[u].slot = s => th[u].pc \notin {"reading", "deleting"}
  BY <1>1 DEF IInv, BlockedApart
<1> QED BY <1>1, <1>2, <1>3 DEF OthersOK

(***************************************************************************)
(* Ready, as the block of a thread that returns.                           *)
(***************************************************************************)
LEMMA ReadyBlock ==
  ASSUME NEW s \in Slots, NEW v, NEW h
  PROVE  Ready \in Blocks /\ BlockOK(s, v, h, Ready)
<1>1. Ready \in Blocks /\ Ready.slot = 0 /\ Ready.pc = "ready" /\ s # 0
  BY DEF Ready, Blocks, Slots
<1> QED BY <1>1 DEF BlockOK

-----------------------------------------------------------------------------
(***************************************************************************)
(* A thread takes one more reference to a vnode that is not busy: vget of  *)
(* one in the list, and vref.                                              *)
(***************************************************************************)
TakesRef(t, s) ==
  /\ vn' = [vn EXCEPT ![s].ref = @ + 1]
  /\ held' = [held EXCEPT ![t][s] = @ + 1]
  /\ th' = [th EXCEPT ![t] = Ready]
  /\ UNCHANGED <<linked, sync, mode>>

(* A step that takes one reference more to a vnode. *)
LEMMA RefInv ==
  ASSUME IInv, mode = "up", NEW t \in Threads, NEW s \in Slots, vn[s] # Nil, ~vn[s].busy,
         held[t][s] < MaxHeld,
         TakesRef(t, s)
  PROVE  IInv'
<1>1. /\ vn[s] \in Vnodes /\ s \in InUse /\ Held(s) \in Nat /\ Cardinality(Res(vn[s])) \in Nat
      /\ vn[s].ref = Cardinality(Res(vn[s])) + Held(s)
      /\ held[t][s] \in Nat /\ held[t][s] <= Held(s)
      /\ \A q \in InUse : q # s => vn[q].vno # vn[s].vno
  BY LiveFacts
<1> DEFINE v == [vn[s] EXCEPT !.ref = @ + 1]
<1>2. v \in Vnodes /\ v.vno = vn[s].vno /\ v.ref = vn[s].ref + 1 /\ v.page = vn[s].page
  BY <1>1 DEF Vnodes
<1>3. ~v.busy
  <2>1. v.busy = vn[s].busy
    BY <1>1 DEF Vnodes
  <2> QED BY <2>1
<1>4. /\ vn' = [vn EXCEPT ![s] = v] /\ th' = [th EXCEPT ![t] = Ready]
      /\ UNCHANGED <<linked, sync, mode>>
  BY DEF TakesRef
<1> HIDE DEF v
<1>5. /\ held' \in [Threads -> [Slots -> 0 .. MaxHeld]] /\ held'[t][s] = held[t][s] + 1
      /\ \A u \in Threads, q \in Slots : u # t \/ q # s => held'[u][q] = held[u][q]
  <2>1. held \in [Threads -> [Slots -> 0 .. MaxHeld]] /\ held[t][s] + 1 \in 0 .. MaxHeld
    BY <1>1, VnodeAssumption DEF IInv, VnodeTypeOK
  <2> QED BY <2>1 DEF TakesRef
<1>6. Res(v) = Res(vn[s])
  BY <1>2 DEF Res
<1>7. VnodeOK(t, s, v, held'[t][s])
  BY <1>1, <1>2, <1>3, <1>5, <1>6 DEF VnodeOK
<1>8. OthersOK(t, s, v, Ready)
  <2>1. (~vn[s].busy \/ (th[t].slot = s /\ th[t].pc = "reading")) /\ v.page = vn[s].page
    BY <1>2
  <2> QED BY <2>1, ReadyOthers
<1>9. Ready \in Blocks /\ BlockOK(s, v, held'[t][s], Ready)
  BY ReadyBlock
<1> QED BY <1>2, <1>4, <1>5, <1>7, <1>8, <1>9, StepInv

(***************************************************************************)
(* vget from the label find on.                                            *)
(***************************************************************************)
LEMMA FindInv ==
  ASSUME IInv, mode = "up", NEW t \in Threads, NEW i \in Inodes, find(t, i),
         \A s \in Of(i) : held[t][s] < MaxHeld,
         UNCHANGED <<linked, sync, mode>>
  PROVE  IInv'
<1>0. /\ vn \in [Slots -> Vnodes \cup {Nil}] /\ held \in [Threads -> [Slots -> 0 .. MaxHeld]]
      /\ th \in [Threads -> Blocks]
  BY DEF IInv, VnodeTypeOK, Blocks
<1>1. ASSUME NEW s \in Found(i), vn[s].busy, Block(t, "asleep", s, i, {}), UNCHANGED <<vn, held>>
      PROVE  IInv'
  <2> DEFINE x == [pc |-> "asleep", slot |-> s, vno |-> i, pages |-> {}]
  <2>1. s \in Slots /\ vn[s] # Nil /\ vn[s].vno = i
    BY <1>1 DEF Found, Of, InUse
  <2>2. /\ vn[s] \in Vnodes /\ s \in InUse /\ Held(s) \in Nat
        /\ vn[s].ref = Cardinality(Res(vn[s])) + Held(s) /\ vn[s].ref = 0
        /\ held[t][s] \in Nat /\ Cardinality(Res(vn[s])) \in Nat
        /\ \A q \in InUse : q # s => vn[q].vno # vn[s].vno
        /\ \A u \in Threads : th[u].slot = s =>
              /\ th[u].pc \in {"filling", "dropping"} => held[u][s] > 0
              /\ th[u].pc \in {"reading", "deleting"} => vn[s].busy
        /\ \A g \in Pages : sync = <<s, g>> => vn[s].page[g] = "busy"
    BY <1>1, <2>1, LiveFacts
  <2>3. held[t][s] = 0 /\ \A u \in Threads : held[u][s] = 0
    BY <2>1, <2>2, UnreferencedFacts
  <2>4. x \in Blocks /\ th' = [th EXCEPT ![t] = x]
    BY <1>1, <2>1 DEF Block, Blocks
  <2>5. x.pc = "asleep" /\ x.slot = s /\ x.vno = i
    OBVIOUS
  <2> HIDE DEF x
  <2>6. VnodeOK(t, s, vn[s], held'[t][s])
    BY <1>1, <2>2, <2>3 DEF VnodeOK
  <2>7. OthersOK(t, s, vn[s], x)
    BY <1>1, <2>2, <2>3, <2>5 DEF OthersOK
  <2>8. BlockOK(s, vn[s], held'[t][s], x)
    BY <1>1, <2>1, <2>3, <2>5 DEF BlockOK, Slots
  <2>9. vn' = [vn EXCEPT ![s] = vn[s]] /\ held' = held
    BY <1>0, <1>1, <2>1
  <2>10. /\ held' \in [Threads -> [Slots -> 0 .. MaxHeld]]
         /\ \A u \in Threads, q \in Slots : u # t \/ q # s => held'[u][q] = held[u][q]
    BY <1>0, <2>9
  <2> QED BY <2>1, <2>2, <2>4, <2>6, <2>7, <2>8, <2>9, <2>10, StepInv
<1>2. ASSUME NEW s \in Found(i), ~vn[s].busy,
             vn' = [vn EXCEPT ![s].ref = @ + 1],
             held' = [held EXCEPT ![t][s] = @ + 1],
             th' = [th EXCEPT ![t] = Ready]
      PROVE  IInv'
  <2>1. s \in Slots /\ vn[s] # Nil /\ held[t][s] < MaxHeld
    BY <1>2 DEF Found, Of, InUse
  <2> QED BY <1>2, <2>1, RefInv DEF TakesRef
<1>3. ASSUME NEW s \in Slots, Found(i) = {}, vn[s] = Nil,
             vn' = [vn EXCEPT ![s] = [vno |-> i, busy |-> TRUE, ref |-> 0, page |-> NoPages]],
             Block(t, "reading", s, i, {}), UNCHANGED held
      PROVE  IInv'
  <2> DEFINE x == [pc |-> "reading", slot |-> s, vno |-> i, pages |-> {}]
             v == [vno |-> i, busy |-> TRUE, ref |-> 0, page |-> NoPages]
  <2>1. Held(s) = 0 /\ (\A u \in Threads : held[u][s] = 0 /\ th[u].slot # s) /\ \A g \in Pages : sync # <<s, g>>
    BY <1>3, FreeFacts
  <2>2. v \in Vnodes
    BY DEF Vnodes, NoPages
  <2>3. v.vno = i /\ v.ref = 0 /\ v.page = NoPages
    OBVIOUS
  <2>4. v.busy
    OBVIOUS
  <2>5. x \in Blocks /\ th' = [th EXCEPT ![t] = x] /\ vn' = [vn EXCEPT ![s] = v]
    BY <1>3 DEF Block, Blocks
  <2>6. x.pc = "reading" /\ x.slot = s /\ x.vno = i
    OBVIOUS
  <2> HIDE DEF v, x
  <2>7. Res(v) = {}
    BY <2>3 DEF Res, NoPages
  <2>8. Cardinality(Res(v)) = 0
    BY <2>7, FS_EmptySet
  <2>9. \A q \in InUse : vn[q].vno # i
    BY <1>3 DEF Found, Of
  <2>10. VnodeOK(t, s, v, held'[t][s])
    BY <1>3, <2>1, <2>3, <2>8, <2>9 DEF VnodeOK
  <2>11. OthersOK(t, s, v, x)
    BY <2>1 DEF OthersOK
  <2>12. BlockOK(s, v, held'[t][s], x)
    BY <2>3, <2>4, <2>6 DEF BlockOK, Slots
  <2>13. /\ held' \in [Threads -> [Slots -> 0 .. MaxHeld]]
         /\ \A u \in Threads, q \in Slots : u # t \/ q # s => held'[u][q] = held[u][q]
    BY <1>0, <1>3
  <2> QED BY <2>2, <2>5, <2>10, <2>11, <2>12, <2>13, StepInv
<1> QED BY <1>1, <1>2, <1>3 DEF find

(***************************************************************************)
(* vget, and its second look.                                              *)
(***************************************************************************)
LEMMA VgetInv ==
  ASSUME IInv, NEW t \in Threads, NEW i \in Inodes, vget(t, i)
  PROVE  IInv'
BY FindInv DEF vget, CanRun, Up

(* A thread that slept on vn_waitq looks the vnode up again. *)
LEMMA VgetAgainInv ==
  ASSUME IInv, NEW t \in Threads, vget_again(t)
  PROVE  IInv'
<1>1. th[t].pc = "woken" /\ mode = "up" /\ find(t, th[t].vno) /\ UNCHANGED <<linked, sync, mode>>
  BY DEF vget_again, Up
<1>2. th[t].vno \in Inodes /\ \A s \in Of(th[t].vno) : held[t][s] < MaxHeld
  BY <1>1, VnodeAssumption DEF IInv, BlockedRelyOn, Of
<1> QED BY <1>1, <1>2, FindInv

(***************************************************************************)
(* read_vnode has returned.                                                *)
(***************************************************************************)
LEMMA VgetReturnsInv ==
  ASSUME IInv, NEW t \in Threads, vget_returns(t)
  PROVE  IInv'
<1> DEFINE s == th[t].slot
<1>0. /\ th[t].pc = "reading" /\ mode = "up" /\ th[t] \in Blocks
      /\ th' = [th EXCEPT ![t] = Ready] /\ UNCHANGED <<linked, sync, mode>>
  BY DEF IInv, VnodeTypeOK, Blocks, vget_returns, Up
<1>1. s \in Slots /\ vn[s] # Nil /\ vn[s].busy
  BY <1>0 DEF IInv, BlockedRelyOn, UsersOnLive, Blocks
<1> HIDE DEF s
<1>2. /\ vn[s] \in Vnodes /\ s \in InUse /\ vn[s].ref = 0
      /\ \A q \in InUse : q # s => vn[q].vno # vn[s].vno
  BY <1>1, LiveFacts
<1>3. Held(s) = 0 /\ Res(vn[s]) = {} /\ held[t][s] = 0
  BY <1>1, <1>2, UnreferencedFacts
<1> DEFINE v == [vn[s] EXCEPT !.busy = FALSE, !.ref = 1]
<1>4. v.vno = vn[s].vno /\ v.ref = 1 /\ v.page = vn[s].page
  BY <1>2 DEF Vnodes
<1>5. v \in Vnodes /\ ~v.busy
  <2>1. 1 \in Nat
    OBVIOUS
  <2> QED BY <1>2, <2>1, Zenon DEF Vnodes
<1>6. vn' = [vn EXCEPT ![s] = v]
  BY DEF vget_returns, s
<1> HIDE DEF v
<1>7. Res(v) = {} /\ Cardinality(Res(v)) = 0
  BY <1>3, <1>4, FS_EmptySet DEF Res
<1>8. /\ held' \in [Threads -> [Slots -> 0 .. MaxHeld]] /\ held'[t][s] = 1
      /\ \A u \in Threads, q \in Slots : u # t \/ q # s => held'[u][q] = held[u][q]
  BY <1>1, <1>3, VnodeAssumption DEF vget_returns, IInv, VnodeTypeOK, s
<1>9. VnodeOK(t, s, v, held'[t][s])
  BY <1>2, <1>3, <1>4, <1>5, <1>7, <1>8 DEF VnodeOK
<1>10. OthersOK(t, s, v, Ready)
  BY <1>0, <1>1, <1>4, ReadyOthers DEF s
<1>11. Ready \in Blocks /\ BlockOK(s, v, held'[t][s], Ready)
  BY <1>1, ReadyBlock
<1> QED BY <1>0, <1>1, <1>5, <1>6, <1>8, <1>9, <1>10, <1>11, StepInv

(* vref. *)
LEMMA VrefInv ==
  ASSUME IInv, NEW t \in Threads, NEW s \in Slots, vref(t, s)
  PROVE  IInv'
<1>1. /\ th[t] = Ready /\ mode = "up" /\ held[t][s] \in 1 .. MaxHeld - 1
      /\ vn' = [vn EXCEPT ![s].ref = @ + 1]
      /\ held' = [held EXCEPT ![t][s] = @ + 1]
      /\ UNCHANGED <<linked, th, sync, mode>>
  BY DEF vref, CanRun, Up
<1>2. held[t][s] > 0 /\ held[t][s] < MaxHeld /\ vn[s] # Nil
  BY <1>1, VnodeAssumption DEF IInv, UsersOnLive
<1>3. ~vn[s].busy
  BY <1>2, UnreferencedFacts, LiveFacts
<1>4. th' = [th EXCEPT ![t] = Ready]
  BY <1>1 DEF IInv, VnodeTypeOK
<1> QED BY <1>1, <1>2, <1>3, <1>4, RefInv DEF TakesRef

(***************************************************************************)
(* A user's vnode is in the cache and not busy.                            *)
(***************************************************************************)
LEMMA UserFacts ==
  ASSUME IInv, NEW t \in Threads, NEW s \in Slots, held[t][s] > 0
  PROVE  /\ vn[s] # Nil /\ ~vn[s].busy /\ s # 0
         /\ \A u \in Threads : th[u].slot = s => th[u].pc \notin {"reading", "deleting"}
<1>1. vn[s] # Nil
  BY DEF IInv, UsersOnLive
<1>2. ~vn[s].busy
  BY <1>1, UnreferencedFacts, LiveFacts
<1> QED BY <1>1, <1>2, LiveFacts

(***************************************************************************)
(* A page is brought in: it comes with a reference.                        *)
(***************************************************************************)
LEMMA VreadpageInv ==
  ASSUME IInv, NEW t \in Threads, NEW s \in Slots, NEW g \in Pages, vreadpage(t, s, g)
  PROVE  IInv'
<1>0. /\ held[t][s] > 0 /\ mode = "up" /\ vn[s].page[g] = "out" /\ UNCHANGED <<linked, held, sync, mode>>
  BY DEF vreadpage, CanRun, Up
<1>1. /\ vn[s] # Nil /\ ~vn[s].busy
      /\ \A u \in Threads : th[u].slot = s => th[u].pc \notin {"reading", "deleting"}
  BY <1>0, UserFacts
<1>2. /\ vn[s] \in Vnodes /\ s \in InUse /\ Held(s) \in Nat /\ Cardinality(Res(vn[s])) \in Nat
      /\ vn[s].ref = Cardinality(Res(vn[s])) + Held(s)
      /\ held[t][s] \in Nat
      /\ \A q \in InUse : q # s => vn[q].vno # vn[s].vno
      /\ \A u \in Threads : th[u].slot = s =>
           /\ th[u].pc = "dropping" => th[u].pages \subseteq Res(vn[s])
           /\ th[u].pc = "filling" => \A h \in th[u].pages : vn[s].page[h] = "busy"
      /\ \A h \in Pages : sync = <<s, h>> => vn[s].page[h] = "busy"
  BY <1>1, LiveFacts
<1> DEFINE v == [[vn[s] EXCEPT !.ref = @ + 1] EXCEPT !.page[g] = "busy"]
           x == [pc |-> "filling", slot |-> s, vno |-> vn[s].vno, pages |-> {g}]
<1>3. /\ v \in Vnodes /\ v.vno = vn[s].vno /\ v.ref = vn[s].ref + 1
      /\ v.page = [vn[s].page EXCEPT ![g] = "busy"] /\ vn[s].page \in [Pages -> {"out", "in", "busy"}]
  <2> DEFINE a == [vn[s] EXCEPT !.ref = @ + 1]
             pg == [vn[s].page EXCEPT ![g] = "busy"]
  <2>1. /\ a \in Vnodes /\ a.page = vn[s].page /\ a.vno = vn[s].vno /\ a.ref = vn[s].ref + 1
        /\ vn[s].page \in [Pages -> {"out", "in", "busy"}]
    BY <1>2 DEF Vnodes
  <2>2. pg \in [Pages -> {"out", "in", "busy"}]
    BY <2>1
  <2>3. v = [a EXCEPT !.page = pg]
    BY <2>1
  <2> HIDE DEF a, pg, v
  <2>4. v \in Vnodes /\ v.vno = a.vno /\ v.ref = a.ref /\ v.page = pg
    BY <2>1, <2>2, <2>3 DEF Vnodes
  <2> QED BY <2>1, <2>4 DEF pg
<1>4. ~v.busy
  <2>1. v.busy = vn[s].busy
    BY <1>2 DEF Vnodes
  <2> QED BY <1>1, <2>1
<1>5. x \in Blocks /\ x.pc = "filling" /\ x.slot = s /\ x.vno = vn[s].vno /\ x.pages = {g}
  BY <1>2 DEF Blocks, Vnodes
<1>6. vn' = [vn EXCEPT ![s] = v] /\ th' = [th EXCEPT ![t] = x]
  BY DEF vreadpage, vo_vref, Block
<1> HIDE DEF v, x
<1>7. Res(v) = Res(vn[s]) \cup {g} /\ g \notin Res(vn[s]) /\ v.page[g] = "busy"
      /\ \A h \in Pages : vn[s].page[h] = "busy" => v.page[h] = "busy" /\ h # g
  BY <1>0, <1>3 DEF Res
<1>8. Cardinality(Res(v)) = Cardinality(Res(vn[s])) + 1
  BY <1>7, ResFinite, FS_AddElement
<1>9. VnodeOK(t, s, v, held'[t][s])
  BY <1>0, <1>2, <1>3, <1>4, <1>8 DEF VnodeOK
<1>10. OthersOK(t, s, v, x)
  <2>1. \A u \in Threads : th[u].pages \subseteq Pages
    BY DEF IInv, VnodeTypeOK
  <2>2. ASSUME NEW u \in Threads \ {t}, th[u].slot = s
        PROVE  /\ th[u].pc \notin {"reading", "deleting"} 
               /\ th[u].pc = "dropping" => th[u].pages \subseteq Res(v)
               /\ th[u].pc = "filling" => /\ \A h \in th[u].pages : v.page[h] = "busy"
                                          /\ th[u].pages \cap x.pages = {}
    BY <1>1, <1>2, <1>5, <1>7, <2>1, <2>2
  <2>3. \A h \in Pages : sync = <<s, h>> => v.page[h] = "busy" /\ h \notin x.pages
    BY <1>2, <1>5, <1>7
  <2> QED BY <1>5, <2>2, <2>3 DEF OthersOK
<1>11. BlockOK(s, v, held'[t][s], x)
  BY <1>0, <1>3, <1>5, <1>7 DEF BlockOK, Slots
<1>12. /\ held' \in [Threads -> [Slots -> 0 .. MaxHeld]]
       /\ \A u \in Threads, q \in Slots : u # t \/ q # s => held'[u][q] = held[u][q]
  BY <1>0 DEF IInv, VnodeTypeOK
<1> QED BY <1>0, <1>3, <1>5, <1>6, <1>9, <1>10, <1>11, <1>12, StepInv

(* The read of a page ends. *)
LEMMA VreadpageReturnsInv ==
  ASSUME IInv, NEW t \in Threads, vreadpage_returns(t)
  PROVE  IInv'
<1> DEFINE s == th[t].slot
<1>0. /\ th[t].pc = "filling" /\ mode = "up" /\ th[t] \in Blocks
      /\ th' = [th EXCEPT ![t] = Ready] /\ UNCHANGED <<linked, held, sync, mode>>
  BY DEF IInv, VnodeTypeOK, Blocks, vreadpage_returns, Up
<1>1. s \in Slots /\ held[t][s] > 0
  BY <1>0 DEF IInv, BlockedRelyOn, Blocks
<1> HIDE DEF s
<1>2. /\ vn[s] # Nil /\ ~vn[s].busy
      /\ \A u \in Threads : th[u].slot = s => th[u].pc \notin {"reading", "deleting"}
  BY <1>1, UserFacts
<1>3. /\ vn[s] \in Vnodes /\ s \in InUse /\ Held(s) \in Nat /\ Cardinality(Res(vn[s])) \in Nat
      /\ vn[s].ref = Cardinality(Res(vn[s])) + Held(s)
      /\ held[t][s] \in Nat
      /\ \A q \in InUse : q # s => vn[q].vno # vn[s].vno
      /\ \A u \in Threads : th[u].slot = s =>
           /\ th[u].pc = "dropping" => th[u].pages \subseteq Res(vn[s])
           /\ th[u].pc = "filling" => \A h \in th[u].pages : vn[s].page[h] = "busy"
      /\ \A h \in Pages : sync = <<s, h>> => vn[s].page[h] = "busy"
  BY <1>1, <1>2, LiveFacts
<1> DEFINE v == [vn[s] EXCEPT !.page = [g \in Pages |-> IF g \in th[t].pages THEN "in" ELSE @[g]]]
<1>4. /\ v \in Vnodes /\ v.vno = vn[s].vno /\ v.ref = vn[s].ref
      /\ v.page = [g \in Pages |-> IF g \in th[t].pages THEN "in" ELSE vn[s].page[g]]
  BY <1>3 DEF Vnodes
<1>5. ~v.busy
  <2>1. v.busy = vn[s].busy
    BY <1>3 DEF Vnodes
  <2> QED BY <1>2, <2>1
<1>6. vn' = [vn EXCEPT ![s] = v]
  BY DEF vreadpage_returns, s
<1> HIDE DEF v
<1>7. \A g \in th[t].pages : g \in Pages /\ vn[s].page[g] = "busy"
  BY <1>0, <1>3 DEF s, Blocks
<1>8. Res(v) = Res(vn[s])
  BY <1>4, <1>7 DEF Res
<1>9. VnodeOK(t, s, v, held'[t][s])
  BY <1>0, <1>3, <1>4, <1>5, <1>8 DEF VnodeOK
<1>10. OthersOK(t, s, v, Ready)
  <2>1. Ready.pc = "ready" /\ Ready.slot # s
    BY <1>1 DEF Ready, Slots
  <2>2. \A u \in Threads : th[u].pages \subseteq Pages
    BY DEF IInv, VnodeTypeOK
  <2>3. ASSUME NEW u \in Threads \ {t}, th[u].slot = s, th[u].pc = "filling", NEW h \in th[u].pages
        PROVE  v.page[h] = "busy"
    <3>1. th[t].pages \cap th[u].pages = {}
      BY <1>0, <1>1, <2>3 DEF IInv, BlockedApart, s, Slots
    <3> QED BY <1>3, <1>4, <2>2, <2>3, <3>1
  <2>4. ASSUME NEW h \in Pages, sync = <<s, h>> PROVE v.page[h] = "busy"
    <3>1. h \notin th[t].pages
      <4>1. sync # Nil /\ sync[1] = s /\ sync[2] = h
        BY <1>1, <2>4, VnodeAssumption
      <4> QED BY <1>0, <4>1 DEF IInv, BlockedApart, s
    <3> QED BY <1>3, <1>4, <2>4, <3>1
  <2> QED BY <1>2, <1>3, <1>8, <2>1, <2>3, <2>4 DEF OthersOK
<1>11. Ready \in Blocks /\ BlockOK(s, v, held'[t][s], Ready)
  BY <1>1, ReadyBlock
<1>12. /\ held' \in [Threads -> [Slots -> 0 .. MaxHeld]]
       /\ \A u \in Threads, q \in Slots : u # t \/ q # s => held'[u][q] = held[u][q]
  BY <1>0 DEF IInv, VnodeTypeOK
<1> QED BY <1>0, <1>1, <1>4, <1>6, <1>9, <1>10, <1>11, <1>12, StepInv

-----------------------------------------------------------------------------
(***************************************************************************)
(* vput.  The pages v has are those of vnode s that are left: none that is *)
(* busy has gone, nor one that another thread is to free.                  *)
(***************************************************************************)
PagesLeft(t, s, v) ==
  /\ v \in Vnodes /\ v.vno = vn[s].vno /\ ~v.busy
  /\ v.ref = Cardinality(Res(v)) + Held(s)
  /\ \A g \in Pages : vn[s].page[g] = "busy" => v.page[g] = "busy"
  /\ \A u \in Threads \ {t} : th[u].slot = s /\ th[u].pc = "dropping" => th[u].pages \subseteq Res(v)

(* A thread drops one reference to s, of which v is left. *)
LEMMA PutRefInv ==
  ASSUME IInv, mode = "up", NEW t \in Threads, NEW s \in Slots, held[t][s] > 0, NEW v,
         PagesLeft(t, s, v), PutRef(t, s, v), UNCHANGED <<linked, sync, mode>>
  PROVE  IInv'
<1>1. /\ vn[s] # Nil /\ ~vn[s].busy /\ s # 0
      /\ \A u \in Threads : th[u].slot = s => th[u].pc \notin {"reading", "deleting"}
  BY UserFacts
<1>2. /\ vn[s] \in Vnodes /\ s \in InUse /\ Held(s) \in Nat
      /\ held[t][s] \in Nat /\ held[t][s] <= Held(s)
      /\ \A q \in InUse : q # s => vn[q].vno # vn[s].vno
      /\ \A u \in Threads : th[u].slot = s =>
           /\ th[u].pc \notin {"ready", "woken"}
           /\ th[u].pc \in {"filling", "dropping"} => held[u][s] > 0
           /\ th[u].pc = "filling" => \A h \in th[u].pages : vn[s].page[h] = "busy"
      /\ \A h \in Pages : sync = <<s, h>> => vn[s].page[h] = "busy"
  BY <1>1, LiveFacts
<1>3. /\ v \in Vnodes /\ v.vno = vn[s].vno
      /\ v.ref = Cardinality(Res(v)) + Held(s) /\ Cardinality(Res(v)) \in Nat
      /\ \A g \in Pages : vn[s].page[g] = "busy" => v.page[g] = "busy"
      /\ \A u \in Threads \ {t} : th[u].slot = s /\ th[u].pc = "dropping" => th[u].pages \subseteq Res(v)
  BY ResFinite DEF PagesLeft
<1> DEFINE w == LastPut(v)
           last == v.ref <= 1
           x == IF last THEN [pc |-> "deleting", slot |-> s, vno |-> v.vno, pages |-> {}] ELSE Ready
<1>4. v.ref - 1 \in Nat
  BY <1>2, <1>3
<1>5. w.vno = vn[s].vno /\ w.ref = v.ref - 1 /\ w.page = v.page
  BY <1>3 DEF LastPut, Vnodes
<1>6. w \in Vnodes /\ w.busy = last
  <2>1. w \in Vnodes
    <3> DEFINE b == [v EXCEPT !.ref = @ - 1]
    <3>1. b \in Vnodes
      BY <1>3, <1>4 DEF Vnodes
    <3>2. w = [b EXCEPT !.busy = last]
      BY DEF LastPut
    <3>3. last \in BOOLEAN
      OBVIOUS
    <3> HIDE DEF b, last, w
    <3> QED BY <3>1, <3>2, <3>3, Zenon DEF Vnodes
  <2>2. w.busy = last
    BY <1>3, <1>4, Zenon DEF LastPut, Vnodes
  <2> QED BY <2>1, <2>2
<1>7. vn' = [vn EXCEPT ![s] = w] /\ th' = [th EXCEPT ![t] = x]
  BY DEF PutRef, Block
<1>8. x \in Blocks /\ (last => x.pc = "deleting" /\ x.slot = s /\ x.vno = v.vno) /\ (~last => x = Ready)
  BY <1>3, ReadyBlock DEF Blocks, Vnodes
<1> HIDE DEF w, x
<1>9. /\ held' \in [Threads -> [Slots -> 0 .. MaxHeld]] /\ held'[t][s] = held[t][s] - 1
      /\ \A u \in Threads, q \in Slots : u # t \/ q # s => held'[u][q] = held[u][q]
  <2>1. held \in [Threads -> [Slots -> 0 .. MaxHeld]] /\ held[t][s] - 1 \in 0 .. MaxHeld
    BY <1>2, VnodeAssumption DEF IInv, VnodeTypeOK
  <2> QED BY <2>1 DEF PutRef
<1>10. Res(w) = Res(v)
  BY <1>5 DEF Res
<1>11. last => v.ref = 1 /\ Held(s) = 1 /\ held[t][s] = 1
  BY <1>2, <1>3
<1>12. VnodeOK(t, s, w, held'[t][s])
  <2>1. w.busy => w.ref = 0
    <3>1. last => w.ref = 0
      BY <1>5, <1>11
    <3> HIDE DEF last
    <3>2. w.busy => last
      BY <1>6, Zenon
    <3> QED BY <3>1, <3>2
  <2>2. w.ref = Cardinality(Res(w)) + Held(s) - held[t][s] + held'[t][s]
    BY <1>2, <1>3, <1>5, <1>9, <1>10
  <2> QED BY <1>2, <1>5, <2>1, <2>2 DEF VnodeOK
<1>13. OthersOK(t, s, w, x)
  <2>1. \A u \in Threads : th[u].pages \subseteq Pages
    BY DEF IInv, VnodeTypeOK
  <2>2. x.pc \in {"ready", "deleting"} /\ (x.slot = s => last)
    BY <1>1, <1>8 DEF Ready
  <2>3. ASSUME NEW u \in Threads \ {t}, th[u].slot = s, last PROVE th[u].pc = "asleep"
    <3>1. held[t][s] + held[u][s] <= Held(s) /\ held[u][s] \in Nat
      BY HeldFacts DEF IInv
    <3>2. ~(held[u][s] > 0)
      BY <1>11, <2>3, <3>1
    <3>3. th[u].pc \in {"ready", "asleep", "woken", "reading", "filling", "dropping", "deleting"}
      BY DEF IInv, VnodeTypeOK
    <3> QED BY <1>1, <1>2, <2>3, <3>2, <3>3
  <2>4. ASSUME NEW u \in Threads \ {t}, th[u].slot = s, th[u].pc = "filling", NEW g \in th[u].pages
        PROVE  w.page[g] = "busy"
    BY <1>2, <1>3, <1>5, <2>1, <2>4
  <2>5. \A g \in Pages : sync = <<s, g>> => w.page[g] = "busy"
    BY <1>2, <1>3, <1>5
  <2> QED BY <1>1, <1>3, <1>10, <2>2, <2>3, <2>4, <2>5 DEF OthersOK
<1>14. BlockOK(s, w, held'[t][s], x)
  <2>1. CASE last
    BY <1>1, <1>3, <1>5, <1>6, <1>8, <2>1 DEF BlockOK
  <2>2. CASE ~last
    BY <1>8, <2>2, ReadyBlock
  <2> QED BY <2>1, <2>2
<1> HIDE DEF last
<1> QED BY <1>6, <1>7, <1>8, <1>9, <1>12, <1>13, <1>14, StepInv

(***************************************************************************)
(* The pages of P that can be are freed, and each takes its reference      *)
(* along.                                                                  *)
(***************************************************************************)
LEMMA FreePagesFacts ==
  ASSUME IInv, NEW t \in Threads, NEW s \in Slots, held[t][s] > 0,
         NEW P \in SUBSET Resident(s),
         \A u \in Threads \ {t} : ~(th[u].slot = s /\ th[u].pc = "dropping")
  PROVE  PagesLeft(t, s, FreePages(s, P)) /\ P \ Freed(s, P) \subseteq Res(FreePages(s, P))
<1>1. vn[s] # Nil /\ ~vn[s].busy
  BY UserFacts
<1>2. /\ vn[s] \in Vnodes /\ Held(s) \in Nat /\ Cardinality(Res(vn[s])) \in Nat
      /\ vn[s].ref = Cardinality(Res(vn[s])) + Held(s)
  BY <1>1, LiveFacts
<1> DEFINE F == Freed(s, P)
           v == FreePages(s, P)
           pg == [g \in Pages |-> IF g \in F THEN "out" ELSE vn[s].page[g]]
<1>3. P \subseteq Res(vn[s])
  BY DEF Resident, Res
<1>4. F \in SUBSET Res(vn[s]) /\ \A g \in F : vn[s].page[g] = "in"
  BY <1>3 DEF Freed
<1>5. /\ Cardinality(F) \in Nat /\ Cardinality(F) <= Cardinality(Res(vn[s]))
      /\ Cardinality(Res(vn[s]) \ F) = Cardinality(Res(vn[s])) - Cardinality(F)
  <2>1. IsFiniteSet(Res(vn[s])) /\ Res(vn[s]) \cap F = F
    BY <1>4, ResFinite
  <2>2. IsFiniteSet(F) /\ Cardinality(F) <= Cardinality(Res(vn[s]))
    BY <1>4, <2>1, FS_Subset
  <2>3. Cardinality(Res(vn[s]) \ F) = Cardinality(Res(vn[s])) - Cardinality(Res(vn[s]) \cap F)
    BY <2>1, FS_Difference
  <2> QED BY <2>1, <2>2, <2>3, FS_CardinalityType
<1>6. v = [vn[s] EXCEPT !.page = pg, !.ref = vn[s].ref - Cardinality(F)]
  BY DEF FreePages
<1> HIDE DEF F, v
<1>7. vn[s].ref - Cardinality(F) \in Nat
  BY <1>2, <1>5
<1>8. pg \in [Pages -> {"out", "in", "busy"}]
  BY <1>2 DEF Vnodes
<1>9. v \in Vnodes /\ v.vno = vn[s].vno /\ v.ref = vn[s].ref - Cardinality(F) /\ v.page = pg
  <2> HIDE DEF pg
  <2> QED BY <1>2, <1>6, <1>7, <1>8 DEF Vnodes
<1>10. ~v.busy
  <2> HIDE DEF pg
  <2>1. v.busy = vn[s].busy
    BY <1>2, <1>6 DEF Vnodes
  <2> QED BY <1>1, <2>1
<1>11. Res(v) = Res(vn[s]) \ F
  BY <1>9 DEF Res
<1>12. v.ref = Cardinality(Res(v)) + Held(s)
  BY <1>2, <1>5, <1>9, <1>11
<1>13. \A g \in Pages : vn[s].page[g] = "busy" => v.page[g] = "busy"
  BY <1>4, <1>9
<1>14. P \ F \subseteq Res(v)
  BY <1>3, <1>11
<1>15. PagesLeft(t, s, v)
  BY <1>9, <1>10, <1>12, <1>13 DEF PagesLeft
<1> QED BY <1>14, <1>15 DEF F, v

(* vput frees the pages of a passive vnode, and sleeps on a busy one or drops its reference. *)
LEMMA DropPagesInv ==
  ASSUME IInv, mode = "up", NEW t \in Threads, NEW s \in Slots, held[t][s] > 0,
         NEW P \in SUBSET Resident(s),
         \A u \in Threads \ {t} : ~(th[u].slot = s /\ th[u].pc = "dropping"),
         DropPages(t, s, P), UNCHANGED <<linked, sync>>
  PROVE  IInv'
<1> DEFINE v == FreePages(s, P)
<1>1. PagesLeft(t, s, v) /\ P \ Freed(s, P) \subseteq Res(v)
  BY FreePagesFacts
<1>2. CASE /\ vn' = [vn EXCEPT ![s] = v]
           /\ Block(t, "dropping", s, vn[s].vno, P \ Freed(s, P))
           /\ UNCHANGED <<held, mode>>
  <2> DEFINE x == [pc |-> "dropping", slot |-> s, vno |-> vn[s].vno, pages |-> P \ Freed(s, P)]
  <2>1. /\ vn[s] # Nil /\ s # 0
        /\ \A u \in Threads : th[u].slot = s => th[u].pc \notin {"reading", "deleting"}
    BY UserFacts
  <2>2. /\ vn[s] \in Vnodes /\ s \in InUse /\ held[t][s] \in Nat /\ Held(s) \in Nat
        /\ \A q \in InUse : q # s => vn[q].vno # vn[s].vno
        /\ \A u \in Threads : th[u].slot = s =>
             (th[u].pc = "filling" => \A g \in th[u].pages : vn[s].page[g] = "busy")
        /\ \A g \in Pages : sync = <<s, g>> => vn[s].page[g] = "busy"
    BY <2>1, LiveFacts
  <2>3. P \subseteq Pages
    BY DEF Resident
  <2>4. x \in Blocks /\ x.pc = "dropping" /\ x.slot = s /\ x.vno = vn[s].vno /\ x.pages \subseteq Res(v)
    BY <1>1, <2>2, <2>3 DEF Blocks, Vnodes
  <2>5. vn' = [vn EXCEPT ![s] = v] /\ th' = [th EXCEPT ![t] = x] /\ UNCHANGED <<held, mode>>
    BY <1>2 DEF Block
  <2>6. /\ v \in Vnodes /\ v.vno = vn[s].vno /\ ~v.busy
        /\ v.ref = Cardinality(Res(v)) + Held(s) /\ Cardinality(Res(v)) \in Nat
        /\ \A g \in Pages : vn[s].page[g] = "busy" => v.page[g] = "busy"
    BY <1>1, ResFinite DEF PagesLeft
  <2> HIDE DEF v, x
  <2>7. VnodeOK(t, s, v, held'[t][s])
    BY <2>2, <2>5, <2>6 DEF VnodeOK
  <2>8. OthersOK(t, s, v, x)
    <3>1. \A u \in Threads : th[u].pages \subseteq Pages
      BY DEF IInv, VnodeTypeOK
    <3> QED BY <2>1, <2>2, <2>4, <2>6, <3>1 DEF OthersOK
  <2>9. BlockOK(s, v, held'[t][s], x)
    BY <2>1, <2>4, <2>5, <2>6 DEF BlockOK
  <2>10. /\ held' \in [Threads -> [Slots -> 0 .. MaxHeld]]
         /\ \A u \in Threads, q \in Slots : u # t \/ q # s => held'[u][q] = held[u][q]
    BY <2>5 DEF IInv, VnodeTypeOK
  <2> QED BY <2>4, <2>5, <2>6, <2>7, <2>8, <2>9, <2>10, StepInv
<1>3. CASE PutRef(t, s, v) /\ UNCHANGED mode
  BY <1>1, <1>3, PutRefInv
<1>4. CASE mode' = "panicked" /\ UNCHANGED <<vn, held, th>>
  <2>1. UNCHANGED <<vn, held, th, linked, sync>> /\ mode' = "panicked"
    BY <1>4
  <2>2. /\ VnodeTypeOK' /\ OneSlot' /\ RefsArePagesAndUsers' /\ UsersOnLive' /\ DroppingResident'
        /\ BusyUnreferenced' /\ BlockedRelyOn' /\ BlockedApart'
    BY <2>1 DEF IInv, VnodeTypeOK, OneSlot, RefsArePagesAndUsers, UsersOnLive, DroppingResident,
                BusyUnreferenced, BlockedRelyOn, BlockedApart, InUse, nrespages, Resident
  <2>3. FlushEmpties'
    BY <2>1 DEF FlushEmpties
  <2> QED BY <2>2, <2>3 DEF IInv
<1> QED BY <1>2, <1>3, <1>4 DEF DropPages

(***************************************************************************)
(* vput: nobody else is a user when the pages of an unlinked file go.      *)
(***************************************************************************)
LEMMA VputInv ==
  ASSUME IInv, NEW t \in Threads, NEW s \in Slots, vput(t, s)
  PROVE  IInv'
<1>0. held[t][s] > 0 /\ mode = "up" /\ UNCHANGED <<linked, sync>>
  BY DEF vput, CanRun, Up
<1>1. vn[s] # Nil /\ ~vn[s].busy
  BY <1>0, UserFacts
<1>2. /\ vn[s] \in Vnodes /\ s \in InUse /\ held[t][s] \in Nat /\ Held(s) \in Nat
      /\ vn[s].ref = Cardinality(Res(vn[s])) + Held(s) /\ Cardinality(Res(vn[s])) \in Nat
      /\ nrespages(s) = Cardinality(Res(vn[s]))
      /\ \A u \in Threads : th[u].slot = s =>
           /\ th[u].pc = "dropping" => held[u][s] > 0 /\ th[u].pages \subseteq Res(vn[s])
  BY <1>1, LiveFacts
<1>3. CASE BecomesPassive(s)
  <2>1. DropPages(t, s, Resident(s))
    BY <1>3 DEF vput
  <2>2. Held(s) = 1
    BY <1>2, <1>3 DEF BecomesPassive
  <2>3. ASSUME NEW u \in Threads \ {t} PROVE ~(th[u].slot = s /\ th[u].pc = "dropping")
    <3>1. held[t][s] + held[u][s] <= Held(s) /\ held[u][s] \in Nat
      BY HeldFacts DEF IInv
    <3>2. ~(held[u][s] > 0)
      BY <1>0, <1>2, <2>2, <3>1
    <3> QED BY <1>2, <3>2
  <2> QED BY <1>0, <2>1, <2>3, DropPagesInv
<1>4. CASE ~BecomesPassive(s)
  <2>1. PutRef(t, s, vn[s]) /\ UNCHANGED mode
    BY <1>4 DEF vput
  <2>2. PagesLeft(t, s, vn[s])
    BY <1>1, <1>2 DEF PagesLeft
  <2> QED BY <1>0, <2>1, <2>2, PutRefInv
<1> QED BY <1>3, <1>4

(* vput goes on after it has waited for a busy page. *)
LEMMA VputDropsInv ==
  ASSUME IInv, NEW t \in Threads, vput_drops(t)
  PROVE  IInv'
<1> DEFINE s == th[t].slot
<1>0. /\ th[t].pc = "dropping" /\ mode = "up" /\ th[t] \in Blocks
      /\ DropPages(t, s, th[t].pages) /\ UNCHANGED <<linked, sync>>
  BY DEF IInv, VnodeTypeOK, Blocks, vput_drops, Up
<1>1. s \in Slots /\ held[t][s] > 0 /\ th[t].pages \in SUBSET Resident(s)
  BY <1>0 DEF IInv, BlockedRelyOn, DroppingResident, Blocks
<1>2. \A u \in Threads \ {t} : ~(th[u].slot = s /\ th[u].pc = "dropping")
  BY <1>0, <1>1 DEF IInv, BlockedApart, Slots
<1> HIDE DEF s
<1> QED BY <1>0, <1>1, <1>2, DropPagesInv

(***************************************************************************)
(* The vnode is freed: only threads asleep were blocked in it, and they    *)
(* are all woken.                                                          *)
(***************************************************************************)
LEMMA VputDeletesInv ==
  ASSUME IInv, NEW t \in Threads, vput_deletes(t)
  PROVE  IInv'
<1> DEFINE s == th[t].slot
<1>0. /\ th[t].pc = "deleting" /\ mode = "up" /\ UNCHANGED <<linked, held, sync, mode>>
      /\ vn' = [vn EXCEPT ![s] = Nil]
  BY DEF vput_deletes, Up
<1>1. /\ vn \in [Slots -> Vnodes \cup {Nil}] /\ th \in [Threads -> Blocks]
      /\ s \in Slots /\ s # 0 /\ vn[s] # Nil /\ vn[s].busy
  BY <1>0 DEF IInv, VnodeTypeOK, Blocks, BlockedRelyOn, UsersOnLive, Slots
<1>2. vn[s].ref = 0
  BY <1>1, LiveFacts
<1>3. (\A u \in Threads : held[u][s] = 0) /\ \A g \in Pages : sync # <<s, g>>
  BY <1>1, <1>2, UnreferencedFacts
<1>4. \A u \in Threads : u # t /\ th[u].slot = s => th[u].pc = "asleep"
  BY <1>0, <1>1 DEF IInv, BlockedApart
<1>5. /\ th'[t] = Ready
      /\ \A u \in Threads : u # t /\ th[u].slot = s => th'[u] = [th[u] EXCEPT !.pc = "woken", !.slot = 0]
      /\ \A u \in Threads : u # t /\ th[u].slot # s => th'[u] = th[u]
      /\ th' = [u \in Threads |-> th'[u]]
  BY <1>4 DEF vput_deletes, WokenBy, Waiting
<1> HIDE DEF s
<1>6. \A u \in Threads : u # t /\ th[u].slot = s =>
        /\ th'[u] \in Blocks /\ th'[u].pc = "woken" /\ th'[u].slot = 0 /\ th'[u].vno = th[u].vno
        /\ th[u].pc = "asleep"
  <2> TAKE u \in Threads
  <2>1. th[u] \in Blocks
    BY <1>1
  <2> QED BY <1>4, <1>5, <2>1, ZenonT(60) DEF Blocks
<1>7. Ready \in Blocks /\ Ready.pc = "ready" /\ Ready.slot = 0
  BY DEF Ready, Blocks
<1>8. th' \in [Threads -> Blocks] /\ vn' \in [Slots -> Vnodes \cup {Nil}]
      /\ vn'[s] = Nil /\ \A q \in Slots : q # s => vn'[q] = vn[q]
  <2>1. \A u \in Threads : th'[u] \in Blocks
    BY <1>1, <1>5, <1>6, <1>7, ZenonT(60)
  <2> QED BY <1>0, <1>1, <1>5, <2>1
<1>9. InUse' = InUse \ {s}
  BY <1>8 DEF InUse
<1>10. VnodeTypeOK'
  BY <1>0, <1>8 DEF IInv, VnodeTypeOK, Blocks
<1>11. OneSlot' /\ BusyUnreferenced' /\ FlushEmpties'
  BY <1>0, <1>8, <1>9 DEF IInv, OneSlot, BusyUnreferenced, FlushEmpties, InUse
<1>12. RefsArePagesAndUsers'
  <2> SUFFICES ASSUME NEW q \in InUse'
               PROVE  vn'[q].ref = nrespages(q)' + Total([u \in Threads |-> held'[u][q]], Threads)
    BY DEF RefsArePagesAndUsers
  <2>1. q \in InUse /\ vn'[q] = vn[q]
    BY <1>8, <1>9 DEF InUse
  <2>2. nrespages(q)' = nrespages(q)
    BY <2>1 DEF nrespages
  <2> QED BY <1>0, <2>1, <2>2 DEF IInv, RefsArePagesAndUsers
<1>13. UsersOnLive'
  <2>1. ASSUME NEW u \in Threads, th'[u].slot # 0
        PROVE  vn'[th'[u].slot] # Nil /\ vn'[th'[u].slot].vno = th'[u].vno
    <3>1. u # t /\ th[u].slot # s /\ th'[u] = th[u]
      BY <1>5, <1>6, <1>7, <2>1
    <3>2. th[u].slot \in Slots
      BY <1>1, <2>1, <3>1 DEF Blocks
    <3> QED BY <1>8, <2>1, <3>1, <3>2 DEF IInv, UsersOnLive
  <2>2. \A u \in Threads, q \in Slots : held'[u][q] > 0 => vn'[q] # Nil
    BY <1>0, <1>3, <1>8 DEF IInv, UsersOnLive
  <2>3. ASSUME sync' # Nil PROVE vn'[sync'[1]] # Nil
    <3>1. PICK q \in Slots, g \in Pages : sync = <<q, g>>
      BY <1>0, <2>3 DEF IInv, VnodeTypeOK
    <3>2. q # s /\ vn[q] # Nil
      BY <1>0, <1>3, <2>3, <3>1 DEF IInv, UsersOnLive
    <3> QED BY <1>0, <1>8, <3>1, <3>2
  <2> QED BY <2>1, <2>2, <2>3 DEF UsersOnLive
<1>14. DroppingResident'
  <2> SUFFICES ASSUME NEW u \in Threads, th'[u].pc = "dropping"
               PROVE  th'[u].pages \subseteq Res(vn'[th'[u].slot])
    BY DEF DroppingResident, Resident, Res
  <2>1. th'[u] = th[u] /\ th[u].slot # s
    BY <1>5, <1>6, <1>7
  <2>2. th[u].slot \in Slots
    BY <1>1, <2>1 DEF IInv, BlockedRelyOn, Blocks
  <2>3. th[u].pages \subseteq Res(vn[th[u].slot])
    BY <2>1 DEF IInv, DroppingResident, Resident, Res
  <2> QED BY <1>8, <2>1, <2>2, <2>3
<1>15. BlockedRelyOn'
  <2> SUFFICES ASSUME NEW u \in Threads
               PROVE  /\ th'[u].pc \in {"ready", "woken"} <=> th'[u].slot = 0
                      /\ th'[u].pc \in {"asleep", "woken"} =>
                           th'[u].vno \in Inodes /\ \A q \in InUse' : vn'[q].vno = th'[u].vno => held'[u][q] = 0
                      /\ th'[u].pc \in {"reading", "deleting"} => vn'[th'[u].slot].busy
                      /\ th'[u].pc \in {"filling", "dropping"} => held'[u][th'[u].slot] > 0
                      /\ th'[u].pc = "filling" => \A g \in th'[u].pages : vn'[th'[u].slot].page[g] = "busy"
    BY DEF BlockedRelyOn
  <2>0. th[u].pc \in {"asleep", "woken"} =>
          th[u].vno \in Inodes /\ \A q \in InUse' : vn'[q].vno = th[u].vno => held'[u][q] = 0
    BY <1>0, <1>8, <1>9 DEF IInv, BlockedRelyOn, InUse
  <2>1. CASE u = t
    BY <1>5, <1>7, <2>1
  <2>2. CASE u # t /\ th[u].slot = s
    BY <1>6, <2>0, <2>2
  <2>3. CASE u # t /\ th[u].slot # s
    <3>1. th'[u] = th[u]
      BY <1>5, <2>3
    <3>2. th[u].slot # 0 => th[u].slot \in Slots /\ vn'[th[u].slot] = vn[th[u].slot]
      BY <1>1, <1>8, <2>3 DEF Blocks
    <3>3. /\ th[u].pc \in {"ready", "woken"} <=> th[u].slot = 0
          /\ th[u].pc \in {"reading", "deleting"} => vn[th[u].slot].busy
          /\ th[u].pc \in {"filling", "dropping"} => held[u][th[u].slot] > 0
          /\ th[u].pc = "filling" => \A g \in th[u].pages : vn[th[u].slot].page[g] = "busy"
      BY DEF IInv, BlockedRelyOn
    <3> QED BY <1>0, <2>0, <3>1, <3>2, <3>3
  <2> QED BY <2>1, <2>2, <2>3
<1>16. BlockedApart'
  <2>1. ASSUME NEW a \in Threads, NEW b \in Threads, a # b, th'[a].slot # 0, th'[a].slot = th'[b].slot
        PROVE  /\ th'[a].pc \in {"reading", "deleting"} => th'[b].pc = "asleep"
               /\ th'[a].pc = "dropping" => th'[b].pc # "dropping"
               /\ th'[a].pc = "filling" /\ th'[b].pc = "filling" => th'[a].pages \cap th'[b].pages = {}
    <3>1. th'[a] = th[a] /\ th'[b] = th[b]
      BY <1>5, <1>6, <1>7, <2>1
    <3> QED BY <2>1, <3>1 DEF IInv, BlockedApart
  <2>2. ASSUME sync' # Nil
        PROVE  /\ vn'[sync'[1]].page[sync'[2]] = "busy"
               /\ \A u \in Threads : th'[u].pc = "filling" /\ th'[u].slot = sync'[1] => sync'[2] \notin th'[u].pages
    <3>1. PICK q \in Slots, g \in Pages : sync = <<q, g>>
      BY <1>0, <2>2 DEF IInv, VnodeTypeOK
    <3>2. /\ sync' = <<q, g>> /\ sync'[1] = q /\ sync'[2] = g /\ q # s
          /\ vn[q].page[g] = "busy"
          /\ \A u \in Threads : th[u].pc = "filling" /\ th[u].slot = q => g \notin th[u].pages
      BY <1>0, <1>3, <2>2, <3>1 DEF IInv, BlockedApart
    <3>3. \A u \in Threads : th'[u].pc = "filling" => th'[u] = th[u]
      BY <1>5, <1>6, <1>7
    <3> QED BY <1>8, <3>2, <3>3
  <2> QED BY <2>1, <2>2 DEF BlockedApart
<1> QED BY <1>10, <1>11, <1>12, <1>13, <1>14, <1>15, <1>16 DEF IInv

-----------------------------------------------------------------------------
(***************************************************************************)
(* sync marks a page busy or not.                                          *)
(***************************************************************************)
LEMMA SyncInv ==
  ASSUME IInv, mode = "up", NEW s \in Slots, vn[s] # Nil, NEW v \in Vnodes,
         v.vno = vn[s].vno, v.ref = vn[s].ref, v.busy = vn[s].busy, Res(v) = Res(vn[s]),
         vn' = [vn EXCEPT ![s] = v], UNCHANGED <<linked, held, th, mode>>,
         sync' \in {Nil} \cup ({s} \X Pages),
         \A u \in Threads : th[u].slot = s /\ th[u].pc = "filling" =>
           \A g \in th[u].pages : v.page[g] = "busy" /\ sync' # <<s, g>>,
         \A g \in Pages : sync' = <<s, g>> => v.page[g] = "busy"
  PROVE  IInv'
<1>0. vn \in [Slots -> Vnodes \cup {Nil}] /\ v # Nil
  BY VnodeAssumption DEF IInv, VnodeTypeOK
<1>1. /\ vn' \in [Slots -> Vnodes \cup {Nil}] /\ vn'[s] = v /\ \A q \in Slots : q # s => vn'[q] = vn[q]
      /\ UNCHANGED <<linked, held, th, mode>>
  BY <1>0
<1>2. InUse' = InUse /\ s \in InUse
  BY <1>0, <1>1 DEF InUse
<1>3. VnodeTypeOK'
  BY <1>1 DEF IInv, VnodeTypeOK
<1>4. \A q \in InUse : vn'[q].vno = vn[q].vno /\ vn'[q].ref = vn[q].ref /\ Res(vn'[q]) = Res(vn[q])
  BY <1>1 DEF InUse
<1>5. \A q \in InUse : vn'[q].busy => vn[q].busy
  BY <1>1 DEF InUse
<1>5a. \A q \in InUse : vn[q].busy => vn'[q].busy
  BY <1>1 DEF InUse
<1>6. OneSlot' /\ BusyUnreferenced'
  BY <1>2, <1>4, <1>5 DEF IInv, OneSlot, BusyUnreferenced
<1>7. FlushEmpties'
  BY DEF FlushEmpties
<1>8. RefsArePagesAndUsers'
  <2> SUFFICES ASSUME NEW q \in InUse'
               PROVE  vn'[q].ref = nrespages(q)' + Total([u \in Threads |-> held'[u][q]], Threads)
    BY DEF RefsArePagesAndUsers
  <2>1. nrespages(q)' = Cardinality(Res(vn'[q])) /\ nrespages(q) = Cardinality(Res(vn[q]))
    BY DEF nrespages, Res
  <2> QED BY <1>1, <1>2, <1>4, <2>1 DEF IInv, RefsArePagesAndUsers
<1>9. \A u \in Threads : th[u].slot # 0 => th[u].slot \in InUse /\ th[u].slot \in Slots
  BY DEF IInv, UsersOnLive, VnodeTypeOK, InUse
<1>10. UsersOnLive'
  <2>1. \A u \in Threads : th'[u].slot # 0 => vn'[th'[u].slot] # Nil /\ vn'[th'[u].slot].vno = th'[u].vno
    BY <1>0, <1>1, <1>4, <1>9 DEF IInv, UsersOnLive
  <2>2. \A u \in Threads, q \in Slots : held'[u][q] > 0 => vn'[q] # Nil
    BY <1>0, <1>1 DEF IInv, UsersOnLive
  <2>3. sync' # Nil => vn'[sync'[1]] # Nil
    BY <1>0, <1>1
  <2> QED BY <2>1, <2>2, <2>3 DEF UsersOnLive
<1>11. DroppingResident'
  <2> SUFFICES ASSUME NEW u \in Threads, th'[u].pc = "dropping"
               PROVE  th'[u].pages \subseteq Res(vn'[th'[u].slot])
    BY DEF DroppingResident, Resident, Res
  <2>1. th[u].slot \in InUse /\ th[u].pages \subseteq Res(vn[th[u].slot])
    BY <1>1, <1>9 DEF IInv, DroppingResident, Resident, Res, BlockedRelyOn
  <2> QED BY <1>1, <1>4, <2>1
<1>12. BlockedRelyOn'
  <2> SUFFICES ASSUME NEW u \in Threads
               PROVE  /\ th'[u].pc \in {"ready", "woken"} <=> th'[u].slot = 0
                      /\ th'[u].pc \in {"asleep", "woken"} =>
                           th'[u].vno \in Inodes /\ \A q \in InUse' : vn'[q].vno = th'[u].vno => held'[u][q] = 0
                      /\ th'[u].pc \in {"reading", "deleting"} => vn'[th'[u].slot].busy
                      /\ th'[u].pc \in {"filling", "dropping"} => held'[u][th'[u].slot] > 0
                      /\ th'[u].pc = "filling" => \A g \in th'[u].pages : vn'[th'[u].slot].page[g] = "busy"
    BY DEF BlockedRelyOn
  <2>1. /\ th[u].pc \in {"ready", "woken"} <=> th[u].slot = 0
        /\ th[u].pc \in {"asleep", "woken"} =>
             th[u].vno \in Inodes /\ \A q \in InUse : vn[q].vno = th[u].vno => held[u][q] = 0
        /\ th[u].pc \in {"reading", "deleting"} => vn[th[u].slot].busy
        /\ th[u].pc \in {"filling", "dropping"} => held[u][th[u].slot] > 0
        /\ th[u].pc = "filling" => \A g \in th[u].pages : vn[th[u].slot].page[g] = "busy"
    BY DEF IInv, BlockedRelyOn
  <2>2. th[u].pc \in {"asleep", "woken"} =>
          \A q \in InUse' : vn'[q].vno = th[u].vno => held'[u][q] = 0
    BY <1>1, <1>2, <1>4, <2>1
  <2>3. th[u].pc \in {"reading", "deleting"} => vn'[th[u].slot].busy
    BY <1>5a, <1>9, <2>1
  <2>4. th[u].pc = "filling" => \A g \in th[u].pages : vn'[th[u].slot].page[g] = "busy"
    BY <1>1, <1>9, <2>1
  <2> QED BY <1>1, <2>1, <2>2, <2>3, <2>4
<1>13. BlockedApart'
  <2>1. ASSUME sync' # Nil
        PROVE  /\ vn'[sync'[1]].page[sync'[2]] = "busy"
               /\ \A u \in Threads : th'[u].pc = "filling" /\ th'[u].slot = sync'[1] => sync'[2] \notin th'[u].pages
    <3>1. PICK g \in Pages : sync' = <<s, g>>
      BY <2>1
    <3> QED BY <1>1, <3>1
  <2> QED BY <1>1, <2>1 DEF IInv, BlockedApart
<1> QED BY <1>3, <1>6, <1>7, <1>8, <1>10, <1>11, <1>12, <1>13 DEF IInv

(***************************************************************************)
(* A vnode with the state of one page replaced.                            *)
(***************************************************************************)
LEMMA SetPage ==
  ASSUME NEW w \in Vnodes, NEW g \in Pages, NEW st \in {"in", "busy"}, w.page[g] # "out"
  PROVE  LET v == [w EXCEPT !.page[g] = st]
         IN /\ v \in Vnodes /\ v.vno = w.vno /\ v.ref = w.ref /\ v.busy = w.busy
            /\ v.page = [w.page EXCEPT ![g] = st] /\ w.page \in [Pages -> {"out", "in", "busy"}]
            /\ Res(v) = Res(w)
<1> DEFINE pg == [w.page EXCEPT ![g] = st]
           v == [w EXCEPT !.page = pg]
<1>1. pg \in [Pages -> {"out", "in", "busy"}] /\ w.page \in [Pages -> {"out", "in", "busy"}]
  BY DEF Vnodes
<1>2. \A h \in Pages : pg[h] # "out" <=> w.page[h] # "out"
  BY <1>1
<1> HIDE DEF pg
<1>3. v \in Vnodes /\ v.vno = w.vno /\ v.ref = w.ref /\ v.page = pg
  BY <1>1 DEF Vnodes
<1>4. v.busy = w.busy
  BY DEF Vnodes
<1>5. Res(v) = Res(w)
  BY <1>2, <1>3 DEF Res
<1> HIDE DEF v
<1>6. [w EXCEPT !.page[g] = st] = v
  BY DEF v, pg
<1> QED BY <1>1, <1>3, <1>4, <1>5, <1>6 DEF pg

(* The write of a page starts. *)
LEMMA VcleanpageInv ==
  ASSUME IInv, NEW s \in Slots, NEW g \in Pages, vcleanpage(s, g)
  PROVE  IInv'
<1>0. /\ vn[s] # Nil /\ vn[s].page[g] = "in" /\ mode = "up" /\ sync' = <<s, g>>
      /\ UNCHANGED <<linked, held, th, mode>>
  BY DEF vcleanpage, InUse, Up
<1>1. /\ vn[s] \in Vnodes
      /\ \A u \in Threads : th[u].slot = s /\ th[u].pc = "filling" => \A h \in th[u].pages : vn[s].page[h] = "busy"
  BY <1>0, LiveFacts
<1> DEFINE v == [vn[s] EXCEPT !.page[g] = "busy"]
<1>2. /\ v \in Vnodes /\ v.vno = vn[s].vno /\ v.ref = vn[s].ref /\ v.busy = vn[s].busy
      /\ v.page = [vn[s].page EXCEPT ![g] = "busy"] /\ vn[s].page \in [Pages -> {"out", "in", "busy"}]
      /\ Res(v) = Res(vn[s])
  BY <1>0, <1>1, SetPage
<1>3. vn' = [vn EXCEPT ![s] = v]
  BY DEF vcleanpage
<1> HIDE DEF v
<1>4. \A u \in Threads : th[u].pages \subseteq Pages
  BY DEF IInv, VnodeTypeOK
<1>5. \A u \in Threads : th[u].slot = s /\ th[u].pc = "filling" =>
        \A h \in th[u].pages : v.page[h] = "busy" /\ sync' # <<s, h>>
  BY <1>0, <1>1, <1>2, <1>4
<1>6. \A h \in Pages : sync' = <<s, h>> => v.page[h] = "busy"
  BY <1>0, <1>2
<1>7. sync' \in {Nil} \cup ({s} \X Pages)
  BY <1>0
<1> QED BY <1>0, <1>2, <1>3, <1>5, <1>6, <1>7, SyncInv, ZenonT(60)

(* The write of a page ends. *)
LEMMA VcleanpageReturnsInv ==
  ASSUME IInv, vcleanpage_returns
  PROVE  IInv'
<1>0. sync # Nil /\ mode = "up" /\ sync' = Nil /\ UNCHANGED <<linked, held, th, mode>>
  BY DEF vcleanpage_returns, Up
<1>1. PICK s \in Slots, g \in Pages : sync = <<s, g>>
  BY <1>0 DEF IInv, VnodeTypeOK
<1>2. /\ vn[s] # Nil /\ vn[s].page[g] = "busy"
      /\ \A u \in Threads : th[u].pc = "filling" /\ th[u].slot = s => g \notin th[u].pages
  BY <1>0, <1>1 DEF IInv, BlockedApart, UsersOnLive
<1>3. /\ vn[s] \in Vnodes
      /\ \A u \in Threads : th[u].slot = s /\ th[u].pc = "filling" => \A h \in th[u].pages : vn[s].page[h] = "busy"
  BY <1>2, LiveFacts
<1> DEFINE v == [vn[s] EXCEPT !.page[g] = "in"]
<1>4. /\ v \in Vnodes /\ v.vno = vn[s].vno /\ v.ref = vn[s].ref /\ v.busy = vn[s].busy
      /\ v.page = [vn[s].page EXCEPT ![g] = "in"] /\ vn[s].page \in [Pages -> {"out", "in", "busy"}]
      /\ Res(v) = Res(vn[s])
  BY <1>2, <1>3, SetPage
<1>5. vn' = [vn EXCEPT ![s] = v]
  BY <1>1 DEF vcleanpage_returns
<1> HIDE DEF v
<1>6. \A u \in Threads : th[u].pages \subseteq Pages
  BY DEF IInv, VnodeTypeOK
<1>7. \A u \in Threads : th[u].slot = s /\ th[u].pc = "filling" =>
        \A h \in th[u].pages : v.page[h] = "busy" /\ sync' # <<s, h>>
  BY <1>0, <1>2, <1>3, <1>4, <1>6, VnodeAssumption
<1>8. sync' \in {Nil} \cup ({s} \X Pages) /\ \A h \in Pages : sync' = <<s, h>> => v.page[h] = "busy"
  <2>1. \A h \in Pages : sync' # <<s, h>>
    BY <1>0, VnodeAssumption
  <2> QED BY <1>0, <2>1
<1> QED BY <1>0, <1>2, <1>4, <1>5, <1>7, <1>8, SyncInv

(***************************************************************************)
(* Names come and go on the disk; or nothing happens.                      *)
(***************************************************************************)
LEMMA LinkedInv ==
  ASSUME IInv, linked' \in [Inodes -> BOOLEAN], UNCHANGED <<vn, held, th, sync, mode>>
  PROVE  IInv'
<1>1. VnodeTypeOK'
  BY DEF IInv, VnodeTypeOK
<1>2. OneSlot' /\ UsersOnLive' /\ FlushEmpties' /\ BusyUnreferenced'
  BY DEF IInv, OneSlot, UsersOnLive, FlushEmpties, BusyUnreferenced, InUse
<1>3. DroppingResident' /\ BlockedRelyOn' /\ BlockedApart'
  BY DEF IInv, DroppingResident, BlockedRelyOn, BlockedApart, InUse, Resident
<1>4. RefsArePagesAndUsers'
  BY DEF IInv, RefsArePagesAndUsers, InUse, nrespages
<1> QED BY <1>1, <1>2, <1>3, <1>4 DEF IInv

(***************************************************************************)
(* At shutdown a vnode has only the references of its pages: all go.       *)
(***************************************************************************)
LEMMA FlushInv ==
  ASSUME IInv, vnode_flush_all
  PROVE  IInv'
<1>0. /\ sync = Nil /\ UNCHANGED <<linked, held, th, sync>> /\ mode' = "off"
      /\ \A t \in Threads : th[t] = Ready /\ \A s \in Slots : held[t][s] = 0
      /\ vn' = [s \in Slots |-> IF s \in InUse THEN Flushed(s) ELSE Nil]
  BY DEF vnode_flush_all
<1>1. ASSUME NEW s \in InUse PROVE Flushed(s) = Nil
  <2>0. s \in Slots /\ vn[s] # Nil
    BY DEF InUse
  <2> DEFINE f == [t \in Threads |-> held[t][s]]
  <2>1. \A t \in Threads : f[t] = 0
    BY <1>0, <2>0
  <2>2. Held(s) = Total(f, Threads)
    BY DEF Held
  <2>3. Total(f, Threads) = 0
    <3> HIDE DEF f
    <3> QED BY <2>1, TotalZero
  <2> HIDE DEF f
  <2>4. /\ vn[s].ref = Cardinality(Res(vn[s])) + Held(s) /\ nrespages(s) = Cardinality(Res(vn[s]))
        /\ Cardinality(Res(vn[s])) \in Nat
    BY <2>0, LiveFacts
  <2>5. vn[s].ref = nrespages(s)
    BY <2>2, <2>3, <2>4
  <2> QED BY <2>5 DEF Flushed
<1>2. vn' = [s \in Slots |-> Nil]
  BY <1>0, <1>1
<1>3. InUse' = {}
  BY <1>2 DEF InUse
<1>4. Ready.pc = "ready" /\ Ready.slot = 0
  BY DEF Ready
<1>5. VnodeTypeOK'
  BY <1>0, <1>2 DEF IInv, VnodeTypeOK
<1>6. OneSlot' /\ RefsArePagesAndUsers' /\ FlushEmpties' /\ BusyUnreferenced'
  BY <1>3 DEF OneSlot, RefsArePagesAndUsers, FlushEmpties, BusyUnreferenced
<1>7. UsersOnLive' /\ DroppingResident' /\ BlockedRelyOn' /\ BlockedApart'
  BY <1>0, <1>3, <1>4 DEF UsersOnLive, DroppingResident, BlockedRelyOn, BlockedApart
<1> QED BY <1>5, <1>6, <1>7 DEF IInv

-----------------------------------------------------------------------------
(* The invariant holds at the start. *)
LEMMA InitInv == Init => IInv
<1> SUFFICES ASSUME Init PROVE IInv
  OBVIOUS
<1>1. InUse = {}
  BY DEF Init, InUse
<1>2. Ready.pc = "ready" /\ Ready.slot = 0 /\ Ready \in Blocks
  BY DEF Ready, Blocks
<1>3. th \in [Threads -> Blocks] /\ \A t \in Threads : th[t] = Ready
  BY <1>2 DEF Init
<1>4. held \in [Threads -> [Slots -> 0 .. MaxHeld]] /\ \A t \in Threads, s \in Slots : held[t][s] = 0
  BY VnodeAssumption DEF Init
<1>5. VnodeTypeOK
  BY <1>3, <1>4 DEF Init, VnodeTypeOK, Blocks
<1>6. OneSlot /\ RefsArePagesAndUsers /\ FlushEmpties /\ BusyUnreferenced
  BY <1>1 DEF OneSlot, RefsArePagesAndUsers, FlushEmpties, BusyUnreferenced
<1>7. UsersOnLive /\ DroppingResident /\ BlockedRelyOn /\ BlockedApart
  BY <1>1, <1>2, <1>3, <1>4 DEF Init, UsersOnLive, DroppingResident, BlockedRelyOn, BlockedApart
<1> QED BY <1>5, <1>6, <1>7 DEF IInv

(* Every step keeps it. *)
LEMMA NextInv == IInv /\ [Next]_vars => IInv'
<1> SUFFICES ASSUME IInv, [Next]_vars PROVE IInv'
  OBVIOUS
<1>0. linked \in [Inodes -> BOOLEAN]
  BY DEF IInv, VnodeTypeOK
<1>1. CASE UNCHANGED vars
  BY <1>0, <1>1, LinkedInv DEF vars
<1>2. ASSUME NEW t \in Threads, NEW i \in Inodes, vget(t, i) \/ Unlink(t, i) PROVE IInv'
  <2>1. CASE Unlink(t, i)
    <3>1. linked' \in [Inodes -> BOOLEAN] /\ UNCHANGED <<vn, held, th, sync, mode>>
      BY <1>0, <2>1 DEF Unlink
    <3> QED BY <3>1, LinkedInv
  <2> QED BY <1>2, <2>1, VgetInv
<1>3. ASSUME NEW t \in Threads, NEW s \in Slots,
             vref(t, s) \/ vput(t, s) \/ \E g \in Pages : vreadpage(t, s, g)
      PROVE  IInv'
  BY <1>3, VrefInv, VputInv, VreadpageInv
<1>4. ASSUME NEW t \in Threads,
             \/ vget_again(t) \/ vget_returns(t)
             \/ vreadpage_returns(t) \/ vput_drops(t) \/ vput_deletes(t)
      PROVE  IInv'
  BY <1>4, VgetAgainInv, VgetReturnsInv, VreadpageReturnsInv, VputDropsInv, VputDeletesInv
<1>5. ASSUME NEW s \in Slots, NEW g \in Pages, vcleanpage(s, g) PROVE IInv'
  BY <1>5, VcleanpageInv
<1>6. ASSUME NEW i \in Inodes, Create(i) PROVE IInv'
  <2>1. linked' \in [Inodes -> BOOLEAN] /\ UNCHANGED <<vn, held, th, sync, mode>>
    BY <1>0, <1>6 DEF Create
  <2> QED BY <2>1, LinkedInv
<1> QED BY <1>1, <1>2, <1>3, <1>4, <1>5, <1>6, VcleanpageReturnsInv, FlushInv DEF Next

(* The inductive invariant holds in every reachable state. *)
LEMMA IInvHolds == Spec => []IInv
BY InitInv, NextInv, PTL DEF Spec

(***************************************************************************)
(* At most one of the vnodes in the cache is of inode i.                   *)
(***************************************************************************)
LEMMA OneOfEach == OneSlot => OnePerInode
<1> SUFFICES ASSUME OneSlot, NEW i \in Inodes PROVE Cardinality(Of(i)) <= 1
  BY DEF OnePerInode
<1>1. CASE Of(i) = {}
  BY <1>1, FS_EmptySet
<1>2. CASE Of(i) # {}
  <2>1. PICK s \in Of(i) : TRUE
    BY <1>2
  <2>2. Of(i) = {s}
    BY <2>1 DEF OneSlot, Of
  <2>3. Cardinality({s}) = 1
    BY FS_Singleton
  <2> QED BY <2>2, <2>3
<1> QED BY <1>1, <1>2

(***************************************************************************)
(* For any numbers of threads, inodes, vnodes and pages, and however vget, *)
(* vput, page reads and sync interleave: an inode has one vnode, the count *)
(* of a vnode is that of its pages and users, nobody uses a freed vnode,   *)
(* the assertions of vref and vput hold, and shutdown empties the cache.   *)
(***************************************************************************)
THEOREM VnodeCacheConsistent == Spec => []VnodeInv
<1>1. ASSUME IInv PROVE VnodeInv
  <2>1. OnePerInode
    BY <1>1, OneOfEach DEF IInv
  <2>2. VputAssertions
    <3>1. ASSUME NEW t \in Threads, NEW s \in Slots, held[t][s] > 0
          PROVE  ~vn[s].busy /\ nrespages(s) < vn[s].ref
      <4>1. vn[s] # Nil /\ ~vn[s].busy
        BY <1>1, <3>1, UserFacts
      <4>2. /\ vn[s].ref = Cardinality(Res(vn[s])) + Held(s) /\ nrespages(s) = Cardinality(Res(vn[s]))
            /\ Held(s) \in Nat /\ held[t][s] \in Nat /\ held[t][s] <= Held(s) /\ Cardinality(Res(vn[s])) \in Nat
        BY <1>1, <4>1, LiveFacts
      <4> QED BY <3>1, <4>1, <4>2
    <3> QED BY <1>1, <3>1 DEF VputAssertions, IInv, DroppingResident
  <2> QED BY <1>1, <2>1, <2>2 DEF IInv, VnodeInv
<1> QED BY <1>1, IInvHolds, PTL
=============================================================================
