---------------------------- MODULE MemoryProofs ----------------------------
(***************************************************************************)
(* Proofs about Memory: chains of shadow objects end and are looked up as  *)
(* expected, MemoryInv and CleanMeansSaved are invariants, and Memory      *)
(* implements PrivateMemory.                                               *)
(***************************************************************************)
EXTENDS Memory, LibraryProofs

(* The arithmetic of the assumptions. *)
LEMMA MemoryFacts ==
  /\ FirstProc \in Procs /\ IsFiniteSet(Procs) /\ 0 \in Values /\ TextValue \in Values
  /\ MaxObj \in Nat /\ MaxObj >= 5 /\ {1, 2, 3, 4, 5} \subseteq Obj
  /\ "heap" \in Areas /\ "text" \in Areas /\ "shm" \in Areas /\ Private \subseteq Areas
  /\ "shm" \notin Private /\ \A k \in Areas : k \in Private \/ k = "shm"
  /\ \A x \in Obj : x \in Nat /\ x >= 1 /\ x <= MaxObj
<1>1. MaxObj \in Nat /\ MaxObj >= 5
  BY MemoryAssumption
<1>2. {1, 2, 3, 4, 5} \subseteq Obj /\ \A x \in Obj : x \in Nat /\ x >= 1 /\ x <= MaxObj
  BY <1>1 DEF Obj
<1> QED BY <1>1, <1>2, MemoryAssumption DEF Areas, Private

-----------------------------------------------------------------------------
(***************************************************************************)
(* Chains, for any function sh from objects to older ones, 0 for none.     *)
(***************************************************************************)
Shadows(sh) == sh \in [Obj -> 0 .. MaxObj] /\ \A o \in Obj : sh[o] < o

(* The recursions in Chain and Source. *)
DownIs(sh, f) == f = [x \in Obj |-> IF sh[x] = 0 THEN {x} ELSE {x} \cup f[sh[x]]]
FirstIs(sh, pg, f) ==
  f = [x \in Obj |-> IF sh[x] = 0 \/ pg[x] # Nil THEN x ELSE f[sh[x]]]

DownOf(sh) == CHOOSE f : DownIs(sh, f)
FirstOf(sh, pg) == CHOOSE f : FirstIs(sh, pg, f)

(* Induction over objects: what holds of an object once it holds of all older
   ones holds of every object. *)
LEMMA ObjInduction ==
  ASSUME NEW T, \A o \in Obj : (\A x \in Obj : x < o => x \in T) => o \in T
  PROVE  Obj \subseteq T
<1> SUFFICES ASSUME Obj \ T # {} PROVE FALSE
  OBVIOUS
<1>1. Obj \ T \subseteq Nat
  BY MemoryFacts
<1>2. PICK o \in Obj \ T : \A y \in Obj \ T : o <= y
  BY <1>1, LeastNumber
<1>3. \A x \in Obj : x < o => x \in T
  <2> SUFFICES ASSUME NEW x \in Obj, x < o, x \notin T PROVE FALSE
    OBVIOUS
  <2>1. o <= x /\ o \in Nat /\ x \in Nat
    BY <1>2, MemoryFacts
  <2> QED BY <2>1
<1> QED BY <1>2, <1>3

(* The recursion of Chain, over the objects up to n. *)
DownTo(sh, n, f) == f = [x \in 1 .. n |-> IF sh[x] = 0 THEN {x} ELSE {x} \cup f[sh[x]]]

(* There is a function that meets the recursive definition in Chain. *)
LEMMA DownExists ==
  ASSUME NEW sh, Shadows(sh)
  PROVE  DownIs(sh, DownOf(sh))
<1> DEFINE T == {n \in Nat : n <= MaxObj => \E f : DownTo(sh, n, f)}
<1>0. MaxObj \in Nat /\ \A x \in Obj : sh[x] \in 0 .. MaxObj /\ sh[x] < x
  BY MemoryFacts DEF Shadows
<1>1. 0 \in T
  <2> DEFINE f == [x \in 1 .. 0 |-> {}]
  <2>1. DownTo(sh, 0, f)
    BY DEF DownTo
  <2> QED BY <2>1
<1>2. ASSUME NEW n \in Nat, n \in T PROVE n + 1 \in T
  <2> SUFFICES ASSUME n + 1 <= MaxObj PROVE \E f : DownTo(sh, n + 1, f)
    OBVIOUS
  <2>1. PICK f : DownTo(sh, n, f)
    BY <1>0, <1>2
  <2> DEFINE e == IF sh[n + 1] = 0 THEN {n + 1} ELSE {n + 1} \cup f[sh[n + 1]]
             g == [x \in 1 .. n + 1 |-> IF x <= n THEN f[x] ELSE e]
             h == [x \in 1 .. n + 1 |-> IF sh[x] = 0 THEN {x} ELSE {x} \cup g[sh[x]]]
  <2>2. ASSUME NEW x \in 1 .. n + 1 PROVE g[x] = h[x]
    <3>1. x \in Obj /\ sh[x] \in 0 .. MaxObj /\ sh[x] < x
      BY <1>0 DEF Obj
    <3>2. sh[x] # 0 => sh[x] \in 1 .. n + 1 /\ sh[x] <= n /\ sh[x] \in 1 .. n
      BY <3>1
    <3>3. sh[x] # 0 => g[sh[x]] = f[sh[x]]
      BY <3>2
    <3>4. CASE x = n + 1
      <4>1. ~(x <= n) /\ g[x] = e
        BY <3>4
      <4> QED BY <3>3, <3>4, <4>1
    <3>5. CASE x # n + 1
      <4>1. x \in 1 .. n /\ x <= n /\ g[x] = f[x]
        BY <3>5
      <4>2. f[x] = IF sh[x] = 0 THEN {x} ELSE {x} \cup f[sh[x]]
        BY <2>1, <4>1 DEF DownTo
      <4> QED BY <3>3, <4>1, <4>2
    <3> QED BY <3>4, <3>5
  <2>3. g = h
    BY <2>2
  <2>4. DownTo(sh, n + 1, g)
    BY <2>3 DEF DownTo
  <2> QED BY <2>4
<1>3. Nat \subseteq T
  <2> HIDE DEF T
  <2> QED BY <1>1, <1>2, SetInduction
<1>4. \E f : DownTo(sh, MaxObj, f)
  BY <1>0, <1>3
<1>5. \E f : DownIs(sh, f)
  BY <1>4 DEF DownTo, DownIs, Obj
<1> QED BY <1>5 DEF DownOf

(* The recursion of Source, over the objects up to n. *)
FirstTo(sh, pg, n, f) ==
  f = [x \in 1 .. n |-> IF sh[x] = 0 \/ pg[x] # Nil THEN x ELSE f[sh[x]]]

(* There is a function that meets the recursive definition in Source. *)
LEMMA FirstExists ==
  ASSUME NEW sh, Shadows(sh), NEW pg
  PROVE  FirstIs(sh, pg, FirstOf(sh, pg))
<1> DEFINE T == {n \in Nat : n <= MaxObj => \E f : FirstTo(sh, pg, n, f)}
<1>0. MaxObj \in Nat /\ \A x \in Obj : sh[x] \in 0 .. MaxObj /\ sh[x] < x
  BY MemoryFacts DEF Shadows
<1>1. 0 \in T
  <2> DEFINE f == [x \in 1 .. 0 |-> x]
  <2>1. FirstTo(sh, pg, 0, f)
    BY DEF FirstTo
  <2> QED BY <2>1
<1>2. ASSUME NEW n \in Nat, n \in T PROVE n + 1 \in T
  <2> SUFFICES ASSUME n + 1 <= MaxObj PROVE \E f : FirstTo(sh, pg, n + 1, f)
    OBVIOUS
  <2>1. PICK f : FirstTo(sh, pg, n, f)
    BY <1>0, <1>2
  <2> DEFINE e == IF sh[n + 1] = 0 \/ pg[n + 1] # Nil THEN n + 1 ELSE f[sh[n + 1]]
             g == [x \in 1 .. n + 1 |-> IF x <= n THEN f[x] ELSE e]
             h == [x \in 1 .. n + 1 |-> IF sh[x] = 0 \/ pg[x] # Nil THEN x ELSE g[sh[x]]]
  <2>2. ASSUME NEW x \in 1 .. n + 1 PROVE g[x] = h[x]
    <3>1. x \in Obj /\ sh[x] \in 0 .. MaxObj /\ sh[x] < x
      BY <1>0 DEF Obj
    <3>2. sh[x] # 0 => sh[x] \in 1 .. n + 1 /\ sh[x] <= n /\ sh[x] \in 1 .. n
      BY <3>1
    <3>3. sh[x] # 0 => g[sh[x]] = f[sh[x]]
      BY <3>2
    <3>4. CASE x = n + 1
      <4>1. ~(x <= n) /\ g[x] = e
        BY <3>4
      <4> QED BY <3>3, <3>4, <4>1
    <3>5. CASE x # n + 1
      <4>1. x \in 1 .. n /\ x <= n /\ g[x] = f[x]
        BY <3>5
      <4>2. f[x] = IF sh[x] = 0 \/ pg[x] # Nil THEN x ELSE f[sh[x]]
        BY <2>1, <4>1 DEF FirstTo
      <4> QED BY <3>3, <4>1, <4>2
    <3> QED BY <3>4, <3>5
  <2>3. g = h
    BY <2>2
  <2>4. FirstTo(sh, pg, n + 1, g)
    BY <2>3 DEF FirstTo
  <2> QED BY <2>4
<1>3. Nat \subseteq T
  <2> HIDE DEF T
  <2> QED BY <1>1, <1>2, SetInduction
<1>4. \E f : FirstTo(sh, pg, MaxObj, f)
  BY <1>0, <1>3
<1>5. \E f : FirstIs(sh, pg, f)
  BY <1>4 DEF FirstTo, FirstIs, Obj
<1> QED BY <1>5 DEF FirstOf

(* The last object of the chain from o. *)
LastOf(sh, o) == CHOOSE x \in DownOf(sh)[o] : sh[x] = 0

(* The chain from o: o alone, or o and the chain from the object it shadows;
   beyond o, only shadowed objects. *)
LEMMA DownFacts ==
  ASSUME NEW sh, Shadows(sh), NEW o \in Obj
  PROVE  /\ sh[o] = 0 => DownOf(sh)[o] = {o}
         /\ sh[o] # 0 => sh[o] \in Obj /\ DownOf(sh)[o] = {o} \cup DownOf(sh)[sh[o]]
<1>1. sh[o] # 0 => sh[o] \in Obj
  BY MemoryFacts DEF Shadows, Obj
<1>2. DownOf(sh)[o] = IF sh[o] = 0 THEN {o} ELSE {o} \cup DownOf(sh)[sh[o]]
  BY DownExists DEF DownIs
<1> QED BY <1>1, <1>2

(* Beyond its first object, a chain has only shadowed objects. *)
LEMMA DownShadowed ==
  ASSUME NEW sh, Shadows(sh), NEW o \in Obj, NEW z \in DownOf(sh)[o]
  PROVE  z \in Obj /\ (z = o \/ \E x \in Obj : sh[x] = z)
<1> DEFINE T == {x \in Obj : \A y \in DownOf(sh)[x] :
                               y \in Obj /\ (y = x \/ \E w \in Obj : sh[w] = y)}
<1>1. ASSUME NEW x \in Obj, \A y \in Obj : y < x => y \in T PROVE x \in T
  <2>1. CASE sh[x] = 0
    BY <2>1, DownFacts
  <2>2. CASE sh[x] # 0
    <3>1. sh[x] \in Obj /\ DownOf(sh)[x] = {x} \cup DownOf(sh)[sh[x]] /\ sh[x] < x
      BY <2>2, DownFacts DEF Shadows
    <3>2. sh[x] \in T
      BY <1>1, <3>1
    <3> QED BY <3>1, <3>2
  <2> QED BY <2>1, <2>2
<1>2. Obj \subseteq T
  <2> HIDE DEF T
  <2> QED BY <1>1, ObjInduction
<1> QED BY <1>2

(* Every chain has one last object. *)
LEMMA LastFacts ==
  ASSUME NEW sh, Shadows(sh), NEW o \in Obj
  PROVE  /\ LastOf(sh, o) \in Obj /\ sh[LastOf(sh, o)] = 0
         /\ sh[o] = 0 => LastOf(sh, o) = o
         /\ sh[o] # 0 => sh[o] \in Obj /\ LastOf(sh, o) = LastOf(sh, sh[o])
<1> DEFINE D == DownOf(sh)
           One(x) == \E z \in D[x] : sh[z] = 0 /\ \A y \in D[x] : sh[y] = 0 => y = z
           T == {x \in Obj : One(x)}
<1>1. ASSUME NEW x \in Obj, \A y \in Obj : y < x => y \in T PROVE x \in T
  <2>1. CASE sh[x] = 0
    BY <2>1, DownFacts
  <2>2. CASE sh[x] # 0
    <3>1. sh[x] \in Obj /\ D[x] = {x} \cup D[sh[x]] /\ sh[x] < x
      BY <2>2, DownFacts DEF Shadows
    <3>2. sh[x] \in T
      BY <1>1, <3>1
    <3> HIDE DEF D
    <3> QED BY <2>2, <3>1, <3>2
  <2> QED BY <2>1, <2>2
<1>2. \A x \in Obj : One(x)
  <2>1. Obj \subseteq T
    <3> HIDE DEF T
    <3> QED BY <1>1, ObjInduction
  <2> QED BY <2>1
<1>3. ASSUME NEW x \in Obj
      PROVE  /\ LastOf(sh, x) \in D[x] /\ sh[LastOf(sh, x)] = 0
             /\ \A y \in D[x] : sh[y] = 0 => y = LastOf(sh, x)
  <2>1. One(x)
    BY <1>2
  <2>2. LastOf(sh, x) \in D[x] /\ sh[LastOf(sh, x)] = 0
    <3> HIDE DEF D
    <3>1. LastOf(sh, x) = CHOOSE y \in D[x] : sh[y] = 0
      BY DEF LastOf, D
    <3> QED BY <2>1, <3>1
  <2> QED BY <2>1, <2>2
<1>4. LastOf(sh, o) \in Obj
  BY <1>3, DownShadowed
<1>5. ASSUME sh[o] # 0 PROVE sh[o] \in Obj /\ LastOf(sh, o) = LastOf(sh, sh[o])
  <2>1. sh[o] \in Obj /\ D[o] = {o} \cup D[sh[o]]
    BY <1>5, DownFacts
  <2>2. LastOf(sh, sh[o]) \in D[o] /\ sh[LastOf(sh, sh[o])] = 0
    BY <1>3, <2>1
  <2> QED BY <1>3, <2>1, <2>2
<1>6. sh[o] = 0 => LastOf(sh, o) = o
  BY <1>3, DownFacts
<1> QED BY <1>3, <1>4, <1>5, <1>6

(* A look-up from o ends there, at a bottom object or a resident page, and else
   goes on at the object that o shadows. *)
LEMMA FirstFacts ==
  ASSUME NEW sh, Shadows(sh), NEW pg, NEW o \in Obj
  PROVE  /\ sh[o] = 0 \/ pg[o] # Nil => FirstOf(sh, pg)[o] = o
         /\ ~(sh[o] = 0 \/ pg[o] # Nil) => FirstOf(sh, pg)[o] = FirstOf(sh, pg)[sh[o]]
<1>1. FirstOf(sh, pg)[o] = IF sh[o] = 0 \/ pg[o] # Nil THEN o ELSE FirstOf(sh, pg)[sh[o]]
  BY FirstExists DEF FirstIs
<1> QED BY <1>1

(* A look-up ends at the first object or at a shadowed one, and at a resident
   page or the last object. *)
LEMMA FirstFinds ==
  ASSUME NEW sh, Shadows(sh), NEW pg, NEW o \in Obj
  PROVE  LET s == FirstOf(sh, pg)[o]
         IN /\ s \in Obj
            /\ sh[s] = 0 => s = LastOf(sh, o)
            /\ s = o \/ \E x \in Obj : sh[x] = s
            /\ pg[s] # Nil \/ s = LastOf(sh, o)
<1> DEFINE F == FirstOf(sh, pg)
           Fine(x) == /\ F[x] \in Obj
                      /\ sh[F[x]] = 0 => F[x] = LastOf(sh, x)
                      /\ F[x] = x \/ \E y \in Obj : sh[y] = F[x]
                      /\ pg[F[x]] # Nil \/ F[x] = LastOf(sh, x)
           T == {x \in Obj : Fine(x)}
<1>1. ASSUME NEW x \in Obj, \A y \in Obj : y < x => y \in T PROVE x \in T
  <2>1. CASE sh[x] = 0 \/ pg[x] # Nil
    <3>1. F[x] = x
      BY <2>1, FirstFacts
    <3>2. sh[x] = 0 => LastOf(sh, x) = x
      BY LastFacts
    <3> HIDE DEF F
    <3> QED BY <2>1, <3>1, <3>2
  <2>2. CASE ~(sh[x] = 0 \/ pg[x] # Nil)
    <3>1. F[x] = F[sh[x]]
      BY <2>2, FirstFacts
    <3>2. sh[x] \in Obj /\ LastOf(sh, x) = LastOf(sh, sh[x]) /\ sh[x] < x
      BY <2>2, LastFacts DEF Shadows
    <3>3. Fine(sh[x])
      BY <1>1, <3>2
    <3> HIDE DEF F
    <3> QED BY <3>1, <3>2, <3>3
  <2> QED BY <2>1, <2>2
<1>2. Obj \subseteq T
  <2> HIDE DEF T
  <2> QED BY <1>1, ObjInduction
<1> QED BY <1>2

SameAbove(sh, pg, pg2, o) ==
  \A z \in Obj : (sh[z] # 0 /\ (z = o \/ \E x \in Obj : sh[x] = z))
                   => (pg[z] = Nil <=> pg2[z] = Nil)

(* Two look-ups agree when the same shadow objects have pages, o and those
   that are shadowed. *)
LEMMA FirstSame ==
  ASSUME NEW sh, Shadows(sh), NEW pg, NEW pg2, NEW o \in Obj, SameAbove(sh, pg, pg2, o)
  PROVE  FirstOf(sh, pg)[o] = FirstOf(sh, pg2)[o]
<1> DEFINE F == FirstOf(sh, pg)
           G == FirstOf(sh, pg2)
           T == {x \in Obj : (x = o \/ \E y \in Obj : sh[y] = x) => F[x] = G[x]}
<1>1. ASSUME NEW x \in Obj, \A y \in Obj : y < x => y \in T PROVE x \in T
  <2> SUFFICES ASSUME x = o \/ \E y \in Obj : sh[y] = x PROVE F[x] = G[x]
    OBVIOUS
  <2>1. CASE sh[x] = 0
    BY <2>1, FirstFacts
  <2>2. CASE sh[x] # 0 /\ pg[x] # Nil
    <3>1. pg2[x] # Nil
      BY <2>2 DEF SameAbove
    <3> QED BY <2>2, <3>1, FirstFacts
  <2>3. CASE sh[x] # 0 /\ pg[x] = Nil
    <3>1. pg2[x] = Nil
      BY <2>3 DEF SameAbove
    <3>2. F[x] = F[sh[x]] /\ G[x] = G[sh[x]]
      BY <2>3, <3>1, FirstFacts
    <3>3. sh[x] \in Obj /\ sh[x] < x
      BY <2>3, LastFacts DEF Shadows
    <3>4. sh[x] \in T
      BY <1>1, <3>3
    <3> HIDE DEF F, G
    <3> QED BY <3>2, <3>3, <3>4
  <2> QED BY <2>1, <2>2, <2>3
<1>2. Obj \subseteq T
  <2> HIDE DEF T
  <2> QED BY <1>1, ObjInduction
<1> QED BY <1>2

(* Chains of objects below n do not depend on what is shadowed from n on. *)
LEMMA ChainsStay ==
  ASSUME NEW sh, NEW sh2, Shadows(sh), Shadows(sh2), NEW n \in Nat,
         \A x \in Obj : x < n => sh2[x] = sh[x],
         NEW o \in Obj, o < n, NEW pg
  PROVE  /\ LastOf(sh2, o) = LastOf(sh, o)
         /\ FirstOf(sh2, pg)[o] = FirstOf(sh, pg)[o]
<1> DEFINE T == {x \in Obj : x < n => /\ LastOf(sh2, x) = LastOf(sh, x)
                                      /\ FirstOf(sh2, pg)[x] = FirstOf(sh, pg)[x]}
<1>1. ASSUME NEW x \in Obj, \A y \in Obj : y < x => y \in T PROVE x \in T
  <2> SUFFICES ASSUME x < n
               PROVE  /\ LastOf(sh2, x) = LastOf(sh, x)
                      /\ FirstOf(sh2, pg)[x] = FirstOf(sh, pg)[x]
    OBVIOUS
  <2>1. sh2[x] = sh[x]
    OBVIOUS
  <2>2. CASE sh[x] = 0
    BY <2>1, <2>2, LastFacts, FirstFacts
  <2>3. CASE sh[x] # 0
    <3>1. sh[x] \in Obj /\ sh[x] < x
      BY <2>3, LastFacts DEF Shadows
    <3>2. sh[x] < n
      BY <3>1, MemoryFacts
    <3>3. /\ LastOf(sh2, sh[x]) = LastOf(sh, sh[x])
          /\ FirstOf(sh2, pg)[sh[x]] = FirstOf(sh, pg)[sh[x]]
      BY <1>1, <3>1, <3>2
    <3>4. LastOf(sh2, x) = LastOf(sh2, sh[x]) /\ LastOf(sh, x) = LastOf(sh, sh[x])
      BY <2>1, <2>3, LastFacts
    <3>5. CASE pg[x] # Nil
      BY <3>3, <3>4, <3>5, FirstFacts
    <3>6. CASE pg[x] = Nil
      <4>1. /\ FirstOf(sh2, pg)[x] = FirstOf(sh2, pg)[sh[x]]
            /\ FirstOf(sh, pg)[x] = FirstOf(sh, pg)[sh[x]]
        BY <2>1, <2>3, <3>6, FirstFacts
      <4> QED BY <3>3, <3>4, <4>1
    <3> QED BY <3>5, <3>6
  <2> QED BY <2>2, <2>3
<1>2. Obj \subseteq T
  <2> HIDE DEF T
  <2> QED BY <1>1, ObjInduction
<1> QED BY <1>2

(* The operators of Memory are these. *)
LEMMA ChainOps ==
  ASSUME NEW pg, NEW o
  PROVE  /\ Chain(o) = DownOf(shadowed)[o]
         /\ Bottom(o) = LastOf(shadowed, o)
         /\ Source(pg, o) = FirstOf(shadowed, pg)[o]
<1>1. Chain(o) = DownOf(shadowed)[o]
  BY DEF Chain, DownOf, DownIs
<1>2. Source(pg, o) = FirstOf(shadowed, pg)[o]
  BY DEF Source, FirstOf, FirstIs
<1>3. Bottom(o) = LastOf(shadowed, o)
  BY <1>1 DEF Bottom, LastOf
<1> QED BY <1>1, <1>2, <1>3

-----------------------------------------------------------------------------
(***************************************************************************)
(* The inductive invariant: MemoryInv, with LastOf and FirstOf for Bottom  *)
(* and Source, the existence of an owner for its number, and with          *)
(* CleanMeansSaved.  WritableIsOwn follows.                                *)
(***************************************************************************)
TopsOK ==
  \A p \in Procs : status[p] # "unused" =>
    /\ top[p]["shm"] = ShmObj
    /\ \A k \in Private :
         /\ top[p][k] \in 4 .. nextObj - 1
         /\ LastOf(shadowed, top[p][k]) = AreaBottom(k)
         /\ \A x \in Obj : shadowed[x] # top[p][k]
         /\ \A q \in Procs, j \in Private :
              (status[q] # "unused" /\ top[q][j] = top[p][k]) => q = p /\ j = k

BusyOwned ==
  \A o \in Obj : (page[o] # Nil /\ page[o].busy) =>
    \E p \in Procs : \/ Awaits(p) # 0 /\ o = Awaits(p)
                     \/ Awaits(p) = TextObj /\ o = top[p]["text"]

FreshData ==
  /\ page[AnonObj] # Nil => page[AnonObj].data = 0
  /\ \A p \in Procs, k \in Private : pte[p][k] # Nil =>
       /\ page[FirstOf(shadowed, page)[top[p][k]]] # Nil
       /\ page[top[p][k]] = Nil => pte[p][k].obj = FirstOf(shadowed, page)[top[p][k]]

IInv ==
  /\ MemoryTypeOK /\ RefsMatchHolders /\ ShadowsOlder /\ TopsOK
  /\ PteResident /\ PteOfChain /\ BlockedRelyOn /\ BusyOwned /\ DeadHoldNothing
  /\ SharedPageSaved /\ CleanMeansSaved /\ FreshData

(* The assumptions about shadowed in the lemmas on chains. *)
LEMMA InvShadows ==
  ASSUME IInv
  PROVE  Shadows(shadowed)
BY DEF IInv, MemoryTypeOK, ShadowsOlder, Shadows

(* Requests by their kind. *)
LEMMA RequestFacts ==
  ASSUME IInv, NEW p \in Procs
  PROVE  /\ Nil \notin Requests /\ Nil \notin CleanReqs /\ Nil # SyncReq
         /\ Reading(p) => /\ req[p] \in Requests /\ req[p].k \in Areas
                          /\ Awaits(p) = AreaBottom(req[p].k) /\ Awaits(p) # 0
                          /\ req[p].k \in {"text", "shm"} /\ ~Cleaning(p)
                          /\ status[p] = "live"
         /\ Cleaning(p) => /\ req[p] \in CleanReqs /\ Awaits(p) = ShmObj /\ ~Reading(p)
                           /\ status[p] = "live"
         /\ (req[p] = Nil \/ req[p] = SyncReq) => Awaits(p) = 0 /\ ~Reading(p) /\ ~Cleaning(p)
         /\ Awaits(p) = TextObj => Reading(p) /\ req[p].k = "text"
         /\ Awaits(p) = ShmObj => Cleaning(p) \/ (Reading(p) /\ req[p].k = "shm")
         /\ ~Reading(p) /\ ~Cleaning(p) => Awaits(p) = 0 /\ req[p] \in {Nil, SyncReq}
<1>1. req[p] \in Requests \cup CleanReqs \cup {Nil, SyncReq}
  BY DEF IInv, MemoryTypeOK
<1>2. Nil \notin Requests /\ Nil \notin CleanReqs /\ Nil # SyncReq
  BY NilAssumption
<1>3. \A r \in Requests : r.kind \in {"fault", "copy"} /\ r.k \in Areas
  BY DEF Requests
<1>4. \A r \in CleanReqs : r.kind = "clean"
  BY DEF CleanReqs
<1>5. SyncReq.kind = "sync"
  BY DEF SyncReq
<1>6. Reading(p) => req[p] \in Requests /\ req[p].k \in Areas /\ ~Cleaning(p)
  BY <1>1, <1>2, <1>3, <1>4, <1>5 DEF Reading, Cleaning
<1>7. Cleaning(p) => req[p] \in CleanReqs /\ ~Reading(p)
  BY <1>1, <1>2, <1>3, <1>4, <1>5 DEF Reading, Cleaning
<1>8. \A k \in Areas : AreaBottom(k) \in {1, 2, 3}
          /\ (AreaBottom(k) = 1 <=> k = "heap") /\ (AreaBottom(k) = 2 <=> k = "text")
          /\ (AreaBottom(k) = 3 <=> k = "shm")
  BY DEF AreaBottom, Areas, Private, AnonObj, TextObj, ShmObj
<1>9. Reading(p) => Awaits(p) = AreaBottom(req[p].k) /\ Awaits(p) # 0
  BY <1>6, <1>8 DEF Awaits
<1>10. Awaits(p) # 0 => Awaits(p) \in {2, 3}
  BY DEF IInv, BlockedRelyOn, FileObjs, TextObj, ShmObj
<1>11. req[p] # Nil => status[p] = "live"
  BY DEF IInv, BlockedRelyOn
<1>12. Reading(p) => req[p].k \in {"text", "shm"}
  BY <1>6, <1>8, <1>9, <1>10 DEF Areas, Private
<1>13. Cleaning(p) => Awaits(p) = ShmObj
  BY <1>7 DEF Awaits
<1>14. (req[p] = Nil \/ req[p] = SyncReq) => Awaits(p) = 0 /\ ~Reading(p) /\ ~Cleaning(p)
  BY <1>5 DEF Awaits, Reading, Cleaning
<1>15. Awaits(p) = TextObj => Reading(p) /\ req[p].k = "text"
  BY <1>6, <1>8, <1>9, <1>13 DEF Awaits, TextObj, ShmObj
<1>16. Awaits(p) = ShmObj => Cleaning(p) \/ (Reading(p) /\ req[p].k = "shm")
  BY <1>6, <1>8, <1>9 DEF Awaits, ShmObj
<1>17. ~Reading(p) /\ ~Cleaning(p) => Awaits(p) = 0 /\ req[p] \in {Nil, SyncReq}
  BY <1>1, <1>2, <1>3, <1>4 DEF Awaits, Reading, Cleaning
<1>18. Reading(p) \/ Cleaning(p) => req[p] # Nil
  BY DEF Reading, Cleaning
<1> QED BY <1>2, <1>6, <1>7, <1>9, <1>11, <1>12, <1>13, <1>14, <1>15, <1>16, <1>17, <1>18

(* An area of a process that has memory: its object, and its bottom object. *)
LEMMA AreaFacts ==
  ASSUME IInv, NEW p \in Procs, status[p] # "unused", NEW k \in Areas
  PROVE  LET o == top[p][k]
             b == AreaBottom(k)
         IN /\ o \in Obj /\ b \in Obj /\ b \in {1, 2, 3} /\ Bottom(o) = b
            /\ shadowed[b] = 0 /\ o < nextObj /\ nextObj \in Nat
            /\ k = "shm" => o = 3 /\ b = 3
            /\ k \in Private => /\ o > 3 /\ b # 3 /\ o # b
                                /\ shadowed[o] # 0 /\ shadowed[o] \in Obj
                                /\ \A x \in Obj : shadowed[x] # o
            /\ k = "heap" => b = 1
            /\ k = "text" => b = 2
<1> DEFINE o == top[p][k]
           b == AreaBottom(k)
<1>1. o \in Obj /\ nextObj \in Nat /\ nextObj >= 6
  BY MemoryFacts DEF IInv, MemoryTypeOK
<1>2. b \in {1, 2, 3} /\ (k = "heap" => b = 1) /\ (k = "text" => b = 2) /\ (k = "shm" => b = 3)
  BY DEF AreaBottom, Areas, Private, AnonObj, TextObj, ShmObj
<1>3. b \in Obj
  BY <1>2, MemoryFacts
<1>4. \A x \in Obj : shadowed[x] = 0 <=> (x <= 3 \/ x >= nextObj)
  BY DEF IInv, ShadowsOlder
<1>5. shadowed[b] = 0
  BY <1>2, <1>3, <1>4
<1>6. Shadows(shadowed) /\ Bottom(o) = LastOf(shadowed, o)
  BY InvShadows, ChainOps
<1>7. CASE k = "shm"
  <2>1. o = 3 /\ b = 3
    BY <1>2, <1>7 DEF IInv, TopsOK, ShmObj
  <2>2. Bottom(o) = o
    BY <1>1, <1>5, <1>6, <2>1, LastFacts
  <2> QED BY <1>1, <1>2, <1>3, <1>5, <1>7, <2>1, <2>2, MemoryFacts
<1>8. CASE k \in Private
  <2>1. /\ o \in 4 .. nextObj - 1 /\ LastOf(shadowed, o) = b
        /\ \A x \in Obj : shadowed[x] # o
    BY <1>8 DEF IInv, TopsOK
  <2>2. o > 3 /\ o < nextObj /\ o # b
    BY <1>1, <1>2, <2>1
  <2>3. shadowed[o] # 0
    <3>1. o \in Nat /\ ~(o <= 3) /\ ~(o >= nextObj)
      BY <1>1, <2>1, <2>2
    <3> QED BY <1>1, <1>4, <3>1
  <2>4. shadowed[o] \in Obj
    BY <1>1, <1>6, <2>3, LastFacts
  <2>5. k # "shm" /\ b # 3
    BY <1>2, <1>8, MemoryFacts DEF Private
  <2> QED BY <1>1, <1>2, <1>3, <1>5, <1>6, <1>8, <2>1, <2>2, <2>3, <2>4, <2>5
<1> QED BY <1>7, <1>8, MemoryFacts

(* The private areas of processes that have memory have different objects. *)
LEMMA AreasApart ==
  ASSUME IInv, NEW p \in Procs, status[p] # "unused", NEW k \in Private,
         NEW q \in Procs, status[q] # "unused", NEW j \in Areas, top[q][j] = top[p][k]
  PROVE  q = p /\ j = k
<1>1. CASE j = "shm"
  BY <1>1, AreaFacts, MemoryFacts
<1>2. CASE j \in Private
  BY <1>2 DEF IInv, TopsOK
<1> QED BY <1>1, <1>2, MemoryFacts

(* Finitely many areas and objects can refer to an object. *)
LEMMA HoldersFinite ==
  ASSUME NEW o
  PROVE  /\ IsFiniteSet(AreasOn(o)) /\ Cardinality(AreasOn(o)) \in Nat
         /\ IsFiniteSet(ShadowsOf(o)) /\ Cardinality(ShadowsOf(o)) \in Nat
<1>1. IsFiniteSet(Live)
  <2>1. Live \subseteq Procs
    BY DEF Live
  <2> QED BY <2>1, FS_Subset, MemoryFacts
<1>2. IsFiniteSet(Areas)
  <2>1. Areas = ({"heap"} \cup {"text"}) \cup {"shm"}
    BY DEF Areas, Private
  <2>2. IsFiniteSet({"heap"} \cup {"text"})
    BY FS_Singleton, FS_AddElement
  <2> QED BY <2>1, <2>2, FS_AddElement
<1>3. IsFiniteSet(Live \X Areas)
  BY <1>1, <1>2, FS_Product
<1>4. AreasOn(o) \subseteq Live \X Areas
  BY DEF AreasOn
<1>5. IsFiniteSet(AreasOn(o))
  BY <1>3, <1>4, FS_Subset
<1>6. IsFiniteSet(Obj)
  BY MemoryFacts, FS_Interval DEF Obj
<1>7. ShadowsOf(o) \subseteq Obj
  BY DEF ShadowsOf
<1>8. IsFiniteSet(ShadowsOf(o))
  BY <1>6, <1>7, FS_Subset
<1> QED BY <1>5, <1>8, FS_CardinalityType

(***************************************************************************)
(* Steps that leave the objects and the processes' areas alone: counts are *)
(* right if they move with residence, and chains stay what they are.       *)
(***************************************************************************)
Residence(pg, o) == IF pg[o] = Nil THEN 0 ELSE 1

(* What such a step has to show for the rest of the invariant. *)
LEMMA SameObjectsInv ==
  ASSUME IInv, status' = status, UNCHANGED objects,
         page' \in [Obj -> Page \cup {Nil}], refs' \in [Obj -> Int],
         pte' \in [Procs -> [Areas -> PageTableEntry \cup {Nil}]],
         req' \in [Procs -> Requests \cup CleanReqs \cup {Nil, SyncReq}],
         disk' \in Values, unsaved' \in BOOLEAN, cpu' \in {"ok", "hung", "nomem"},
         \A o \in Obj : refs'[o] = refs[o] - Residence(page, o) + Residence(page', o),
         \A o \in Obj : o >= nextObj => page'[o] = Nil,
         PteResident', PteOfChain', BlockedRelyOn', BusyOwned', DeadHoldNothing',
         SharedPageSaved', CleanMeansSaved', FreshData'
  PROVE  IInv'
<1>1. /\ status' = status /\ top' = top /\ shadowed' = shadowed
      /\ nextObj' = nextObj /\ footprint' = footprint
  BY DEF objects
<1>2. ShadowsOlder'
  BY <1>1 DEF IInv, ShadowsOlder
<1>3. TopsOK'
  BY <1>1 DEF IInv, TopsOK
<1>4. nextObj \in 6 .. MaxObj + 1 /\ MaxObj \in Nat
  BY MemoryFacts DEF IInv, MemoryTypeOK
<1>5. \A o \in 1 .. nextObj - 1 : o \in Obj
  BY <1>4 DEF Obj
<1>6. RefsMatchHolders'
  <2> SUFFICES ASSUME NEW o \in 1 .. nextObj - 1
               PROVE  refs'[o] = Cardinality(AreasOn(o)') + Cardinality(ShadowsOf(o)') + PagesOf(o)'
                                 + (IF o \in FileObjs THEN 1 ELSE 0)
    BY <1>1 DEF RefsMatchHolders, FileObjs, TextObj, ShmObj
  <2>1. AreasOn(o)' = AreasOn(o) /\ ShadowsOf(o)' = ShadowsOf(o)
    BY <1>1 DEF AreasOn, ShadowsOf, Live
  <2>2. refs[o] = Cardinality(AreasOn(o)) + Cardinality(ShadowsOf(o)) + PagesOf(o)
                    + (IF o \in FileObjs THEN 1 ELSE 0)
    BY DEF IInv, RefsMatchHolders
  <2>3. PagesOf(o) = Residence(page, o) /\ PagesOf(o)' = Residence(page', o)
    BY DEF PagesOf, Residence
  <2>4. refs'[o] = refs[o] - Residence(page, o) + Residence(page', o)
    BY <1>5
  <2>5. Cardinality(AreasOn(o)) \in Nat /\ Cardinality(ShadowsOf(o)) \in Nat
    BY HoldersFinite
  <2>6. Residence(page, o) \in {0, 1} /\ Residence(page', o) \in {0, 1}
    BY DEF Residence
  <2> QED BY <2>1, <2>2, <2>3, <2>4, <2>5, <2>6
<1>7. MemoryTypeOK'
  <2>1. \A o \in Obj : refs'[o] \in Nat
    <3> TAKE o \in Obj
    <3>1. CASE o < nextObj
      <4>1. o \in 1 .. nextObj - 1
        BY <1>4, <3>1 DEF Obj
      <4>2. refs'[o] = Cardinality(AreasOn(o)') + Cardinality(ShadowsOf(o)') + PagesOf(o)'
                         + (IF o \in FileObjs THEN 1 ELSE 0)
        BY <1>1, <1>6, <4>1 DEF RefsMatchHolders
      <4>3. AreasOn(o)' = AreasOn(o) /\ ShadowsOf(o)' = ShadowsOf(o)
        BY <1>1 DEF AreasOn, ShadowsOf, Live
      <4>4. PagesOf(o)' \in Nat
        BY DEF PagesOf
      <4> QED BY <4>2, <4>3, <4>4, HoldersFinite
    <3>2. CASE ~(o < nextObj)
      <4>1. page[o] = Nil /\ page'[o] = Nil /\ refs[o] \in Nat
        <5>1. o >= nextObj
          BY <1>4, <3>2, MemoryFacts
        <5> QED BY <5>1 DEF IInv, ShadowsOlder, MemoryTypeOK
      <4> QED BY <4>1 DEF Residence
    <3> QED BY <3>1, <3>2
  <2> QED BY <1>1, <2>1 DEF IInv, MemoryTypeOK
<1> QED BY <1>2, <1>3, <1>6, <1>7 DEF IInv

(* What a page table entry shows is resident; that of a private area is not the
   shared page, nor that of another area's object. *)
LEMMA EntryFacts ==
  ASSUME IInv, NEW q \in Procs, NEW j \in Areas, pte[q][j] # Nil
  PROVE  LET x == pte[q][j].obj
         IN /\ pte[q][j] \in PageTableEntry /\ x \in Obj /\ page[x] # Nil /\ status[q] = "live"
            /\ x = top[q][j] \/ \E z \in Obj : shadowed[z] = x
            /\ pte[q][j].write => x = top[q][j]
            /\ j \in Private => x # 3
            /\ \A p \in Procs, k \in Private :
                 (status[p] # "unused" /\ x = top[p][k]) => p = q /\ k = j
<1> DEFINE x == pte[q][j].obj
<1>1. pte[q][j] \in PageTableEntry
  BY DEF IInv, MemoryTypeOK
<1>2. x \in Obj
  BY <1>1 DEF PageTableEntry
<1>3. /\ page[x] # Nil /\ status[q] = "live"
      /\ x = top[q][j] \/ \E z \in Obj : shadowed[z] = x
      /\ pte[q][j].write => x = top[q][j]
  BY DEF IInv, PteResident, PteOfChain
<1>4. \A z \in Obj : shadowed[z] # 3
  BY DEF IInv, ShadowsOlder, ShmObj
<1>5. j \in Private => top[q][j] # 3
  BY <1>3, AreaFacts
<1>6. ASSUME NEW p \in Procs, NEW k \in Private, status[p] # "unused", x = top[p][k]
      PROVE  p = q /\ k = j
  <2>1. \A z \in Obj : shadowed[z] # x
    BY <1>6, AreaFacts, MemoryFacts
  <2>2. top[q][j] = top[p][k]
    BY <1>3, <1>6, <2>1
  <2> QED BY <1>3, <1>6, <2>2, AreasApart
<1> QED BY <1>1, <1>2, <1>3, <1>4, <1>5, <1>6

(* So is what a look-up from a private area finds. *)
LEMMA LookupFacts ==
  ASSUME IInv, NEW q \in Procs, status[q] # "unused", NEW j \in Private, NEW pg
  PROVE  LET s == FirstOf(shadowed, pg)[top[q][j]]
         IN /\ s \in Obj /\ s # 3
            /\ s = top[q][j] \/ \E z \in Obj : shadowed[z] = s
            /\ s \in {1, 2} => s = AreaBottom(j)
            /\ pg[s] # Nil \/ s = AreaBottom(j)
            /\ pg[top[q][j]] # Nil => s = top[q][j]
            /\ pg[top[q][j]] = Nil => s # top[q][j] /\ s = FirstOf(shadowed, pg)[shadowed[top[q][j]]]
            /\ \A p \in Procs, k \in Private :
                 (status[p] # "unused" /\ s = top[p][k]) => p = q /\ k = j
<1> DEFINE o == top[q][j]
           s == FirstOf(shadowed, pg)[o]
<1>0. j \in Areas /\ Shadows(shadowed)
  BY InvShadows, MemoryFacts
<1>1. /\ o \in Obj /\ o > 3 /\ AreaBottom(j) \in {1, 2} /\ shadowed[o] # 0 /\ shadowed[o] \in Obj
      /\ \A x \in Obj : shadowed[x] # o
  BY <1>0, AreaFacts
<1>2. LastOf(shadowed, o) = AreaBottom(j)
  BY DEF IInv, TopsOK
<1>3. /\ s \in Obj
      /\ s = o \/ \E z \in Obj : shadowed[z] = s
      /\ pg[s] # Nil \/ s = AreaBottom(j)
      /\ shadowed[s] = 0 => s = AreaBottom(j)
  BY <1>0, <1>1, <1>2, FirstFinds
<1>4. \A x \in {1, 2, 3} : shadowed[x] = 0
  BY MemoryFacts DEF IInv, ShadowsOlder
<1>5. s # 3 /\ (s \in {1, 2} => s = AreaBottom(j))
  BY <1>1, <1>3, <1>4
<1>6. pg[o] # Nil => s = o
  BY <1>0, <1>1, FirstFacts
<1>7. pg[o] = Nil => s = FirstOf(shadowed, pg)[shadowed[o]]
  BY <1>0, <1>1, FirstFacts
<1>8. pg[o] = Nil => s # o
  BY <1>1, <1>3
<1>9. ASSUME NEW p \in Procs, NEW k \in Private, status[p] # "unused", s = top[p][k]
      PROVE  p = q /\ k = j
  <2>1. \A z \in Obj : shadowed[z] # s
    BY <1>9, AreaFacts, MemoryFacts
  <2>2. top[q][j] = top[p][k]
    BY <1>3, <1>9, <2>1
  <2> QED BY <1>0, <1>9, <2>2, AreasApart
<1> HIDE DEF s
<1> QED BY <1>3, <1>5, <1>6, <1>7, <1>8, <1>9 DEF s

SameBut(sh, pg, pg2, o) ==
  \A z \in Obj : (sh[z] # 0 /\ z # o) => (pg[z] = Nil <=> pg2[z] = Nil)

(* Pages that come or go at an area's own object, or at a bottom object, do not
   change what look-ups from other private areas find. *)
LEMMA LookupStays ==
  ASSUME IInv, NEW p \in Procs, status[p] # "unused", NEW k \in Areas,
         NEW q \in Procs, status[q] # "unused", NEW j \in Private, q # p \/ j # k,
         NEW pg, SameBut(shadowed, page, pg, top[p][k])
  PROVE  FirstOf(shadowed, pg)[top[q][j]] = FirstOf(shadowed, page)[top[q][j]]
<1>0. j \in Areas /\ Shadows(shadowed)
  BY InvShadows, MemoryFacts
<1>1. top[q][j] \in Obj
  BY <1>0, AreaFacts
<1>2. ASSUME NEW z \in Obj, shadowed[z] # 0, z = top[q][j] \/ \E x \in Obj : shadowed[x] = z
      PROVE  page[z] = Nil <=> pg[z] = Nil
  <2> SUFFICES ASSUME z = top[p][k] PROVE FALSE
    BY <1>2 DEF SameBut
  <2>1. CASE k = "shm"
    BY <1>2, <2>1, AreaFacts
  <2>2. CASE k \in Private
    <3>1. \A x \in Obj : shadowed[x] # z
      BY <2>2, AreaFacts
    <3>2. top[q][j] = top[p][k]
      BY <1>2, <3>1
    <3> QED BY <1>0, <2>2, <3>2, AreasApart
  <2> QED BY <2>1, <2>2, MemoryFacts
<1>3. SameAbove(shadowed, page, pg, top[q][j])
  BY <1>2 DEF SameAbove
<1> QED BY <1>0, <1>1, <1>3, FirstSame

(***************************************************************************)
(* Steps that concern the shared area only: its page, the entries that     *)
(* show it, and the processes that wait for it.                            *)
(***************************************************************************)
LEMMA SharedStepInv ==
  ASSUME IInv, status' = status, UNCHANGED objects,
         page' \in [Obj -> Page \cup {Nil}], refs' \in [Obj -> Int],
         pte' \in [Procs -> [Areas -> PageTableEntry \cup {Nil}]],
         req' \in [Procs -> Requests \cup CleanReqs \cup {Nil, SyncReq}],
         disk' \in Values, unsaved' \in BOOLEAN, cpu' \in {"ok", "hung", "nomem"},
         \A x \in Obj \ {3} : page'[x] = page[x] /\ refs'[x] = refs[x],
         page[3] # Nil => page'[3] # Nil,
         refs'[3] = refs[3] - Residence(page, 3) + Residence(page', 3),
         \A q \in Procs, j \in Private : pte'[q][j] = pte[q][j],
         \A q \in Procs : \/ pte'[q]["shm"] \in {Nil, pte[q]["shm"]}
                          \/ status[q] = "live" /\ page'[3] # Nil /\ pte'[q]["shm"].obj = 3,
         \A q \in Procs : \/ req'[q] = req[q]
                          \/ /\ status[q] = "live"
                             /\ Awaits(q) \in {0, 3} /\ Awaits(q)' \in {0, 3},
         \A q \in Procs : Awaits(q)' = 3 =>
            /\ page'[3] # Nil /\ page'[3].busy
            /\ \A u \in Procs : Awaits(u)' = 3 => u = q,
         page'[3] # Nil /\ page'[3].busy => \E q \in Procs : Awaits(q)' = 3,
         page'[3] # Nil /\ page'[3].busy =>
            /\ ~page'[3].dirty
            /\ \A q \in Procs : ~unsaved' =>
                 /\ Reading(q)' /\ req'[q].k = "shm" => disk' = page'[3].data
                 /\ Cleaning(q)' => req'[q].val = page'[3].data,
         CleanMeansSaved'
  PROVE  IInv'
<1>0. /\ status' = status /\ top' = top /\ shadowed' = shadowed /\ nextObj' = nextObj
      /\ 3 \in Obj /\ "shm" \in Areas
  BY MemoryFacts DEF objects
<1>1. \A x \in Obj : page[x] # Nil => page'[x] # Nil
  OBVIOUS
<1>2. \A o \in Obj : refs'[o] = refs[o] - Residence(page, o) + Residence(page', o)
  <2> TAKE o \in Obj
  <2>1. refs[o] \in Int
    BY DEF IInv, MemoryTypeOK
  <2>2. CASE o = 3
    BY <2>2
  <2>3. CASE o # 3
    <3>1. refs'[o] = refs[o] /\ page'[o] = page[o]
      BY <2>3
    <3> QED BY <2>1, <3>1 DEF Residence
  <2> QED BY <2>2, <2>3
<1>3. \A o \in Obj : o >= nextObj => page'[o] = Nil
  <2>1. nextObj \in Nat /\ nextObj >= 6
    BY MemoryFacts DEF IInv, MemoryTypeOK
  <2> QED BY <2>1 DEF IInv, ShadowsOlder
<1>4. ASSUME NEW q \in Procs, NEW j \in Areas, pte'[q][j] # Nil
      PROVE  /\ page'[pte'[q][j].obj] # Nil /\ status[q] = "live"
             /\ \/ pte'[q][j].obj = top[q][j]
                \/ ~pte'[q][j].write /\ \E x \in Obj : shadowed[x] = pte'[q][j].obj
  <2>1. CASE pte'[q][j] = pte[q][j]
    BY <1>1, <1>4, <2>1, EntryFacts
  <2>2. CASE j = "shm" /\ status[q] = "live" /\ page'[3] # Nil /\ pte'[q]["shm"].obj = 3
    <3>1. top[q]["shm"] = 3
      BY <1>0, <2>2, AreaFacts
    <3> QED BY <2>2, <3>1
  <2> QED BY <1>4, <2>1, <2>2, MemoryFacts
<1>5. PteResident' /\ PteOfChain'
  BY <1>0, <1>4 DEF PteResident, PteOfChain
<1>6. ASSUME NEW q \in Procs
      PROVE  /\ Awaits(q)' = 2 => req'[q] = req[q] /\ Awaits(q) = 2
             /\ Awaits(q) = 2 => req'[q] = req[q] /\ Awaits(q)' = 2
             /\ Awaits(q)' \in {0, 2, 3}
  <2>1. req'[q] = req[q] => Awaits(q)' = Awaits(q)
    BY DEF Awaits, Reading, Cleaning
  <2>2. Awaits(q) \in {0, 2, 3}
    BY DEF IInv, BlockedRelyOn, FileObjs, TextObj, ShmObj
  <2> QED BY <2>1, <2>2
<1>7. BlockedRelyOn'
  <2> SUFFICES ASSUME NEW p \in Procs
               PROVE  /\ req'[p] # Nil => status[p] = "live"
                      /\ Awaits(p)' # 0 =>
                           /\ Awaits(p)' \in {2, 3} /\ page'[Awaits(p)'] # Nil /\ page'[Awaits(p)'].busy
                           /\ \A q \in Procs : Awaits(q)' = Awaits(p)' => q = p
                      /\ Awaits(p)' = 2 =>
                           /\ pte'[p]["text"] = Nil
                           /\ IF req'[p].kind = "copy"
                              THEN page'[top[p]["text"]] # Nil /\ page'[top[p]["text"]].busy
                              ELSE page'[top[p]["text"]] = Nil
    BY <1>0 DEF BlockedRelyOn, FileObjs, TextObj, ShmObj
  <2>1. req'[p] # Nil => status[p] = "live"
    BY DEF IInv, BlockedRelyOn
  <2>2. CASE Awaits(p)' = 2
    <3>1. req'[p] = req[p] /\ Awaits(p) = 2
      BY <1>6, <2>2
    <3>2. /\ page[2] # Nil /\ page[2].busy /\ \A q \in Procs : Awaits(q) = 2 => q = p
          /\ pte[p]["text"] = Nil /\ req[p] # Nil /\ status[p] = "live"
          /\ IF req[p].kind = "copy" THEN page[top[p]["text"]] # Nil /\ page[top[p]["text"]].busy
             ELSE page[top[p]["text"]] = Nil
      BY <3>1, RequestFacts DEF IInv, BlockedRelyOn, TextObj, Reading
    <3>3. page'[2] = page[2]
      BY MemoryFacts
    <3>4. top[p]["text"] \in Obj \ {3} /\ "text" \in Private
      BY <3>2, AreaFacts, MemoryFacts DEF Private
    <3>5. page'[top[p]["text"]] = page[top[p]["text"]] /\ pte'[p]["text"] = pte[p]["text"]
      BY <3>4
    <3> QED BY <1>6, <2>1, <2>2, <3>1, <3>2, <3>3, <3>5
  <2>3. CASE Awaits(p)' = 3
    BY <2>1, <2>3
  <2>4. CASE Awaits(p)' = 0
    BY <2>1, <2>4
  <2> QED BY <1>6, <2>2, <2>3, <2>4
<1>8. BusyOwned'
  <2> SUFFICES ASSUME NEW o \in Obj, page'[o] # Nil, page'[o].busy
               PROVE  \E p \in Procs : \/ Awaits(p)' # 0 /\ o = Awaits(p)'
                                       \/ Awaits(p)' = 2 /\ o = top[p]["text"]
    BY <1>0 DEF BusyOwned, TextObj
  <2>1. CASE o = 3
    BY <2>1
  <2>2. CASE o # 3
    <3>1. PICK p \in Procs : \/ Awaits(p) # 0 /\ o = Awaits(p)
                             \/ Awaits(p) = 2 /\ o = top[p]["text"]
      BY <2>2 DEF IInv, BusyOwned, TextObj
    <3>2. Awaits(p) = 2
      BY <2>2, <3>1 DEF IInv, BlockedRelyOn, FileObjs, TextObj, ShmObj
    <3>3. Awaits(p)' = 2
      BY <1>6, <3>2
    <3> QED BY <3>1, <3>2, <3>3
  <2> QED BY <2>1, <2>2
<1>9. DeadHoldNothing'
  <2> SUFFICES ASSUME NEW p \in Procs, NEW k \in Private, status[p] = "dead"
               PROVE  page'[top[p][k]] = Nil
    BY <1>0 DEF DeadHoldNothing
  <2>1. page[top[p][k]] = Nil
    BY DEF IInv, DeadHoldNothing
  <2>2. top[p][k] \in Obj \ {3}
    BY AreaFacts, MemoryFacts
  <2> QED BY <2>1, <2>2
<1>10. SharedPageSaved'
  <2>1. \A o \in Obj \ {3} : page'[o] # Nil => ~page'[o].dirty
    BY DEF IInv, SharedPageSaved, ShmObj
  <2> QED BY <2>1 DEF SharedPageSaved, ShmObj
<1>11. FreshData'
  <2>1. page'[1] # Nil => page'[1].data = 0
    BY MemoryFacts DEF IInv, FreshData, AnonObj
  <2>2. ASSUME NEW p \in Procs, NEW k \in Private, pte'[p][k] # Nil
        PROVE  /\ page'[FirstOf(shadowed, page')[top[p][k]]] # Nil
               /\ page'[top[p][k]] = Nil => pte'[p][k].obj = FirstOf(shadowed, page')[top[p][k]]
    <3> DEFINE s == FirstOf(shadowed, page)[top[p][k]]
    <3>0. pte'[p][k] = pte[p][k] /\ k \in Areas
      BY <2>2, MemoryFacts
    <3>1. status[p] = "live" /\ pte[p][k].obj \in Obj \ {3}
      BY <2>2, <3>0, EntryFacts
    <3>2. s \in Obj \ {3}
      BY <3>1, LookupFacts
    <3>3. FirstOf(shadowed, page')[top[p][k]] = s
      <4>1. shadowed[3] = 0
        BY MemoryFacts DEF IInv, ShadowsOlder
      <4>2. SameAbove(shadowed, page, page', top[p][k])
        BY <4>1 DEF SameAbove
      <4>3. top[p][k] \in Obj
        BY <3>0, <3>1, AreaFacts
      <4> QED BY <4>2, <4>3, InvShadows, FirstSame
    <3>4. page[s] # Nil /\ (page[top[p][k]] = Nil => pte[p][k].obj = s)
      BY <2>2, <3>0 DEF IInv, FreshData
    <3>5. page'[top[p][k]] = page[top[p][k]]
      BY <3>0, <3>1, AreaFacts
    <3> HIDE DEF s
    <3> QED BY <3>0, <3>2, <3>3, <3>4, <3>5
  <2> QED BY <1>0, <2>1, <2>2 DEF FreshData, AnonObj
<1> QED BY <1>2, <1>3, <1>5, <1>7, <1>8, <1>9, <1>10, <1>11, SameObjectsInv

(* Who awaits the shared page, when it is busy. *)
LEMMA SharedOwner ==
  ASSUME IInv, page[3] # Nil, page[3].busy
  PROVE  \E q \in Procs : Awaits(q) = 3
<1>1. PICK q \in Procs : \/ Awaits(q) # 0 /\ 3 = Awaits(q)
                         \/ Awaits(q) = 2 /\ 3 = top[q]["text"]
  BY MemoryFacts DEF IInv, BusyOwned, TextObj
<1>2. ASSUME Awaits(q) = 2 PROVE top[q]["text"] # 3
  <2>1. Reading(q) /\ status[q] = "live"
    BY <1>2, RequestFacts DEF TextObj
  <2> QED BY <2>1, AreaFacts, MemoryFacts DEF Private
<1> QED BY <1>1, <1>2

(* Where a process awaits nothing, before or after, nothing else matters. *)
LEMMA QuietInv ==
  ASSUME IInv, UNCHANGED <<status, page, refs, pte, disk, unsaved>>, UNCHANGED objects,
         cpu' \in {"ok", "hung", "nomem"},
         req' \in [Procs -> Requests \cup CleanReqs \cup {Nil, SyncReq}],
         \A q \in Procs : \/ req'[q] = req[q]
                          \/ /\ status[q] = "live" /\ Awaits(q) = 0
                             /\ req'[q] \in {Nil, SyncReq}
  PROVE  IInv'
<1>1. /\ page' \in [Obj -> Page \cup {Nil}] /\ refs' \in [Obj -> Int]
      /\ pte' \in [Procs -> [Areas -> PageTableEntry \cup {Nil}]]
      /\ disk' \in Values /\ unsaved' \in BOOLEAN
  BY DEF IInv, MemoryTypeOK
<1>2. ASSUME NEW q \in Procs
      PROVE  \/ /\ req'[q] = req[q] /\ Awaits(q)' = Awaits(q)
                /\ (Reading(q)' <=> Reading(q)) /\ (Cleaning(q)' <=> Cleaning(q))
             \/ /\ status[q] = "live" /\ Awaits(q) = 0 /\ Awaits(q)' = 0
                /\ ~Reading(q)' /\ ~Cleaning(q)'
  <2>1. CASE req'[q] = req[q]
    BY <2>1 DEF Awaits, Reading, Cleaning
  <2>2. CASE status[q] = "live" /\ Awaits(q) = 0 /\ req'[q] \in {Nil, SyncReq}
    <3>1. SyncReq.kind = "sync"
      BY DEF SyncReq
    <3> QED BY <2>2, <3>1 DEF Awaits, Reading, Cleaning
  <2> QED BY <2>1, <2>2
<1>3. \A q \in Procs : \/ req'[q] = req[q]
                       \/ status[q] = "live" /\ Awaits(q) \in {0, 3} /\ Awaits(q)' \in {0, 3}
  BY <1>2
<1>4. \A q \in Procs : Awaits(q)' = Awaits(q)
  BY <1>2
<1>5. \A q \in Procs : Awaits(q)' = 3 =>
            /\ page'[3] # Nil /\ page'[3].busy
            /\ \A u \in Procs : Awaits(u)' = 3 => u = q
  BY <1>4 DEF IInv, BlockedRelyOn
<1>6. page'[3] # Nil /\ page'[3].busy => \E q \in Procs : Awaits(q)' = 3
  <2> SUFFICES ASSUME page[3] # Nil, page[3].busy PROVE \E q \in Procs : Awaits(q) = 3
    BY <1>4
  <2> QED BY SharedOwner
<1>7. page'[3] # Nil /\ page'[3].busy =>
            /\ ~page'[3].dirty
            /\ \A q \in Procs : ~unsaved' =>
                 /\ Reading(q)' /\ req'[q].k = "shm" => disk' = page'[3].data
                 /\ Cleaning(q)' => req'[q].val = page'[3].data
  BY <1>2 DEF IInv, SharedPageSaved, ShmObj
<1>8. CleanMeansSaved'
  BY DEF IInv, CleanMeansSaved
<1>9. /\ \A x \in Obj \ {3} : page'[x] = page[x] /\ refs'[x] = refs[x]
      /\ page[3] # Nil => page'[3] # Nil
      /\ refs'[3] = refs[3] - Residence(page, 3) + Residence(page', 3)
  <2>1. refs[3] \in Int
    BY <1>1, MemoryFacts
  <2> QED BY <2>1 DEF Residence
<1>10. /\ \A q \in Procs, j \in Private : pte'[q][j] = pte[q][j]
       /\ \A q \in Procs : pte'[q]["shm"] \in {Nil, pte[q]["shm"]}
  OBVIOUS
<1> QED BY <1>1, <1>3, <1>5, <1>6, <1>7, <1>8, <1>9, <1>10, SharedStepInv

(* A step that changes nothing but the state of the CPU. *)
LEMMA StopInv ==
  ASSUME IInv, UNCHANGED <<status, page, refs, pte, req, disk, unsaved>>, UNCHANGED objects,
         cpu' \in {"ok", "hung", "nomem"}
  PROVE  IInv'
<1>1. req' \in [Procs -> Requests \cup CleanReqs \cup {Nil, SyncReq}]
  BY DEF IInv, MemoryTypeOK
<1>2. \A q \in Procs : req'[q] = req[q]
  OBVIOUS
<1> QED BY <1>1, <1>2, QuietInv

(* A sync goes to sleep. *)
LEMMA SyncSleepsInv ==
  ASSUME IInv, NEW p \in Procs, SyncSleeps(p)
  PROVE  IInv'
<1>1. /\ UNCHANGED <<status, page, refs, pte, disk, unsaved, cpu>> /\ UNCHANGED objects
      /\ req' = [req EXCEPT ![p] = SyncReq] /\ req[p] = Nil /\ status[p] = "live"
  BY DEF SyncSleeps, Syncing
<1>2. req \in [Procs -> Requests \cup CleanReqs \cup {Nil, SyncReq}] /\ cpu' \in {"ok", "hung", "nomem"}
  BY <1>1 DEF IInv, MemoryTypeOK
<1>3. Awaits(p) = 0
  BY <1>1, RequestFacts
<1> QED BY <1>1, <1>2, <1>3, QuietInv

(* A sync returns. *)
LEMMA SyncReturnsInv ==
  ASSUME IInv, NEW p \in Procs, SyncReturns(p)
  PROVE  IInv'
<1>1. /\ UNCHANGED <<status, page, refs, pte, disk, unsaved, cpu>> /\ UNCHANGED objects
      /\ req' = [req EXCEPT ![p] = Nil] /\ req[p] = SyncReq /\ status[p] = "live"
  BY DEF SyncReturns, Syncing
<1>2. req \in [Procs -> Requests \cup CleanReqs \cup {Nil, SyncReq}] /\ cpu' \in {"ok", "hung", "nomem"}
  BY <1>1 DEF IInv, MemoryTypeOK
<1>3. Awaits(p) = 0
  BY <1>1, RequestFacts
<1> QED BY <1>1, <1>2, <1>3, QuietInv

(* The types of the state, for use in steps. *)
LEMMA TypeFacts ==
  ASSUME IInv
  PROVE  /\ page \in [Obj -> Page \cup {Nil}] /\ refs \in [Obj -> Int]
         /\ pte \in [Procs -> [Areas -> PageTableEntry \cup {Nil}]]
         /\ req \in [Procs -> Requests \cup CleanReqs \cup {Nil, SyncReq}]
         /\ disk \in Values /\ unsaved \in BOOLEAN /\ cpu \in {"ok", "hung", "nomem"}
         /\ top \in [Procs -> [Areas -> Obj]] /\ Nil \notin Page /\ Nil \notin PageTableEntry
         /\ 3 \in Obj
BY NilAssumption, MemoryFacts DEF IInv, MemoryTypeOK

(* A sync starts to write the shared page back. *)
LEMMA SyncCleansInv ==
  ASSUME IInv, NEW p \in Procs, SyncCleans(p)
  PROVE  IInv'
<1>0. /\ page \in [Obj -> Page \cup {Nil}] /\ refs \in [Obj -> Int]
      /\ pte \in [Procs -> [Areas -> PageTableEntry \cup {Nil}]]
      /\ req \in [Procs -> Requests \cup CleanReqs \cup {Nil, SyncReq}]
      /\ Nil \notin Page /\ 3 \in Obj
  BY TypeFacts
<1>1. PICK o \in AllocList :
    /\ Syncing(p)
    /\ page[o].dirty /\ ~page[o].busy
    /\ page' = [page EXCEPT ![o].dirty = FALSE, ![o].busy = TRUE]
    /\ pte' = pframe_remove_from_pts(Now, "shm").pte
    /\ unsaved' = FALSE
    /\ req' = [req EXCEPT ![p] = [kind |-> "clean", val |-> page[o].data]]
    /\ UNCHANGED <<status, refs, disk, cpu>> /\ UNCHANGED objects
  BY DEF SyncCleans
<1>2. o = 3 /\ page[3] # Nil /\ page[3] \in Page
  <2>1. o \in Obj /\ page[o] # Nil
    BY <1>1 DEF AllocList, Resident
  <2> QED BY <1>0, <1>1, <2>1 DEF IInv, SharedPageSaved, ShmObj
<1>3. page[3].data \in Values
  BY <1>2 DEF Page
<1> DEFINE pg == [page[3] EXCEPT !.dirty = FALSE, !.busy = TRUE]
<1>4. pg \in Page /\ pg.busy /\ ~pg.dirty /\ pg.data = page[3].data
  BY <1>2 DEF Page
<1>5. page' = [page EXCEPT ![3] = pg]
  BY <1>0, <1>1, <1>2
<1> HIDE DEF pg
<1>6. page' \in [Obj -> Page \cup {Nil}] /\ page'[3] = pg /\ \A x \in Obj \ {3} : page'[x] = page[x]
  BY <1>0, <1>4, <1>5
<1>7. pte' = [pte EXCEPT ![FirstProc]["shm"] = Nil]
  BY <1>1 DEF pframe_remove_from_pts, Now
<1>8. /\ pte' \in [Procs -> [Areas -> PageTableEntry \cup {Nil}]]
      /\ \A q \in Procs, j \in Private : pte'[q][j] = pte[q][j]
      /\ \A q \in Procs : pte'[q]["shm"] \in {Nil, pte[q]["shm"]}
  BY <1>0, <1>7, MemoryFacts
<1> DEFINE r == [kind |-> "clean", val |-> page[3].data]
<1>9. r \in CleanReqs /\ r.kind = "clean" /\ r.val = page[3].data /\ r # Nil
  BY <1>3, NilAssumption DEF CleanReqs
<1>10. req' = [req EXCEPT ![p] = r]
  BY <1>1, <1>2
<1> HIDE DEF r
<1>11. req' \in [Procs -> Requests \cup CleanReqs \cup {Nil, SyncReq}]
  BY <1>0, <1>9, <1>10
<1>12. Awaits(p)' = 3 /\ ~Reading(p)' /\ Cleaning(p)' /\ req'[p] = r
  BY <1>0, <1>9, <1>10 DEF Awaits, Reading, Cleaning, ShmObj
<1>13. status[p] = "live" /\ Awaits(p) = 0
  BY <1>1, RequestFacts DEF Syncing
<1>14. ASSUME NEW q \in Procs, q # p
       PROVE  /\ req'[q] = req[q] /\ Awaits(q)' = Awaits(q) /\ Awaits(q) # 3
              /\ ~Cleaning(q)' /\ ~(Reading(q)' /\ req'[q].k = "shm")
  <2>1. req'[q] = req[q]
    BY <1>0, <1>10, <1>14
  <2>2. Awaits(q)' = Awaits(q) /\ (Reading(q)' <=> Reading(q)) /\ (Cleaning(q)' <=> Cleaning(q))
    BY <2>1 DEF Awaits, Reading, Cleaning
  <2>3. Awaits(q) # 3
    BY <1>1, <1>2 DEF IInv, BlockedRelyOn
  <2>4. ~Cleaning(q) /\ ~(Reading(q) /\ req[q].k = "shm")
    BY <2>3, RequestFacts DEF AreaBottom, ShmObj
  <2> QED BY <2>1, <2>2, <2>3, <2>4
<1>15. CleanMeansSaved'
  BY <1>4, <1>6 DEF CleanMeansSaved, ShmObj
<1>16. /\ \A q \in Procs : \/ req'[q] = req[q]
                           \/ status[q] = "live" /\ Awaits(q) \in {0, 3} /\ Awaits(q)' \in {0, 3}
       /\ \A q \in Procs : Awaits(q)' = 3 =>
            /\ page'[3] # Nil /\ page'[3].busy
            /\ \A u \in Procs : Awaits(u)' = 3 => u = q
       /\ \E q \in Procs : Awaits(q)' = 3
  BY <1>0, <1>4, <1>6, <1>12, <1>13, <1>14
<1>17. /\ ~page'[3].dirty
       /\ \A q \in Procs : ~unsaved' =>
            /\ Reading(q)' /\ req'[q].k = "shm" => disk' = page'[3].data
            /\ Cleaning(q)' => req'[q].val = page'[3].data
  BY <1>4, <1>6, <1>9, <1>12, <1>14
<1>18. /\ refs' \in [Obj -> Int] /\ refs' = refs /\ status' = status /\ UNCHANGED objects
       /\ disk' \in Values /\ unsaved' \in BOOLEAN /\ cpu' \in {"ok", "hung", "nomem"}
  BY <1>1, TypeFacts
<1>19. refs'[3] = refs[3] - Residence(page, 3) + Residence(page', 3)
  <2>1. page'[3] # Nil
    BY <1>0, <1>4, <1>6
  <2> QED BY <1>0, <1>2, <1>18, <2>1 DEF Residence
<1>20. /\ \A x \in Obj \ {3} : page'[x] = page[x] /\ refs'[x] = refs[x]
       /\ page[3] # Nil => page'[3] # Nil
  BY <1>0, <1>4, <1>6, <1>18
<1> QED BY <1>6, <1>8, <1>11, <1>15, <1>16, <1>17, <1>18, <1>19, <1>20, SharedStepInv

(* The disk has taken the shared page, or failed. *)
LEMMA CleanDoneInv ==
  ASSUME IInv, NEW p \in Procs, CleanDone(p)
  PROVE  IInv'
<1>0. /\ page \in [Obj -> Page \cup {Nil}] /\ refs \in [Obj -> Int]
      /\ pte \in [Procs -> [Areas -> PageTableEntry \cup {Nil}]]
      /\ req \in [Procs -> Requests \cup CleanReqs \cup {Nil, SyncReq}]
      /\ Nil \notin Page /\ 3 \in Obj
  BY TypeFacts
<1>1. /\ Cleaning(p) /\ req' = [req EXCEPT ![p] = SyncReq]
      /\ UNCHANGED <<status, refs, pte, unsaved, cpu>> /\ UNCHANGED objects
  BY DEF CleanDone, Cleaning
<1>2. /\ Awaits(p) = 3 /\ status[p] = "live" /\ req[p] \in CleanReqs /\ ~Reading(p)
  BY <1>1, RequestFacts DEF ShmObj
<1>3. page[3] # Nil /\ page[3].busy /\ \A q \in Procs : Awaits(q) = 3 => q = p
  BY <1>2 DEF IInv, BlockedRelyOn
<1>4. page[3] \in Page /\ page[3].data \in Values /\ req[p].val \in Values
  BY <1>0, <1>2, <1>3 DEF Page, CleanReqs
<1>5. ~page[3].dirty /\ (~unsaved => req[p].val = page[3].data)
  BY <1>1, <1>3 DEF IInv, SharedPageSaved, ShmObj
<1>6. /\ page' \in [Obj -> Page \cup {Nil}] /\ page'[3] \in Page /\ ~page'[3].busy
      /\ page'[3].data = page[3].data
      /\ disk' \in Values
      /\ \A x \in Obj \ {3} : page'[x] = page[x]
      /\ page'[3].dirty \/ disk' \in {req[p].val, page[3].data}
  <2>1. CASE disk' \in {req[p].val, page[3].data} /\ page' = Cleaned
    <3> DEFINE pg == [page[3] EXCEPT !.busy = FALSE]
    <3>1. pg \in Page /\ ~pg.busy /\ pg.data = page[3].data
      BY <1>4 DEF Page
    <3>2. page' = [page EXCEPT ![3] = pg]
      BY <2>1 DEF Cleaned, ShmObj
    <3> HIDE DEF pg
    <3> QED BY <1>0, <1>4, <2>1, <3>1, <3>2
  <2>2. CASE page' = NotCleaned /\ UNCHANGED disk
    <3> DEFINE pg == [page[3] EXCEPT !.busy = FALSE, !.dirty = TRUE]
    <3>1. pg \in Page /\ ~pg.busy /\ pg.data = page[3].data /\ pg.dirty
      BY <1>4 DEF Page
    <3>2. page' = [page EXCEPT ![3] = pg]
      BY <1>0, <2>2 DEF NotCleaned, ShmObj
    <3> HIDE DEF pg
    <3>3. disk' \in Values
      BY <2>2, TypeFacts
    <3> QED BY <1>0, <3>1, <3>2, <3>3
  <2> QED BY <2>1, <2>2 DEF CleanDone, ShmObj
<1>7. req' \in [Procs -> Requests \cup CleanReqs \cup {Nil, SyncReq}]
  BY <1>0, <1>1
<1>8. Awaits(p)' = 0
  <2>1. SyncReq.kind = "sync" /\ req'[p] = SyncReq
    BY <1>0, <1>1 DEF SyncReq
  <2> QED BY <2>1 DEF Awaits, Reading, Cleaning
<1>9. ASSUME NEW q \in Procs, q # p
      PROVE  req'[q] = req[q] /\ Awaits(q)' = Awaits(q) /\ Awaits(q) # 3
  <2>1. req'[q] = req[q]
    BY <1>0, <1>1, <1>9
  <2> QED BY <1>3, <1>9, <2>1 DEF Awaits, Reading, Cleaning
<1>10. CleanMeansSaved'
  BY <1>1, <1>5, <1>6 DEF CleanMeansSaved, ShmObj
<1>11. /\ \A q \in Procs : \/ req'[q] = req[q]
                           \/ status[q] = "live" /\ Awaits(q) \in {0, 3} /\ Awaits(q)' \in {0, 3}
       /\ \A q \in Procs : Awaits(q)' # 3
  BY <1>2, <1>8, <1>9
<1>12. /\ refs' \in [Obj -> Int] /\ refs' = refs /\ status' = status /\ UNCHANGED objects
       /\ unsaved' \in BOOLEAN /\ cpu' \in {"ok", "hung", "nomem"}
       /\ pte' \in [Procs -> [Areas -> PageTableEntry \cup {Nil}]] /\ pte' = pte
  BY <1>1, TypeFacts
<1>13. refs'[3] = refs[3] - Residence(page, 3) + Residence(page', 3)
  <2>1. page'[3] # Nil
    BY <1>0, <1>6
  <2> QED BY <1>0, <1>3, <1>12, <2>1 DEF Residence
<1>14. /\ \A x \in Obj \ {3} : page'[x] = page[x] /\ refs'[x] = refs[x]
       /\ page[3] # Nil => page'[3] # Nil
       /\ \A q \in Procs, j \in Private : pte'[q][j] = pte[q][j]
       /\ \A q \in Procs : pte'[q]["shm"] \in {Nil, pte[q]["shm"]}
  BY <1>0, <1>6, <1>12
<1> QED BY <1>6, <1>7, <1>10, <1>11, <1>12, <1>13, <1>14, SharedStepInv

(***************************************************************************)
(* Steps of process p that concern its private area k only: the page of    *)
(* the area's object, the page of the bottom object, the entry that shows  *)
(* one of them, and p's waiting for the latter.                            *)
(***************************************************************************)
PrivateStep(p, k, o, b) ==
  /\ status' = status /\ UNCHANGED objects
  /\ page' \in [Obj -> Page \cup {Nil}] /\ refs' \in [Obj -> Int]
  /\ pte' \in [Procs -> [Areas -> PageTableEntry \cup {Nil}]]
  /\ req' \in [Procs -> Requests \cup CleanReqs \cup {Nil, SyncReq}]
  /\ disk' = disk /\ unsaved' = unsaved /\ cpu' \in {"ok", "hung", "nomem"}
  /\ \A x \in Obj \ {o, b} : page'[x] = page[x] /\ refs'[x] = refs[x]
  /\ \A x \in {o, b} : refs'[x] = refs[x] - Residence(page, x) + Residence(page', x)
  /\ page[b] # Nil => page'[b] # Nil
  /\ page'[b] # Nil => (k = "heap" => page'[b].data = 0) /\ ~page'[b].dirty
  /\ page'[o] # Nil => ~page'[o].dirty
  /\ \A q \in Procs, j \in Areas : (q # p \/ j # k) => pte'[q][j] = pte[q][j]
  /\ pte'[p][k] # Nil =>
       /\ page'[pte'[p][k].obj] # Nil
       /\ \/ pte'[p][k].obj = o
          \/ ~pte'[p][k].write /\ \E x \in Obj : shadowed[x] = pte'[p][k].obj
  /\ pte'[p][k] # Nil =>
       /\ page'[FirstOf(shadowed, page')[o]] # Nil
       /\ page'[o] = Nil => pte'[p][k].obj = FirstOf(shadowed, page')[o]
  /\ \A q \in Procs : q # p => req'[q] = req[q]
  /\ page'[b] = page[b] \/ \A q \in Procs : q # p => Awaits(q) # b
  /\ Awaits(p) \in {0, b} /\ Awaits(p)' \in {0, b}
  /\ Awaits(p)' = 0 =>
       /\ ~(page'[o] # Nil /\ page'[o].busy)
       /\ \/ ~(page'[b] # Nil /\ page'[b].busy)
          \/ page'[b] = page[b] /\ Awaits(p) = 0
  /\ Awaits(p)' = b =>
       /\ b = 2 /\ page'[b] # Nil /\ page'[b].busy /\ pte'[p][k] = Nil
       /\ \A q \in Procs : q # p => Awaits(q) # b
       /\ IF req'[p].kind = "copy" THEN page'[o] # Nil /\ page'[o].busy ELSE page'[o] = Nil

(* Such a step keeps the invariant. *)
LEMMA PrivateStepInv ==
  ASSUME IInv, NEW p \in Procs, status[p] = "live", NEW k \in Private,
         PrivateStep(p, k, top[p][k], AreaBottom(k))
  PROVE  IInv'
<1> DEFINE o == top[p][k]
           b == AreaBottom(k)
<1> PrivateStep(p, k, o, b)
  OBVIOUS
<1> USE DEF PrivateStep
<1> o = top[p][k] /\ b = AreaBottom(k)
  OBVIOUS
<1> HIDE DEF o, b
<1>0. /\ status' = status /\ top' = top /\ shadowed' = shadowed /\ nextObj' = nextObj
      /\ k \in Areas /\ o = top[p][k] /\ b = AreaBottom(k)
  BY MemoryFacts DEF objects
<1>1. /\ o \in Obj /\ b \in Obj /\ b \in {1, 2} /\ o > 3 /\ o # b /\ o < nextObj /\ shadowed[b] = 0
      /\ nextObj \in Nat /\ nextObj >= 6 /\ shadowed[o] # 0 /\ shadowed[o] \in Obj
      /\ \A x \in Obj : shadowed[x] # o
      /\ (b = 1 => k = "heap") /\ (b = 2 => k = "text")
  <2>1. nextObj >= 6
    BY MemoryFacts DEF IInv, MemoryTypeOK
  <2>2. k = "heap" \/ k = "text"
    BY DEF Private
  <2> QED BY <1>0, <2>1, <2>2, AreaFacts
<1>2. \A x \in Obj : refs'[x] = refs[x] - Residence(page, x) + Residence(page', x)
  <2> TAKE x \in Obj
  <2>1. CASE x \in {o, b}
    BY <2>1
  <2>2. CASE x \notin {o, b}
    <3>1. refs'[x] = refs[x] /\ page'[x] = page[x] /\ refs[x] \in Int
      BY <2>2, TypeFacts
    <3> QED BY <3>1 DEF Residence
  <2> QED BY <2>1, <2>2
<1>3. \A x \in Obj : x >= nextObj => page'[x] = Nil
  <2> SUFFICES ASSUME NEW x \in Obj, x >= nextObj PROVE page'[x] = Nil
    OBVIOUS
  <2>1. x \notin {o, b} /\ page[x] = Nil
    <3>1. x # o
      BY <1>1
    <3>2. x # b
      BY <1>1
    <3> QED BY <3>1, <3>2 DEF IInv, ShadowsOlder
  <2> QED BY <2>1
<1>4. ASSUME NEW q \in Procs, NEW j \in Areas, q # p \/ j # k, pte[q][j] # Nil
      PROVE  /\ pte[q][j].obj # o /\ page'[pte[q][j].obj] # Nil
             /\ pte[q][j].obj # b => page'[pte[q][j].obj] = page[pte[q][j].obj]
  <2>1. pte[q][j].obj # o /\ pte[q][j].obj \in Obj /\ page[pte[q][j].obj] # Nil
    BY <1>4, EntryFacts
  <2> QED BY <2>1
<1>5. PteResident'
  <2>1. ASSUME NEW q \in Procs, NEW j \in Areas, pte'[q][j] # Nil PROVE page'[pte'[q][j].obj] # Nil
    <3>1. CASE q = p /\ j = k
      BY <2>1, <3>1
    <3>2. CASE q # p \/ j # k
      BY <1>4, <2>1, <3>2
    <3> QED BY <3>1, <3>2
  <2> QED BY <2>1 DEF PteResident
<1>6. PteOfChain'
  <2>1. ASSUME NEW q \in Procs, NEW j \in Areas, pte'[q][j] # Nil
        PROVE  /\ status[q] = "live"
               /\ \/ pte'[q][j].obj = top[q][j]
                  \/ ~pte'[q][j].write /\ \E x \in Obj : shadowed[x] = pte'[q][j].obj
    <3>1. CASE q = p /\ j = k
      BY <2>1, <3>1
    <3>2. CASE q # p \/ j # k
      <4>1. pte'[q][j] = pte[q][j]
        BY <3>2
      <4> QED BY <2>1, <4>1 DEF IInv, PteOfChain
    <3> QED BY <3>1, <3>2
  <2> QED BY <1>0, <2>1 DEF PteOfChain
<1>7. ASSUME NEW q \in Procs, q # p
      PROVE  /\ req'[q] = req[q] /\ Awaits(q)' = Awaits(q)
             /\ (Reading(q)' <=> Reading(q)) /\ (Cleaning(q)' <=> Cleaning(q))
  BY <1>7 DEF Awaits, Reading, Cleaning
<1>8. ASSUME NEW q \in Procs, q # p, Awaits(q) # 0
      PROVE  /\ Awaits(q) \in {2, 3} /\ page'[Awaits(q)] # Nil /\ page'[Awaits(q)].busy
             /\ req[q] # Nil /\ status[q] = "live"
             /\ \A u \in Procs : Awaits(u)' = Awaits(q) => u = q
  <2>1. /\ Awaits(q) \in {2, 3} /\ page[Awaits(q)] # Nil /\ page[Awaits(q)].busy
        /\ \A u \in Procs : Awaits(u) = Awaits(q) => u = q
    BY <1>8 DEF IInv, BlockedRelyOn, FileObjs, TextObj, ShmObj
  <2>2. req[q] # Nil /\ status[q] = "live"
    BY <1>8, RequestFacts DEF Reading, Cleaning
  <2>3. Awaits(q) \in Obj /\ Awaits(q) # o
    BY <1>1, <2>1, MemoryFacts
  <2>4. page'[Awaits(q)] = page[Awaits(q)]
    BY <1>8, <2>3
  <2>5. Awaits(p)' # Awaits(q)
    BY <1>8, <1>1
  <2> QED BY <1>7, <2>1, <2>2, <2>4, <2>5
<1>9. BlockedRelyOn'
  <2> SUFFICES ASSUME NEW q \in Procs
               PROVE  /\ req'[q] # Nil => status[q] = "live"
                      /\ Awaits(q)' # 0 =>
                           /\ Awaits(q)' \in {2, 3} /\ page'[Awaits(q)'] # Nil /\ page'[Awaits(q)'].busy
                           /\ \A u \in Procs : Awaits(u)' = Awaits(q)' => u = q
                      /\ Awaits(q)' = 2 =>
                           /\ pte'[q]["text"] = Nil
                           /\ IF req'[q].kind = "copy"
                              THEN page'[top[q]["text"]] # Nil /\ page'[top[q]["text"]].busy
                              ELSE page'[top[q]["text"]] = Nil
    BY <1>0 DEF BlockedRelyOn, FileObjs, TextObj, ShmObj
  <2>1. CASE q = p
    <3>1. CASE Awaits(p)' = 0
      BY <2>1, <3>1
    <3>2. CASE Awaits(p)' = b
      <4>1. b = 2 /\ k = "text"
        BY <1>1, <3>2
      <4>2. \A u \in Procs : Awaits(u)' = b => u = p
        BY <1>7, <3>2
      <4> QED BY <2>1, <3>2, <4>1, <4>2
    <3> QED BY <3>1, <3>2
  <2>2. CASE q # p
    <3>1. req'[q] # Nil => status[q] = "live"
      BY <1>7, <2>2 DEF IInv, BlockedRelyOn
    <3>2. Awaits(q)' # 0 =>
            /\ Awaits(q)' \in {2, 3} /\ page'[Awaits(q)'] # Nil /\ page'[Awaits(q)'].busy
            /\ \A u \in Procs : Awaits(u)' = Awaits(q)' => u = q
      BY <1>7, <1>8, <2>2
    <3>3. ASSUME Awaits(q)' = 2
          PROVE  /\ pte'[q]["text"] = Nil
                 /\ IF req'[q].kind = "copy"
                    THEN page'[top[q]["text"]] # Nil /\ page'[top[q]["text"]].busy
                    ELSE page'[top[q]["text"]] = Nil
      <4>1. Awaits(q) = 2 /\ req'[q] = req[q]
        BY <1>7, <2>2, <3>3
      <4>2. status[q] = "live" /\ "text" \in Private /\ "text" \in Areas
        BY <1>8, <2>2, <4>1, MemoryFacts DEF Private
      <4>3. /\ pte[q]["text"] = Nil
            /\ IF req[q].kind = "copy" THEN page[top[q]["text"]] # Nil /\ page[top[q]["text"]].busy
               ELSE page[top[q]["text"]] = Nil
        BY <4>1 DEF IInv, BlockedRelyOn, TextObj
      <4>4. top[q]["text"] \in Obj /\ top[q]["text"] > 3
        BY <4>2, AreaFacts
      <4>5. top[q]["text"] # o
        BY <2>2, <4>2, AreasApart
      <4>6. page'[top[q]["text"]] = page[top[q]["text"]]
        <5>1. top[q]["text"] # b
          BY <1>1, <4>4
        <5> QED BY <4>4, <4>5, <5>1
      <4>7. pte'[q]["text"] = pte[q]["text"]
        BY <2>2, <4>2
      <4> QED BY <4>1, <4>3, <4>6, <4>7
    <3> QED BY <3>1, <3>2, <3>3
  <2> QED BY <2>1, <2>2
<1>10. BusyOwned'
  <2> SUFFICES ASSUME NEW x \in Obj, page'[x] # Nil, page'[x].busy
               PROVE  \E q \in Procs : \/ Awaits(q)' # 0 /\ x = Awaits(q)'
                                       \/ Awaits(q)' = 2 /\ x = top[q]["text"]
    BY <1>0 DEF BusyOwned, TextObj
  <2>1. CASE x \in {o, b} /\ Awaits(p)' = b
    <3>1. b = 2 /\ k = "text"
      BY <1>1, <2>1
    <3> QED BY <2>1, <3>1
  <2>2. CASE x = o /\ Awaits(p)' = 0
    BY <2>2
  <2>3. CASE (x = b /\ Awaits(p)' = 0) \/ x \notin {o, b}
    <3>1. page'[x] = page[x] /\ (x = b => Awaits(p) = 0)
      BY <2>3
    <3>2. PICK q \in Procs : \/ Awaits(q) # 0 /\ x = Awaits(q)
                             \/ Awaits(q) = 2 /\ x = top[q]["text"]
      BY <3>1 DEF IInv, BusyOwned, TextObj
    <3>3. q # p
      <4> SUFFICES ASSUME q = p PROVE FALSE
        OBVIOUS
      <4>1. Awaits(p) = b
        BY <1>1, <3>2
      <4>2. x \in {o, b}
        BY <1>1, <3>2, <4>1
      <4> QED BY <1>1, <2>3, <3>1, <4>1, <4>2
    <3> QED BY <1>7, <3>2, <3>3
  <2> QED BY <2>1, <2>2, <2>3
<1>11. DeadHoldNothing'
  <2> SUFFICES ASSUME NEW q \in Procs, NEW j \in Private, status[q] = "dead"
               PROVE  page'[top[q][j]] = Nil
    BY <1>0 DEF DeadHoldNothing
  <2>1. page[top[q][j]] = Nil
    BY DEF IInv, DeadHoldNothing
  <2>2. top[q][j] \in Obj /\ top[q][j] > 3
    BY AreaFacts, MemoryFacts
  <2>3. top[q][j] # o
    BY AreasApart, MemoryFacts
  <2>4. top[q][j] # b
    BY <1>1, <2>2
  <2> QED BY <2>1, <2>2, <2>3, <2>4
<1>12. page'[3] = page[3]
  BY <1>1, MemoryFacts
<1>13. SharedPageSaved'
  <2>1. ASSUME NEW x \in Obj \ {3}, page'[x] # Nil PROVE ~page'[x].dirty
    <3>1. CASE x \in {o, b}
      BY <2>1, <3>1
    <3>2. CASE x \notin {o, b}
      BY <2>1, <3>2 DEF IInv, SharedPageSaved, ShmObj
    <3> QED BY <3>1, <3>2
  <2>2. ~(Reading(p)' /\ req'[p].k = "shm") /\ ~Cleaning(p)'
    <3>1. Awaits(p)' # 3
      BY <1>1
    <3>2. Reading(p)' /\ req'[p].k = "shm" => Awaits(p)' = 3
      BY DEF Awaits, AreaBottom, ShmObj
    <3>3. Cleaning(p)' => Awaits(p)' = 3
      <4>1. Cleaning(p)' => ~Reading(p)'
        BY DEF Cleaning, Reading
      <4> QED BY <4>1 DEF Awaits, ShmObj
    <3> QED BY <3>1, <3>2, <3>3
  <2>3. page[3] # Nil /\ page[3].busy =>
          /\ ~page[3].dirty
          /\ \A q \in Procs : ~unsaved =>
               /\ Reading(q) /\ req[q].k = "shm" => disk = page[3].data
               /\ Cleaning(q) => req[q].val = page[3].data
    BY DEF IInv, SharedPageSaved, ShmObj
  <2>4. page'[3] # Nil /\ page'[3].busy =>
          /\ ~page'[3].dirty
          /\ \A q \in Procs : ~unsaved' =>
               /\ Reading(q)' /\ req'[q].k = "shm" => disk' = page'[3].data
               /\ Cleaning(q)' => req'[q].val = page'[3].data
    BY <1>7, <1>12, <2>2, <2>3
  <2> QED BY <2>1, <2>4 DEF SharedPageSaved, ShmObj
<1>14. CleanMeansSaved'
  BY <1>12 DEF IInv, CleanMeansSaved, ShmObj
<1>15. FreshData'
  <2>1. page[1] # Nil => page[1].data = 0
    BY DEF IInv, FreshData, AnonObj
  <2>2. b = 1 <=> k = "heap"
    BY <1>0 DEF AreaBottom, Areas, Private, AnonObj, TextObj, ShmObj
  <2>3. page'[1] # Nil => page'[1].data = 0
    <3>1. 1 # b => page'[1] = page[1]
      BY <1>1, MemoryFacts
    <3> QED BY <1>1, <2>1, <2>2, <3>1
  <2>4. ASSUME NEW q \in Procs, NEW j \in Private, pte'[q][j] # Nil, q # p \/ j # k
        PROVE  /\ page'[FirstOf(shadowed, page')[top[q][j]]] # Nil
               /\ page'[top[q][j]] = Nil => pte'[q][j].obj = FirstOf(shadowed, page')[top[q][j]]
    <3> DEFINE s == FirstOf(shadowed, page)[top[q][j]]
    <3>0. pte'[q][j] = pte[q][j] /\ j \in Areas
      BY <2>4, MemoryFacts
    <3>1. status[q] = "live" /\ pte[q][j].obj \in Obj /\ page[pte[q][j].obj] # Nil
      BY <2>4, <3>0, EntryFacts
    <3>2. s \in Obj /\ s # o
      BY <2>4, <3>1, LookupFacts
    <3>3. FirstOf(shadowed, page')[top[q][j]] = s
      <4>1. SameBut(shadowed, page, page', top[p][k])
        BY <1>1 DEF SameBut
      <4>2. status[q] # "unused" /\ status[p] # "unused"
        BY <3>1
      <4>3. FirstOf(shadowed, page')[top[q][j]] = FirstOf(shadowed, page)[top[q][j]]
        BY <1>0, <2>4, <4>1, <4>2, LookupStays
      <4> QED BY <4>3
    <3>4. page[s] # Nil /\ (page[top[q][j]] = Nil => pte[q][j].obj = s)
      BY <2>4, <3>0 DEF IInv, FreshData
    <3>5. page'[top[q][j]] = page[top[q][j]]
      <4>1. top[q][j] \in Obj /\ top[q][j] > 3
        BY <3>0, <3>1, AreaFacts
      <4>2. top[q][j] # o
        BY <1>0, <2>4, <3>0, <3>1, AreasApart
      <4>3. top[q][j] # b
        BY <1>1, <4>1
      <4> QED BY <4>1, <4>2, <4>3
    <3> HIDE DEF s
    <3>6. page'[s] # Nil
      BY <3>2, <3>4
    <3> QED BY <3>0, <3>3, <3>4, <3>5, <3>6
  <2>5. ASSUME NEW q \in Procs, NEW j \in Private, pte'[q][j] # Nil
        PROVE  /\ page'[FirstOf(shadowed, page')[top[q][j]]] # Nil
               /\ page'[top[q][j]] = Nil => pte'[q][j].obj = FirstOf(shadowed, page')[top[q][j]]
    <3>1. CASE q = p /\ j = k
      BY <2>5, <3>1
    <3> QED BY <2>4, <2>5, <3>1
  <2> QED BY <1>0, <2>3, <2>5 DEF FreshData, AnonObj
<1>16. disk' \in Values /\ unsaved' \in BOOLEAN
  BY TypeFacts
<1> QED BY <1>2, <1>3, <1>5, <1>6, <1>9, <1>10, <1>11, <1>13, <1>14, <1>15, <1>16, SameObjectsInv

(* The page of a private area's own object is busy only while its process
   copies to it, and the bottom page of the heap is zeroed. *)
LEMMA OwnPageFacts ==
  ASSUME IInv, NEW p \in Procs, status[p] # "unused", NEW k \in Private
  PROVE  /\ page[top[p][k]] # Nil => ~page[top[p][k]].dirty
         /\ page[top[p][k]] # Nil /\ page[top[p][k]].busy => Awaits(p) = 2 /\ k = "text"
         /\ page[AreaBottom(k)] # Nil => /\ k = "heap" => page[AreaBottom(k)].data = 0
                                         /\ ~page[AreaBottom(k)].dirty
<1>1. /\ top[p][k] \in Obj /\ top[p][k] > 3 /\ AreaBottom(k) \in Obj /\ AreaBottom(k) \in {1, 2}
      /\ (k = "text" => AreaBottom(k) = 2) /\ (k = "heap" => AreaBottom(k) = 1)
      /\ k = "text" \/ k = "heap"
  BY AreaFacts, MemoryFacts DEF Private
<1>2. page[top[p][k]] # Nil => ~page[top[p][k]].dirty
  <2>1. top[p][k] # 3
    BY <1>1
  <2> QED BY <1>1, <2>1 DEF IInv, SharedPageSaved, ShmObj
<1>3. ASSUME page[top[p][k]] # Nil, page[top[p][k]].busy PROVE Awaits(p) = 2 /\ k = "text"
  <2>1. PICK q \in Procs : \/ Awaits(q) # 0 /\ top[p][k] = Awaits(q)
                           \/ Awaits(q) = 2 /\ top[p][k] = top[q]["text"]
    BY <1>1, <1>3 DEF IInv, BusyOwned, TextObj
  <2>2. Awaits(q) # 0 => Awaits(q) \in {2, 3}
    BY DEF IInv, BlockedRelyOn, FileObjs, TextObj, ShmObj
  <2>3. Awaits(q) = 2 /\ top[p][k] = top[q]["text"]
    BY <1>1, <2>1, <2>2
  <2>4. status[q] = "live"
    BY <2>3, RequestFacts DEF TextObj
  <2>5. q = p /\ k = "text"
    BY <2>3, <2>4, AreasApart, MemoryFacts
  <2> QED BY <2>3, <2>5
<1>4. ASSUME page[AreaBottom(k)] # Nil
      PROVE  (k = "heap" => page[AreaBottom(k)].data = 0) /\ ~page[AreaBottom(k)].dirty
  <2>1. ~page[AreaBottom(k)].dirty
    BY <1>1, <1>4 DEF IInv, SharedPageSaved, ShmObj
  <2>2. k = "heap" => page[AreaBottom(k)].data = 0
    BY <1>1, <1>4 DEF IInv, FreshData, AnonObj
  <2> QED BY <2>1, <2>2
<1> QED BY <1>2, <1>3, <1>4

(* A store of the user program. *)
LEMMA UserWriteInv ==
  ASSUME IInv, NEW p \in Procs, NEW k \in Areas, NEW v \in Values, UserWrite(p, k, v)
  PROVE  IInv'
<1> DEFINE o == top[p][k]
<1>0. /\ page \in [Obj -> Page \cup {Nil}] /\ refs \in [Obj -> Int]
      /\ pte \in [Procs -> [Areas -> PageTableEntry \cup {Nil}]]
      /\ req \in [Procs -> Requests \cup CleanReqs \cup {Nil, SyncReq}]
      /\ Nil \notin Page /\ 3 \in Obj /\ disk \in Values /\ unsaved \in BOOLEAN
      /\ cpu \in {"ok", "hung", "nomem"}
  BY TypeFacts
<1>1. /\ status[p] = "live" /\ req[p] = Nil /\ pte[p][k] # Nil /\ pte[p][k].write
      /\ page' = [page EXCEPT ![pte[p][k].obj].data = v]
      /\ unsaved' = (unsaved \/ k = "shm")
      /\ UNCHANGED <<status, refs, pte, req, disk, cpu>> /\ UNCHANGED objects
  BY DEF UserWrite, CanRun
<1>2. pte[p][k].obj = o /\ o \in Obj /\ page[o] # Nil /\ page[o] \in Page
  BY <1>0, <1>1, EntryFacts
<1> DEFINE pg == [page[o] EXCEPT !.data = v]
<1>3. pg \in Page /\ pg.data = v /\ pg.busy = page[o].busy /\ pg.dirty = page[o].dirty /\ pg # Nil
  <2>1. pg \in Page /\ pg.data = v /\ pg.busy = page[o].busy /\ pg.dirty = page[o].dirty
    BY <1>2 DEF Page
  <2> QED BY <1>0, <2>1
<1>4. page' = [page EXCEPT ![o] = pg]
  BY <1>1, <1>2
<1> HIDE DEF pg, o
<1>5. page' \in [Obj -> Page \cup {Nil}] /\ page'[o] = pg /\ \A x \in Obj \ {o} : page'[x] = page[x]
  BY <1>0, <1>2, <1>3, <1>4
<1>6. \A x \in Obj : /\ page'[x] = Nil <=> page[x] = Nil
                     /\ refs'[x] = refs[x] - Residence(page, x) + Residence(page', x)
  <2> TAKE x \in Obj
  <2>1. page'[x] = Nil <=> page[x] = Nil
    BY <1>2, <1>3, <1>5
  <2>2. refs'[x] = refs[x] /\ refs[x] \in Int
    BY <1>0, <1>1
  <2> QED BY <2>1, <2>2 DEF Residence
<1>7. \A q \in Procs : /\ req'[q] = req[q] /\ Awaits(q)' = Awaits(q)
                       /\ (Reading(q)' <=> Reading(q)) /\ (Cleaning(q)' <=> Cleaning(q))
  BY <1>1 DEF Awaits, Reading, Cleaning
<1>8. Awaits(p) = 0
  BY <1>1, RequestFacts
<1>9. /\ refs' = refs /\ refs' \in [Obj -> Int] /\ pte' = pte /\ disk' = disk /\ req' = req
      /\ pte' \in [Procs -> [Areas -> PageTableEntry \cup {Nil}]]
      /\ req' \in [Procs -> Requests \cup CleanReqs \cup {Nil, SyncReq}]
      /\ disk' \in Values /\ unsaved' \in BOOLEAN /\ cpu' \in {"ok", "hung", "nomem"}
      /\ status' = status /\ UNCHANGED objects
  BY <1>0, <1>1
<1>10. CASE k = "shm"
  <2>1. o = 3 /\ unsaved'
    BY <1>1, <1>10, AreaFacts DEF o
  <2>2. /\ \A q \in Procs : Awaits(q)' = 3 =>
             /\ page'[3] # Nil /\ page'[3].busy
             /\ \A u \in Procs : Awaits(u)' = 3 => u = q
        /\ page'[3] # Nil /\ page'[3].busy => \E q \in Procs : Awaits(q)' = 3
    <3>1. \A q \in Procs : Awaits(q) = 3 => page[3].busy /\ \A u \in Procs : Awaits(u) = 3 => u = q
      BY DEF IInv, BlockedRelyOn
    <3>2. page[3].busy => \E q \in Procs : Awaits(q) = 3
      BY <1>2, <2>1, SharedOwner
    <3> QED BY <1>3, <1>5, <1>7, <2>1, <3>1, <3>2
  <2>3. page'[3] # Nil /\ page'[3].busy => ~page'[3].dirty
    BY <1>2, <1>3, <1>5, <2>1 DEF IInv, SharedPageSaved, ShmObj
  <2>4. CleanMeansSaved'
    BY <2>1 DEF CleanMeansSaved
  <2>5. /\ \A x \in Obj \ {3} : page'[x] = page[x] /\ refs'[x] = refs[x]
        /\ page[3] # Nil => page'[3] # Nil
        /\ refs'[3] = refs[3] - Residence(page, 3) + Residence(page', 3)
        /\ \A q \in Procs, j \in Private : pte'[q][j] = pte[q][j]
        /\ \A q \in Procs : pte'[q]["shm"] \in {Nil, pte[q]["shm"]}
    BY <1>0, <1>5, <1>6, <1>9, <2>1
  <2> QED BY <1>5, <1>7, <1>9, <2>1, <2>2, <2>3, <2>4, <2>5, SharedStepInv
<1>11. CASE k \in Private
  <2> DEFINE b == AreaBottom(k)
  <2>0. /\ b \in Obj /\ b # o /\ status[p] # "unused" /\ b \in {1, 2, 3} /\ o > 3
    BY <1>1, <1>11, AreaFacts, MemoryFacts DEF o
  <2>00. unsaved' = unsaved
    <3>1. k # "shm"
      BY <1>11, MemoryFacts
    <3> QED BY <1>0, <1>1, <3>1
  <2>1. /\ page'[b] = page[b]
        /\ page'[b] # Nil => (k = "heap" => page'[b].data = 0) /\ ~page'[b].dirty
    BY <1>5, <1>11, <2>0, OwnPageFacts
  <2>2. page'[o] # Nil /\ ~page'[o].dirty /\ ~page'[o].busy
    BY <1>2, <1>3, <1>5, <1>8, <1>11, <2>0, OwnPageFacts DEF o
  <2>3. FirstOf(shadowed, page')[o] = o
    BY <1>11, <2>0, <2>2, LookupFacts DEF o
  <2>4. /\ \A x \in Obj \ {o, b} : page'[x] = page[x] /\ refs'[x] = refs[x]
        /\ \A x \in {o, b} : refs'[x] = refs[x] - Residence(page, x) + Residence(page', x)
    BY <1>2, <1>5, <1>6, <1>9, <2>0
  <2>5. \A q \in Procs, j \in Areas : (q # p \/ j # k) => pte'[q][j] = pte[q][j]
    BY <1>9
  <2>6. pte'[p][k] # Nil /\ pte'[p][k].obj = o
    BY <1>1, <1>2, <1>9
  <2>7. Awaits(p)' = 0 /\ b # 0
    BY <1>7, <1>8, <2>0
  <2>8. o = top[p][k]
    BY DEF o
  <2>9. /\ Awaits(p) \in {0, b} /\ Awaits(p)' \in {0, b} /\ ~(Awaits(p)' = b)
        /\ ~(page'[o] # Nil /\ page'[o].busy) /\ page'[b] = page[b] /\ Awaits(p) = 0
        /\ page[b] # Nil => page'[b] # Nil
    BY <1>8, <2>1, <2>2, <2>7
  <2> HIDE DEF b
  <2>10. PrivateStep(p, k, o, b)
    BY <1>5, <1>7, <1>9, <2>00, <2>1, <2>2, <2>3, <2>4, <2>5, <2>6, <2>9 DEF PrivateStep
  <2> QED BY <1>1, <1>11, <2>10, PrivateStepInv DEF o, b
<1> QED BY <1>10, <1>11, MemoryFacts

-----------------------------------------------------------------------------
(***************************************************************************)
(* Faults and copies.  Memories is what Now, pframe_alloc and Finished are. *)
(***************************************************************************)
Memories == [page : [Obj -> Page \cup {Nil}], refs : [Obj -> Int],
             pte : [Procs -> [Areas -> PageTableEntry \cup {Nil}]]]

(* pframe_alloc gives o a page, and no other object. *)
LEMMA AllocFacts ==
  ASSUME NEW m \in Memories, NEW o \in Obj, NEW d \in Values
  PROVE  LET n == pframe_alloc(m, o, d)
         IN /\ n \in Memories /\ n.pte = m.pte
            /\ n.page[o] \in Page /\ n.page[o] # Nil
            /\ n.page[o].data = d /\ ~n.page[o].busy /\ ~n.page[o].dirty
            /\ n.refs[o] = m.refs[o] + 1
            /\ \A x \in Obj : x # o => n.page[x] = m.page[x] /\ n.refs[x] = m.refs[x]
<1> DEFINE n == pframe_alloc(m, o, d)
           f == [data |-> d, busy |-> FALSE, dirty |-> FALSE]
<1>1. f \in Page /\ f.data = d /\ ~f.busy /\ ~f.dirty /\ f # Nil
  <2>1. f \in Page /\ f.data = d /\ ~f.busy /\ ~f.dirty
    BY DEF Page
  <2> QED BY <2>1, NilAssumption
<1>2. /\ m.page \in [Obj -> Page \cup {Nil}] /\ m.refs \in [Obj -> Int]
      /\ m.pte \in [Procs -> [Areas -> PageTableEntry \cup {Nil}]]
  BY DEF Memories
<1>3. /\ n = [m EXCEPT !.page = [m.page EXCEPT ![o] = f], !.refs = [m.refs EXCEPT ![o] = m.refs[o] + 1]]
  BY <1>2 DEF pframe_alloc, Memories
<1> HIDE DEF n, f
<1>4. /\ n.page = [m.page EXCEPT ![o] = f] /\ n.refs = [m.refs EXCEPT ![o] = m.refs[o] + 1]
      /\ n.pte = m.pte
      /\ n = [page |-> n.page, refs |-> n.refs, pte |-> n.pte]
  BY <1>3 DEF Memories
<1>5. n.page \in [Obj -> Page \cup {Nil}] /\ n.refs \in [Obj -> Int]
  BY <1>1, <1>2, <1>4
<1>6. n \in Memories
  BY <1>2, <1>4, <1>5 DEF Memories
<1>7. /\ n.page[o] = f /\ n.refs[o] = m.refs[o] + 1
      /\ \A x \in Obj : x # o => n.page[x] = m.page[x] /\ n.refs[x] = m.refs[x]
  BY <1>2, <1>4
<1> QED BY <1>1, <1>4, <1>6, <1>7 DEF n

(* The memory n after a fault or a copy r of process p to an area with object
   o, the look-up of which finds the page of s in m. *)
Outcome(m, n, p, r, o, s) ==
  /\ n \in Memories
  /\ \A x \in Obj : x # o => n.page[x] = m.page[x] /\ n.refs[x] = m.refs[x]
  /\ n.refs[o] = m.refs[o] - Residence(m.page, o) + Residence(n.page, o)
  /\ \A q \in Procs, j \in Areas : (q # p \/ j # r.k) => n.pte[q][j] = m.pte[q][j]
  /\ r.kind = "fault" =>
       n.pte[p][r.k] = [obj |-> IF r.write THEN o ELSE s, write |-> r.write]
  /\ r.kind = "copy" => n.pte[p][r.k] = m.pte[p][r.k]
  /\ (r.kind = "fault" /\ ~r.write) => n.page[o] = m.page[o]
  /\ ~(r.kind = "fault" /\ ~r.write) =>
       /\ n.page[o] \in Page /\ n.page[o] # Nil
       /\ IF m.page[o] = Nil THEN ~n.page[o].busy ELSE n.page[o].busy = m.page[o].busy
       /\ IF r.kind = "copy" /\ r.write
          THEN n.page[o].data = r.val /\ n.page[o].dirty = (o \in FileObjs)
          ELSE /\ n.page[o].data = m.page[s].data
               /\ IF m.page[o] = Nil THEN ~n.page[o].dirty ELSE n.page[o] = m.page[o]

(* Finished, where the page that is looked up is resident. *)
LEMMA FinishedOutcome ==
  ASSUME IInv, NEW p \in Procs, status[p] # "unused", NEW r \in Requests, NEW m \in Memories,
         m.page[FirstOf(shadowed, m.page)[top[p][r.k]]] # Nil
  PROVE  Outcome(m, Finished(m, p, r), p, r, top[p][r.k], FirstOf(shadowed, m.page)[top[p][r.k]])
<1> DEFINE o == top[p][r.k]
           s == FirstOf(shadowed, m.page)[o]
           own == IF s = o THEN m ELSE shadow_fillpage(m, o)
           n == Finished(m, p, r)
<1>0. /\ r.k \in Areas /\ r.kind \in {"fault", "copy"} /\ r.write \in BOOLEAN /\ r.val \in Values
      /\ m.page \in [Obj -> Page \cup {Nil}] /\ m.refs \in [Obj -> Int]
      /\ m.pte \in [Procs -> [Areas -> PageTableEntry \cup {Nil}]]
      /\ Nil \notin Page /\ Shadows(shadowed)
  BY NilAssumption, InvShadows DEF Requests, Memories
<1>1. o \in Obj
  BY <1>0, AreaFacts
<1>2. s \in Obj /\ m.page[s] # Nil
  <2>1. s \in Obj
    BY <1>0, <1>1, FirstFinds
  <2> QED BY <2>1
<1>3. m.page[s] \in Page /\ m.page[s].data \in Values
  BY <1>0, <1>2 DEF Page
<1>4. s # o => m.page[o] = Nil /\ shadowed[o] # 0 /\ s = FirstOf(shadowed, m.page)[shadowed[o]]
  BY <1>0, <1>1, FirstFacts
<1>5. n = CASE r.kind = "fault" /\ ~r.write ->
                 [m EXCEPT !.pte[p][r.k] = [obj |-> s, write |-> FALSE]]
            [] r.kind = "fault" /\ r.write ->
                 [own EXCEPT !.pte[p][r.k] = [obj |-> o, write |-> TRUE]]
            [] r.kind = "copy" /\ ~r.write -> own
            [] r.kind = "copy" /\ r.write ->
                 [pframe_dirty(own, o) EXCEPT !.page[o].data = r.val]
  <2>1. Source(m.page, o) = s
    BY ChainOps
  <2> QED BY <2>1 DEF Finished
<1>6. /\ own \in Memories /\ own.pte = m.pte
      /\ \A x \in Obj : x # o => own.page[x] = m.page[x] /\ own.refs[x] = m.refs[x]
      /\ own.refs[o] = m.refs[o] - Residence(m.page, o) + Residence(own.page, o)
      /\ own.page[o] \in Page /\ own.page[o] # Nil /\ own.page[o].data = m.page[s].data
      /\ IF m.page[o] = Nil THEN ~own.page[o].busy /\ ~own.page[o].dirty ELSE own.page[o] = m.page[o]
  <2>1. CASE s = o
    <3>1. own = m
      BY <2>1
    <3>2. m.refs[o] = m.refs[o] - Residence(m.page, o) + Residence(m.page, o)
      BY <1>0, <1>1 DEF Residence
    <3> HIDE DEF own, s, o
    <3> QED BY <1>2, <1>3, <2>1, <3>1, <3>2
  <2>2. CASE s # o
    <3>1. own = pframe_alloc(m, o, m.page[s].data)
      <4>1. Source(m.page, shadowed[o]) = s
        BY <1>4, <2>2, ChainOps
      <4> QED BY <2>2, <4>1 DEF shadow_fillpage
    <3> HIDE DEF own, s, o
    <3>2. /\ own \in Memories /\ own.pte = m.pte
          /\ own.page[o] \in Page /\ own.page[o] # Nil
          /\ own.page[o].data = m.page[s].data /\ ~own.page[o].busy /\ ~own.page[o].dirty
          /\ own.refs[o] = m.refs[o] + 1
          /\ \A x \in Obj : x # o => own.page[x] = m.page[x] /\ own.refs[x] = m.refs[x]
      BY <1>1, <1>3, <3>1, AllocFacts
    <3>3. m.page[o] = Nil
      BY <1>4, <2>2
    <3>4. m.refs[o] \in Int
      BY <1>0, <1>1
    <3> QED BY <3>2, <3>3, <3>4 DEF Residence
  <2> QED BY <2>1, <2>2
<1>7. /\ own.page \in [Obj -> Page \cup {Nil}] /\ own.refs \in [Obj -> Int]
      /\ own.pte \in [Procs -> [Areas -> PageTableEntry \cup {Nil}]]
  BY <1>6 DEF Memories
<1> HIDE DEF own, s, o, n
<1>8. CASE r.kind = "fault" /\ ~r.write
  <2> DEFINE e == [obj |-> s, write |-> FALSE]
  <2>1. e \in PageTableEntry
    BY <1>2 DEF PageTableEntry
  <2>2. n = [m EXCEPT !.pte[p][r.k] = e]
    BY <1>5, <1>8
  <2>3. e = [obj |-> IF r.write THEN o ELSE s, write |-> r.write]
    BY <1>0, <1>8
  <2> HIDE DEF e
  <2>4. n \in Memories /\ n.page = m.page /\ n.refs = m.refs /\ n.pte = [m.pte EXCEPT ![p][r.k] = e]
    BY <1>0, <2>1, <2>2 DEF Memories
  <2>5. n.pte[p][r.k] = e /\ \A q \in Procs, j \in Areas : (q # p \/ j # r.k) => n.pte[q][j] = m.pte[q][j]
    BY <1>0, <2>4
  <2>6. n.refs[o] = m.refs[o] - Residence(m.page, o) + Residence(n.page, o)
    BY <1>0, <1>1, <2>4 DEF Residence
  <2> QED BY <1>8, <2>3, <2>4, <2>5, <2>6 DEF Outcome, n, o, s
<1>9. CASE r.kind = "fault" /\ r.write
  <2> DEFINE e == [obj |-> o, write |-> TRUE]
  <2>1. e \in PageTableEntry
    BY <1>1 DEF PageTableEntry
  <2>2. n = [own EXCEPT !.pte[p][r.k] = e]
    BY <1>5, <1>9
  <2>3. e = [obj |-> IF r.write THEN o ELSE s, write |-> r.write]
    BY <1>0, <1>9
  <2> HIDE DEF e
  <2>4. n \in Memories /\ n.page = own.page /\ n.refs = own.refs /\ n.pte = [m.pte EXCEPT ![p][r.k] = e]
    BY <1>0, <1>6, <1>7, <2>1, <2>2 DEF Memories
  <2>5. n.pte[p][r.k] = e /\ \A q \in Procs, j \in Areas : (q # p \/ j # r.k) => n.pte[q][j] = m.pte[q][j]
    BY <1>0, <2>4
  <2>6. Outcome(m, n, p, r, o, s)
    BY <1>6, <1>9, <2>3, <2>4, <2>5 DEF Outcome
  <2> QED BY <2>6 DEF n, o, s
<1>10. CASE r.kind = "copy" /\ ~r.write
  <2>1. n = own
    BY <1>5, <1>10
  <2>2. Outcome(m, n, p, r, o, s)
    BY <1>6, <1>10, <2>1 DEF Outcome
  <2> QED BY <2>2 DEF n, o, s
<1>11. CASE r.kind = "copy" /\ r.write
  <2> DEFINE f == [own.page[o] EXCEPT !.dirty = (o \in FileObjs), !.data = r.val]
  <2>1. f \in Page /\ f.busy = own.page[o].busy /\ f.data = r.val /\ f.dirty = (o \in FileObjs)
    <3> DEFINE d == (o \in FileObjs)
    <3>1. d \in BOOLEAN
      OBVIOUS
    <3>2. f = [own.page[o] EXCEPT !.dirty = d, !.data = r.val]
      OBVIOUS
    <3> HIDE DEF d, f
    <3>3. f \in Page /\ f.busy = own.page[o].busy /\ f.data = r.val /\ f.dirty = d
      BY <1>0, <1>6, <3>1, <3>2 DEF Page
    <3> QED BY <3>3 DEF d
  <2>2. n = [own EXCEPT !.page = [own.page EXCEPT ![o] = f]]
    <3>1. n = [pframe_dirty(own, o) EXCEPT !.page[o].data = r.val]
      BY <1>5, <1>11
    <3> DEFINE g == [own.page[o] EXCEPT !.dirty = (o \in FileObjs)]
               h == [own EXCEPT !.page = [own.page EXCEPT ![o] = g]]
    <3>2. pframe_dirty(own, o) = h
      BY DEF pframe_dirty
    <3>3. h.page[o] = g /\ h.page = [own.page EXCEPT ![o] = g]
      BY <1>1, <1>6, <1>7 DEF Memories
    <3>4. n = [h EXCEPT !.page = [h.page EXCEPT ![o] = [g EXCEPT !.data = r.val]]]
      BY <3>1, <3>2, <3>3
    <3>5. [g EXCEPT !.data = r.val] = f
      BY <1>6 DEF Page
    <3> HIDE DEF g, f
    <3>6. [h.page EXCEPT ![o] = f] = [own.page EXCEPT ![o] = f]
      BY <1>1, <1>7, <3>3
    <3>7. n = [h EXCEPT !.page = [own.page EXCEPT ![o] = f]]
      BY <3>4, <3>5, <3>6
    <3> QED BY <1>6, <3>7 DEF Memories
  <2> HIDE DEF f
  <2>3. /\ n \in Memories /\ n.page = [own.page EXCEPT ![o] = f] /\ n.refs = own.refs /\ n.pte = own.pte
    BY <1>1, <1>6, <1>7, <2>1, <2>2 DEF Memories
  <2>4. n.page[o] = f /\ f # Nil /\ \A x \in Obj : x # o => n.page[x] = own.page[x]
    BY <1>0, <1>1, <1>7, <2>1, <2>3
  <2>5. Residence(n.page, o) = Residence(own.page, o)
    BY <1>6, <2>4 DEF Residence
  <2>6. Outcome(m, n, p, r, o, s)
    BY <1>6, <1>11, <2>1, <2>3, <2>4, <2>5 DEF Outcome
  <2> QED BY <2>6 DEF n, o, s
<1> QED BY <1>0, <1>8, <1>9, <1>10, <1>11

(* The rest of the state in a step of process p that finishes its request. *)
Finishes(p) ==
  /\ status' = status /\ UNCHANGED objects /\ disk' = disk /\ unsaved' \in BOOLEAN
  /\ cpu' \in {"ok", "hung", "nomem"}
  /\ req' \in [Procs -> Requests \cup CleanReqs \cup {Nil, SyncReq}]
  /\ \A q \in Procs : q # p => req'[q] = req[q]
  /\ req'[p] = Nil

(* What the memory m, in which a request of process p to its private area k
   is finished, has to do with the present memory. *)
PrivateStart(m, p, k, o, b) ==
  /\ m \in Memories /\ m.pte = pte
  /\ \A x \in Obj \ {o, b} : m.page[x] = page[x] /\ m.refs[x] = refs[x]
  /\ \A x \in {o, b} : m.refs[x] = refs[x] - Residence(page, x) + Residence(m.page, x)
  /\ page[b] # Nil => m.page[b] # Nil
  /\ m.page[b] # Nil => (k = "heap" => m.page[b].data = 0) /\ ~m.page[b].dirty
  /\ m.page[o] # Nil => ~m.page[o].busy /\ ~m.page[o].dirty
  /\ m.page[FirstOf(shadowed, m.page)[o]] # Nil
  /\ m.page[b] = page[b] \/ \A q \in Procs : q # p => Awaits(q) # b
  /\ Awaits(p) \in {0, b}
  /\ \/ ~(m.page[b] # Nil /\ m.page[b].busy)
     \/ m.page[b] = page[b] /\ Awaits(p) = 0

(* A request to a private area that is finished in such a memory. *)
LEMMA FinishPrivate ==
  ASSUME IInv, NEW p \in Procs, status[p] = "live", NEW r \in Requests, r.k \in Private,
         NEW m, PrivateStart(m, p, r.k, top[p][r.k], AreaBottom(r.k)),
         SetMemory(Finished(m, p, r)), Finishes(p), unsaved' = unsaved
  PROVE  IInv'
<1> DEFINE k == r.k
           o == top[p][k]
           b == AreaBottom(k)
           s == FirstOf(shadowed, m.page)[o]
           n == Finished(m, p, r)
<1>0. /\ k \in Areas /\ k \in Private /\ r.kind \in {"fault", "copy"} /\ r.write \in BOOLEAN
      /\ m \in Memories /\ m.page \in [Obj -> Page \cup {Nil}] /\ m.refs \in [Obj -> Int]
      /\ Nil \notin Page /\ Shadows(shadowed)
  BY NilAssumption, InvShadows DEF Requests, Memories, PrivateStart
<1>1. /\ o \in Obj /\ b \in Obj /\ b \in {1, 2, 3} /\ o > 3 /\ o # b /\ shadowed[b] = 0
      /\ \A x \in Obj : shadowed[x] # o
  BY <1>0, AreaFacts
<1>2. /\ m.page[s] # Nil /\ s \in Obj
      /\ s = o \/ \E x \in Obj : shadowed[x] = s
      /\ m.page[o] # Nil => s = o
      /\ m.page[o] = Nil => s # o
  BY SMTT(60), <1>0, LookupFacts DEF PrivateStart
<1>3. Outcome(m, n, p, r, o, s)
  BY <1>0, <1>2, FinishedOutcome
<1>4. page' = n.page /\ refs' = n.refs /\ pte' = n.pte
  BY DEF SetMemory
<1>5. PrivateStart(m, p, k, o, b)
  OBVIOUS
<1> HIDE DEF k, o, b, s, n
<1>6. /\ n \in Memories
      /\ page' \in [Obj -> Page \cup {Nil}] /\ refs' \in [Obj -> Int]
      /\ pte' \in [Procs -> [Areas -> PageTableEntry \cup {Nil}]]
  BY <1>3, <1>4 DEF Outcome, Memories
<1>7. \A x \in Obj : x # o => page'[x] = m.page[x] /\ refs'[x] = m.refs[x]
  BY <1>3, <1>4 DEF Outcome
<1>8. refs'[o] = m.refs[o] - Residence(m.page, o) + Residence(page', o)
  BY <1>3, <1>4 DEF Outcome
<1>9. \A x \in {o, b} : refs'[x] = refs[x] - Residence(page, x) + Residence(page', x)
  <2>1. /\ refs[o] \in Int /\ m.refs[o] \in Int /\ Residence(page, o) \in Int
        /\ Residence(m.page, o) \in Int /\ Residence(page', o) \in Int
    BY <1>0, <1>1, TypeFacts DEF Residence
  <2>2. m.refs[o] = refs[o] - Residence(page, o) + Residence(m.page, o)
    BY <1>5 DEF PrivateStart
  <2>3. refs'[o] = refs[o] - Residence(page, o) + Residence(page', o)
    BY <1>8, <2>1, <2>2
  <2>4. m.refs[b] = refs[b] - Residence(page, b) + Residence(m.page, b)
    BY <1>5 DEF PrivateStart
  <2>5. refs'[b] = m.refs[b] /\ Residence(page', b) = Residence(m.page, b)
    BY <1>1, <1>7 DEF Residence
  <2> QED BY <2>3, <2>4, <2>5
<1>10. page'[b] = m.page[b]
  BY <1>1, <1>7
<1>11. \A x \in Obj \ {o, b} : page'[x] = page[x] /\ refs'[x] = refs[x]
  BY <1>5, <1>7 DEF PrivateStart
<1>12. o \notin FileObjs
  BY <1>1 DEF FileObjs, TextObj, ShmObj
<1>13. page'[o] # Nil => ~page'[o].dirty /\ ~page'[o].busy
  <2>1. m.page[o] # Nil => ~m.page[o].busy /\ ~m.page[o].dirty
    BY <1>5 DEF PrivateStart
  <2>2. CASE r.kind = "fault" /\ ~r.write
    BY <1>3, <1>4, <2>1, <2>2 DEF Outcome
  <2>3. CASE ~(r.kind = "fault" /\ ~r.write)
    <3>1. /\ IF m.page[o] = Nil THEN ~page'[o].busy ELSE page'[o].busy = m.page[o].busy
          /\ IF r.kind = "copy" /\ r.write THEN page'[o].dirty = (o \in FileObjs)
             ELSE IF m.page[o] = Nil THEN ~page'[o].dirty ELSE page'[o] = m.page[o]
      BY <1>3, <1>4, <2>3 DEF Outcome
    <3> QED BY <1>12, <2>1, <3>1
  <2> QED BY <2>2, <2>3
<1>14. \A q \in Procs, j \in Areas : (q # p \/ j # k) => pte'[q][j] = pte[q][j]
  BY <1>3, <1>4, <1>5 DEF Outcome, PrivateStart, k
<1>15. ASSUME pte'[p][k] # Nil
       PROVE  /\ page'[pte'[p][k].obj] # Nil
              /\ \/ pte'[p][k].obj = o
                 \/ ~pte'[p][k].write /\ \E x \in Obj : shadowed[x] = pte'[p][k].obj
              /\ page'[FirstOf(shadowed, page')[o]] # Nil
              /\ page'[o] = Nil => pte'[p][k].obj = FirstOf(shadowed, page')[o]
  <2>1. CASE r.kind = "fault" /\ ~r.write
    <3>1. pte'[p][k] = [obj |-> s, write |-> r.write] /\ page'[o] = m.page[o]
      BY <1>3, <1>4, <2>1 DEF Outcome, k
    <3>2. pte'[p][k].obj = s /\ ~pte'[p][k].write
      BY <2>1, <3>1
    <3>3. page'[s] = m.page[s] /\ page'[s] # Nil
      BY <1>2, <1>7, <3>1
    <3>4. FirstOf(shadowed, page')[o] = s
      <4>1. SameAbove(shadowed, m.page, page', o)
        BY <1>7, <3>1 DEF SameAbove
      <4>2. Shadows(shadowed) /\ o \in Obj
        BY <1>0, <1>1
      <4>3. PICK pg : pg = m.page
        OBVIOUS
      <4>4. PICK pg2 : pg2 = page'
        OBVIOUS
      <4>5. SameAbove(shadowed, pg, pg2, o)
        BY <4>1, <4>3, <4>4
      <4>6. FirstOf(shadowed, pg)[o] = FirstOf(shadowed, pg2)[o]
        BY ONLY <4>2, <4>5, FirstSame
      <4>7. FirstOf(shadowed, m.page)[o] = FirstOf(shadowed, page')[o]
        BY <4>3, <4>4, <4>6
      <4> QED BY <4>7 DEF s
    <3> QED BY <1>2, <3>2, <3>3, <3>4
  <2>2. CASE r.kind = "fault" /\ r.write
    <3>1. pte'[p][k] = [obj |-> o, write |-> r.write] /\ page'[o] # Nil
      BY <1>3, <1>4, <2>2 DEF Outcome, k
    <3>2. pte'[p][k].obj = o
      BY <3>1
    <3>3. FirstOf(shadowed, page')[o] = o
      BY <1>0, <3>1, LookupFacts DEF o
    <3> QED BY <3>1, <3>2, <3>3
  <2>3. CASE r.kind = "copy"
    <3> DEFINE x == pte[p][k].obj
    <3>1. pte'[p][k] = pte[p][k] /\ page'[o] # Nil
      BY <1>3, <1>4, <1>5, <2>3 DEF Outcome, PrivateStart, k
    <3>2. /\ x \in Obj /\ page[x] # Nil
          /\ x = o \/ (~pte[p][k].write /\ \E z \in Obj : shadowed[z] = x)
      BY <1>0, <1>15, <3>1, EntryFacts DEF o
    <3>3. FirstOf(shadowed, page')[o] = o
      BY <1>0, <3>1, LookupFacts DEF o
    <3>4. page'[x] # Nil
      BY <1>5, <1>10, <1>11, <3>1, <3>2 DEF PrivateStart
    <3> HIDE DEF x
    <3> QED BY <3>1, <3>2, <3>3, <3>4 DEF x
  <2> QED BY <1>0, <2>1, <2>2, <2>3
<1>16. Awaits(p)' = 0 /\ b # 0
  BY <1>1 DEF Finishes, Awaits, Reading, Cleaning
<1>17. PrivateStep(p, k, o, b)
  <2>1. /\ page[b] # Nil => page'[b] # Nil
        /\ page'[b] # Nil => (k = "heap" => page'[b].data = 0) /\ ~page'[b].dirty
        /\ page'[b] = page[b] \/ \A q \in Procs : q # p => Awaits(q) # b
        /\ Awaits(p) \in {0, b}
        /\ \/ ~(page'[b] # Nil /\ page'[b].busy)
           \/ page'[b] = page[b] /\ Awaits(p) = 0
    BY <1>5, <1>10 DEF PrivateStart
  <2> QED BY <1>6, <1>9, <1>11, <1>13, <1>14, <1>15, <1>16, <2>1 DEF PrivateStep, Finishes
<1> QED BY <1>0, <1>17, PrivateStepInv DEF k, o, b

(* A request to the shared area is finished in m, where its page is there. *)
SharedStart(m) ==
  /\ m \in Memories /\ m.pte = pte
  /\ \A x \in Obj \ {3} : m.page[x] = page[x] /\ m.refs[x] = refs[x]
  /\ m.refs[3] = refs[3] - Residence(page, 3) + Residence(m.page, 3)
  /\ m.page[3] # Nil /\ ~m.page[3].busy
  /\ (~m.page[3].dirty /\ ~unsaved') => disk = m.page[3].data

(* Such a step keeps the invariant. *)
LEMMA FinishShared ==
  ASSUME IInv, NEW p \in Procs, status[p] = "live", NEW r \in Requests, r.k = "shm",
         NEW m, SharedStart(m), SetMemory(Finished(m, p, r)), Finishes(p),
         Awaits(p) \in {0, 3}, \A q \in Procs : q # p => Awaits(q) # 3
  PROVE  IInv'
<1> DEFINE n == Finished(m, p, r)
<1>0. /\ r.kind \in {"fault", "copy"} /\ r.write \in BOOLEAN
      /\ m \in Memories /\ m.page \in [Obj -> Page \cup {Nil}] /\ m.refs \in [Obj -> Int]
      /\ Nil \notin Page /\ Shadows(shadowed) /\ 3 \in Obj /\ "shm" \in Areas
  BY NilAssumption, InvShadows, MemoryFacts DEF Requests, Memories, SharedStart
<1>1. top[p]["shm"] = 3 /\ shadowed[3] = 0
  BY <1>0, AreaFacts
<1>2. FirstOf(shadowed, m.page)[3] = 3
  BY <1>0, <1>1, FirstFacts
<1>3. Outcome(m, n, p, r, 3, 3)
  <2>1. m.page[FirstOf(shadowed, m.page)[top[p][r.k]]] # Nil
    BY <1>1, <1>2 DEF SharedStart
  <2>2. Outcome(m, n, p, r, top[p][r.k], FirstOf(shadowed, m.page)[top[p][r.k]])
    BY <1>0, <2>1, FinishedOutcome
  <2> QED BY <1>1, <1>2, <2>2
<1>4. page' = n.page /\ refs' = n.refs /\ pte' = n.pte
  BY DEF SetMemory
<1> HIDE DEF n
<1>5. /\ page' \in [Obj -> Page \cup {Nil}] /\ refs' \in [Obj -> Int]
      /\ pte' \in [Procs -> [Areas -> PageTableEntry \cup {Nil}]]
  BY <1>3, <1>4 DEF Outcome, Memories
<1>6. \A x \in Obj \ {3} : page'[x] = page[x] /\ refs'[x] = refs[x]
  BY <1>3, <1>4 DEF Outcome, SharedStart
<1>7. refs'[3] = refs[3] - Residence(page, 3) + Residence(page', 3)
  <2>1. /\ refs[3] \in Int /\ m.refs[3] \in Int /\ Residence(page, 3) \in Int
        /\ Residence(m.page, 3) \in Int /\ Residence(page', 3) \in Int
    BY <1>0, TypeFacts DEF Residence
  <2>2. m.refs[3] = refs[3] - Residence(page, 3) + Residence(m.page, 3)
    BY DEF SharedStart
  <2>3. refs'[3] = m.refs[3] - Residence(m.page, 3) + Residence(page', 3)
    BY <1>3, <1>4 DEF Outcome
  <2> QED BY <2>1, <2>2, <2>3
<1>8. page'[3] # Nil /\ ~page'[3].busy /\ (~page'[3].dirty /\ ~unsaved' => disk = page'[3].data)
  <2>0. m.page[3] # Nil /\ ~m.page[3].busy /\ (~m.page[3].dirty /\ ~unsaved' => disk = m.page[3].data)
    BY DEF SharedStart
  <2>1. CASE r.kind = "fault" /\ ~r.write
    <3>1. page'[3] = m.page[3]
      BY <1>3, <1>4, <2>1 DEF Outcome
    <3> QED BY <2>0, <3>1
  <2>2. CASE r.kind = "copy" /\ r.write
    <3>1. page'[3] # Nil /\ page'[3].busy = m.page[3].busy /\ page'[3].dirty = (3 \in FileObjs)
      BY <1>3, <1>4, <2>0, <2>2 DEF Outcome
    <3>2. 3 \in FileObjs
      BY DEF FileObjs, ShmObj
    <3> QED BY <2>0, <3>1, <3>2
  <2>3. CASE ~(r.kind = "fault" /\ ~r.write) /\ ~(r.kind = "copy" /\ r.write)
    <3>1. page'[3] = m.page[3]
      BY <1>3, <1>4, <2>0, <2>3 DEF Outcome
    <3> QED BY <2>0, <3>1
  <2> QED BY <2>1, <2>2, <2>3
<1>9. \A q \in Procs, j \in Private : pte'[q][j] = pte[q][j]
  BY <1>3, <1>4, MemoryFacts DEF Outcome, SharedStart
<1>10. \A q \in Procs : \/ pte'[q]["shm"] \in {Nil, pte[q]["shm"]}
                        \/ status[q] = "live" /\ page'[3] # Nil /\ pte'[q]["shm"].obj = 3
  <2> TAKE q \in Procs
  <2>1. CASE q # p \/ r.kind = "copy"
    BY <1>0, <1>3, <1>4, <2>1 DEF Outcome, SharedStart
  <2>2. CASE q = p /\ r.kind = "fault"
    <3>1. pte'[p]["shm"] = [obj |-> 3, write |-> r.write]
      BY <1>3, <1>4, <2>2 DEF Outcome
    <3>2. pte'[p]["shm"].obj = 3
      BY <3>1
    <3> QED BY <1>8, <2>2, <3>2
  <2> QED BY <1>0, <2>1, <2>2
<1>11. Awaits(p)' = 0
  BY DEF Finishes, Awaits, Reading, Cleaning
<1>12. \A q \in Procs : q # p => req'[q] = req[q] /\ Awaits(q)' # 3
  BY DEF Finishes, Awaits, Reading, Cleaning
<1>13. /\ \A q \in Procs : \/ req'[q] = req[q]
                           \/ status[q] = "live" /\ Awaits(q) \in {0, 3} /\ Awaits(q)' \in {0, 3}
       /\ \A q \in Procs : Awaits(q)' # 3
  BY <1>11, <1>12
<1>14. CleanMeansSaved'
  BY <1>8 DEF CleanMeansSaved, ShmObj, Finishes
<1>15. /\ status' = status /\ UNCHANGED objects /\ disk' \in Values /\ unsaved' \in BOOLEAN
       /\ cpu' \in {"ok", "hung", "nomem"}
       /\ req' \in [Procs -> Requests \cup CleanReqs \cup {Nil, SyncReq}]
  BY TypeFacts DEF Finishes
<1> QED BY <1>5, <1>6, <1>7, <1>8, <1>9, <1>10, <1>13, <1>14, <1>15, SharedStepInv

-----------------------------------------------------------------------------
(* The memory with the page of the bottom object b allocated, if it has to be. *)
LEMMA NowFacts ==
  ASSUME IInv
  PROVE  Now \in Memories /\ Now.page = page /\ Now.refs = refs /\ Now.pte = pte
BY TypeFacts DEF Now, Memories

(* What the bottom objects' pages are filled with. *)
LEMMA FillFacts ==
  ASSUME IInv
  PROVE  /\ FillData(1) = 0 /\ FillData(2) = TextValue /\ FillData(3) = disk
         /\ \A b \in {1, 2, 3} : FillData(b) \in Values
<1>1. FillData(1) = 0 /\ FillData(2) = TextValue /\ FillData(3) = disk
  BY DEF FillData, AnonObj, TextObj, ShmObj
<1> QED BY <1>1, TypeFacts, MemoryFacts

(* An access that neither stops the CPU nor blocks. *)
LEMMA AccessFinishes ==
  ASSUME IInv, NEW p \in Procs, NEW r \in Requests, CanRun(p), MayAsk(p, r),
         NEW below, below = (Source(page, top[p][r.k]) = AreaBottom(r.k)),
         ~(below /\ page[AreaBottom(r.k)] # Nil /\ page[AreaBottom(r.k)].busy),
         ~(below /\ AreaBottom(r.k) \in FileObjs /\ page[AreaBottom(r.k)] = Nil),
         SetMemory(Finished(IF below /\ page[AreaBottom(r.k)] = Nil
                            THEN pframe_alloc(Now, AreaBottom(r.k), FillData(AreaBottom(r.k)))
                            ELSE Now, p, r)),
         UNCHANGED <<req, cpu, status, disk, unsaved>>, UNCHANGED objects
  PROVE  IInv'
<1> DEFINE k == r.k
           o == top[p][k]
           b == AreaBottom(k)
           m == IF below /\ page[b] = Nil THEN pframe_alloc(Now, b, FillData(b)) ELSE Now
           s == FirstOf(shadowed, page)[o]
<1>0. /\ k \in Areas /\ r.kind \in {"fault", "copy"} /\ r.write \in BOOLEAN
      /\ status[p] = "live" /\ req[p] = Nil /\ Shadows(shadowed) /\ Nil \notin Page
  BY NilAssumption, InvShadows DEF Requests, CanRun
<1>1. /\ o \in Obj /\ b \in Obj /\ b \in {1, 2, 3} /\ shadowed[b] = 0
      /\ k = "shm" => o = 3 /\ b = 3
      /\ k \in Private => o > 3 /\ o # b /\ b # 3
      /\ k = "heap" => b = 1
      /\ k = "text" => b = 2
  BY <1>0, AreaFacts
<1>2. below <=> s = b
  BY ChainOps
<1>3. Finishes(p)
  BY <1>0, TypeFacts DEF Finishes
<1>4. Awaits(p) = 0
  BY <1>0, RequestFacts
<1>5. Now \in Memories /\ Now.page = page /\ Now.refs = refs /\ Now.pte = pte
  BY NowFacts
<1>6. SetMemory(Finished(m, p, r))
  OBVIOUS
<1>7. CASE k = "shm"
  <2>1. s = 3 /\ below /\ b = 3 /\ 3 \in FileObjs
    BY <1>0, <1>1, <1>2, <1>7, FirstFacts DEF FileObjs, ShmObj
  <2>2. page[3] # Nil /\ ~page[3].busy /\ m = Now
    BY <2>1
  <2>3. \A q \in Procs : Awaits(q) # 3
    BY <2>2 DEF IInv, BlockedRelyOn
  <2>4. ~page[3].dirty /\ ~unsaved => disk = page[3].data
    BY <2>2 DEF IInv, CleanMeansSaved, ShmObj
  <2>5. refs[3] = refs[3] - Residence(page, 3) + Residence(page, 3)
    BY TypeFacts DEF Residence
  <2> HIDE DEF m
  <2>6. SharedStart(m)
    BY <1>5, <2>2, <2>4, <2>5 DEF SharedStart
  <2> QED BY <1>0, <1>3, <1>4, <1>6, <1>7, <2>3, <2>6, FinishShared DEF k
<1>8. CASE k \in Private
  <2>1. CASE ~(below /\ page[b] = Nil)
    <3>1. m = Now
      BY <2>1
    <3> HIDE DEF m
    <3>2. page[s] # Nil
      BY <1>0, <1>2, <1>8, <2>1, LookupFacts
    <3>3. page[b] # Nil => (k = "heap" => page[b].data = 0) /\ ~page[b].dirty
      BY <1>0, <1>8, OwnPageFacts
    <3>4. page[o] # Nil => ~page[o].busy /\ ~page[o].dirty
      BY <1>0, <1>4, <1>8, OwnPageFacts
    <3>5. \A x \in {o, b} : refs[x] = refs[x] - Residence(page, x) + Residence(page, x)
      BY <1>1, TypeFacts DEF Residence
    <3>6. PrivateStart(m, p, k, o, b)
      BY <1>4, <1>5, <3>1, <3>2, <3>3, <3>4, <3>5 DEF PrivateStart
    <3> QED BY <1>0, <1>3, <1>6, <1>8, <3>6, FinishPrivate DEF k, o, b
  <2>2. CASE below /\ page[b] = Nil
    <3>0. b = 1 /\ k = "heap"
      BY <1>1, <1>8, <2>2 DEF FileObjs, TextObj, Private
    <3>1. m = pframe_alloc(Now, b, 0)
      BY <2>2, <3>0, FillFacts
    <3> HIDE DEF m
    <3>2. /\ m \in Memories /\ m.pte = pte
          /\ m.page[b] # Nil /\ m.page[b].data = 0 /\ ~m.page[b].busy /\ ~m.page[b].dirty
          /\ m.refs[b] = refs[b] + 1
          /\ \A x \in Obj : x # b => m.page[x] = page[x] /\ m.refs[x] = refs[x]
      <4>1. 0 \in Values /\ Now \in Memories
        BY <1>5, MemoryFacts
      <4>2. /\ m \in Memories /\ m.pte = Now.pte
            /\ m.page[b] # Nil /\ m.page[b].data = 0 /\ ~m.page[b].busy /\ ~m.page[b].dirty
            /\ m.refs[b] = Now.refs[b] + 1
            /\ \A x \in Obj : x # b => m.page[x] = Now.page[x] /\ m.refs[x] = Now.refs[x]
        BY <1>1, <3>1, <4>1, AllocFacts
      <4> QED BY <1>5, <4>2
    <3>3. page[o] = Nil /\ m.page[o] = Nil
      <4>1. page[o] # Nil => s = o
        BY <1>0, <1>8, LookupFacts
      <4> QED BY <1>1, <1>2, <1>8, <2>2, <3>2, <4>1
    <3>4. m.page[FirstOf(shadowed, m.page)[o]] # Nil
      BY <1>0, <1>8, <3>2, LookupFacts
    <3>5. \A x \in {o, b} : m.refs[x] = refs[x] - Residence(page, x) + Residence(m.page, x)
      <4>1. refs[o] \in Int /\ refs[b] \in Int
        BY <1>1, TypeFacts
      <4>2. m.refs[o] = refs[o] /\ Residence(page, o) = 0 /\ Residence(m.page, o) = 0
        BY <1>1, <1>8, <3>2, <3>3 DEF Residence
      <4>3. Residence(page, b) = 0 /\ Residence(m.page, b) = 1
        BY <2>2, <3>2 DEF Residence
      <4> QED BY <3>2, <4>1, <4>2, <4>3
    <3>6. \A q \in Procs : Awaits(q) # b
      BY <3>0 DEF IInv, BlockedRelyOn, FileObjs, TextObj, ShmObj
    <3>7. PrivateStart(m, p, k, o, b)
      BY <1>4, <2>2, <3>2, <3>3, <3>4, <3>5, <3>6 DEF PrivateStart
    <3> QED BY <1>0, <1>3, <1>6, <1>8, <3>7, FinishPrivate DEF k, o, b
  <2> QED BY <2>1, <2>2
<1> QED BY <1>0, <1>7, <1>8, MemoryFacts

WithBusy(m, o, v) == [m EXCEPT !.page[o].busy = v]

(* Marking a page busy or not leaves all else as it is. *)
LEMMA BusyFacts ==
  ASSUME NEW m \in Memories, NEW o \in Obj, m.page[o] # Nil, NEW v \in BOOLEAN,
         NEW n, n = WithBusy(m, o, v)
  PROVE  /\ n \in Memories /\ n.pte = m.pte /\ n.refs = m.refs
         /\ n.page[o] \in Page /\ n.page[o] # Nil
         /\ n.page[o].data = m.page[o].data /\ n.page[o].dirty = m.page[o].dirty
         /\ n.page[o].busy = v
         /\ \A x \in Obj : x # o => n.page[x] = m.page[x]
<1> DEFINE f == [m.page[o] EXCEPT !.busy = v]
<1>0. /\ m.page \in [Obj -> Page \cup {Nil}] /\ m.refs \in [Obj -> Int]
      /\ m.pte \in [Procs -> [Areas -> PageTableEntry \cup {Nil}]]
      /\ m.page[o] \in Page
  BY DEF Memories
<1>1. f \in Page /\ f.data = m.page[o].data /\ f.dirty = m.page[o].dirty /\ f.busy = v /\ f # Nil
  <2>1. f \in Page /\ f.data = m.page[o].data /\ f.dirty = m.page[o].dirty /\ f.busy = v
    BY <1>0 DEF Page
  <2> QED BY <2>1, NilAssumption
<1>2. n = [m EXCEPT !.page = [m.page EXCEPT ![o] = f]]
  BY <1>0 DEF Memories, WithBusy
<1> HIDE DEF f
<1>3. n.page = [m.page EXCEPT ![o] = f] /\ n.refs = m.refs /\ n.pte = m.pte
      /\ n = [page |-> n.page, refs |-> n.refs, pte |-> n.pte]
  BY <1>2 DEF Memories
<1>4. n.page \in [Obj -> Page \cup {Nil}]
  BY <1>0, <1>1, <1>3
<1>5. n \in Memories
  BY <1>0, <1>3, <1>4 DEF Memories
<1>6. n.page[o] = f /\ \A x \in Obj : x # o => n.page[x] = m.page[x]
  BY <1>0, <1>3
<1> QED BY <1>1, <1>3, <1>5, <1>6

(* The memory n in which the page of the file object b, with content d, and if
   early the page of o are there, and busy. *)
Filling(n, o, b, d, early) ==
  /\ n \in Memories /\ n.pte = pte
  /\ n.page[b] # Nil /\ n.page[b].data = d /\ n.page[b].busy /\ ~n.page[b].dirty
  /\ n.refs[b] = refs[b] + 1
  /\ \A x \in Obj \ {o, b} : n.page[x] = page[x] /\ n.refs[x] = refs[x]
  /\ early => /\ n.page[o] # Nil /\ n.page[o].busy /\ ~n.page[o].dirty
              /\ n.refs[o] = refs[o] + 1
  /\ ~early /\ o # b => n.page[o] = page[o] /\ n.refs[o] = refs[o]

BusyPage(m, o, d) == WithBusy(pframe_alloc(m, o, d), o, TRUE)

(* A page that is allocated and marked busy. *)
LEMMA BusyPageFacts ==
  ASSUME NEW m \in Memories, NEW o \in Obj, NEW d \in Values
  PROVE  LET n == BusyPage(m, o, d)
         IN /\ n \in Memories /\ n.pte = m.pte
            /\ n.page[o] # Nil /\ n.page[o].data = d /\ n.page[o].busy /\ ~n.page[o].dirty
            /\ n.refs[o] = m.refs[o] + 1
            /\ \A x \in Obj : x # o => n.page[x] = m.page[x] /\ n.refs[x] = m.refs[x]
<1> DEFINE a == pframe_alloc(m, o, d)
           n == BusyPage(m, o, d)
           t == TRUE
<1>1. /\ a \in Memories /\ a.pte = m.pte
      /\ a.page[o] # Nil /\ a.page[o].data = d /\ ~a.page[o].dirty
      /\ a.refs[o] = m.refs[o] + 1
      /\ \A x \in Obj : x # o => a.page[x] = m.page[x] /\ a.refs[x] = m.refs[x]
  BY AllocFacts
<1>2. n = WithBusy(a, o, t) /\ t \in BOOLEAN
  BY DEF BusyPage
<1> HIDE DEF a, n, t
<1>3. /\ n \in Memories /\ n.pte = a.pte /\ n.refs = a.refs
      /\ n.page[o] # Nil
      /\ n.page[o].data = a.page[o].data /\ n.page[o].dirty = a.page[o].dirty
      /\ n.page[o].busy = t
      /\ \A x \in Obj : x # o => n.page[x] = a.page[x]
  BY <1>1, <1>2, BusyFacts
<1> QED BY <1>1, <1>3 DEF n, t

(* What Access leaves when it blocks is such a memory. *)
LEMMA FillingFacts ==
  ASSUME IInv, NEW o \in Obj, NEW b \in Obj, NEW d \in Values, NEW early \in BOOLEAN, early => o # b
  PROVE  Filling(IF early THEN BusyPage(BusyPage(Now, b, d), o, 0) ELSE BusyPage(Now, b, d),
                 o, b, d, early)
<1> DEFINE f == BusyPage(Now, b, d)
           h == BusyPage(f, o, 0)
<1>0. Now \in Memories /\ Now.page = page /\ Now.refs = refs /\ Now.pte = pte
  BY NowFacts
<1>1. /\ f \in Memories /\ f.pte = pte
      /\ f.page[b] # Nil /\ f.page[b].data = d /\ f.page[b].busy /\ ~f.page[b].dirty
      /\ f.refs[b] = refs[b] + 1
      /\ \A x \in Obj : x # b => f.page[x] = page[x] /\ f.refs[x] = refs[x]
  BY <1>0, BusyPageFacts
<1> HIDE DEF f
<1>2. CASE early
  <2>0. f \in Memories /\ 0 \in Values
    BY <1>1, MemoryFacts
  <2>1. /\ h \in Memories /\ h.pte = f.pte
        /\ h.page[o] # Nil /\ h.page[o].busy /\ ~h.page[o].dirty
        /\ h.refs[o] = f.refs[o] + 1
        /\ \A x \in Obj : x # o => h.page[x] = f.page[x] /\ h.refs[x] = f.refs[x]
    BY <2>0, BusyPageFacts
  <2> HIDE DEF h
  <2>2. Filling(h, o, b, d, early)
    BY <1>1, <1>2, <2>1 DEF Filling
  <2> QED BY <1>2, <2>2 DEF h, f
<1>3. CASE ~early
  <2>1. Filling(f, o, b, d, early)
    BY <1>1, <1>3 DEF Filling
  <2> QED BY <1>3, <2>1 DEF f
<1> QED BY <1>2, <1>3

(* An access that blocks until the disk has delivered the page of a file. *)
LEMMA AccessBlocks ==
  ASSUME IInv, NEW p \in Procs, NEW r \in Requests, CanRun(p),
         Source(page, top[p][r.k]) = AreaBottom(r.k),
         AreaBottom(r.k) \in FileObjs, page[AreaBottom(r.k)] = Nil,
         NEW n, NEW early \in BOOLEAN,
         early <=> (/\ r.kind = "copy" /\ page[top[p][r.k]] = Nil
                    /\ top[p][r.k] # AreaBottom(r.k)),
         Filling(n, top[p][r.k], AreaBottom(r.k), FillData(AreaBottom(r.k)), early),
         SetMemory(n), req' = [req EXCEPT ![p] = r],
         UNCHANGED <<cpu, status, disk, unsaved>>, UNCHANGED objects
  PROVE  IInv'
<1> DEFINE k == r.k
           o == top[p][k]
           b == AreaBottom(k)
<1>0. /\ k \in Areas /\ r.kind \in {"fault", "copy"} /\ r.write \in BOOLEAN
      /\ status[p] = "live" /\ req[p] = Nil /\ Shadows(shadowed) /\ Nil \notin Page
      /\ r # Nil
  BY NilAssumption, InvShadows DEF Requests, CanRun
<1>1. /\ o \in Obj /\ b \in Obj /\ b \in {2, 3} /\ shadowed[b] = 0
      /\ k = "shm" => o = 3 /\ b = 3
      /\ k \in Private => o > 3 /\ o # b /\ k = "text" /\ b = 2
  <2>1. /\ o \in Obj /\ b \in Obj /\ shadowed[b] = 0
        /\ k = "shm" => o = 3 /\ b = 3
        /\ k \in Private => o > 3 /\ o # b
        /\ k = "heap" => b = 1
        /\ k = "text" => b = 2
    BY <1>0, AreaFacts
  <2>2. b \in {2, 3}
    BY DEF FileObjs, TextObj, ShmObj
  <2>3. k \in Private => k = "heap" \/ k = "text"
    BY DEF Private
  <2> HIDE DEF k, o, b
  <2> QED BY <2>1, <2>2, <2>3
<1>2. page[b] = Nil /\ FirstOf(shadowed, page)[o] = b
  BY ChainOps
<1>3. Filling(n, o, b, FillData(b), early)
  OBVIOUS
<1>4. early <=> r.kind = "copy" /\ page[o] = Nil /\ o # b
  OBVIOUS
<1>5. /\ b = 2 => FillData(b) = TextValue
      /\ b = 3 => FillData(b) = disk
  BY FillFacts
<1>6. /\ req \in [Procs -> Requests \cup CleanReqs \cup {Nil, SyncReq}]
      /\ req' \in [Procs -> Requests \cup CleanReqs \cup {Nil, SyncReq}]
      /\ req'[p] = r /\ \A q \in Procs : q # p => req'[q] = req[q]
  BY TypeFacts
<1>7. Awaits(p) = 0 /\ Awaits(p)' = b /\ Reading(p)' /\ ~Cleaning(p)'
  <2>1. Awaits(p) = 0
    BY <1>0, RequestFacts
  <2>2. Reading(p)' /\ ~Cleaning(p)'
    BY <1>0, <1>6 DEF Reading, Cleaning
  <2>3. Awaits(p)' = AreaBottom(r.k)
    BY <1>6, <2>2 DEF Awaits, AreaBottom, AnonObj, TextObj, ShmObj
  <2> QED BY <2>1, <2>2, <2>3
<1> HIDE DEF k, o, b
<1>8. ASSUME NEW q \in Procs, q # p
      PROVE  /\ req'[q] = req[q] /\ Awaits(q)' = Awaits(q) /\ Awaits(q) # b
             /\ (Reading(q)' <=> Reading(q)) /\ (Cleaning(q)' <=> Cleaning(q))
  <2>1. req'[q] = req[q]
    BY <1>6, <1>8
  <2>2. Awaits(q) # b
    <3>1. Awaits(q) # 0 => page[Awaits(q)] # Nil
      BY DEF IInv, BlockedRelyOn
    <3> QED BY <1>1, <1>2, <3>1
  <2>3. /\ Awaits(q)' = Awaits(q)
        /\ (Reading(q)' <=> Reading(q)) /\ (Cleaning(q)' <=> Cleaning(q))
    BY <2>1 DEF Awaits, Reading, Cleaning
  <2> QED BY <2>1, <2>2, <2>3
<1>9. refs \in [Obj -> Int] /\ refs[b] \in Int /\ refs[o] \in Int
  BY <1>1, TypeFacts
<1>10. page' = n.page /\ refs' = n.refs /\ pte' = n.pte
  BY DEF SetMemory
<1>11. /\ page' \in [Obj -> Page \cup {Nil}] /\ refs' \in [Obj -> Int]
       /\ pte' \in [Procs -> [Areas -> PageTableEntry \cup {Nil}]] /\ pte' = pte
  BY <1>3, <1>10 DEF Memories, Filling
<1>12. /\ page'[b] # Nil /\ page'[b].busy /\ ~page'[b].dirty /\ page'[b].data = FillData(b)
       /\ refs'[b] = refs[b] + 1
       /\ \A x \in Obj \ {o, b} : page'[x] = page[x] /\ refs'[x] = refs[x]
  BY <1>3, <1>10 DEF Filling
<1>13. refs'[b] = refs[b] - Residence(page, b) + Residence(page', b)
  <2>1. Residence(page, b) = 0 /\ Residence(page', b) = 1
    BY <1>2, <1>12 DEF Residence
  <2> QED BY <1>9, <1>12, <2>1
<1>14. /\ status' = status /\ disk' = disk /\ unsaved' = unsaved /\ cpu' \in {"ok", "hung", "nomem"}
       /\ disk' \in Values /\ unsaved' \in BOOLEAN
       /\ \A q \in Procs, j \in Areas : pte'[q][j] = pte[q][j]
  BY <1>11, TypeFacts
<1>15. CASE k = "shm"
  <2>1. b = 3 /\ o = 3
    BY <1>1, <1>15
  <2>2. page'[3].data = disk
    BY <1>5, <1>12, <2>1
  <2>3. /\ \A q \in Procs : \/ req'[q] = req[q]
                            \/ status[q] = "live" /\ Awaits(q) \in {0, 3} /\ Awaits(q)' \in {0, 3}
        /\ \A q \in Procs : Awaits(q)' = 3 =>
             /\ page'[3] # Nil /\ page'[3].busy
             /\ \A u \in Procs : Awaits(u)' = 3 => u = q
        /\ \E q \in Procs : Awaits(q)' = 3
    BY <1>0, <1>7, <1>8, <1>12, <2>1
  <2>4. \A q \in Procs : /\ Reading(q)' /\ req'[q].k = "shm" => disk' = page'[3].data
                         /\ ~Cleaning(q)'
    <3> TAKE q \in Procs
    <3>1. CASE q = p
      BY <1>7, <1>14, <2>2, <3>1
    <3>2. CASE q # p
      <4>1. ~Cleaning(q)
        BY <1>8, <2>1, <3>2, RequestFacts DEF ShmObj
      <4> QED BY <1>8, <1>14, <2>2, <3>2, <4>1
    <3> QED BY <3>1, <3>2
  <2>5. CleanMeansSaved'
    BY <1>12, <2>1 DEF CleanMeansSaved, ShmObj
  <2>6. /\ \A q \in Procs, j \in Private : pte'[q][j] = pte[q][j]
        /\ \A q \in Procs : pte'[q]["shm"] \in {Nil, pte[q]["shm"]}
        /\ \A x \in Obj \ {3} : page'[x] = page[x] /\ refs'[x] = refs[x]
        /\ refs'[3] = refs[3] - Residence(page, 3) + Residence(page', 3)
        /\ page'[3] # Nil /\ ~page'[3].dirty
    BY <1>11, <1>12, <1>13, <2>1
  <2> QED BY <1>6, <1>11, <1>14, <2>3, <2>4, <2>5, <2>6, SharedStepInv
<1>16. CASE k \in Private
  <2>0. k = "text" /\ b = 2 /\ o > 3 /\ o # b
    BY <1>1, <1>16
  <2>1. page[o] = Nil
    BY <1>0, <1>1, <1>2, <1>16, <2>0, LookupFacts DEF o
  <2>2. pte[p][k] = Nil
    <3> SUFFICES ASSUME pte[p][k] # Nil PROVE FALSE
      OBVIOUS
    <3>1. page[FirstOf(shadowed, page)[o]] # Nil
      BY <1>16 DEF IInv, FreshData, o
    <3> QED BY <1>2, <3>1
  <2>3. early <=> r.kind = "copy"
    BY <1>4, <2>0, <2>1
  <2>4. /\ page'[o] # Nil => ~page'[o].dirty
        /\ IF r.kind = "copy" THEN page'[o] # Nil /\ page'[o].busy ELSE page'[o] = Nil
        /\ refs'[o] = refs[o] - Residence(page, o) + Residence(page', o)
    <3>1. Residence(page, o) = 0
      BY <2>1 DEF Residence
    <3>2. CASE early
      <4>1. page'[o] # Nil /\ page'[o].busy /\ ~page'[o].dirty /\ refs'[o] = refs[o] + 1
        BY <1>3, <1>10, <3>2 DEF Filling
      <4>2. Residence(page', o) = 1
        BY <4>1 DEF Residence
      <4> QED BY <1>9, <2>3, <3>1, <3>2, <4>1, <4>2
    <3>3. CASE ~early
      <4>1. page'[o] = Nil /\ refs'[o] = refs[o]
        BY <1>3, <1>10, <2>0, <2>1, <3>3 DEF Filling
      <4>2. Residence(page', o) = 0
        BY <4>1 DEF Residence
      <4> QED BY <1>9, <2>3, <3>1, <3>3, <4>1, <4>2
    <3> QED BY <3>2, <3>3
  <2>5. k # "heap"
    BY <2>0
  <2>6. /\ \A q \in Procs : q # p => req'[q] = req[q]
        /\ \A q \in Procs : q # p => Awaits(q) # b
        /\ Awaits(p) \in {0, b} /\ Awaits(p)' = b /\ b # 0
    BY <1>7, <1>8, <2>0
  <2>7. /\ pte'[p][k] = Nil
        /\ \A x \in {o, b} : refs'[x] = refs[x] - Residence(page, x) + Residence(page', x)
        /\ IF req'[p].kind = "copy" THEN page'[o] # Nil /\ page'[o].busy ELSE page'[o] = Nil
    BY <1>6, <1>11, <1>13, <2>2, <2>4
  <2>8. PrivateStep(p, k, o, b)
    BY <1>6, <1>11, <1>12, <1>14, <2>0, <2>4, <2>5, <2>6, <2>7 DEF PrivateStep
  <2> QED BY <1>0, <1>16, <2>8, PrivateStepInv DEF k, o, b
<1> QED BY <1>0, <1>15, <1>16, MemoryFacts

(* A fault or a copy, up to its end or to where it blocks. *)
LEMMA AccessInv ==
  ASSUME IInv, NEW p \in Procs, NEW r \in Requests, Access(p, r)
  PROVE  IInv'
<1> DEFINE k == r.k
           o == top[p][k]
           b == AreaBottom(k)
           below == Source(page, o) = b
           blocks == below /\ b \in FileObjs /\ page[b] = Nil
           own == (r.kind = "copy" \/ r.write) /\ page[o] = Nil /\ o # b
           early == own /\ r.kind = "copy"
           bottom == IF below /\ page[b] = Nil THEN pframe_alloc(Now, b, FillData(b)) ELSE Now
           filling == WithBusy(bottom, b, TRUE)
           held == IF early THEN WithBusy(pframe_alloc(filling, o, 0), o, TRUE) ELSE filling
<1>0. CanRun(p) /\ status[p] = "live" /\ k \in Areas
  BY DEF Access, CanRun, Requests
<1>1. o \in Obj /\ b \in Obj /\ b \in {1, 2, 3} /\ Bottom(o) = b
  BY <1>0, AreaFacts
<1>2. /\ MayAsk(p, r) /\ UNCHANGED <<status, disk, unsaved>> /\ UNCHANGED objects
      /\ \/ Stop("hung")
         \/ Stop("nomem")
         \/ /\ ~(below /\ page[b] # Nil /\ page[b].busy)
            /\ blocks /\ SetMemory(held) /\ req' = [req EXCEPT ![p] = r] /\ UNCHANGED cpu
         \/ /\ ~(below /\ page[b] # Nil /\ page[b].busy)
            /\ ~blocks /\ SetMemory(Finished(bottom, p, r)) /\ UNCHANGED <<req, cpu>>
  BY <1>1 DEF Access, WithBusy
<1>3. CASE Stop("hung") \/ Stop("nomem")
  <2>1. UNCHANGED <<page, refs, pte, req>> /\ cpu' \in {"ok", "hung", "nomem"}
    BY <1>3 DEF Stop
  <2> QED BY <1>2, <2>1, StopInv
<1>4. CASE blocks /\ SetMemory(held) /\ req' = [req EXCEPT ![p] = r] /\ UNCHANGED cpu
  <2>1. held = IF early THEN BusyPage(BusyPage(Now, b, FillData(b)), o, 0)
               ELSE BusyPage(Now, b, FillData(b))
    BY <1>4 DEF BusyPage
  <2>2. FillData(b) \in Values
    BY <1>1, FillFacts
  <2>3. early \in BOOLEAN /\ (early => o # b)
    OBVIOUS
  <2>4. early <=> r.kind = "copy" /\ page[o] = Nil /\ o # b
    OBVIOUS
  <2>5. SetMemory(held) /\ blocks
    BY <1>4
  <2> DEFINE e == early
             h == held
  <2>6. h = IF e THEN BusyPage(BusyPage(Now, b, FillData(b)), o, 0)
               ELSE BusyPage(Now, b, FillData(b))
    BY <2>1
  <2>7. e \in BOOLEAN /\ (e => o # b) /\ (e <=> r.kind = "copy" /\ page[o] = Nil /\ o # b)
    BY <2>3, <2>4
  <2>8. SetMemory(h) /\ Source(page, o) = b /\ b \in FileObjs /\ page[b] = Nil
    BY <2>5
  <2> HIDE DEF e, h
  <2>9. Filling(h, o, b, FillData(b), e)
    BY <1>1, <2>2, <2>6, <2>7, FillingFacts
  <2> QED BY <1>0, <1>2, <1>4, <2>7, <2>8, <2>9, AccessBlocks
<1>5. CASE /\ ~(below /\ page[b] # Nil /\ page[b].busy)
           /\ ~blocks /\ SetMemory(Finished(bottom, p, r)) /\ UNCHANGED <<req, cpu>>
  BY <1>0, <1>2, <1>5, AccessFinishes
<1> QED BY <1>2, <1>3, <1>4, <1>5

Refilled(m, o, v, d) == [m EXCEPT !.page[o].busy = v, !.page[o].data = d]

(* The end of a read leaves data of whatever value in the page. *)
LEMMA ReadFacts ==
  ASSUME NEW m \in Memories, NEW o \in Obj, m.page[o] \in Page, NEW d \in Values, NEW v \in BOOLEAN
  PROVE  LET n == Refilled(m, o, v, d)
         IN /\ n \in Memories /\ n.pte = m.pte /\ n.refs = m.refs
            /\ n.page[o] \in Page /\ n.page[o] # Nil
            /\ n.page[o].data = d /\ n.page[o].dirty = m.page[o].dirty
            /\ n.page[o].busy = v
            /\ \A x \in Obj : x # o => n.page[x] = m.page[x]
<1> DEFINE n == Refilled(m, o, v, d)
           f == [m.page[o] EXCEPT !.busy = v, !.data = d]
<1>1. f \in Page /\ f.data = d /\ f.dirty = m.page[o].dirty /\ f.busy = v /\ f # Nil
  <2>1. f \in Page /\ f.data = d /\ f.dirty = m.page[o].dirty /\ f.busy = v
    BY DEF Page
  <2> QED BY <2>1, NilAssumption
<1>2. /\ m.page \in [Obj -> Page \cup {Nil}] /\ m.refs \in [Obj -> Int]
      /\ m.pte \in [Procs -> [Areas -> PageTableEntry \cup {Nil}]]
  BY DEF Memories
<1>3. n = [m EXCEPT !.page = [m.page EXCEPT ![o] = f]]
  BY <1>2 DEF Memories, Refilled
<1> HIDE DEF n, f
<1>4. /\ n.page = [m.page EXCEPT ![o] = f] /\ n.refs = m.refs /\ n.pte = m.pte
      /\ n = [page |-> n.page, refs |-> n.refs, pte |-> n.pte]
  BY <1>3 DEF Memories
<1>5. n.page \in [Obj -> Page \cup {Nil}]
  BY <1>1, <1>2, <1>4
<1>6. n \in Memories
  BY <1>2, <1>4, <1>5 DEF Memories
<1> QED BY <1>1, <1>2, <1>4, <1>6 DEF n

(* The disk has answered process p, which waits for the page of a file. *)
LEMMA FillDoneInv ==
  ASSUME IInv, NEW p \in Procs, FillDone(p)
  PROVE  IInv'
<1> DEFINE r == req[p]
           k == r.k
           o == top[p][k]
           b == AreaBottom(k)
           read(d) == [Now EXCEPT !.page[b].busy = FALSE, !.page[b].data = d]
           start(n) == IF r.kind = "copy" /\ o # b
                       THEN [n EXCEPT !.page[o] = Nil, !.refs[o] = @ - 1] ELSE n
<1>0. Reading(p)
  BY DEF FillDone, Reading
<1>1. /\ r \in Requests /\ k \in Areas /\ Awaits(p) = b /\ k \in {"text", "shm"}
      /\ status[p] = "live" /\ b # 0
  BY <1>0, RequestFacts
<1>2. /\ o \in Obj /\ b \in Obj /\ Bottom(o) = b /\ shadowed[b] = 0
      /\ k = "shm" => o = 3 /\ b = 3
      /\ k = "text" => b = 2 /\ o > 3 /\ o # b
  <2>1. "text" \in Private
    BY DEF Private
  <2> QED BY <1>1, <2>1, AreaFacts
<1>3. /\ UNCHANGED <<status, disk>> /\ UNCHANGED objects
      /\ \/ cpu' = "nomem" /\ UNCHANGED <<page, refs, pte, req, unsaved>>
         \/ \E d \in Values :
              /\ SetMemory(Finished(start(read(d)), p, r))
              /\ unsaved' = (unsaved \/ (b = ShmObj /\ d # page[b].data))
              /\ req' = [req EXCEPT ![p] = Nil] /\ UNCHANGED cpu
  BY <1>2 DEF FillDone
<1>4. CASE cpu' = "nomem" /\ UNCHANGED <<page, refs, pte, req, unsaved>>
  BY <1>3, <1>4, StopInv
<1>5. ASSUME NEW d \in Values, SetMemory(Finished(start(read(d)), p, r)),
             unsaved' = (unsaved \/ (b = ShmObj /\ d # page[b].data)),
             req' = [req EXCEPT ![p] = Nil], UNCHANGED cpu
      PROVE  IInv'
  <2>0. unsaved \in BOOLEAN /\ unsaved' \in BOOLEAN
    BY <1>5, TypeFacts
  <2>1. /\ req' \in [Procs -> Requests \cup CleanReqs \cup {Nil, SyncReq}]
        /\ req'[p] = Nil /\ (\A q \in Procs : q # p => req'[q] = req[q])
        /\ cpu' \in {"ok", "hung", "nomem"}
    BY <1>5, TypeFacts
  <2>2. Finishes(p)
    BY <1>3, <2>0, <2>1 DEF Finishes
  <2>3. /\ page[b] # Nil /\ page[b].busy
        /\ \A q \in Procs : q # p => Awaits(q) # b
        /\ b = 2 => /\ pte[p]["text"] = Nil
                    /\ IF r.kind = "copy" THEN page[top[p]["text"]] # Nil
                       ELSE page[top[p]["text"]] = Nil
    BY <1>1 DEF IInv, BlockedRelyOn, TextObj
  <2>4. Now \in Memories /\ Now.page = page /\ Now.refs = refs /\ Now.pte = pte
    BY NowFacts
  <2> DEFINE f == FALSE
             filled == read(d)
             m == start(filled)
  <2>5. filled = Refilled(Now, b, f, d) /\ f \in BOOLEAN
    BY DEF Refilled
  <2>6. m = start(filled) /\ SetMemory(Finished(m, p, r))
    BY <1>5
  <2> HIDE DEF f, m, filled
  <2>7. /\ filled \in Memories /\ filled.pte = pte /\ filled.refs = refs
        /\ filled.page[b] \in Page /\ filled.page[b] # Nil
        /\ filled.page[b].data = d /\ filled.page[b].dirty = page[b].dirty
        /\ filled.page[b].busy = f
        /\ \A x \in Obj : x # b => filled.page[x] = page[x]
    <3>1. Now.page[b] \in Page
      BY <1>2, <2>3, <2>4, TypeFacts
    <3> QED BY <1>2, <2>4, <2>5, <3>1, ReadFacts
  <2>8. ~filled.page[b].busy
    BY <2>7 DEF f
  <2>9. refs[b] \in Int /\ refs[o] \in Int
    BY <1>2, TypeFacts
  <2>10. CASE k = "shm"
    <3>1. o = 3 /\ b = 3 /\ m = filled
      BY <1>2, <2>6, <2>10
    <3>2. ~page[3].dirty /\ (~unsaved' => disk = d)
      BY <1>0, <1>5, <2>3, <2>10, <3>1 DEF IInv, SharedPageSaved, ShmObj
    <3>3. m.refs[3] = refs[3] - Residence(page, 3) + Residence(m.page, 3)
      BY <2>3, <2>7, <2>9, <3>1 DEF Residence
    <3>4. SharedStart(m)
      BY <2>7, <2>8, <3>1, <3>2, <3>3 DEF SharedStart
    <3> QED BY <1>1, <2>2, <2>3, <2>6, <2>10, <3>1, <3>4, FinishShared
  <2>11. CASE k = "text"
    <3>0. k \in Private /\ b = 2 /\ o > 3 /\ o # b /\ pte[p][k] = Nil
      BY <1>2, <2>3, <2>11 DEF Private
    <3>1. k # "heap" /\ ~page[b].dirty /\ unsaved' = unsaved
      <4>1. ~page[b].dirty
        BY <1>1, <2>3, <3>0, OwnPageFacts
      <4> QED BY <1>5, <2>0, <2>11, <3>0, <4>1 DEF ShmObj
    <3>2. filled.refs[b] = refs[b] - Residence(page, b) + Residence(filled.page, b)
      BY <2>3, <2>7, <2>9 DEF Residence
    <3>3. /\ m \in Memories /\ m.pte = pte /\ m.page[o] = Nil
          /\ m.page[b] = filled.page[b] /\ m.refs[b] = filled.refs[b]
          /\ \A x \in Obj \ {o, b} : m.page[x] = page[x] /\ m.refs[x] = refs[x]
          /\ m.refs[o] = refs[o] - Residence(page, o) + Residence(m.page, o)
      <4>1. CASE r.kind = "copy"
        <5>1. m = [filled EXCEPT !.page[o] = Nil, !.refs[o] = @ - 1]
          BY <2>6, <3>0, <4>1
        <5>2. /\ filled.page \in [Obj -> Page \cup {Nil}] /\ filled.refs \in [Obj -> Int]
              /\ filled.pte \in [Procs -> [Areas -> PageTableEntry \cup {Nil}]]
          BY <2>7 DEF Memories
        <5>3. /\ m.page = [filled.page EXCEPT ![o] = Nil]
              /\ m.refs = [filled.refs EXCEPT ![o] = filled.refs[o] - 1]
              /\ m.pte = filled.pte
              /\ m = [page |-> m.page, refs |-> m.refs, pte |-> m.pte]
          BY <2>7, <5>1 DEF Memories
        <5>4. m.page \in [Obj -> Page \cup {Nil}] /\ m.refs \in [Obj -> Int]
          BY SMTT(60), <1>2, <5>2, <5>3
        <5>5. m \in Memories
          BY <5>2, <5>3, <5>4 DEF Memories
        <5>6. /\ m.page[o] = Nil /\ m.refs[o] = refs[o] - 1
              /\ \A x \in Obj : x # o => m.page[x] = filled.page[x] /\ m.refs[x] = filled.refs[x]
          BY <1>2, <2>7, <5>2, <5>3
        <5>7. Residence(page, o) = 1 /\ Residence(m.page, o) = 0
          BY <2>3, <2>11, <3>0, <4>1, <5>6 DEF Residence
        <5> QED BY SMTT(60), <1>2, <2>7, <2>9, <3>0, <5>3, <5>5, <5>6, <5>7
      <4>2. CASE r.kind # "copy"
        <5>1. m = filled
          BY <2>6, <4>2
        <5>2. page[o] = Nil
          BY <2>3, <2>11, <3>0, <4>2
        <5>3. Residence(page, o) = 0 /\ Residence(m.page, o) = 0
          BY <1>2, <2>7, <3>0, <5>1, <5>2 DEF Residence
        <5> QED BY <1>2, <2>7, <2>9, <3>0, <5>1, <5>2, <5>3
      <4> QED BY <4>1, <4>2
    <3>4. m.page[FirstOf(shadowed, m.page)[o]] # Nil
      BY SMTT(60), <1>1, <2>7, <3>0, <3>3, LookupFacts
    <3>5. m.refs[b] = refs[b] - Residence(page, b) + Residence(m.page, b)
      BY <2>7, <3>2, <3>3 DEF Residence
    <3>6. PrivateStart(m, p, k, o, b)
      BY <1>1, <2>3, <2>7, <2>8, <3>1, <3>3, <3>4, <3>5 DEF PrivateStart
    <3> QED BY <1>1, <2>2, <2>6, <3>0, <3>1, <3>6, FinishPrivate
  <2> QED BY <1>1, <2>10, <2>11
<1> QED BY <1>3, <1>4, <1>5

(***************************************************************************)
(* fork.  The four objects from n on are new; ho and to, the objects of    *)
(* the parent's private areas so far, are shadowed from now on.            *)
(***************************************************************************)
Forked(p, c, n, ho, to) ==
  /\ p # c /\ status[p] = "live" /\ status[c] = "unused" /\ req[p] = Nil
  /\ n = nextObj /\ n \in Nat /\ n >= 6 /\ n + 3 <= MaxObj
  /\ {n, n + 1, n + 2, n + 3} \subseteq Obj
  /\ ho = top[p]["heap"] /\ ho \in Obj /\ ho > 3 /\ ho < n
  /\ to = top[p]["text"] /\ to \in Obj /\ to > 3 /\ to < n /\ ho # to
  /\ \A x \in Obj : shadowed[x] # ho /\ shadowed[x] # to
  /\ status' = [status EXCEPT ![c] = "live"]
  /\ top' \in [Procs -> [Areas -> Obj]]
  /\ top'[p]["heap"] = n /\ top'[p]["text"] = n + 2 /\ top'[p]["shm"] = 3
  /\ top'[c]["heap"] = n + 1 /\ top'[c]["text"] = n + 3 /\ top'[c]["shm"] = 3
  /\ \A q \in Procs : q \notin {p, c} => top'[q] = top[q]
  /\ shadowed' \in [Obj -> 0 .. MaxObj]
  /\ shadowed'[n] = ho /\ shadowed'[n + 1] = ho /\ shadowed'[n + 2] = to /\ shadowed'[n + 3] = to
  /\ \A x \in Obj : (x < n \/ x > n + 3) => shadowed'[x] = shadowed[x]
  /\ refs' \in [Obj -> Nat]
  /\ \A x \in {n, n + 1, n + 2, n + 3} : refs'[x] = 1
  /\ \A x \in {ho, to, 3} : refs'[x] = refs[x] + 1
  /\ \A x \in Obj : x \notin {n, n + 1, n + 2, n + 3, ho, to, 3} => refs'[x] = refs[x]
  /\ nextObj' = n + 4
  /\ pte' \in [Procs -> [Areas -> PageTableEntry \cup {Nil}]]
  /\ \A k \in Private : pte'[p][k] = Nil
  /\ pte'[p]["shm"] = pte[p]["shm"]
  /\ \A q \in Procs : q # p => pte'[q] = pte[q]
  /\ UNCHANGED <<page, req, disk, unsaved, cpu, footprint>>

(* do_fork does that. *)
LEMMA ForkFacts ==
  ASSUME IInv, NEW p \in Procs, NEW c \in Procs, do_fork(p, c)
  PROVE  Forked(p, c, nextObj, top[p]["heap"], top[p]["text"])
<1> DEFINE n == nextObj
           ho == top[p]["heap"]
           to == top[p]["text"]
<1>0. /\ status[p] = "live" /\ status[c] = "unused" /\ req[p] = Nil /\ p # c
      /\ status' = [status EXCEPT ![c] = "live"] /\ n + 3 <= MaxObj /\ nextObj' = n + 4
      /\ UNCHANGED <<page, req, disk, unsaved, cpu, footprint>>
  BY DEF do_fork, CanRun
<1>1. /\ n \in Nat /\ n >= 6 /\ MaxObj \in Nat
      /\ top \in [Procs -> [Areas -> Obj]] /\ shadowed \in [Obj -> 0 .. MaxObj]
      /\ refs \in [Obj -> Nat] /\ pte \in [Procs -> [Areas -> PageTableEntry \cup {Nil}]]
  BY MemoryFacts DEF IInv, MemoryTypeOK
<1>2. {n, n + 1, n + 2, n + 3} \subseteq Obj /\ 3 \in Obj
  BY <1>0, <1>1, MemoryFacts DEF Obj
<1>3. /\ "heap" \in Private /\ "text" \in Private /\ "heap" \in Areas /\ "text" \in Areas
      /\ "shm" \in Areas /\ "shm" \notin Private
      /\ \A k \in Private : k = "heap" \/ k = "text"
      /\ \A k \in Areas : k = "heap" \/ k = "text" \/ k = "shm"
  BY DEF Private, Areas
<1>4. /\ ho \in Obj /\ ho > 3 /\ ho < n /\ \A x \in Obj : shadowed[x] # ho
      /\ to \in Obj /\ to > 3 /\ to < n /\ \A x \in Obj : shadowed[x] # to
      /\ top[p]["shm"] = 3
  BY <1>0, <1>3, AreaFacts
<1>5. ho # to
  BY <1>0, <1>3, AreasApart
<1> DEFINE shp(k) == IF k = "heap" THEN n ELSE n + 2
           tp == [k \in Areas |-> IF k \in Private THEN shp(k) ELSE top[p][k]]
           tc == [k \in Areas |-> IF k \in Private THEN shp(k) + 1 ELSE top[p][k]]
<1>6. top' = [top EXCEPT ![p] = tp, ![c] = tc]
  BY DEF do_fork
<1>7. /\ tp \in [Areas -> Obj] /\ tc \in [Areas -> Obj]
      /\ tp["heap"] = n /\ tp["text"] = n + 2 /\ tp["shm"] = 3
      /\ tc["heap"] = n + 1 /\ tc["text"] = n + 3 /\ tc["shm"] = 3
  <2>1. \A k \in Areas : tp[k] \in Obj /\ tc[k] \in Obj
    BY <1>1, <1>2
  <2>2. (n + 2) + 1 = n + 3
    BY <1>1
  <2> QED BY <1>3, <1>4, <2>1, <2>2
<1> HIDE DEF tp, tc
<1>8. /\ top' \in [Procs -> [Areas -> Obj]] /\ top'[p] = tp /\ top'[c] = tc
      /\ \A q \in Procs : q \notin {p, c} => top'[q] = top[q]
  BY <1>0, <1>1, <1>6, <1>7
<1>9. shadowed' = [o \in Obj |-> IF o \in {n, n + 1} THEN ho
                                 ELSE IF o \in {n + 2, n + 3} THEN to ELSE shadowed[o]]
  <2>1. (n + 2) + 1 = n + 3
    BY <1>1
  <2> QED BY <2>1 DEF do_fork
<1>10. /\ shadowed' \in [Obj -> 0 .. MaxObj]
       /\ shadowed'[n] = ho /\ shadowed'[n + 1] = ho /\ shadowed'[n + 2] = to /\ shadowed'[n + 3] = to
       /\ \A x \in Obj : (x < n \/ x > n + 3) => shadowed'[x] = shadowed[x]
  <2>1. ho \in 0 .. MaxObj /\ to \in 0 .. MaxObj
    BY <1>1, <1>4, MemoryFacts
  <2>2. shadowed' \in [Obj -> 0 .. MaxObj]
    BY <1>1, <1>9, <2>1
  <2>3. n + 2 \notin {n, n + 1} /\ n + 3 \notin {n, n + 1}
    BY <1>1
  <2>4. shadowed'[n] = ho /\ shadowed'[n + 1] = ho /\ shadowed'[n + 2] = to /\ shadowed'[n + 3] = to
    BY <1>2, <1>9, <2>3
  <2>5. \A x \in Obj : (x < n \/ x > n + 3) => x \notin {n, n + 1, n + 2, n + 3}
    BY <1>1, MemoryFacts
  <2>6. \A x \in Obj : (x < n \/ x > n + 3) => shadowed'[x] = shadowed[x]
    BY <1>9, <2>5
  <2> QED BY <2>2, <2>4, <2>6
<1>11. refs' = [o \in Obj |-> IF o \in {n, n + 1, n + 2, n + 3} THEN 1
                              ELSE IF o \in {ho, to, 3} THEN refs[o] + 1 ELSE refs[o]]
  <2>1. (n + 2) + 1 = n + 3
    BY <1>1
  <2>2. refs' = [o \in Obj |-> IF o \in {n, n + 1} \cup {n + 2, n + 3} THEN 1
                              ELSE IF \E k \in Areas : o = top[p][k] THEN refs[o] + 1 ELSE refs[o]]
    BY <2>1 DEF do_fork
  <2>3. \A o \in Obj : (\E k \in Areas : o = top[p][k]) <=> o \in {ho, to, 3}
    BY <1>3, <1>4
  <2> QED BY <2>2, <2>3
<1>12. /\ refs' \in [Obj -> Nat]
       /\ \A x \in {n, n + 1, n + 2, n + 3} : refs'[x] = 1
       /\ \A x \in {ho, to, 3} : refs'[x] = refs[x] + 1
       /\ \A x \in Obj : x \notin {n, n + 1, n + 2, n + 3, ho, to, 3} => refs'[x] = refs[x]
  <2>1. \A x \in {ho, to, 3} : x \in Obj /\ x \notin {n, n + 1, n + 2, n + 3}
    BY <1>1, <1>2, <1>4, MemoryFacts
  <2>2. refs' \in [Obj -> Nat]
    BY <1>1, <1>11
  <2> QED BY <1>2, <1>11, <2>1, <2>2
<1> DEFINE up == [k \in Areas |-> IF k \in Private THEN Nil ELSE pte[p][k]]
<1>13. pte' = [pte EXCEPT ![p] = up]
  BY DEF do_fork, UnmapPrivate
<1>14. /\ up \in [Areas -> PageTableEntry \cup {Nil}]
       /\ \A k \in Private : up[k] = Nil
       /\ up["shm"] = pte[p]["shm"]
  <2>1. \A k \in Areas : up[k] \in PageTableEntry \cup {Nil}
    BY <1>1
  <2>2. Private \subseteq Areas
    BY MemoryFacts
  <2> QED BY <1>3, <2>1, <2>2
<1> HIDE DEF up
<1>15. /\ pte' \in [Procs -> [Areas -> PageTableEntry \cup {Nil}]]
       /\ \A k \in Private : pte'[p][k] = Nil
       /\ pte'[p]["shm"] = pte[p]["shm"]
       /\ \A q \in Procs : q # p => pte'[q] = pte[q]
  BY <1>1, <1>13, <1>14
<1> QED BY <1>0, <1>1, <1>2, <1>4, <1>5, <1>7, <1>8, <1>10, <1>12, <1>15 DEF Forked

(* Processes and shadowed objects after a fork. *)
LEMMA ForkOthers ==
  ASSUME IInv, NEW p \in Procs, NEW c \in Procs, NEW n, NEW ho, NEW to, Forked(p, c, n, ho, to)
  PROVE  /\ \A q \in Procs : q # c => status'[q] = status[q]
         /\ status'[c] = "live" /\ status' \in [Procs -> {"unused", "live", "dead"}]
         /\ \A x \in Obj : x < n => shadowed'[x] = shadowed[x]
         /\ \A x \in Obj : x > n + 3 => shadowed'[x] = 0 /\ shadowed[x] = 0
         /\ \A x \in Obj : x >= n => shadowed[x] = 0
         /\ \A x \in Obj : x < n \/ x = n \/ x = n + 1 \/ x = n + 2 \/ x = n + 3 \/ x > n + 3
         /\ \A q \in Procs, k \in Areas : status[q] # "unused" => top[q][k] \in Obj /\ top[q][k] < n
         /\ \A q \in Procs, k \in Private :
              status[q] # "unused" /\ q # p => top[q][k] # ho /\ top[q][k] # to
<1> USE DEF Forked
<1>1. status \in [Procs -> {"unused", "live", "dead"}]
  BY DEF IInv, MemoryTypeOK
<1>2. /\ \A q \in Procs : q # c => status'[q] = status[q]
      /\ status'[c] = "live" /\ status' \in [Procs -> {"unused", "live", "dead"}]
  BY <1>1
<1>3. \A x \in Obj : x >= n => shadowed[x] = 0
  BY DEF IInv, ShadowsOlder
<1>4. \A x \in Obj : x > n + 3 => shadowed'[x] = 0 /\ shadowed[x] = 0
  <2>1. \A x \in Obj : x > n + 3 => x >= n
    BY MemoryFacts
  <2> QED BY <1>3, <2>1
<1>5. \A x \in Obj : x < n \/ x = n \/ x = n + 1 \/ x = n + 2 \/ x = n + 3 \/ x > n + 3
  <2>1. n \in Nat /\ \A x \in Obj : x \in Nat
    BY MemoryFacts
  <2> HIDE DEF Forked
  <2> QED BY <2>1
<1>6. \A q \in Procs, k \in Areas : status[q] # "unused" => top[q][k] \in Obj /\ top[q][k] < n
  BY AreaFacts
<1>7. \A q \in Procs, k \in Private :
        status[q] # "unused" /\ q # p => top[q][k] # ho /\ top[q][k] # to
  <2>1. "heap" \in Private /\ "text" \in Private
    BY DEF Private
  <2>2. ho = top[p]["heap"] /\ to = top[p]["text"] /\ status[p] # "unused"
    OBVIOUS
  <2> HIDE DEF Forked
  <2> SUFFICES ASSUME NEW q \in Procs, NEW k \in Private, status[q] # "unused", q # p
               PROVE  top[q][k] # ho /\ top[q][k] # to
    OBVIOUS
  <2>3. k \in Areas
    BY MemoryFacts
  <2>4. top[q][k] # ho
    BY <2>1, <2>2, <2>3, AreasApart
  <2>5. top[q][k] # to
    BY <2>1, <2>2, <2>3, AreasApart
  <2> QED BY <2>4, <2>5
<1> QED BY <1>2, <1>3, <1>4, <1>5, <1>6, <1>7

(* Chains after a fork: the new objects' go on with the old ones'. *)
LEMMA ForkChains ==
  ASSUME IInv, NEW p \in Procs, NEW c \in Procs, NEW n, NEW ho, NEW to, Forked(p, c, n, ho, to)
  PROVE  /\ Shadows(shadowed')
         /\ \A x \in Obj : x < n =>
              /\ LastOf(shadowed', x) = LastOf(shadowed, x)
              /\ FirstOf(shadowed', page)[x] = FirstOf(shadowed, page)[x]
         /\ LastOf(shadowed', n) = 1 /\ LastOf(shadowed', n + 1) = 1
         /\ LastOf(shadowed', n + 2) = 2 /\ LastOf(shadowed', n + 3) = 2
<1>0. /\ n \in Nat /\ n >= 6 /\ {n, n + 1, n + 2, n + 3} \subseteq Obj
      /\ ho = top[p]["heap"] /\ ho \in Obj /\ ho > 3 /\ ho < n
      /\ to = top[p]["text"] /\ to \in Obj /\ to > 3 /\ to < n
      /\ shadowed' \in [Obj -> 0 .. MaxObj] /\ status[p] = "live"
      /\ shadowed'[n] = ho /\ shadowed'[n + 1] = ho /\ shadowed'[n + 2] = to /\ shadowed'[n + 3] = to
  BY DEF Forked
<1>1. /\ \A x \in Obj : x < n => shadowed'[x] = shadowed[x]
      /\ \A x \in Obj : x > n + 3 => shadowed'[x] = 0
      /\ \A x \in Obj : x < n \/ x = n \/ x = n + 1 \/ x = n + 2 \/ x = n + 3 \/ x > n + 3
  BY ForkOthers
<1>2. Shadows(shadowed)
  BY InvShadows
<1>3. Shadows(shadowed')
  <2>1. ASSUME NEW x \in Obj PROVE shadowed'[x] < x
    <3>0. x \in Nat /\ x >= 1 /\ shadowed[x] < x
      BY <1>2, MemoryFacts DEF Shadows
    <3>1. CASE x < n
      BY <1>1, <3>0, <3>1
    <3>2. CASE x > n + 3
      BY <1>1, <3>0, <3>2
    <3>3. CASE x \in {n, n + 1, n + 2, n + 3}
      <4>1. shadowed'[x] \in Nat /\ shadowed'[x] < n /\ x >= n
        BY <1>0, <3>3, MemoryFacts
      <4> QED BY <1>0, <3>0, <4>1
    <3> QED BY <1>1, <3>1, <3>2, <3>3
  <2> QED BY <1>0, <2>1 DEF Shadows
<1>4. \A x \in Obj : x < n =>
        /\ LastOf(shadowed', x) = LastOf(shadowed, x)
        /\ FirstOf(shadowed', page)[x] = FirstOf(shadowed, page)[x]
  BY <1>0, <1>1, <1>2, <1>3, ChainsStay
<1>5. LastOf(shadowed, ho) = 1 /\ LastOf(shadowed, to) = 2
  <2>1. /\ "heap" \in Private /\ "text" \in Private
        /\ AreaBottom("heap") = 1 /\ AreaBottom("text") = 2
    BY DEF Private, AreaBottom, AnonObj, TextObj
  <2> QED BY <1>0, <2>1 DEF IInv, TopsOK
<1>6. LastOf(shadowed', ho) = 1 /\ LastOf(shadowed', to) = 2 /\ ho # 0 /\ to # 0
  BY <1>0, <1>4, <1>5
<1>7. \A x \in {n, n + 1, n + 2, n + 3} : LastOf(shadowed', x) = LastOf(shadowed', shadowed'[x])
  <2>1. \A x \in {n, n + 1, n + 2, n + 3} : x \in Obj /\ shadowed'[x] # 0
    BY <1>0, <1>6
  <2> QED BY <1>3, <2>1, LastFacts
<1> QED BY <1>0, <1>3, <1>4, <1>6, <1>7

(* Tops after a fork. *)
LEMMA ForkTops ==
  ASSUME IInv, NEW p \in Procs, NEW c \in Procs, NEW n, NEW ho, NEW to, Forked(p, c, n, ho, to)
  PROVE  TopsOK' /\ ShadowsOlder'
<1>0. /\ n = nextObj /\ nextObj' = n + 4 /\ p # c /\ page' = page
      /\ status[p] = "live" /\ status[c] = "unused"
      /\ n \in Nat /\ n >= 6 /\ {n, n + 1, n + 2, n + 3} \subseteq Obj
      /\ ho \in Obj /\ ho > 3 /\ ho < n
      /\ to \in Obj /\ to > 3 /\ to < n
      /\ shadowed' \in [Obj -> 0 .. MaxObj]
      /\ shadowed'[n] = ho /\ shadowed'[n + 1] = ho /\ shadowed'[n + 2] = to /\ shadowed'[n + 3] = to
      /\ top'[p]["heap"] = n /\ top'[p]["text"] = n + 2 /\ top'[p]["shm"] = 3
      /\ top'[c]["heap"] = n + 1 /\ top'[c]["text"] = n + 3 /\ top'[c]["shm"] = 3
      /\ \A q \in Procs : q \notin {p, c} => top'[q] = top[q]
  BY DEF Forked
<1>1. /\ \A q \in Procs : q # c => status'[q] = status[q]
      /\ status'[c] = "live"
      /\ \A x \in Obj : x < n => shadowed'[x] = shadowed[x]
      /\ \A x \in Obj : x > n + 3 => shadowed'[x] = 0
      /\ \A x \in Obj : x < n \/ x = n \/ x = n + 1 \/ x = n + 2 \/ x = n + 3 \/ x > n + 3
      /\ \A q \in Procs, k \in Private :
           status[q] # "unused" /\ q # p => top[q][k] # ho /\ top[q][k] # to
  BY ForkOthers
<1>2. /\ Shadows(shadowed') /\ Shadows(shadowed)
      /\ \A x \in Obj : x < n => LastOf(shadowed', x) = LastOf(shadowed, x)
      /\ LastOf(shadowed', n) = 1 /\ LastOf(shadowed', n + 1) = 1
      /\ LastOf(shadowed', n + 2) = 2 /\ LastOf(shadowed', n + 3) = 2
  BY ForkChains, InvShadows
<1>3. \A x \in Obj : x \in Nat /\ shadowed'[x] \in Nat
  BY <1>0, MemoryFacts
<1>4. /\ \A k \in Private : k = "heap" \/ k = "text"
      /\ AreaBottom("heap") = 1 /\ AreaBottom("text") = 2 /\ "heap" \in Private /\ "text" \in Private
      /\ "heap" # "text"
  BY DEF Private, AreaBottom, AnonObj, TextObj
<1>5. ShadowsOlder'
  <2> SUFFICES ASSUME NEW x \in Obj
               PROVE  /\ shadowed'[x] < x /\ shadowed'[x] # 3
                      /\ shadowed'[x] = 0 <=> (x <= 3 \/ x >= n + 4)
                      /\ x >= n + 4 => page[x] = Nil
    BY <1>0 DEF ShadowsOlder, ShmObj
  <2>1. /\ shadowed[x] # 3
        /\ shadowed[x] = 0 <=> (x <= 3 \/ x >= n)
        /\ x >= n => page[x] = Nil
    BY <1>0 DEF IInv, ShadowsOlder, ShmObj
  <2>2. shadowed'[x] < x
    BY <1>2 DEF Shadows
  <2>3. x >= n + 4 => page[x] = Nil
    BY <1>0, <1>3, <2>1
  <2>4. CASE x < n
    <3>1. ~(x >= n + 4) /\ ~(x >= n)
      BY <1>0, <1>3, <2>4
    <3> QED BY <1>1, <2>1, <2>2, <2>3, <2>4, <3>1
  <2>5. CASE x > n + 3
    <3>1. x >= n + 4
      BY <1>0, <1>3, <2>5
    <3> QED BY <1>1, <2>2, <2>3, <2>5, <3>1
  <2>6. CASE x \in {n, n + 1, n + 2, n + 3}
    <3>1. ~(x >= n + 4) /\ ~(x <= 3)
      BY <1>0, <1>3, <2>6
    <3>2. shadowed'[x] # 0 /\ shadowed'[x] # 3
      BY <1>0, <2>6
    <3> QED BY <2>2, <2>3, <3>1, <3>2
  <2> QED BY <1>1, <2>4, <2>5, <2>6
<1>6. \A x \in Obj : shadowed'[x] < n
  <2> TAKE x \in Obj
  <2>1. CASE x < n
    <3>1. shadowed'[x] < x
      BY <1>2 DEF Shadows
    <3> QED BY <1>0, <1>3, <2>1, <3>1
  <2>2. CASE x > n + 3
    BY <1>0, <1>1, <2>2
  <2>3. CASE x \in {n, n + 1, n + 2, n + 3}
    BY <1>0, <2>3
  <2> QED BY <1>1, <2>1, <2>2, <2>3
<1>7. ASSUME NEW q \in Procs, status'[q] # "unused", NEW k \in Private
      PROVE  \/ q \notin {p, c} /\ status[q] # "unused" /\ top'[q][k] = top[q][k]
             \/ q = p /\ k = "heap" /\ top'[q][k] = n
             \/ q = p /\ k = "text" /\ top'[q][k] = n + 2
             \/ q = c /\ k = "heap" /\ top'[q][k] = n + 1
             \/ q = c /\ k = "text" /\ top'[q][k] = n + 3
  <2>1. CASE q \notin {p, c}
    BY <1>0, <1>1, <1>7, <2>1
  <2>2. CASE q = p
    BY <1>0, <1>4, <1>7, <2>2
  <2>3. CASE q = c
    BY <1>0, <1>4, <1>7, <2>3
  <2> QED BY <2>1, <2>2, <2>3
<1>8. ASSUME NEW q \in Procs, NEW k \in Private, q \notin {p, c}, status[q] # "unused"
      PROVE  /\ top[q][k] \in 4 .. n - 1 /\ top[q][k] \in Obj /\ top[q][k] < n /\ top[q][k] > 3
             /\ LastOf(shadowed, top[q][k]) = AreaBottom(k)
             /\ \A x \in Obj : shadowed[x] # top[q][k]
             /\ top[q][k] # ho /\ top[q][k] # to
  <2>1. top[q][k] \in Obj /\ top[q][k] < n /\ top[q][k] > 3
    BY <1>0, <1>8, AreaFacts, MemoryFacts
  <2>2. /\ top[q][k] \in 4 .. n - 1
        /\ LastOf(shadowed, top[q][k]) = AreaBottom(k)
        /\ \A x \in Obj : shadowed[x] # top[q][k]
    BY <1>0, <1>8 DEF IInv, TopsOK
  <2> QED BY <1>1, <1>8, <2>1, <2>2
<1>9. ASSUME NEW q \in Procs, status'[q] # "unused", NEW k \in Private
      PROVE  /\ top'[q][k] \in 4 .. n + 3
             /\ LastOf(shadowed', top'[q][k]) = AreaBottom(k)
             /\ \A x \in Obj : shadowed'[x] # top'[q][k]
  <2>1. CASE q \notin {p, c} /\ status[q] # "unused" /\ top'[q][k] = top[q][k]
    <3>1. top'[q][k] \in 4 .. n + 3
      BY <1>0, <1>8, <2>1
    <3>2. LastOf(shadowed', top'[q][k]) = AreaBottom(k)
      BY <1>2, <1>8, <2>1
    <3>3. ASSUME NEW x \in Obj PROVE shadowed'[x] # top[q][k]
      <4>1. top[q][k] # 0
        BY <1>8, <2>1
      <4>2. CASE x < n
        BY <1>1, <1>8, <2>1, <4>2
      <4>3. CASE x > n + 3
        BY <1>1, <4>1, <4>3
      <4>4. CASE x \in {n, n + 1, n + 2, n + 3}
        BY <1>0, <1>8, <2>1, <4>4
      <4> QED BY <1>1, <4>2, <4>3, <4>4
    <3> QED BY <2>1, <3>1, <3>2, <3>3
  <2>2. CASE \/ k = "heap" /\ (top'[q][k] = n \/ top'[q][k] = n + 1)
             \/ k = "text" /\ (top'[q][k] = n + 2 \/ top'[q][k] = n + 3)
    <3>1. top'[q][k] \in 4 .. n + 3
      BY <1>0, <2>2
    <3>2. LastOf(shadowed', top'[q][k]) = AreaBottom(k)
      BY <1>2, <1>4, <2>2
    <3>3. ASSUME NEW x \in Obj PROVE shadowed'[x] # top'[q][k]
      <4>1. top'[q][k] >= n /\ top'[q][k] \in Nat
        BY <1>0, <2>2
      <4> QED BY <1>0, <1>3, <1>6, <4>1
    <3> QED BY <3>1, <3>2, <3>3
  <2> QED BY <1>7, <1>9, <2>1, <2>2
<1>10. ASSUME NEW q \in Procs, status'[q] # "unused", NEW k \in Private,
              NEW u \in Procs, status'[u] # "unused", NEW j \in Private, top'[u][j] = top'[q][k]
       PROVE  u = q /\ j = k
  <2>1. CASE q \notin {p, c} /\ u \notin {p, c}
    <3>1. top[u][j] = top[q][k] /\ status[u] # "unused" /\ status[q] # "unused"
      BY <1>7, <1>10, <2>1
    <3> QED BY <3>1, AreasApart, MemoryFacts
  <2>2. CASE q \notin {p, c} /\ u \in {p, c}
    <3>1. top'[q][k] < n /\ top'[q][k] \in Nat
      BY <1>3, <1>7, <1>8, <1>10, <2>2
    <3>2. top'[u][j] \in {n, n + 1, n + 2, n + 3}
      BY <1>7, <1>10, <2>2
    <3> QED BY <1>0, <1>10, <3>1, <3>2
  <2>3. CASE q \in {p, c} /\ u \notin {p, c}
    <3>1. top'[u][j] < n /\ top'[u][j] \in Nat
      BY <1>3, <1>7, <1>8, <1>10, <2>3
    <3>2. top'[q][k] \in {n, n + 1, n + 2, n + 3}
      BY <1>7, <1>10, <2>3
    <3> QED BY <1>0, <1>10, <3>1, <3>2
  <2>4. CASE q \in {p, c} /\ u \in {p, c}
    <3>1. n # n + 1 /\ n # n + 2 /\ n # n + 3 /\ n + 1 # n + 2 /\ n + 1 # n + 3 /\ n + 2 # n + 3
      BY <1>0
    <3>2. /\ \/ q = p /\ k = "heap" /\ top'[q][k] = n
             \/ q = p /\ k = "text" /\ top'[q][k] = n + 2
             \/ q = c /\ k = "heap" /\ top'[q][k] = n + 1
             \/ q = c /\ k = "text" /\ top'[q][k] = n + 3
          /\ \/ u = p /\ j = "heap" /\ top'[u][j] = n
             \/ u = p /\ j = "text" /\ top'[u][j] = n + 2
             \/ u = c /\ j = "heap" /\ top'[u][j] = n + 1
             \/ u = c /\ j = "text" /\ top'[u][j] = n + 3
      BY <1>7, <1>10, <2>4
    <3> QED BY <1>10, <3>1, <3>2
  <2> QED BY <2>1, <2>2, <2>3, <2>4
<1>11. ASSUME NEW q \in Procs, status'[q] # "unused" PROVE top'[q]["shm"] = 3
  <2>1. CASE q \in {p, c}
    BY <1>0, <2>1
  <2>2. CASE q \notin {p, c}
    BY <1>0, <1>1, <1>11, <2>2 DEF IInv, TopsOK, ShmObj
  <2> QED BY <2>1, <2>2
<1>12. (n + 4) - 1 = n + 3
  BY <1>0
<1>13. TopsOK'
  BY <1>0, <1>9, <1>10, <1>11, <1>12 DEF TopsOK, ShmObj
<1> QED BY <1>5, <1>13

(* Counts after a fork: each of the parent's old private objects has lost an
   area and is shadowed twice; the shared object has one more area. *)
LEMMA ForkRefs ==
  ASSUME IInv, NEW p \in Procs, NEW c \in Procs, NEW n, NEW ho, NEW to, Forked(p, c, n, ho, to)
  PROVE  RefsMatchHolders'
<1>0. /\ n = nextObj /\ nextObj' = n + 4 /\ p # c /\ page' = page
      /\ status[p] = "live" /\ status[c] = "unused"
      /\ n \in Nat /\ n >= 6 /\ {n, n + 1, n + 2, n + 3} \subseteq Obj
      /\ ho = top[p]["heap"] /\ ho \in Obj /\ ho > 3 /\ ho < n
      /\ to = top[p]["text"] /\ to \in Obj /\ to > 3 /\ to < n /\ ho # to
      /\ \A x \in Obj : shadowed[x] # ho /\ shadowed[x] # to
      /\ shadowed' \in [Obj -> 0 .. MaxObj]
      /\ shadowed'[n] = ho /\ shadowed'[n + 1] = ho /\ shadowed'[n + 2] = to /\ shadowed'[n + 3] = to
      /\ top'[p]["heap"] = n /\ top'[p]["text"] = n + 2 /\ top'[p]["shm"] = 3
      /\ top'[c]["heap"] = n + 1 /\ top'[c]["text"] = n + 3 /\ top'[c]["shm"] = 3
      /\ \A q \in Procs : q \notin {p, c} => top'[q] = top[q]
      /\ refs' \in [Obj -> Nat]
      /\ \A x \in {n, n + 1, n + 2, n + 3} : refs'[x] = 1
      /\ \A x \in {ho, to, 3} : refs'[x] = refs[x] + 1
      /\ \A x \in Obj : x \notin {n, n + 1, n + 2, n + 3, ho, to, 3} => refs'[x] = refs[x]
  BY DEF Forked
<1>1. /\ \A q \in Procs : q # c => status'[q] = status[q]
      /\ status'[c] = "live"
      /\ \A x \in Obj : x < n => shadowed'[x] = shadowed[x]
      /\ \A x \in Obj : x > n + 3 => shadowed'[x] = 0 /\ shadowed[x] = 0
      /\ \A x \in Obj : x >= n => shadowed[x] = 0
      /\ \A x \in Obj : x < n \/ x = n \/ x = n + 1 \/ x = n + 2 \/ x = n + 3 \/ x > n + 3
      /\ \A q \in Procs, k \in Areas : status[q] # "unused" => top[q][k] \in Obj /\ top[q][k] < n
  BY ForkOthers
<1>2. \A x \in Obj : shadowed'[x] < n
  <2> TAKE x \in Obj
  <2>0. shadowed[x] < x /\ x \in Nat /\ shadowed'[x] \in Nat
    BY <1>0, InvShadows, MemoryFacts DEF Shadows
  <2>1. CASE x < n
    BY <1>0, <1>1, <2>0, <2>1
  <2>2. CASE x > n + 3
    BY <1>0, <1>1, <2>2
  <2>3. CASE x \in {n, n + 1, n + 2, n + 3}
    BY <1>0, <2>3
  <2> QED BY <1>1, <2>1, <2>2, <2>3
<1>3. /\ \A k \in Areas : k = "heap" \/ k = "text" \/ k = "shm"
      /\ "heap" \in Areas /\ "text" \in Areas /\ "shm" \in Areas
      /\ "heap" \in Private /\ "text" \in Private
  BY DEF Areas, Private
<1>4. Live' = Live \cup {c} /\ c \notin Live /\ p \in Live /\ Live \subseteq Procs
  BY <1>0, <1>1 DEF Live
<1>5. top[p]["shm"] = 3
  BY <1>0, <1>3, AreaFacts
<1> SUFFICES ASSUME NEW o \in 1 .. n + 3
             PROVE  refs'[o] = Cardinality(AreasOn(o)') + Cardinality(ShadowsOf(o)') + PagesOf(o)'
                               + (IF o \in FileObjs THEN 1 ELSE 0)
  <2>1. (n + 4) - 1 = n + 3
    BY <1>0
  <2> QED BY <1>0, <2>1 DEF RefsMatchHolders
<1>6. o \in Obj /\ o \in Nat
  BY <1>0, MemoryFacts DEF Obj
<1>7. PagesOf(o)' = PagesOf(o) /\ PagesOf(o) \in Nat
  BY <1>0 DEF PagesOf
<1>8. ASSUME NEW q, NEW k
      PROVE  /\ <<q, k>> \in AreasOn(o) <=> q \in Live /\ k \in Areas /\ top[q][k] = o
             /\ <<q, k>> \in AreasOn(o)' <=> q \in Live' /\ k \in Areas /\ top'[q][k] = o
  BY DEF AreasOn
<1>9. /\ \A a \in AreasOn(o) : a = <<a[1], a[2]>>
      /\ \A a \in AreasOn(o)' : a = <<a[1], a[2]>>
  BY DEF AreasOn
<1>10. ASSUME NEW q \in Live', NEW k \in Areas
       PROVE  \/ q \in Live /\ q \notin {p, c} /\ top'[q][k] = top[q][k]
              \/ q = p /\ k = "heap" /\ top'[q][k] = n
              \/ q = p /\ k = "text" /\ top'[q][k] = n + 2
              \/ q = p /\ k = "shm" /\ top'[q][k] = 3
              \/ q = c /\ k = "heap" /\ top'[q][k] = n + 1
              \/ q = c /\ k = "text" /\ top'[q][k] = n + 3
              \/ q = c /\ k = "shm" /\ top'[q][k] = 3
  BY <1>0, <1>3, <1>4
<1>11. ASSUME NEW q \in Live, NEW k \in Areas
       PROVE  /\ top[q][k] < n /\ top[q][k] \in Nat
              /\ top[q][k] = ho => q = p /\ k = "heap"
              /\ top[q][k] = to => q = p /\ k = "text"
  <2>1. status[q] # "unused" /\ q \in Procs
    BY <1>4 DEF Live
  <2>2. top[q][k] < n /\ top[q][k] \in Nat
    BY <1>1, <2>1, MemoryFacts
  <2>3. top[q][k] = ho => q = p /\ k = "heap"
    BY <1>0, <1>3, <2>1, AreasApart
  <2>4. top[q][k] = to => q = p /\ k = "text"
    BY <1>0, <1>3, <2>1, AreasApart
  <2> QED BY <2>2, <2>3, <2>4
<1>12. ASSUME o < n
       PROVE  refs[o] = Cardinality(AreasOn(o)) + Cardinality(ShadowsOf(o)) + PagesOf(o)
                        + (IF o \in FileObjs THEN 1 ELSE 0)
  <2>1. o \in 1 .. nextObj - 1
    BY <1>0, <1>12
  <2> QED BY <2>1 DEF IInv, RefsMatchHolders
<1>13. /\ Cardinality(AreasOn(o)) \in Nat /\ Cardinality(ShadowsOf(o)) \in Nat
       /\ IsFiniteSet(AreasOn(o)) /\ IsFiniteSet(ShadowsOf(o))
  BY HoldersFinite
<1>14. CASE o \in {n, n + 1, n + 2, n + 3}
  <2>1. PICK q \in {p, c}, k \in Private : top'[q][k] = o
    BY <1>0, <1>3, <1>14
  <2>2. AreasOn(o)' = {<<q, k>>}
    <3>1. <<q, k>> \in AreasOn(o)'
      BY <1>4, <1>8, <2>1, MemoryFacts
    <3>2. ASSUME NEW a \in AreasOn(o)' PROVE a = <<q, k>>
      <4>1. a = <<a[1], a[2]>> /\ a[1] \in Live' /\ a[2] \in Areas /\ top'[a[1]][a[2]] = o
        BY <1>8, <1>9
      <4>2. o >= n /\ o # 3
        BY <1>0, <1>14
      <4>3. ~(a[1] \in Live /\ a[1] \notin {p, c} /\ top'[a[1]][a[2]] = top[a[1]][a[2]])
        BY <1>0, <1>11, <4>1, <4>2
      <4>4. q \in Live' /\ k \in Areas
        BY <1>4, <2>1, MemoryFacts
      <4>5. a[1] = q /\ a[2] = k
        <5>1. n # n + 1 /\ n # n + 2 /\ n # n + 3 /\ n + 1 # n + 2 /\ n + 1 # n + 3 /\ n + 2 # n + 3
          BY <1>0
        <5>2. \/ a[1] = p /\ a[2] = "heap" /\ o = n
              \/ a[1] = p /\ a[2] = "text" /\ o = n + 2
              \/ a[1] = c /\ a[2] = "heap" /\ o = n + 1
              \/ a[1] = c /\ a[2] = "text" /\ o = n + 3
          BY <1>10, <4>1, <4>2, <4>3
        <5>3. \/ q = p /\ k = "heap" /\ o = n
              \/ q = p /\ k = "text" /\ o = n + 2
              \/ q = c /\ k = "heap" /\ o = n + 1
              \/ q = c /\ k = "text" /\ o = n + 3
          BY <1>0, <1>10, <2>1, <4>2, <4>4
        <5> QED BY <5>1, <5>2, <5>3
      <4> QED BY <4>1, <4>5
    <3> QED BY <3>1, <3>2
  <2>3. Cardinality(AreasOn(o)') = 1
    BY <2>2, FS_Singleton
  <2>4. ShadowsOf(o)' = {}
    <3>1. ASSUME NEW x \in Obj PROVE shadowed'[x] # o
      <4>1. shadowed'[x] < n /\ shadowed'[x] \in Nat /\ o >= n
        BY <1>0, <1>2, <1>14
      <4> QED BY <1>0, <1>6, <4>1
    <3> QED BY <3>1 DEF ShadowsOf
  <2>5. Cardinality(ShadowsOf(o)') = 0
    BY <2>4, FS_EmptySet
  <2>6. PagesOf(o) = 0
    <3>1. o >= nextObj
      BY <1>0, <1>14
    <3> QED BY <1>6, <3>1 DEF IInv, ShadowsOlder, PagesOf
  <2>7. o \notin FileObjs /\ refs'[o] = 1
    BY <1>0, <1>14 DEF FileObjs, TextObj, ShmObj
  <2> QED BY <1>7, <2>3, <2>5, <2>6, <2>7
<1>15. CASE o \in {ho, to}
  <2> DEFINE k == IF o = ho THEN "heap" ELSE "text"
             s1 == IF o = ho THEN n ELSE n + 2
             s2 == IF o = ho THEN n + 1 ELSE n + 3
  <2>1. AreasOn(o) = {<<p, k>>}
    <3>1. <<p, k>> \in AreasOn(o)
      BY <1>0, <1>3, <1>4, <1>8, <1>15
    <3>2. ASSUME NEW a \in AreasOn(o) PROVE a = <<p, k>>
      <4>1. a = <<a[1], a[2]>> /\ a[1] \in Live /\ a[2] \in Areas /\ top[a[1]][a[2]] = o
        BY <1>8, <1>9
      <4>2. a[1] = p /\ a[2] = k
        BY <1>11, <1>15, <4>1
      <4> QED BY <4>1, <4>2
    <3> QED BY <3>1, <3>2
  <2>2. AreasOn(o)' = {}
    <3> SUFFICES ASSUME NEW a \in AreasOn(o)' PROVE FALSE
      OBVIOUS
    <3>1. a[1] \in Live' /\ a[2] \in Areas /\ top'[a[1]][a[2]] = o
      BY <1>8, <1>9
    <3>2. o < n /\ o # 3
      BY <1>0, <1>15
    <3>3. a[1] \in Live /\ a[1] \notin {p, c} /\ top[a[1]][a[2]] = o
      BY <1>0, <1>6, <1>10, <3>1, <3>2
    <3> QED BY <1>11, <1>15, <3>1, <3>3
  <2>3. ShadowsOf(o) = {}
    BY <1>0, <1>15 DEF ShadowsOf
  <2>4. s1 \in Obj /\ s2 \in Obj /\ s1 # s2
    BY <1>0
  <2>5. ShadowsOf(o)' = {s1, s2}
    <3>1. s1 \in ShadowsOf(o)' /\ s2 \in ShadowsOf(o)'
      BY <1>0, <1>15, <2>4 DEF ShadowsOf
    <3>2. ASSUME NEW x \in Obj, shadowed'[x] = o PROVE x \in {s1, s2}
      <4>1. x \in {n, n + 1, n + 2, n + 3}
        <5>1. ~(x < n)
          BY <1>0, <1>1, <1>15, <3>2
        <5>2. ~(x > n + 3)
          BY <1>0, <1>1, <1>15, <3>2
        <5> QED BY <1>1, <5>1, <5>2
      <4> QED BY <1>0, <1>15, <3>2, <4>1
    <3> QED BY <3>1, <3>2 DEF ShadowsOf
  <2> HIDE DEF k, s1, s2
  <2>6. Cardinality(AreasOn(o)) = 1 /\ Cardinality(AreasOn(o)') = 0 /\ Cardinality(ShadowsOf(o)) = 0
    BY <2>1, <2>2, <2>3, FS_EmptySet, FS_Singleton
  <2>7. Cardinality(ShadowsOf(o)') = 2
    <3>1. IsFiniteSet({s1}) /\ Cardinality({s1}) = 1
      BY FS_Singleton
    <3>2. Cardinality({s1} \cup {s2}) = 2
      BY <2>4, <3>1, FS_AddElement
    <3>3. {s1} \cup {s2} = {s1, s2}
      OBVIOUS
    <3> QED BY <2>5, <3>2, <3>3
  <2>8. refs'[o] = refs[o] + 1 /\ o < n
    BY <1>0, <1>15
  <2> QED BY <1>7, <1>12, <2>6, <2>7, <2>8
<1>16. CASE o = 3
  <2>1. AreasOn(o)' = AreasOn(o) \cup {<<c, "shm">>}
    <3>0. o < n
      BY <1>0, <1>16
    <3>1. ASSUME NEW a \in AreasOn(o)' PROVE a \in AreasOn(o) \cup {<<c, "shm">>}
      <4>1. a = <<a[1], a[2]>> /\ a[1] \in Live' /\ a[2] \in Areas /\ top'[a[1]][a[2]] = o
        BY <1>8, <1>9
      <4>2. \/ a[1] \in Live /\ a[1] \notin {p, c} /\ top[a[1]][a[2]] = o
            \/ a[1] = p /\ a[2] = "shm"
            \/ a[1] = c /\ a[2] = "shm"
        BY <1>0, <1>6, <1>10, <3>0, <4>1
      <4>3. CASE a[1] \in Live /\ a[1] \notin {p, c} /\ top[a[1]][a[2]] = o
        <5>1. <<a[1], a[2]>> \in AreasOn(o)
          BY <1>8, <4>1, <4>3
        <5> QED BY <4>1, <5>1
      <4>4. CASE a[1] = p /\ a[2] = "shm"
        <5>1. <<p, "shm">> \in AreasOn(o)
          BY <1>3, <1>4, <1>5, <1>8, <1>16
        <5> QED BY <4>1, <4>4, <5>1
      <4>5. CASE a[1] = c /\ a[2] = "shm"
        BY <4>1, <4>5
      <4> QED BY <4>2, <4>3, <4>4, <4>5
    <3>2. <<c, "shm">> \in AreasOn(o)'
      BY <1>0, <1>3, <1>4, <1>8, <1>16
    <3>3. ASSUME NEW a \in AreasOn(o) PROVE a \in AreasOn(o)'
      <4>1. a = <<a[1], a[2]>> /\ a[1] \in Live /\ a[2] \in Areas /\ top[a[1]][a[2]] = o
        BY <1>8, <1>9
      <4>2. top'[a[1]][a[2]] = o
        <5>1. CASE a[1] = p
          <6>1. a[2] = "shm"
            BY <1>0, <1>3, <1>16, <4>1, <5>1
          <6> QED BY <1>0, <1>16, <5>1, <6>1
        <5>2. CASE a[1] # p
          <6>1. a[1] \in Procs /\ a[1] \notin {p, c}
            BY <1>4, <4>1, <5>2
          <6> QED BY <1>0, <4>1, <6>1
        <5> QED BY <5>1, <5>2
      <4>3. <<a[1], a[2]>> \in AreasOn(o)'
        BY <1>4, <1>8, <4>1, <4>2
      <4> QED BY <4>1, <4>3
    <3> QED BY <3>1, <3>2, <3>3
  <2>2. <<c, "shm">> \notin AreasOn(o)
    BY <1>4, <1>8
  <2>3. Cardinality(AreasOn(o)') = Cardinality(AreasOn(o)) + 1
    BY <1>13, <2>1, <2>2, FS_AddElement
  <2>4. ShadowsOf(o)' = ShadowsOf(o)
    <3>1. ASSUME NEW x \in Obj PROVE shadowed'[x] = o <=> shadowed[x] = o
      <4>1. CASE x < n \/ x > n + 3
        BY <1>1, <4>1
      <4>2. CASE x \in {n, n + 1, n + 2, n + 3}
        <5>1. x >= n
          BY <1>0, <4>2
        <5>2. shadowed[x] = 0 /\ shadowed'[x] \in {ho, to}
          BY <1>0, <1>1, <4>2, <5>1
        <5> QED BY <1>0, <1>16, <5>2
      <4> QED BY <1>1, <4>1, <4>2
    <3> QED BY <3>1 DEF ShadowsOf
  <2>5. refs'[o] = refs[o] + 1 /\ o < n
    BY <1>0, <1>16
  <2> QED BY <1>7, <1>12, <1>13, <2>3, <2>4, <2>5
<1>17. CASE o \notin {n, n + 1, n + 2, n + 3, ho, to, 3}
  <2>0. o < n
    BY <1>0, <1>6, <1>17
  <2>1. AreasOn(o)' = AreasOn(o)
    <3>1. ASSUME NEW a \in AreasOn(o)' PROVE a \in AreasOn(o)
      <4>1. a = <<a[1], a[2]>> /\ a[1] \in Live' /\ a[2] \in Areas /\ top'[a[1]][a[2]] = o
        BY <1>8, <1>9
      <4>2. a[1] \in Live /\ top[a[1]][a[2]] = o
        BY <1>10, <1>17, <4>1
      <4>3. <<a[1], a[2]>> \in AreasOn(o)
        BY <1>8, <4>1, <4>2
      <4> QED BY <4>1, <4>3
    <3>2. ASSUME NEW a \in AreasOn(o) PROVE a \in AreasOn(o)'
      <4>1. a = <<a[1], a[2]>> /\ a[1] \in Live /\ a[2] \in Areas /\ top[a[1]][a[2]] = o
        BY <1>8, <1>9
      <4>2. a[1] # p
        BY <1>0, <1>3, <1>5, <1>17, <4>1
      <4>3. a[1] \in Procs /\ a[1] \notin {p, c}
        BY <1>4, <4>1, <4>2
      <4>4. <<a[1], a[2]>> \in AreasOn(o)'
        BY <1>0, <1>4, <1>8, <4>1, <4>3
      <4> QED BY <4>1, <4>4
    <3> QED BY <3>1, <3>2
  <2>2. ShadowsOf(o)' = ShadowsOf(o)
    <3>1. ASSUME NEW x \in Obj PROVE shadowed'[x] = o <=> shadowed[x] = o
      <4>1. CASE x < n \/ x > n + 3
        BY <1>1, <4>1
      <4>2. CASE x \in {n, n + 1, n + 2, n + 3}
        <5>1. x >= n
          BY <1>0, <4>2
        <5>2. shadowed[x] = 0 /\ shadowed'[x] \in {ho, to}
          BY <1>0, <1>1, <4>2, <5>1
        <5>3. o # 0
          OBVIOUS
        <5> QED BY <1>17, <5>2, <5>3
      <4> QED BY <1>1, <4>1, <4>2
    <3> QED BY <3>1 DEF ShadowsOf
  <2>3. refs'[o] = refs[o]
    BY <1>0, <1>6, <1>17
  <2> QED BY <1>7, <1>12, <2>0, <2>1, <2>2, <2>3
<1> QED BY <1>14, <1>15, <1>16, <1>17

(* fork. *)
LEMMA ForkInv ==
  ASSUME IInv, NEW p \in Procs, NEW c \in Procs, do_fork(p, c)
  PROVE  IInv'
<1> DEFINE n == nextObj
           ho == top[p]["heap"]
           to == top[p]["text"]
<1>1. Forked(p, c, n, ho, to)
  BY ForkFacts
<1> HIDE DEF n, ho, to
<1>2. /\ n = nextObj /\ nextObj' = n + 4 /\ p # c
      /\ page' = page /\ req' = req /\ disk' = disk /\ unsaved' = unsaved /\ cpu' = cpu
      /\ footprint' = footprint
      /\ status[p] = "live" /\ status[c] = "unused" /\ req[p] = Nil
      /\ n \in Nat /\ n >= 6 /\ n + 3 <= MaxObj /\ {n, n + 1, n + 2, n + 3} \subseteq Obj
      /\ ho > 3 /\ to > 3
      /\ shadowed' \in [Obj -> 0 .. MaxObj]
      /\ top' \in [Procs -> [Areas -> Obj]]
      /\ top'[p]["shm"] = 3
      /\ \A q \in Procs : q \notin {p, c} => top'[q] = top[q]
      /\ refs' \in [Obj -> Nat]
      /\ pte' \in [Procs -> [Areas -> PageTableEntry \cup {Nil}]]
      /\ \A k \in Private : pte'[p][k] = Nil
      /\ pte'[p]["shm"] = pte[p]["shm"]
      /\ \A q \in Procs : q # p => pte'[q] = pte[q]
  BY <1>1 DEF Forked
<1>3. /\ \A q \in Procs : q # c => status'[q] = status[q]
      /\ status'[c] = "live" /\ status' \in [Procs -> {"unused", "live", "dead"}]
      /\ \A x \in Obj : x < n => shadowed'[x] = shadowed[x]
      /\ \A x \in Obj : x >= n => shadowed[x] = 0
      /\ \A q \in Procs, k \in Areas : status[q] # "unused" => top[q][k] \in Obj /\ top[q][k] < n
  BY <1>1, ForkOthers
<1>4. TopsOK' /\ ShadowsOlder'
  BY <1>1, ForkTops
<1>5. RefsMatchHolders'
  BY <1>1, ForkRefs
<1>6. MemoryTypeOK'
  <2>1. n + 4 \in 6 .. MaxObj + 1
    BY <1>2, MemoryFacts
  <2>2. /\ page \in [Obj -> Page \cup {Nil}]
        /\ req \in [Procs -> Requests \cup CleanReqs \cup {Nil, SyncReq}]
        /\ disk \in Values /\ unsaved \in BOOLEAN
        /\ cpu \in {"ok", "hung", "nomem"}
        /\ footprint \in Footprints
    BY DEF IInv, MemoryTypeOK
  <2> QED BY <1>2, <1>3, <2>1, <2>2 DEF MemoryTypeOK
<1>7. ASSUME NEW q \in Procs, NEW k \in Areas, pte'[q][k] # Nil
      PROVE  /\ pte'[q][k] = pte[q][k] /\ q # c /\ status[q] = "live"
             /\ top'[q][k] = top[q][k] /\ (q = p => k = "shm")
  <2>1. CASE q = p
    <3>1. k = "shm"
      BY <1>2, <1>7, <2>1, MemoryFacts
    <3>2. top[p]["shm"] = 3
      BY <1>2, AreaFacts, MemoryFacts
    <3> QED BY <1>2, <2>1, <3>1, <3>2
  <2>2. CASE q # p
    <3>1. pte'[q][k] = pte[q][k]
      BY <1>2, <2>2
    <3>2. status[q] = "live"
      BY <1>7, <3>1, EntryFacts
    <3> QED BY <1>2, <2>2, <3>1, <3>2
  <2> QED BY <2>1, <2>2
<1>8. PteResident'
  <2>1. ASSUME NEW q \in Procs, NEW k \in Areas, pte'[q][k] # Nil PROVE page[pte'[q][k].obj] # Nil
    BY <1>7, <2>1 DEF IInv, PteResident
  <2> QED BY <1>2, <2>1 DEF PteResident
<1>9. PteOfChain'
  <2>1. ASSUME NEW q \in Procs, NEW k \in Areas, pte'[q][k] # Nil
        PROVE  /\ status'[q] = "live"
               /\ \/ pte'[q][k].obj = top'[q][k]
                  \/ ~pte'[q][k].write /\ \E x \in Obj : shadowed'[x] = pte'[q][k].obj
    <3>0. pte'[q][k] = pte[q][k] /\ q # c /\ status[q] = "live" /\ top'[q][k] = top[q][k]
      BY <1>7, <2>1
    <3>1. CASE pte[q][k].obj = top[q][k]
      BY <1>3, <3>0, <3>1
    <3>2. CASE ~pte[q][k].write /\ \E x \in Obj : shadowed[x] = pte[q][k].obj
      <4>1. PICK x \in Obj : shadowed[x] = pte[q][k].obj
        BY <3>2
      <4>2. pte[q][k].obj \in Obj
        BY <2>1, <3>0, EntryFacts
      <4>3. pte[q][k].obj # 0
        BY <4>2, MemoryFacts
      <4>4. x < n
        BY <1>2, <1>3, <4>1, <4>3, MemoryFacts
      <4> QED BY <1>3, <3>0, <3>2, <4>1, <4>4
    <3> QED BY <2>1, <3>0, <3>1, <3>2 DEF IInv, PteOfChain
  <2> QED BY <2>1 DEF PteOfChain
<1>10. ASSUME NEW q \in Procs
       PROVE  /\ Awaits(q)' = Awaits(q) /\ (Reading(q)' <=> Reading(q)) /\ (Cleaning(q)' <=> Cleaning(q))
              /\ req[q] # Nil => q \notin {p, c} /\ status'[q] = "live"
              /\ Awaits(q) # 0 => q \notin {p, c}
  <2>1. Awaits(q)' = Awaits(q) /\ (Reading(q)' <=> Reading(q)) /\ (Cleaning(q)' <=> Cleaning(q))
    BY <1>2 DEF Awaits, Reading, Cleaning
  <2>2. req[q] # Nil => status[q] = "live"
    BY DEF IInv, BlockedRelyOn
  <2>3. req[q] # Nil => q \notin {p, c} /\ status'[q] = "live"
    BY <1>2, <1>3, <2>2
  <2>4. Awaits(q) # 0 => req[q] # Nil
    BY DEF Awaits, Reading, Cleaning
  <2> QED BY <2>1, <2>3, <2>4
<1>11. BlockedRelyOn'
  <2> SUFFICES ASSUME NEW q \in Procs
               PROVE  /\ req[q] # Nil => status'[q] = "live"
                      /\ Awaits(q) # 0 =>
                           /\ Awaits(q) \in FileObjs /\ page[Awaits(q)] # Nil /\ page[Awaits(q)].busy
                           /\ \A u \in Procs : Awaits(u) = Awaits(q) => u = q
                      /\ Awaits(q) = TextObj =>
                           /\ pte'[q]["text"] = Nil
                           /\ IF req[q].kind = "copy"
                              THEN page[top'[q]["text"]] # Nil /\ page[top'[q]["text"]].busy
                              ELSE page[top'[q]["text"]] = Nil
    BY <1>2, <1>10 DEF BlockedRelyOn, FileObjs, TextObj, ShmObj
  <2>1. Awaits(q) = TextObj => q \notin {p, c}
    BY <1>10 DEF TextObj
  <2>2. q \notin {p, c} => top'[q] = top[q] /\ pte'[q] = pte[q]
    BY <1>2
  <2> QED BY <1>10, <2>1, <2>2 DEF IInv, BlockedRelyOn
<1>12. BusyOwned'
  <2> SUFFICES ASSUME NEW o \in Obj, page[o] # Nil, page[o].busy
               PROVE  \E q \in Procs : \/ Awaits(q) # 0 /\ o = Awaits(q)
                                       \/ Awaits(q) = TextObj /\ o = top'[q]["text"]
    BY <1>2, <1>10 DEF BusyOwned, TextObj
  <2>1. PICK q \in Procs : \/ Awaits(q) # 0 /\ o = Awaits(q)
                           \/ Awaits(q) = TextObj /\ o = top[q]["text"]
    BY DEF IInv, BusyOwned
  <2>2. top'[q] = top[q]
    BY <1>2, <1>10, <2>1 DEF TextObj
  <2> QED BY <2>1, <2>2
<1>13. DeadHoldNothing'
  <2>1. ASSUME NEW q \in Procs, NEW k \in Private, status'[q] = "dead" PROVE page[top'[q][k]] = Nil
    <3>1. q \notin {p, c} /\ status[q] = "dead"
      BY <1>2, <1>3, <2>1
    <3>2. top'[q] = top[q]
      BY <1>2, <3>1
    <3> QED BY <3>1, <3>2 DEF IInv, DeadHoldNothing
  <2> QED BY <1>2, <2>1 DEF DeadHoldNothing
<1>14. SharedPageSaved' /\ CleanMeansSaved'
  <2>1. SharedPageSaved'
    BY <1>2, <1>10 DEF IInv, SharedPageSaved, ShmObj
  <2>2. CleanMeansSaved'
    BY <1>2 DEF IInv, CleanMeansSaved, ShmObj
  <2> QED BY <2>1, <2>2
<1>15. FreshData'
  <2>1. ASSUME NEW q \in Procs, NEW k \in Private, pte'[q][k] # Nil
        PROVE  /\ page[FirstOf(shadowed', page)[top'[q][k]]] # Nil
               /\ page[top'[q][k]] = Nil => pte'[q][k].obj = FirstOf(shadowed', page)[top'[q][k]]
    <3>0. pte'[q][k] = pte[q][k] /\ status[q] = "live" /\ top'[q][k] = top[q][k] /\ k \in Areas
      BY <1>7, <2>1, MemoryFacts
    <3>1. top[q][k] \in Obj /\ top[q][k] < n
      BY <1>3, <3>0
    <3>2. FirstOf(shadowed', page)[top[q][k]] = FirstOf(shadowed, page)[top[q][k]]
      BY <1>1, <3>1, ForkChains
    <3> QED BY <2>1, <3>0, <3>2 DEF IInv, FreshData
  <2>2. page[1] # Nil => page[1].data = 0
    BY DEF IInv, FreshData, AnonObj
  <2> QED BY <1>2, <2>1, <2>2 DEF FreshData, AnonObj
<1> QED BY <1>4, <1>5, <1>6, <1>8, <1>9, <1>11, <1>12, <1>13, <1>14, <1>15 DEF IInv

(* shadow_put of an object that nothing but an area and a page refers to: the
   page goes, and perhaps an entry of the first process. *)
LEMMA PutFacts ==
  ASSUME NEW m \in Memories, NEW o \in Obj, NEW k \in Areas,
         m.refs[o] = 1 + Residence(m.page, o)
  PROVE  LET n == shadow_put(m, k, o)
         IN /\ n \in Memories /\ n.page[o] = Nil /\ n.refs[o] = 0
            /\ \A x \in Obj : x # o => n.page[x] = m.page[x] /\ n.refs[x] = m.refs[x]
            /\ \A q \in Procs, j \in Areas : n.pte[q][j] \in {Nil, m.pte[q][j]}
<1> DEFINE l == [m EXCEPT !.refs[o] = @ - 1]
           n == shadow_put(m, k, o)
<1>0. /\ m.page \in [Obj -> Page \cup {Nil}] /\ m.refs \in [Obj -> Int]
      /\ m.pte \in [Procs -> [Areas -> PageTableEntry \cup {Nil}]]
      /\ FirstProc \in Procs
  BY MemoryFacts DEF Memories
<1>1. /\ l.page = m.page /\ l.refs = [m.refs EXCEPT ![o] = m.refs[o] - 1] /\ l.pte = m.pte
      /\ l = [page |-> l.page, refs |-> l.refs, pte |-> l.pte]
  BY DEF Memories
<1>2. n = IF l.refs[o] = 1 /\ m.page[o] # Nil THEN pframe_free(l, k, o) ELSE l
  BY DEF shadow_put
<1> HIDE DEF l, n
<1>3. /\ l.refs \in [Obj -> Int] /\ l.refs[o] = Residence(m.page, o)
      /\ \A x \in Obj : x # o => l.refs[x] = m.refs[x]
  <2>1. Residence(m.page, o) \in Int
    BY DEF Residence
  <2>2. m.refs[o] - 1 = Residence(m.page, o)
    BY <2>1
  <2> QED BY <1>0, <1>1, <2>1, <2>2
<1>4. l \in Memories
  BY <1>0, <1>1, <1>3 DEF Memories
<1>5. CASE m.page[o] # Nil
  <2>1. l.refs[o] = 1
    BY <1>3, <1>5 DEF Residence
  <2>2. n = pframe_free(l, k, o)
    BY <1>2, <1>5, <2>1
  <2> DEFINE r == pframe_remove_from_pts(l, k)
  <2>3. /\ r.page = l.page /\ r.refs = l.refs /\ r.pte = [l.pte EXCEPT ![FirstProc][k] = Nil]
        /\ r = [page |-> r.page, refs |-> r.refs, pte |-> r.pte]
    BY <1>1 DEF pframe_remove_from_pts
  <2>4. n = [r EXCEPT !.page[o] = Nil, !.refs[o] = @ - 1]
    BY <2>2 DEF pframe_free
  <2> HIDE DEF r
  <2>5. /\ n.page = [r.page EXCEPT ![o] = Nil] /\ n.refs = [r.refs EXCEPT ![o] = r.refs[o] - 1]
        /\ n.pte = r.pte
        /\ n = [page |-> n.page, refs |-> n.refs, pte |-> n.pte]
    BY <2>3, <2>4
  <2>6. /\ n.page \in [Obj -> Page \cup {Nil}] /\ n.page[o] = Nil
        /\ \A x \in Obj : x # o => n.page[x] = m.page[x]
    BY <1>0, <1>1, <2>3, <2>5
  <2>7. /\ n.refs \in [Obj -> Int] /\ n.refs[o] = 0
        /\ \A x \in Obj : x # o => n.refs[x] = m.refs[x]
    BY <1>3, <2>1, <2>3, <2>5
  <2>8. /\ n.pte \in [Procs -> [Areas -> PageTableEntry \cup {Nil}]]
        /\ \A q \in Procs, j \in Areas : n.pte[q][j] \in {Nil, m.pte[q][j]}
    BY <1>0, <1>1, <2>3, <2>5
  <2>9. n \in Memories
    BY <2>5, <2>6, <2>7, <2>8 DEF Memories
  <2> QED BY <2>6, <2>7, <2>8, <2>9 DEF n
<1>6. CASE m.page[o] = Nil
  <2>1. n = l /\ l.refs[o] = 0
    BY <1>2, <1>3, <1>6 DEF Residence
  <2> QED BY <1>1, <1>3, <1>4, <1>6, <2>1 DEF n
<1> QED BY <1>5, <1>6

(* An object of a private area is referred to by the area and its page only. *)
LEMMA TopRefs ==
  ASSUME IInv, NEW p \in Procs, status[p] = "live", NEW k \in Private
  PROVE  /\ refs[top[p][k]] = 1 + Residence(page, top[p][k])
         /\ AreasOn(top[p][k]) = {<<p, k>>} /\ ShadowsOf(top[p][k]) = {}
<1> DEFINE o == top[p][k]
<1>1. /\ k \in Areas /\ o \in Obj /\ o > 3 /\ o < nextObj /\ nextObj \in Nat
      /\ \A x \in Obj : shadowed[x] # o
  BY AreaFacts, MemoryFacts
<1>2. AreasOn(o) = {<<p, k>>}
  <2>1. <<p, k>> \in AreasOn(o)
    BY <1>1 DEF AreasOn, Live
  <2>2. ASSUME NEW a \in AreasOn(o) PROVE a = <<p, k>>
    <3>1. a = <<a[1], a[2]>> /\ a[1] \in Procs /\ status[a[1]] = "live" /\ a[2] \in Areas
          /\ top[a[1]][a[2]] = o
      BY DEF AreasOn, Live
    <3>2. a[1] = p /\ a[2] = k
      BY <3>1, AreasApart
    <3> QED BY <3>1, <3>2
  <2> QED BY <2>1, <2>2
<1>3. ShadowsOf(o) = {}
  BY <1>1 DEF ShadowsOf
<1>4. Cardinality(AreasOn(o)) = 1 /\ Cardinality(ShadowsOf(o)) = 0
  BY <1>2, <1>3, FS_Singleton, FS_EmptySet
<1>5. o \in 1 .. nextObj - 1 /\ o \notin FileObjs
  BY <1>1, MemoryFacts DEF FileObjs, TextObj, ShmObj
<1>6. refs[o] = Cardinality(AreasOn(o)) + Cardinality(ShadowsOf(o)) + PagesOf(o)
                + (IF o \in FileObjs THEN 1 ELSE 0)
  BY <1>5 DEF IInv, RefsMatchHolders
<1>7. PagesOf(o) = Residence(page, o) /\ Residence(page, o) \in Nat
  BY DEF PagesOf, Residence
<1>8. refs[o] = 1 + Residence(page, o)
  BY <1>4, <1>5, <1>6, <1>7
<1> QED BY <1>2, <1>3, <1>8

(* What is left when process p, whose private objects were ho and to, is gone. *)
Exited(p, ho, to) ==
  /\ status[p] = "live" /\ req[p] = Nil
  /\ ho = top[p]["heap"] /\ ho \in Obj /\ ho > 3
  /\ to = top[p]["text"] /\ to \in Obj /\ to > 3
  /\ status' = [status EXCEPT ![p] = "dead"]
  /\ page' \in [Obj -> Page \cup {Nil}] /\ page'[ho] = Nil /\ page'[to] = Nil
  /\ \A x \in Obj \ {ho, to} : page'[x] = page[x]
  /\ refs' \in [Obj -> Int] /\ refs'[ho] = 0 /\ refs'[to] = 0 /\ refs'[3] = refs[3] - 1
  /\ \A x \in Obj \ {ho, to, 3} : refs'[x] = refs[x]
  /\ pte' \in [Procs -> [Areas -> PageTableEntry \cup {Nil}]]
  /\ \A q \in Procs, j \in Areas : pte'[q][j] \in {Nil, pte[q][j]}
  /\ \A j \in Areas : pte'[p][j] = Nil
  /\ UNCHANGED <<req, disk, unsaved, cpu>> /\ UNCHANGED objects

(* Exit does that. *)
LEMMA ExitFacts ==
  ASSUME IInv, NEW p \in Procs, Exit(p)
  PROVE  Exited(p, top[p]["heap"], top[p]["text"])
<1> DEFINE ho == top[p]["heap"]
           to == top[p]["text"]
           h == shadow_put(Now, "heap", ho)
           t == shadow_put(h, "text", to)
           s == [t EXCEPT !.refs[3] = @ - 1]
           m == pt_destroy(s, p)
<1>0. /\ status[p] = "live" /\ req[p] = Nil
      /\ status' = [status EXCEPT ![p] = "dead"]
      /\ SetMemory(m)
      /\ UNCHANGED <<req, disk, unsaved, cpu>> /\ UNCHANGED objects
  BY DEF Exit, CanRun, ShmObj
<1>1. /\ "heap" \in Private /\ "text" \in Private /\ "heap" \in Areas /\ "text" \in Areas /\ 3 \in Obj
  BY MemoryFacts DEF Private
<1>2. ho \in Obj /\ ho > 3 /\ to \in Obj /\ to > 3 /\ ho # to
  <2>1. ho \in Obj /\ ho > 3 /\ to \in Obj /\ to > 3
    BY <1>0, <1>1, AreaFacts
  <2>2. ho # to
    BY <1>0, <1>1, AreasApart
  <2> QED BY <2>1, <2>2
<1>3. /\ refs[ho] = 1 + Residence(page, ho)
      /\ refs[to] = 1 + Residence(page, to)
  BY <1>0, <1>1, TopRefs
<1>4. Now \in Memories /\ Now.page = page /\ Now.refs = refs /\ Now.pte = pte
  BY NowFacts
<1>5. /\ h \in Memories /\ h.page[ho] = Nil /\ h.refs[ho] = 0
      /\ \A x \in Obj : x # ho => h.page[x] = page[x] /\ h.refs[x] = refs[x]
      /\ \A q \in Procs, j \in Areas : h.pte[q][j] \in {Nil, pte[q][j]}
  BY <1>1, <1>2, <1>3, <1>4, PutFacts
<1> HIDE DEF h
<1>6. h.refs[to] = 1 + Residence(h.page, to)
  BY <1>2, <1>3, <1>5 DEF Residence
<1>7. /\ t \in Memories /\ t.page[to] = Nil /\ t.refs[to] = 0
      /\ \A x \in Obj : x # to => t.page[x] = h.page[x] /\ t.refs[x] = h.refs[x]
      /\ \A q \in Procs, j \in Areas : t.pte[q][j] \in {Nil, h.pte[q][j]}
  BY <1>1, <1>2, <1>5, <1>6, PutFacts
<1> HIDE DEF t
<1>8. /\ t.page \in [Obj -> Page \cup {Nil}] /\ t.refs \in [Obj -> Int]
      /\ t.pte \in [Procs -> [Areas -> PageTableEntry \cup {Nil}]]
  BY <1>7 DEF Memories
<1>9. /\ s.page = t.page /\ s.refs = [t.refs EXCEPT ![3] = t.refs[3] - 1] /\ s.pte = t.pte
  BY <1>7 DEF Memories
<1> DEFINE none == [k \in Areas |-> Nil]
<1>10. m.page = s.page /\ m.refs = s.refs /\ m.pte = [s.pte EXCEPT ![p] = none]
  <2>1. s = [page |-> s.page, refs |-> s.refs, pte |-> s.pte]
    BY <1>7 DEF Memories
  <2> HIDE DEF s
  <2> QED BY <2>1 DEF pt_destroy
<1>11. none \in [Areas -> PageTableEntry \cup {Nil}] /\ \A j \in Areas : none[j] = Nil
  OBVIOUS
<1> HIDE DEF m, s, none
<1>12. page' = m.page /\ refs' = m.refs /\ pte' = m.pte
  BY <1>0 DEF SetMemory
<1>13. /\ page' \in [Obj -> Page \cup {Nil}] /\ page'[ho] = Nil /\ page'[to] = Nil
       /\ \A x \in Obj \ {ho, to} : page'[x] = page[x]
  BY <1>2, <1>5, <1>7, <1>8, <1>9, <1>10, <1>12
<1>14. /\ refs' \in [Obj -> Int] /\ refs'[ho] = 0 /\ refs'[to] = 0 /\ refs'[3] = refs[3] - 1
       /\ \A x \in Obj \ {ho, to, 3} : refs'[x] = refs[x]
  <2>0. ho # 3 /\ to # 3
    BY <1>2
  <2>1. refs' = [t.refs EXCEPT ![3] = t.refs[3] - 1]
    BY <1>9, <1>10, <1>12
  <2>2. t.refs[3] = refs[3] /\ t.refs[ho] = 0 /\ t.refs[to] = 0
    BY <1>1, <1>2, <1>5, <1>7, <2>0
  <2>3. \A x \in Obj \ {ho, to, 3} : t.refs[x] = refs[x]
    BY <1>5, <1>7
  <2> QED BY <1>1, <1>2, <1>8, <2>0, <2>1, <2>2, <2>3
<1>15. /\ pte' \in [Procs -> [Areas -> PageTableEntry \cup {Nil}]]
       /\ \A q \in Procs, j \in Areas : pte'[q][j] \in {Nil, pte[q][j]}
       /\ \A j \in Areas : pte'[p][j] = Nil
  <2>1. pte' = [t.pte EXCEPT ![p] = none]
    BY <1>9, <1>10, <1>12
  <2>2. \A q \in Procs, j \in Areas : t.pte[q][j] \in {Nil, pte[q][j]}
    BY <1>5, <1>7
  <2> QED BY <1>8, <1>11, <2>1, <2>2
<1> QED BY <1>0, <1>2, <1>13, <1>14, <1>15 DEF Exited

(* Counts after an exit. *)
LEMMA ExitRefs ==
  ASSUME IInv, NEW p \in Procs, NEW ho, NEW to, Exited(p, ho, to)
  PROVE  RefsMatchHolders' /\ refs' \in [Obj -> Nat]
<1>0. /\ status[p] = "live" /\ ho = top[p]["heap"] /\ ho \in Obj /\ ho > 3
      /\ to = top[p]["text"] /\ to \in Obj /\ to > 3
      /\ status' = [status EXCEPT ![p] = "dead"] /\ page'[ho] = Nil /\ page'[to] = Nil
      /\ \A x \in Obj \ {ho, to} : page'[x] = page[x]
      /\ refs' \in [Obj -> Int] /\ refs'[ho] = 0 /\ refs'[to] = 0 /\ refs'[3] = refs[3] - 1
      /\ \A x \in Obj \ {ho, to, 3} : refs'[x] = refs[x]
      /\ top' = top /\ shadowed' = shadowed /\ nextObj' = nextObj
  BY DEF Exited, objects
<1>1. /\ \A k \in Areas : k = "heap" \/ k = "text" \/ k = "shm"
      /\ "heap" \in Areas /\ "text" \in Areas /\ "shm" \in Areas
      /\ "heap" \in Private /\ "text" \in Private
  BY DEF Areas, Private
<1>2. /\ status \in [Procs -> {"unused", "live", "dead"}] /\ nextObj \in 6 .. MaxObj + 1
      /\ MaxObj \in Nat /\ refs \in [Obj -> Nat]
  BY MemoryFacts DEF IInv, MemoryTypeOK
<1>3. Live' = Live \ {p} /\ p \in Live
  BY <1>0, <1>2 DEF Live
<1>4. /\ AreasOn(ho) = {<<p, "heap">>} /\ ShadowsOf(ho) = {}
      /\ AreasOn(to) = {<<p, "text">>} /\ ShadowsOf(to) = {}
      /\ top[p]["shm"] = 3
  BY SMTT(60), <1>0, <1>1, TopRefs, AreaFacts
<1>5. ASSUME NEW o
      PROVE  AreasOn(o)' = {a \in AreasOn(o) : a[1] # p} /\ ShadowsOf(o)' = ShadowsOf(o)
  <2>1. ShadowsOf(o)' = ShadowsOf(o)
    BY <1>0 DEF ShadowsOf
  <2>2. AreasOn(o)' = {a \in (Live \ {p}) \X Areas : top[a[1]][a[2]] = o}
    BY <1>0, <1>3 DEF AreasOn
  <2>3. AreasOn(o) = {a \in Live \X Areas : top[a[1]][a[2]] = o}
    BY DEF AreasOn
  <2>4. \A a : a \in (Live \ {p}) \X Areas <=> a \in Live \X Areas /\ a[1] # p
    OBVIOUS
  <2>5. AreasOn(o)' = {a \in AreasOn(o) : a[1] # p}
    BY <2>2, <2>3, <2>4
  <2> QED BY <2>1, <2>5
<1>6. ASSUME NEW o \in 1 .. nextObj - 1
      PROVE  refs'[o] = Cardinality(AreasOn(o)') + Cardinality(ShadowsOf(o)') + PagesOf(o)'
                         + (IF o \in FileObjs THEN 1 ELSE 0)
  <2>0. o \in Obj /\ o \in Nat
    BY <1>2 DEF Obj
  <2>1. refs[o] = Cardinality(AreasOn(o)) + Cardinality(ShadowsOf(o)) + PagesOf(o)
                  + (IF o \in FileObjs THEN 1 ELSE 0)
    BY DEF IInv, RefsMatchHolders
  <2>2. /\ IsFiniteSet(AreasOn(o)) /\ Cardinality(AreasOn(o)) \in Nat
        /\ Cardinality(ShadowsOf(o)) \in Nat
    BY HoldersFinite
  <2>3. CASE o \in {ho, to}
    <3>1. AreasOn(o)' = {}
      <4>1. \A a \in AreasOn(o) : a[1] = p
        BY <1>4, <2>3
      <4> QED BY <1>5, <4>1
    <3>2. ShadowsOf(o)' = {} /\ PagesOf(o)' = 0
      BY <1>0, <1>4, <1>5, <2>3 DEF PagesOf
    <3>3. Cardinality(AreasOn(o)') = 0 /\ Cardinality(ShadowsOf(o)') = 0
      BY <3>1, <3>2, FS_EmptySet
    <3>4. o \notin FileObjs /\ refs'[o] = 0
      BY <1>0, <2>3 DEF FileObjs, TextObj, ShmObj
    <3> QED BY <3>2, <3>3, <3>4
  <2>4. CASE o = 3
    <3>1. AreasOn(o)' = AreasOn(o) \ {<<p, "shm">>}
      <4>1. \A a \in AreasOn(o) : a[1] = p => a = <<p, "shm">>
        <5> SUFFICES ASSUME NEW a \in AreasOn(o), a[1] = p PROVE a = <<p, "shm">>
          OBVIOUS
        <5>1. a = <<a[1], a[2]>> /\ a[2] \in Areas /\ top[a[1]][a[2]] = o
          BY DEF AreasOn
        <5>2. a[2] = "shm"
          BY <1>0, <1>1, <2>4, <5>1
        <5> QED BY <5>1, <5>2
      <4>2. \A a \in AreasOn(o) : a = <<p, "shm">> => a[1] = p
        OBVIOUS
      <4>3. \A a \in AreasOn(o) : a[1] # p <=> a \notin {<<p, "shm">>}
        BY <4>1, <4>2
      <4> QED BY <1>5, <4>3
    <3>2. <<p, "shm">> \in AreasOn(o)
      BY <1>1, <1>3, <1>4, <2>4 DEF AreasOn
    <3>3. Cardinality(AreasOn(o)') = Cardinality(AreasOn(o)) - 1
      BY <2>2, <3>1, <3>2, FS_RemoveElement
    <3>4. page'[o] = page[o] /\ refs'[o] = refs[o] - 1
      BY <1>0, <2>0, <2>4
    <3>5. PagesOf(o)' = PagesOf(o) /\ PagesOf(o) \in Nat
      BY <3>4 DEF PagesOf
    <3> QED BY <1>5, <2>1, <2>2, <3>3, <3>4, <3>5
  <2>5. CASE o \notin {ho, to, 3}
    <3>1. AreasOn(o)' = AreasOn(o)
      <4>1. \A a \in AreasOn(o) : a[1] # p
        <5> SUFFICES ASSUME NEW a \in AreasOn(o), a[1] = p PROVE FALSE
          OBVIOUS
        <5>1. a[2] \in Areas /\ top[a[1]][a[2]] = o
          BY DEF AreasOn
        <5> QED BY <1>0, <1>1, <1>4, <2>5, <5>1
      <4> QED BY <1>5, <4>1
    <3>2. page'[o] = page[o] /\ refs'[o] = refs[o]
      BY <1>0, <2>0, <2>5
    <3>3. PagesOf(o)' = PagesOf(o)
      BY <3>2 DEF PagesOf
    <3> QED BY <1>5, <2>1, <3>1, <3>2, <3>3
  <2> QED BY <2>3, <2>4, <2>5
<1>7. RefsMatchHolders'
  BY <1>0, <1>6 DEF RefsMatchHolders
<1>8. ASSUME NEW o \in Obj PROVE refs'[o] \in Nat
  <2>1. CASE o < nextObj
    <3>1. o \in 1 .. nextObj - 1
      BY <1>2, <2>1 DEF Obj
    <3>2. refs'[o] = Cardinality(AreasOn(o)') + Cardinality(ShadowsOf(o)') + PagesOf(o)'
                     + (IF o \in FileObjs THEN 1 ELSE 0)
      BY <1>6, <3>1
    <3>3. IsFiniteSet(AreasOn(o)) /\ Cardinality(ShadowsOf(o)) \in Nat
      BY HoldersFinite
    <3>4. AreasOn(o)' \subseteq AreasOn(o)
      BY <1>5
    <3>5. Cardinality(AreasOn(o)') \in Nat
      BY <3>3, <3>4, FS_Subset, FS_CardinalityType
    <3>6. PagesOf(o)' \in Nat
      BY DEF PagesOf
    <3> QED BY <1>5, <3>2, <3>3, <3>5, <3>6
  <2>2. CASE ~(o < nextObj)
    <3>1. o \notin {ho, to, 3}
      <4>1. ho < nextObj /\ to < nextObj
        BY <1>0, <1>1, AreaFacts
      <4> QED BY <1>2, <2>2, <4>1
    <3> QED BY <1>0, <1>2, <3>1
  <2> QED BY <2>1, <2>2
<1> QED BY <1>0, <1>7, <1>8

(* The exit of a process. *)
LEMMA ExitInv ==
  ASSUME IInv, NEW p \in Procs, Exit(p)
  PROVE  IInv'
<1> DEFINE ho == top[p]["heap"]
           to == top[p]["text"]
<1>1. Exited(p, ho, to)
  BY ExitFacts
<1>2. RefsMatchHolders' /\ refs' \in [Obj -> Nat]
  BY <1>1, ExitRefs
<1>3. ho = top[p]["heap"] /\ to = top[p]["text"] /\ "heap" \in Private /\ "text" \in Private
  BY DEF Private
<1> HIDE DEF ho, to
<1>4. /\ status[p] = "live" /\ req[p] = Nil /\ ho \in Obj /\ ho > 3 /\ to \in Obj /\ to > 3
      /\ status' = [status EXCEPT ![p] = "dead"] /\ page'[ho] = Nil /\ page'[to] = Nil
      /\ page' \in [Obj -> Page \cup {Nil}]
      /\ \A x \in Obj \ {ho, to} : page'[x] = page[x]
      /\ top' = top /\ shadowed' = shadowed /\ nextObj' = nextObj /\ footprint' = footprint
      /\ req' = req /\ disk' = disk /\ unsaved' = unsaved /\ cpu' = cpu
      /\ pte' \in [Procs -> [Areas -> PageTableEntry \cup {Nil}]]
      /\ \A q \in Procs, j \in Areas : pte'[q][j] \in {Nil, pte[q][j]}
      /\ \A j \in Areas : pte'[p][j] = Nil
  BY <1>1 DEF Exited, objects
<1>5. /\ status \in [Procs -> {"unused", "live", "dead"}]
      /\ status' \in [Procs -> {"unused", "live", "dead"}]
      /\ status'[p] = "dead" /\ \A q \in Procs : q # p => status'[q] = status[q]
  BY <1>4 DEF IInv, MemoryTypeOK
<1>6. MemoryTypeOK'
  BY <1>2, <1>4, <1>5 DEF IInv, MemoryTypeOK
<1>7. ShadowsOlder'
  <2>1. \A x \in Obj : page[x] = Nil => page'[x] = Nil
    BY <1>4
  <2> QED BY <1>4, <2>1 DEF IInv, ShadowsOlder
<1>8. TopsOK'
  <2>1. \A q \in Procs : status'[q] # "unused" => status[q] # "unused"
    BY <1>4, <1>5
  <2> QED BY <1>4, <2>1 DEF IInv, TopsOK
<1>9. ASSUME NEW q \in Procs, status[q] # "unused", q # p, NEW j \in Private
      PROVE  top[q][j] \notin {ho, to} /\ top[q][j] \in Obj
  <2>1. top[q][j] \in Obj
    BY <1>9, AreaFacts, MemoryFacts
  <2> QED BY <1>3, <1>4, <1>9, <2>1, AreasApart, MemoryFacts
<1>10. ASSUME NEW q \in Procs, NEW j \in Areas, pte'[q][j] # Nil
       PROVE  /\ pte'[q][j] = pte[q][j] /\ q # p /\ status[q] = "live"
              /\ pte[q][j].obj \in Obj \ {ho, to} /\ page[pte[q][j].obj] # Nil
  <2>1. pte'[q][j] = pte[q][j] /\ q # p
    BY <1>4, <1>10
  <2>2. /\ status[q] = "live" /\ pte[q][j].obj \in Obj /\ page[pte[q][j].obj] # Nil
    BY <1>10, <2>1, EntryFacts
  <2>3. pte[q][j].obj \notin {ho, to}
    BY <1>3, <1>4, <1>10, <2>1, EntryFacts
  <2> QED BY <2>1, <2>2, <2>3
<1>11. PteResident'
  <2>1. ASSUME NEW q \in Procs, NEW j \in Areas, pte'[q][j] # Nil PROVE page'[pte'[q][j].obj] # Nil
    BY <1>4, <1>10, <2>1
  <2> QED BY <2>1 DEF PteResident
<1>12. PteOfChain'
  <2>1. ASSUME NEW q \in Procs, NEW j \in Areas, pte'[q][j] # Nil
        PROVE  /\ status'[q] = "live"
               /\ \/ pte'[q][j].obj = top[q][j]
                  \/ ~pte'[q][j].write /\ \E x \in Obj : shadowed[x] = pte'[q][j].obj
    <3>1. pte'[q][j] = pte[q][j] /\ q # p
      BY <1>10, <2>1
    <3> QED BY <1>5, <2>1, <3>1 DEF IInv, PteOfChain
  <2> QED BY <1>4, <2>1 DEF PteOfChain
<1>13. ASSUME NEW q \in Procs
       PROVE  /\ Awaits(q)' = Awaits(q) /\ (Reading(q)' <=> Reading(q)) /\ (Cleaning(q)' <=> Cleaning(q))
              /\ req[q] # Nil => q # p /\ status[q] = "live" /\ status'[q] = "live"
              /\ Awaits(q) # 0 => q # p /\ status[q] = "live"
  <2>1. Awaits(q)' = Awaits(q) /\ (Reading(q)' <=> Reading(q)) /\ (Cleaning(q)' <=> Cleaning(q))
    BY <1>4 DEF Awaits, Reading, Cleaning
  <2>2. req[q] # Nil => status[q] = "live"
    BY DEF IInv, BlockedRelyOn
  <2>3. req[q] # Nil => q # p /\ status'[q] = "live"
    BY <1>4, <1>5, <2>2
  <2>4. Awaits(q) # 0 => req[q] # Nil
    BY DEF Awaits, Reading, Cleaning
  <2> QED BY <2>1, <2>2, <2>3, <2>4
<1>14. BlockedRelyOn'
  <2> SUFFICES ASSUME NEW q \in Procs
               PROVE  /\ req[q] # Nil => status'[q] = "live"
                      /\ Awaits(q) # 0 =>
                           /\ Awaits(q) \in {2, 3} /\ page'[Awaits(q)] # Nil /\ page'[Awaits(q)].busy
                           /\ \A u \in Procs : Awaits(u) = Awaits(q) => u = q
                      /\ Awaits(q) = 2 =>
                           /\ pte'[q]["text"] = Nil
                           /\ IF req[q].kind = "copy"
                              THEN page'[top[q]["text"]] # Nil /\ page'[top[q]["text"]].busy
                              ELSE page'[top[q]["text"]] = Nil
    BY <1>4, <1>13 DEF BlockedRelyOn, FileObjs, TextObj, ShmObj
  <2>1. Awaits(q) # 0 =>
          /\ Awaits(q) \in {2, 3} /\ page[Awaits(q)] # Nil /\ page[Awaits(q)].busy
          /\ \A u \in Procs : Awaits(u) = Awaits(q) => u = q
    BY DEF IInv, BlockedRelyOn, FileObjs, TextObj, ShmObj
  <2>2. Awaits(q) = 2 =>
          /\ pte[q]["text"] = Nil
          /\ IF req[q].kind = "copy"
             THEN page[top[q]["text"]] # Nil /\ page[top[q]["text"]].busy
             ELSE page[top[q]["text"]] = Nil
    BY DEF IInv, BlockedRelyOn, TextObj
  <2>3. page'[2] = page[2] /\ page'[3] = page[3]
    BY <1>4, MemoryFacts
  <2>4. Awaits(q) = 2 => page'[top[q]["text"]] = page[top[q]["text"]] /\ pte'[q]["text"] \in {Nil, pte[q]["text"]}
    <3> SUFFICES ASSUME Awaits(q) = 2
                 PROVE  page'[top[q]["text"]] = page[top[q]["text"]] /\ pte'[q]["text"] \in {Nil, pte[q]["text"]}
      OBVIOUS
    <3>1. top[q]["text"] \notin {ho, to} /\ top[q]["text"] \in Obj
      BY <1>3, <1>9, <1>13
    <3> QED BY <1>4, <3>1, MemoryFacts
  <2> QED BY <1>13, <2>1, <2>2, <2>3, <2>4
<1>15. BusyOwned'
  <2> SUFFICES ASSUME NEW o \in Obj, page'[o] # Nil, page'[o].busy
               PROVE  \E q \in Procs : \/ Awaits(q) # 0 /\ o = Awaits(q)
                                       \/ Awaits(q) = TextObj /\ o = top[q]["text"]
    BY <1>4, <1>13 DEF BusyOwned, TextObj
  <2>1. page'[o] = page[o]
    BY <1>4
  <2> QED BY <2>1 DEF IInv, BusyOwned
<1>16. DeadHoldNothing'
  <2>1. ASSUME NEW q \in Procs, NEW k \in Private, status'[q] = "dead" PROVE page'[top[q][k]] = Nil
    <3>1. CASE q = p
      BY <1>3, <1>4, <3>1 DEF Private
    <3>2. CASE q # p
      <4>1. status[q] = "dead"
        BY <1>5, <2>1, <3>2
      <4>2. page[top[q][k]] = Nil
        BY <4>1 DEF IInv, DeadHoldNothing
      <4>3. top[q][k] \in Obj \ {ho, to}
        BY <1>9, <3>2, <4>1
      <4> QED BY <1>4, <4>2, <4>3
    <3> QED BY <3>1, <3>2
  <2> QED BY <1>4, <2>1 DEF DeadHoldNothing
<1>17. page'[3] = page[3]
  BY <1>4, MemoryFacts
<1>18. SharedPageSaved'
  <2>1. \A o \in Obj \ {3} : page'[o] # Nil => ~page'[o].dirty
    BY <1>4 DEF IInv, SharedPageSaved, ShmObj
  <2>2. page[3] # Nil /\ page[3].busy =>
          /\ ~page[3].dirty
          /\ \A q \in Procs : ~unsaved =>
               /\ Reading(q) /\ req[q].k = "shm" => disk = page[3].data
               /\ Cleaning(q) => req[q].val = page[3].data
    BY DEF IInv, SharedPageSaved, ShmObj
  <2>3. page'[3] # Nil /\ page'[3].busy =>
          /\ ~page'[3].dirty
          /\ \A q \in Procs : ~unsaved' =>
               /\ Reading(q)' /\ req'[q].k = "shm" => disk' = page'[3].data
               /\ Cleaning(q)' => req'[q].val = page'[3].data
    BY <1>4, <1>13, <1>17, <2>2
  <2> QED BY <2>1, <2>3 DEF SharedPageSaved, ShmObj
<1>19. CleanMeansSaved'
  BY <1>4, <1>17 DEF IInv, CleanMeansSaved, ShmObj
<1>20. FreshData'
  <2>1. ASSUME NEW q \in Procs, NEW k \in Private, pte'[q][k] # Nil
        PROVE  /\ page'[FirstOf(shadowed, page')[top[q][k]]] # Nil
               /\ page'[top[q][k]] = Nil => pte'[q][k].obj = FirstOf(shadowed, page')[top[q][k]]
    <3> DEFINE s == FirstOf(shadowed, page)[top[q][k]]
    <3>0. /\ pte'[q][k] = pte[q][k] /\ q # p /\ status[q] = "live" /\ k \in Areas
          /\ pte[q][k].obj \in Obj \ {ho, to}
      BY <1>10, <2>1, MemoryFacts
    <3>1. page[s] # Nil /\ (page[top[q][k]] = Nil => pte[q][k].obj = s)
      BY <2>1, <3>0 DEF IInv, FreshData
    <3>2. s \in Obj \ {ho, to}
      <4>1. s \in Obj
        BY <3>0, LookupFacts
      <4>2. s # ho /\ s # to
        BY <1>3, <1>4, <3>0, LookupFacts
      <4> QED BY <4>1, <4>2
    <3>3. FirstOf(shadowed, page')[top[q][k]] = s
      <4>1. top[q][k] \in Obj \ {ho, to}
        BY <1>9, <3>0
      <4>2. \A x \in Obj : shadowed[x] # ho /\ shadowed[x] # to
        BY <1>3, <1>4, AreaFacts, MemoryFacts
      <4>3. SameAbove(shadowed, page, page', top[q][k])
        BY <1>4, <4>1, <4>2 DEF SameAbove
      <4> QED BY <4>1, <4>3, InvShadows, FirstSame
    <3>4. page'[top[q][k]] = page[top[q][k]]
      BY <1>4, <1>9, <3>0
    <3> HIDE DEF s
    <3> QED BY <1>4, <3>0, <3>1, <3>2, <3>3, <3>4
  <2>2. page'[1] # Nil => page'[1].data = 0
    <3>1. page'[1] = page[1]
      BY <1>4, MemoryFacts
    <3> QED BY <3>1 DEF IInv, FreshData, AnonObj
  <2> QED BY <1>4, <2>1, <2>2 DEF FreshData, AnonObj
<1> QED BY <1>2, <1>6, <1>7, <1>8, <1>11, <1>12, <1>14, <1>15, <1>16, <1>18, <1>19, <1>20 DEF IInv

(* The first process has been loaded. *)
LEMMA InitInv ==
  ASSUME Init
  PROVE  IInv
<1>0. /\ FirstProc \in Procs /\ MaxObj \in Nat /\ MaxObj >= 5 /\ {1, 2, 3, 4, 5} \subseteq Obj
      /\ 0 \in Values /\ \A x \in Obj : x \in Nat /\ x >= 1 /\ x <= MaxObj
  BY MemoryFacts
<1>1. /\ status = [p \in Procs |-> IF p = FirstProc THEN "live" ELSE "unused"]
      /\ top = [p \in Procs |-> [k \in Areas |-> CASE k = "heap" -> 4 [] k = "text" -> 5 [] k = "shm" -> 3]]
      /\ shadowed = [o \in Obj |-> CASE o = 4 -> 1 [] o = 5 -> 2 [] OTHER -> 0]
      /\ refs = [o \in Obj |-> CASE o = 3 -> 2 [] o = 2 -> 2 [] o \in {1, 4, 5} -> 1 [] OTHER -> 0]
      /\ page = [o \in Obj |-> Nil]
      /\ nextObj = 6
      /\ pte = [p \in Procs |-> [k \in Areas |-> Nil]]
      /\ req = [p \in Procs |-> Nil]
      /\ disk = 0 /\ unsaved = FALSE /\ cpu = "ok" /\ footprint \in Footprints
  BY DEF Init, AnonObj, TextObj, ShmObj
<1>2. /\ \A k \in Areas : k = "heap" \/ k = "text" \/ k = "shm"
      /\ \A k \in Private : k = "heap" \/ k = "text"
      /\ "heap" \in Areas /\ "text" \in Areas /\ "shm" \in Areas
      /\ "heap" \in Private /\ "text" \in Private /\ Private \subseteq Areas
  BY DEF Areas, Private
<1>3. \A p \in Procs : /\ top[p]["heap"] = 4 /\ top[p]["text"] = 5 /\ top[p]["shm"] = 3
                       /\ top[p] \in [Areas -> Obj]
                       /\ \A k \in Areas : pte[p][k] = Nil
                       /\ req[p] = Nil
                       /\ status[p] # "unused" <=> p = FirstProc
                       /\ status[p] \in {"unused", "live"}
  <2> TAKE p \in Procs
  <2>1. top[p] = [k \in Areas |-> CASE k = "heap" -> 4 [] k = "text" -> 5 [] k = "shm" -> 3]
    BY <1>1
  <2>2. top[p]["heap"] = 4 /\ top[p]["text"] = 5 /\ top[p]["shm"] = 3
    BY <1>2, <2>1
  <2>3. top[p] \in [Areas -> Obj]
    <3>1. \A k \in Areas : (CASE k = "heap" -> 4 [] k = "text" -> 5 [] k = "shm" -> 3) \in Obj
      BY <1>0, <1>2
    <3> QED BY <2>1, <3>1
  <2>4. \A k \in Areas : pte[p][k] = Nil
    BY <1>1
  <2>5. req[p] = Nil
    BY <1>1
  <2>6. (status[p] # "unused" <=> p = FirstProc) /\ status[p] \in {"unused", "live"}
    BY <1>1
  <2> QED BY <2>2, <2>3, <2>4, <2>5, <2>6
<1>4. /\ shadowed[1] = 0 /\ shadowed[2] = 0 /\ shadowed[3] = 0 /\ shadowed[4] = 1 /\ shadowed[5] = 2
      /\ \A x \in Obj : x \notin {4, 5} => shadowed[x] = 0
      /\ \A x \in Obj : page[x] = Nil
      /\ refs[1] = 1 /\ refs[2] = 2 /\ refs[3] = 2 /\ refs[4] = 1 /\ refs[5] = 1
  BY <1>0, <1>1
<1>5. MemoryTypeOK
  <2>1. shadowed \in [Obj -> 0 .. MaxObj]
    <3>1. \A x \in Obj : shadowed[x] \in 0 .. MaxObj
      <4>1. 0 \in 0 .. MaxObj /\ 1 \in 0 .. MaxObj /\ 2 \in 0 .. MaxObj
        BY <1>0
      <4> QED BY <1>4, <4>1
    <3> QED BY <1>1, <3>1
  <2>2. refs \in [Obj -> Nat]
    BY <1>1
  <2>3. top \in [Procs -> [Areas -> Obj]]
    <3>1. DOMAIN top = Procs /\ top = [p \in Procs |-> top[p]]
      BY <1>1
    <3> QED BY <1>3, <3>1
  <2>4. /\ pte \in [Procs -> [Areas -> PageTableEntry \cup {Nil}]]
        /\ req \in [Procs -> Requests \cup CleanReqs \cup {Nil, SyncReq}]
        /\ page \in [Obj -> Page \cup {Nil}]
        /\ status \in [Procs -> {"unused", "live", "dead"}]
    BY <1>1
  <2>5. nextObj \in 6 .. MaxObj + 1
    BY <1>0, <1>1
  <2> QED BY <1>0, <1>1, <2>1, <2>2, <2>3, <2>4, <2>5 DEF MemoryTypeOK
<1>6. ShadowsOlder
  <2> SUFFICES ASSUME NEW x \in Obj
               PROVE  /\ shadowed[x] < x /\ shadowed[x] # 3
                      /\ shadowed[x] = 0 <=> (x <= 3 \/ x >= 6)
                      /\ x >= 6 => page[x] = Nil
    BY <1>1 DEF ShadowsOlder, ShmObj
  <2>1. CASE x = 4
    BY <1>4, <2>1
  <2>2. CASE x = 5
    BY <1>4, <2>2
  <2>3. CASE x \notin {4, 5}
    <3>1. x \in Nat /\ x >= 1
      BY <1>0
    <3>2. shadowed[x] = 0 /\ page[x] = Nil
      BY <1>4, <2>3
    <3> QED BY <2>3, <3>1, <3>2
  <2> QED BY <2>1, <2>2, <2>3
<1>7. Shadows(shadowed)
  BY <1>5, <1>6 DEF MemoryTypeOK, ShadowsOlder, Shadows
<1>8. TopsOK
  <2>1. LastOf(shadowed, 4) = 1 /\ LastOf(shadowed, 5) = 2
    <3>1. LastOf(shadowed, 1) = 1 /\ LastOf(shadowed, 2) = 2
      BY <1>0, <1>4, <1>7, LastFacts
    <3>2. LastOf(shadowed, 4) = LastOf(shadowed, 1)
      BY <1>0, <1>4, <1>7, LastFacts
    <3>3. LastOf(shadowed, 5) = LastOf(shadowed, 2)
      BY <1>0, <1>4, <1>7, LastFacts
    <3> QED BY <3>1, <3>2, <3>3
  <2>2. AreaBottom("heap") = 1 /\ AreaBottom("text") = 2
    BY DEF AreaBottom, AnonObj, TextObj
  <2>3. \A x \in Obj : shadowed[x] # 4 /\ shadowed[x] # 5
    BY <1>4
  <2>4. ASSUME NEW p \in Procs, status[p] # "unused"
        PROVE  /\ top[p]["shm"] = 3
               /\ \A k \in Private :
                    /\ top[p][k] \in 4 .. 5
                    /\ LastOf(shadowed, top[p][k]) = AreaBottom(k)
                    /\ \A x \in Obj : shadowed[x] # top[p][k]
                    /\ \A q \in Procs, j \in Private :
                         (status[q] # "unused" /\ top[q][j] = top[p][k]) => q = p /\ j = k
    <3>1. \A k \in Private : /\ top[p][k] \in 4 .. 5
                             /\ LastOf(shadowed, top[p][k]) = AreaBottom(k)
                             /\ \A x \in Obj : shadowed[x] # top[p][k]
      BY <1>2, <1>3, <2>1, <2>2, <2>3
    <3>2. ASSUME NEW k \in Private, NEW q \in Procs, NEW j \in Private,
                 status[q] # "unused", top[q][j] = top[p][k]
          PROVE  q = p /\ j = k
      BY <1>2, <1>3, <2>4, <3>2
    <3> QED BY <1>3, <3>1, <3>2
  <2>5. nextObj - 1 = 5 /\ ShmObj = 3
    BY <1>1 DEF ShmObj
  <2>6. TopsOK <=> \A p \in Procs : status[p] # "unused" =>
            /\ top[p]["shm"] = 3
            /\ \A k \in Private :
                 /\ top[p][k] \in 4 .. 5
                 /\ LastOf(shadowed, top[p][k]) = AreaBottom(k)
                 /\ \A x \in Obj : shadowed[x] # top[p][k]
                 /\ \A q \in Procs, j \in Private :
                      (status[q] # "unused" /\ top[q][j] = top[p][k]) => q = p /\ j = k
    BY <2>5 DEF TopsOK
  <2> QED BY <2>4, <2>6
<1>9. RefsMatchHolders
  <2> SUFFICES ASSUME NEW o \in 1 .. 5
               PROVE  refs[o] = Cardinality(AreasOn(o)) + Cardinality(ShadowsOf(o)) + PagesOf(o)
                                + (IF o \in FileObjs THEN 1 ELSE 0)
    BY <1>1 DEF RefsMatchHolders
  <2>1. o = 1 \/ o = 2 \/ o = 3 \/ o = 4 \/ o = 5
    OBVIOUS
  <2>2. PagesOf(o) = 0
    BY <1>0, <1>4, <2>1 DEF PagesOf
  <2>3. Live = {FirstProc}
    BY <1>0, <1>1 DEF Live
  <2>4. AreasOn(o) = IF o = 4 THEN {<<FirstProc, "heap">>}
                     ELSE IF o = 5 THEN {<<FirstProc, "text">>}
                     ELSE IF o = 3 THEN {<<FirstProc, "shm">>} ELSE {}
    <3>1. \A a : a \in AreasOn(o) <=>
             \E k \in Areas : a = <<FirstProc, k>> /\ top[FirstProc][k] = o
      BY <2>3 DEF AreasOn
    <3> QED BY <1>0, <1>2, <1>3, <2>1, <3>1
  <2>5. ShadowsOf(o) = IF o = 1 THEN {4} ELSE IF o = 2 THEN {5} ELSE {}
    BY <1>0, <1>4, <2>1 DEF ShadowsOf
  <2>6. /\ Cardinality({}) = 0 /\ Cardinality({4}) = 1 /\ Cardinality({5}) = 1
        /\ \A k \in Areas : Cardinality({<<FirstProc, k>>}) = 1
    BY FS_EmptySet, FS_Singleton
  <2>7. o \in FileObjs <=> o = 2 \/ o = 3
    BY DEF FileObjs, TextObj, ShmObj
  <2>8. CASE o = 1
    BY <1>4, <2>2, <2>4, <2>5, <2>6, <2>7, <2>8
  <2>9. CASE o = 2
    BY <1>4, <2>2, <2>4, <2>5, <2>6, <2>7, <2>9
  <2>10. CASE o = 3
    BY <1>2, <1>4, <2>2, <2>4, <2>5, <2>6, <2>7, <2>10
  <2>11. CASE o = 4
    BY <1>2, <1>4, <2>2, <2>4, <2>5, <2>6, <2>7, <2>11
  <2>12. CASE o = 5
    BY <1>2, <1>4, <2>2, <2>4, <2>5, <2>6, <2>7, <2>12
  <2> QED BY <2>1, <2>8, <2>9, <2>10, <2>11, <2>12
<1>10. PteResident /\ PteOfChain
  BY <1>3 DEF PteResident, PteOfChain
<1>11. BlockedRelyOn
  <2>1. \A p \in Procs : req[p] = Nil /\ Awaits(p) = 0
    BY <1>3 DEF Awaits, Reading, Cleaning
  <2> QED BY <2>1 DEF BlockedRelyOn, TextObj
<1>12. BusyOwned /\ DeadHoldNothing
  BY <1>3, <1>4 DEF BusyOwned, DeadHoldNothing
<1>13. SharedPageSaved /\ CleanMeansSaved
  <2>1. page[ShmObj] = Nil
    BY <1>0, <1>4 DEF ShmObj
  <2> QED BY <1>4, <2>1 DEF SharedPageSaved, CleanMeansSaved
<1>14. FreshData
  <2>1. page[AnonObj] = Nil
    BY <1>0, <1>4 DEF AnonObj
  <2>2. \A p \in Procs, k \in Private : pte[p][k] = Nil
    BY <1>2, <1>3
  <2> QED BY <2>1, <2>2 DEF FreshData
<1> QED BY <1>5, <1>6, <1>8, <1>9, <1>10, <1>11, <1>12, <1>13, <1>14 DEF IInv

(* Every step keeps the invariant. *)
LEMMA NextInv ==
  ASSUME IInv, [Next]_vars
  PROVE  IInv'
<1>1. CASE UNCHANGED vars
  <2>1. /\ UNCHANGED <<status, page, refs, pte, req, disk, unsaved, cpu>> /\ UNCHANGED objects
    BY <1>1 DEF vars, objects
  <2>2. cpu' \in {"ok", "hung", "nomem"}
    BY <2>1, TypeFacts
  <2> QED BY <2>1, <2>2, StopInv
<1>2. ASSUME NEW p \in Procs, NEW r \in Requests, Access(p, r) PROVE IInv'
  BY <1>2, AccessInv
<1>3. ASSUME NEW p \in Procs, FillDone(p) PROVE IInv'
  BY <1>3, FillDoneInv
<1>4. ASSUME NEW p \in Procs, NEW k \in Areas, NEW v \in Values, UserWrite(p, k, v) PROVE IInv'
  BY <1>4, UserWriteInv
<1>5. ASSUME NEW p \in Procs, NEW c \in Procs, do_fork(p, c) PROVE IInv'
  BY <1>5, ForkInv
<1>6. ASSUME NEW p \in Procs, Exit(p) PROVE IInv'
  BY <1>6, ExitInv
<1>7. ASSUME NEW p \in Procs, SyncSleeps(p) \/ SyncCleans(p) \/ CleanDone(p) \/ SyncReturns(p)
      PROVE  IInv'
  BY <1>7, SyncSleepsInv, SyncCleansInv, CleanDoneInv, SyncReturnsInv
<1>8. CASE Stopped
  BY <1>1, <1>8 DEF Stopped
<1> QED BY <1>1, <1>2, <1>3, <1>4, <1>5, <1>6, <1>7, <1>8 DEF Next

(* The processes that keep a page from others, by the page they wait for. *)
LEMMA KeepsFacts ==
  ASSUME IInv, NEW p \in Procs, NEW o \in Obj
  PROVE  Keeps(p, o) <=> \/ Awaits(p) # 0 /\ o = Awaits(p)
                         \/ Awaits(p) = TextObj /\ o = top[p]["text"]
<1>1. CASE Reading(p)
  <2>1. /\ req[p].k \in Areas /\ Awaits(p) = AreaBottom(req[p].k) /\ Awaits(p) # 0
        /\ req[p].k \in {"text", "shm"} /\ ~Cleaning(p) /\ status[p] # "unused"
    BY <1>1, RequestFacts
  <2>2. Bottom(top[p][req[p].k]) = Awaits(p)
    BY <2>1, AreaFacts
  <2>3. CASE req[p].k = "text"
    <3>1. Awaits(p) = TextObj
      BY <2>1, <2>3, AreaFacts DEF TextObj
    <3> QED BY <1>1, <2>1, <2>2, <2>3, <3>1 DEF Keeps
  <2>4. CASE req[p].k = "shm"
    <3>1. Awaits(p) = 3 /\ top[p][req[p].k] = 3
      BY <2>1, <2>4, AreaFacts
    <3>2. Awaits(p) # TextObj
      BY <3>1 DEF TextObj
    <3> QED BY <1>1, <2>1, <2>2, <3>1, <3>2 DEF Keeps
  <2> QED BY <2>1, <2>3, <2>4
<1>2. CASE Cleaning(p)
  <2>1. ~Reading(p) /\ Awaits(p) = ShmObj
    BY <1>2, RequestFacts
  <2> QED BY <1>2, <2>1 DEF Keeps, ShmObj, TextObj
<1>3. CASE ~Reading(p) /\ ~Cleaning(p)
  <2>1. Awaits(p) = 0
    BY <1>3, RequestFacts
  <2> QED BY <1>3, <2>1 DEF Keeps, TextObj
<1> QED BY <1>1, <1>2, <1>3

(* A page has at most one process that keeps it from the others. *)
LEMMA OneKeeper ==
  ASSUME IInv, NEW p \in Procs, NEW q \in Procs, NEW o \in Obj, Keeps(p, o), Keeps(q, o)
  PROVE  q = p
<1>1. \A x \in Procs : Awaits(x) = TextObj => status[x] # "unused" /\ top[x]["text"] > 3 /\ top[x]["text"] \in Nat
  <2> SUFFICES ASSUME NEW x \in Procs, Awaits(x) = TextObj
               PROVE  status[x] # "unused" /\ top[x]["text"] > 3 /\ top[x]["text"] \in Nat
    OBVIOUS
  <2>1. status[x] # "unused"
    BY RequestFacts
  <2>2. "text" \in Areas /\ "text" \in Private
    BY DEF Areas, Private
  <2> QED BY <2>1, <2>2, AreaFacts, MemoryFacts
<1>2. \A x \in Procs : Awaits(x) # 0 => Awaits(x) = 2 \/ Awaits(x) = 3
  BY DEF IInv, BlockedRelyOn, FileObjs, TextObj, ShmObj
<1>3. CASE Awaits(p) # 0 /\ o = Awaits(p)
  <2>1. o = 2 \/ o = 3
    BY <1>2, <1>3
  <2>2. ~(Awaits(q) = TextObj /\ o = top[q]["text"])
    BY <1>1, <2>1
  <2>3. Awaits(q) = Awaits(p)
    BY <1>3, <2>2, KeepsFacts
  <2> QED BY <1>3, <2>3 DEF IInv, BlockedRelyOn
<1>4. CASE Awaits(p) = TextObj /\ o = top[p]["text"]
  <2>1. o > 3 /\ o \in Nat
    BY <1>1, <1>4
  <2>2. ~(Awaits(q) # 0 /\ o = Awaits(q))
    BY <1>2, <2>1
  <2>3. Awaits(q) = TextObj
    BY <2>2, KeepsFacts
  <2>4. Awaits(p) # 0
    BY <1>4 DEF TextObj
  <2> QED BY <1>4, <2>3, <2>4 DEF IInv, BlockedRelyOn
<1> QED BY <1>3, <1>4, KeepsFacts

(* A writable private page is the area's own, and nobody else's. *)
LEMMA OwnWritable ==
  ASSUME IInv
  PROVE  WritableIsOwn
<1> SUFFICES ASSUME NEW p \in Live, NEW k \in Private, pte[p][k] # Nil, pte[p][k].write
             PROVE  /\ pte[p][k].obj = top[p][k]
                    /\ \A q \in Live \ {p} : top[p][k] \notin Chain(top[q][k])
  BY DEF WritableIsOwn
<1>1. p \in Procs /\ status[p] # "unused" /\ k \in Areas
  BY MemoryFacts DEF Live
<1>2. pte[p][k].obj = top[p][k]
  BY <1>1, EntryFacts
<1>3. ASSUME NEW q \in Live \ {p}, top[p][k] \in Chain(top[q][k]) PROVE FALSE
  <2>1. q \in Procs /\ status[q] # "unused"
    BY DEF Live
  <2>2. top[q][k] \in Obj
    BY <1>1, <2>1, AreaFacts
  <2>3. top[p][k] \in DownOf(shadowed)[top[q][k]]
    BY <1>3, ChainOps
  <2>4. top[p][k] = top[q][k] \/ \E x \in Obj : shadowed[x] = top[p][k]
    BY <2>2, <2>3, DownShadowed, InvShadows
  <2>5. \A x \in Obj : shadowed[x] # top[p][k]
    BY <1>1, AreaFacts
  <2> QED BY <1>1, <2>1, <2>4, <2>5, AreasApart
<1> QED BY <1>2, <1>3

(* The inductive invariant is at least MemoryInv. *)
LEMMA InvImplies ==
  ASSUME IInv
  PROVE  MemoryInv
<1>1. BusyHasOwner
  <2> SUFFICES ASSUME NEW o \in Obj, page[o] # Nil, page[o].busy
               PROVE  Cardinality({p \in Procs : Keeps(p, o)}) = 1
    BY DEF BusyHasOwner
  <2>1. PICK p \in Procs : \/ Awaits(p) # 0 /\ o = Awaits(p)
                           \/ Awaits(p) = TextObj /\ o = top[p]["text"]
    BY DEF IInv, BusyOwned
  <2>2. Keeps(p, o)
    BY <2>1, KeepsFacts
  <2>3. {q \in Procs : Keeps(q, o)} = {p}
    BY <2>2, OneKeeper
  <2> QED BY <2>3, FS_Singleton
<1>2. TopsApart
  <2> SUFFICES ASSUME NEW p \in Used
               PROVE  /\ top[p]["shm"] = ShmObj
                      /\ \A k \in Private :
                           /\ top[p][k] \in 4 .. nextObj - 1
                           /\ Bottom(top[p][k]) = AreaBottom(k)
                           /\ \A x \in Obj : shadowed[x] # top[p][k]
                           /\ \A q \in Used, j \in Private : top[q][j] = top[p][k] => q = p /\ j = k
    BY DEF TopsApart
  <2>1. p \in Procs /\ status[p] # "unused"
    BY DEF Used
  <2>2. \A k \in Private : Bottom(top[p][k]) = AreaBottom(k)
    BY <2>1, AreaFacts, MemoryFacts
  <2>3. \A k \in Private, q \in Used, j \in Private : top[q][j] = top[p][k] => q = p /\ j = k
    BY <2>1 DEF IInv, TopsOK, Used
  <2> QED BY <2>1, <2>2, <2>3 DEF IInv, TopsOK
<1>3. DataFresh
  <2>1. \A p \in Procs, k \in Private :
           Source(page, top[p][k]) = FirstOf(shadowed, page)[top[p][k]]
    BY ChainOps
  <2> QED BY <2>1 DEF IInv, FreshData, DataFresh
<1> QED BY <1>1, <1>2, <1>3, OwnWritable DEF IInv, MemoryInv

(* Reference counts are the numbers of holders, a page that can be written is
   its process's alone, no page table shows a frame that was given back and
   every busy page has one process that will release it, through any number of
   forks, exits, page faults, copies and syncs (shadow.c, pagefault.c, fork.c,
   pframe.c). *)
THEOREM MemoryConsistent == Spec => []MemoryInv
<1>1. Init => IInv
  BY InitInv
<1>2. IInv /\ [Next]_vars => IInv'
  BY NextInv
<1>3. IInv => MemoryInv
  BY InvImplies
<1> QED BY <1>1, <1>2, <1>3, PTL DEF Spec

(* A clean page of the shared file is what the disk holds, failed writes of
   pframe_clean included, unless a user program has written to it since or the
   read that brought it in has failed, of which nobody takes notice. *)
THEOREM CleanIsSaved == Spec => []CleanMeansSaved
<1>1. Init => IInv
  BY InitInv
<1>2. IInv /\ [Next]_vars => IInv'
  BY NextInv
<1>3. IInv => CleanMeansSaved
  BY DEF IInv
<1> QED BY <1>1, <1>2, <1>3, PTL DEF Spec

-----------------------------------------------------------------------------
(***************************************************************************)
(* Refinement.  What a process finds in a private area is its own object's *)
(* page, unless that is still being copied, and else what the objects      *)
(* below have, when that is not being read.                                *)
(***************************************************************************)
LoadedOf(pg, x) == IF pg[x] = Nil \/ pg[x].busy THEN Nil ELSE pg[x].data

Under(sh, pg, o) == LoadedOf(pg, FirstOf(sh, pg)[sh[o]])

Seen(sh, pg, o) == IF LoadedOf(pg, o) # Nil THEN LoadedOf(pg, o) ELSE Under(sh, pg, o)

(* What a page table entry e lets a program do when a look-up finds x. *)
Shows(e, x) ==
  CASE e = Nil -> "none"
    [] e # Nil /\ e.write -> "write"
    [] OTHER -> IF e.obj = x THEN "read" ELSE "stale"

(* The mapped variables of PrivateMemory. *)
Mem == [p \in Procs |-> [k \in Private |-> Contents(p, k)]]
Sight == [p \in Procs |-> [k \in Private |-> View(p, k)]]
Shared == IF page[ShmObj] = Nil THEN disk ELSE page[ShmObj].data

(* The mapping in terms of look-ups. *)
LEMMA MappedNow ==
  \A q \in Procs, j \in Private :
    /\ Contents(q, j) = IF status[q] = "live" THEN Seen(shadowed, page, top[q][j]) ELSE Nil
    /\ View(q, j) = Shows(pte[q][j], FirstOf(shadowed, page)[top[q][j]])
<1> SUFFICES ASSUME NEW q \in Procs, NEW j \in Private
             PROVE  /\ Contents(q, j) = IF status[q] = "live" THEN Seen(shadowed, page, top[q][j]) ELSE Nil
                    /\ View(q, j) = Shows(pte[q][j], FirstOf(shadowed, page)[top[q][j]])
  OBVIOUS
<1> DEFINE o == top[q][j]
<1>1. /\ Source(page, o) = FirstOf(shadowed, page)[o]
      /\ Source(page, shadowed[o]) = FirstOf(shadowed, page)[shadowed[o]]
  BY ChainOps
<1>2. \A x : Loaded(x) = LoadedOf(page, x)
  BY DEF Loaded, LoadedOf
<1>3. Contents(q, j) = IF status[q] = "live" THEN Seen(shadowed, page, o) ELSE Nil
  BY <1>1, <1>2 DEF Contents, Seen, Under
<1>4. View(q, j) = Shows(pte[q][j], FirstOf(shadowed, page)[o])
  BY <1>1 DEF View, Shows
<1> QED BY <1>3, <1>4

(* After a step. *)
LEMMA MappedNext ==
  (\A q \in Procs, j \in Private :
    /\ Contents(q, j) = IF status[q] = "live" THEN Seen(shadowed, page, top[q][j]) ELSE Nil
    /\ View(q, j) = Shows(pte[q][j], FirstOf(shadowed, page)[top[q][j]]))'
BY MappedNow, PTL

(* Contents and views by process and area. *)
LEMMA MappedFacts ==
  /\ Mem = [q \in Procs |-> [j \in Private |-> Mem[q][j]]]
  /\ Mem' = [q \in Procs |-> [j \in Private |-> Mem'[q][j]]]
  /\ Sight = [q \in Procs |-> [j \in Private |-> Sight[q][j]]]
  /\ Sight' = [q \in Procs |-> [j \in Private |-> Sight'[q][j]]]
  /\ \A q \in Procs, j \in Private :
       /\ Mem[q][j] = IF status[q] = "live" THEN Seen(shadowed, page, top[q][j]) ELSE Nil
       /\ Mem'[q][j] = IF status'[q] = "live" THEN Seen(shadowed', page', top'[q][j]) ELSE Nil
       /\ Sight[q][j] = Shows(pte[q][j], FirstOf(shadowed, page)[top[q][j]])
       /\ Sight'[q][j] = Shows(pte'[q][j], FirstOf(shadowed', page')[top'[q][j]])
<1>1. /\ Mem = [q \in Procs |-> [j \in Private |-> Mem[q][j]]]
      /\ Mem' = [q \in Procs |-> [j \in Private |-> Mem'[q][j]]]
  BY DEF Mem
<1>2. /\ Sight = [q \in Procs |-> [j \in Private |-> Sight[q][j]]]
      /\ Sight' = [q \in Procs |-> [j \in Private |-> Sight'[q][j]]]
  BY DEF Sight
<1>3. ASSUME NEW q \in Procs, NEW j \in Private
      PROVE  /\ Mem[q][j] = Contents(q, j) /\ Mem'[q][j] = Contents(q, j)'
             /\ Sight[q][j] = View(q, j) /\ Sight'[q][j] = View(q, j)'
  BY DEF Mem, Sight
<1> QED BY <1>1, <1>2, <1>3, MappedNow, MappedNext

(* What a page offers is a value, or Nil. *)
LEMMA LoadedFacts ==
  ASSUME IInv, NEW pg \in [Obj -> Page \cup {Nil}], NEW x \in Obj
  PROVE  /\ LoadedOf(pg, x) \in Values \cup {Nil} /\ Nil \notin Values
         /\ LoadedOf(pg, x) = Nil <=> pg[x] = Nil \/ pg[x].busy
         /\ LoadedOf(pg, x) # Nil => LoadedOf(pg, x) = pg[x].data
<1>1. pg[x] # Nil => pg[x].data \in Values
  BY DEF Page
<1> QED BY <1>1, NilAssumption DEF LoadedOf

(* A look-up from below a private object ends at the bottom object, or at a
   page that is not busy. *)
LEMMA UnderFinds ==
  ASSUME IInv, NEW q \in Procs, status[q] # "unused", NEW j \in Private
  PROVE  LET f == FirstOf(shadowed, page)[shadowed[top[q][j]]]
         IN /\ f \in Obj
            /\ shadowed[f] = 0 => f = AreaBottom(j)
            /\ \E x \in Obj : shadowed[x] = f
            /\ f # AreaBottom(j) => LoadedOf(page, f) # Nil
<1> DEFINE o == top[q][j]
           b == AreaBottom(j)
           f == FirstOf(shadowed, page)[shadowed[o]]
<1>0. j \in Areas /\ Shadows(shadowed)
  BY InvShadows, MemoryFacts
<1>1. o \in Obj /\ shadowed[o] \in Obj /\ shadowed[o] # 0 /\ b \in Obj
  BY <1>0, AreaFacts
<1>2. LastOf(shadowed, shadowed[o]) = b
  BY <1>0, <1>1, LastFacts DEF IInv, TopsOK
<1>3. /\ f \in Obj
      /\ shadowed[f] = 0 => f = b
      /\ f = shadowed[o] \/ \E x \in Obj : shadowed[x] = f
      /\ page[f] # Nil \/ f = b
  BY <1>0, <1>1, <1>2, FirstFinds
<1>4. \E x \in Obj : shadowed[x] = f
  BY <1>1, <1>3
<1>5. ASSUME f # b, page[f].busy PROVE FALSE
  <2>1. PICK p \in Procs : \/ Awaits(p) # 0 /\ f = Awaits(p)
                           \/ Awaits(p) = TextObj /\ f = top[p]["text"]
    BY <1>3, <1>5 DEF IInv, BusyOwned
  <2>2. CASE Awaits(p) # 0 /\ f = Awaits(p)
    <3>1. f \in {2, 3}
      BY <2>2 DEF IInv, BlockedRelyOn, FileObjs, TextObj, ShmObj
    <3>2. shadowed[f] = 0
      BY <1>3, <3>1 DEF IInv, ShadowsOlder
    <3> QED BY <1>3, <1>5, <3>2
  <2>3. CASE Awaits(p) = TextObj /\ f = top[p]["text"]
    <3>1. status[p] # "unused" /\ "text" \in Private
      BY <2>3, RequestFacts DEF Private, TextObj
    <3>2. \A x \in Obj : shadowed[x] # f
      BY <2>3, <3>1, AreaFacts, MemoryFacts
    <3> QED BY <1>4, <3>2
  <2> QED BY <2>1, <2>2, <2>3
<1>6. f # b => LoadedOf(page, f) # Nil
  BY <1>3, <1>5, LoadedFacts, TypeFacts
<1> QED BY <1>3, <1>4, <1>6

(* What the objects under a private area's have in the pages pg, which differ
   only at bottom objects and at objects that nothing shadows: the same as in
   page, or what the bottom object has got. *)
LEMMA UnderStep ==
  ASSUME IInv, NEW q \in Procs, status[q] # "unused", NEW j \in Private, NEW pg,
         NEW C, \A x \in Obj \ C : pg[x] = page[x],
         \A x \in Obj \cap C : shadowed[x] = 0 \/ \A z \in Obj : shadowed[z] # x,
         LoadedOf(page, AreaBottom(j)) # Nil =>
           LoadedOf(pg, AreaBottom(j)) = LoadedOf(page, AreaBottom(j))
  PROVE  LET o == top[q][j]
             b == AreaBottom(j)
             u == Under(shadowed, page, o)
         IN /\ FirstOf(shadowed, pg)[shadowed[o]] = FirstOf(shadowed, page)[shadowed[o]]
            /\ Under(shadowed, pg, o) = IF u = Nil THEN LoadedOf(pg, b) ELSE u
            /\ u = Nil => LoadedOf(page, b) = Nil
<1> DEFINE o == top[q][j]
           b == AreaBottom(j)
           f == FirstOf(shadowed, page)[shadowed[o]]
           g == FirstOf(shadowed, pg)[shadowed[o]]
           u == Under(shadowed, page, o)
<1>0. j \in Areas /\ Shadows(shadowed)
  BY InvShadows, MemoryFacts
<1>1. o \in Obj /\ shadowed[o] \in Obj
  BY <1>0, AreaFacts
<1>2. SameAbove(shadowed, page, pg, shadowed[o])
  <2> SUFFICES ASSUME NEW z \in Obj, shadowed[z] # 0, z = shadowed[o] \/ \E x \in Obj : shadowed[x] = z
               PROVE  page[z] = Nil <=> pg[z] = Nil
    BY DEF SameAbove
  <2>1. \E x \in Obj : shadowed[x] = z
    BY <1>1
  <2> QED BY <2>1
<1>3. f = g
  BY <1>0, <1>1, <1>2, FirstSame
<1>4. /\ f \in Obj
      /\ shadowed[f] = 0 => f = b
      /\ \E x \in Obj : shadowed[x] = f
      /\ f # b => LoadedOf(page, f) # Nil
  BY UnderFinds
<1>5. u = LoadedOf(page, f) /\ Under(shadowed, pg, o) = LoadedOf(pg, f)
  BY <1>3 DEF Under
<1>6. f # b => LoadedOf(pg, f) = LoadedOf(page, f)
  <2> SUFFICES ASSUME f # b PROVE LoadedOf(pg, f) = LoadedOf(page, f)
    OBVIOUS
  <2>1. pg[f] = page[f]
    BY <1>4
  <2> QED BY <2>1 DEF LoadedOf
<1> HIDE DEF o, b, f, g, u
<1>7. /\ Under(shadowed, pg, o) = IF u = Nil THEN LoadedOf(pg, b) ELSE u
      /\ u = Nil => LoadedOf(page, b) = Nil
  BY <1>4, <1>5, <1>6 DEF b
<1> QED BY <1>3, <1>7 DEF o, b, f, g, u

(* The same for an area whose own page has not changed. *)
LEMMA SeenStep ==
  ASSUME IInv, NEW q \in Procs, status[q] # "unused", NEW j \in Private, NEW pg,
         NEW C, \A x \in Obj \ C : pg[x] = page[x],
         \A x \in Obj \cap C : shadowed[x] = 0 \/ \A z \in Obj : shadowed[z] # x,
         LoadedOf(page, AreaBottom(j)) # Nil =>
           LoadedOf(pg, AreaBottom(j)) = LoadedOf(page, AreaBottom(j)),
         top[q][j] \notin C
  PROVE  LET o == top[q][j]
             b == AreaBottom(j)
             u == Seen(shadowed, page, o)
         IN /\ FirstOf(shadowed, pg)[o] = FirstOf(shadowed, page)[o]
            /\ Seen(shadowed, pg, o) = IF u = Nil THEN LoadedOf(pg, b) ELSE u
            /\ u = Nil => LoadedOf(page, b) = Nil
<1> DEFINE o == top[q][j]
           b == AreaBottom(j)
           f == FirstOf(shadowed, page)[shadowed[o]]
           u == Under(shadowed, page, o)
<1>1. o \in Obj /\ pg[o] = page[o]
  BY AreaFacts, MemoryFacts
<1>2. LoadedOf(pg, o) = LoadedOf(page, o)
  BY <1>1 DEF LoadedOf
<1>3. /\ FirstOf(shadowed, pg)[shadowed[o]] = f
      /\ Under(shadowed, pg, o) = IF u = Nil THEN LoadedOf(pg, b) ELSE u
      /\ u = Nil => LoadedOf(page, b) = Nil
  BY UnderStep
<1>4. /\ page[o] # Nil => FirstOf(shadowed, page)[o] = o
      /\ page[o] = Nil => FirstOf(shadowed, page)[o] = f
      /\ pg[o] # Nil => FirstOf(shadowed, pg)[o] = o
      /\ pg[o] = Nil => FirstOf(shadowed, pg)[o] = FirstOf(shadowed, pg)[shadowed[o]]
  BY LookupFacts
<1>5. FirstOf(shadowed, pg)[o] = FirstOf(shadowed, page)[o]
  BY <1>1, <1>3, <1>4
<1> QED BY <1>2, <1>3, <1>5 DEF Seen

(* What a step does to the area of a process whose own page and page table
   entry it leaves alone. *)
LEMMA AreaLeft ==
  ASSUME IInv, IInv', status' = status, UNCHANGED objects, NEW q \in Procs, NEW j \in Private,
         NEW C, \A x \in Obj \ C : page'[x] = page[x],
         \A x \in Obj \cap C : shadowed[x] = 0 \/ \A z \in Obj : shadowed[z] # x,
         LoadedOf(page, AreaBottom(j)) # Nil =>
           LoadedOf(page', AreaBottom(j)) = LoadedOf(page, AreaBottom(j)),
         status[q] = "live" => top[q][j] \notin C,
         pte'[q][j] = pte[q][j]
  PROVE  /\ Mem'[q][j] = IF status[q] = "live" /\ Mem[q][j] = Nil
                         THEN LoadedOf(page', AreaBottom(j)) ELSE Mem[q][j]
         /\ status[q] = "live" /\ Mem[q][j] = Nil => LoadedOf(page, AreaBottom(j)) = Nil
         /\ Sight'[q][j] = Sight[q][j]
<1>0. shadowed' = shadowed /\ top' = top
  BY DEF objects
<1>1. CASE status[q] = "live"
  <2> DEFINE o == top[q][j]
             b == AreaBottom(j)
             u == Seen(shadowed, page, o)
  <2>1. /\ FirstOf(shadowed, page')[o] = FirstOf(shadowed, page)[o]
        /\ Seen(shadowed, page', o) = IF u = Nil THEN LoadedOf(page', b) ELSE u
        /\ u = Nil => LoadedOf(page, b) = Nil
    BY <1>1, SeenStep
  <2>2. Mem[q][j] = u /\ Mem'[q][j] = Seen(shadowed, page', o)
    BY <1>0, <1>1, MappedFacts
  <2>3. Sight'[q][j] = Sight[q][j]
    BY <1>0, <2>1, MappedFacts
  <2> QED BY <1>1, <2>1, <2>2, <2>3
<1>2. CASE status[q] # "live"
  <2>1. Mem[q][j] = Nil /\ Mem'[q][j] = Nil
    BY <1>2, MappedFacts
  <2>2. pte[q][j] = Nil
    BY <1>2, MemoryFacts DEF IInv, PteOfChain
  <2>3. Sight'[q][j] = Sight[q][j]
    BY <2>2, MappedFacts DEF Shows
  <2> QED BY <1>2, <2>1, <2>3
<1> QED BY <1>1, <1>2

(* What everybody finds in the shared area is a value. *)
LEMMA SharedType ==
  IInv => Shared \in Values
<1> SUFFICES ASSUME IInv PROVE Shared \in Values
  OBVIOUS
<1>1. page \in [Obj -> Page \cup {Nil}] /\ disk \in Values /\ ShmObj \in Obj
  BY MemoryFacts DEF IInv, MemoryTypeOK, ShmObj
<1> QED BY <1>1 DEF Shared, Page

(* After a step. *)
LEMMA SharedNext == (IInv => Shared \in Values)'
BY SharedType, PTL

(* A step that leaves the private areas alone. *)
LEMMA QuietStep ==
  ASSUME IInv, IInv', Mem' = Mem, Sight' = Sight, status' = status
  PROVE  PM!WriteShared
<1>1. Shared' \in Values /\ Live' = Live
  BY SharedNext DEF Live
<1> QED BY <1>1 DEF PM!WriteShared, Mem, Sight, Shared

(* Pages of the shared file say nothing about private areas. *)
LEMMA SharedStep ==
  ASSUME IInv, IInv', status' = status, UNCHANGED objects,
         \A x \in Obj \ {3} : page'[x] = page[x],
         \A q \in Procs, j \in Private : pte'[q][j] = pte[q][j]
  PROVE  PM!WriteShared
<1> DEFINE C == {3}
<1>1. /\ \A x \in Obj \cap C : shadowed[x] = 0
      /\ \A x \in Obj \ C : page'[x] = page[x]
  BY MemoryFacts DEF IInv, ShadowsOlder
<1>2. ASSUME NEW q \in Procs, NEW j \in Private
      PROVE  Mem'[q][j] = Mem[q][j] /\ Sight'[q][j] = Sight[q][j]
  <2> DEFINE b == AreaBottom(j)
  <2>1. b \in Obj /\ b # 3
    BY MemoryFacts DEF AreaBottom, Private, AnonObj, TextObj
  <2>2. page'[b] = page[b]
    BY <2>1
  <2>3. LoadedOf(page', b) = LoadedOf(page, b)
    BY <2>2 DEF LoadedOf
  <2>4. status[q] = "live" => top[q][j] \notin C
    BY AreaFacts, MemoryFacts
  <2>5. /\ Mem'[q][j] = IF status[q] = "live" /\ Mem[q][j] = Nil
                        THEN LoadedOf(page', b) ELSE Mem[q][j]
        /\ status[q] = "live" /\ Mem[q][j] = Nil => LoadedOf(page, b) = Nil
        /\ Sight'[q][j] = Sight[q][j]
    <3> HIDE DEF C
    <3> QED BY <1>1, <2>3, <2>4, AreaLeft
  <2> HIDE DEF b
  <2> QED BY <2>3, <2>5
<1>3. Mem' = Mem /\ Sight' = Sight
  BY <1>2, MappedFacts
<1> QED BY <1>3, QuietStep

(* What a step of process p on its private area k does to all others, when the
   page of the bottom object stays or is what has been read. *)
LEMMA OneArea ==
  ASSUME IInv, IInv', status' = status, UNCHANGED objects, disk' = disk,
         NEW p \in Procs, status[p] = "live", NEW k \in Private,
         \A x \in Obj \ {top[p][k], AreaBottom(k)} : page'[x] = page[x],
         LoadedOf(page, AreaBottom(k)) # Nil =>
           LoadedOf(page', AreaBottom(k)) = LoadedOf(page, AreaBottom(k)),
         \A q \in Procs, j \in Private : (q # p \/ j # k) => pte'[q][j] = pte[q][j]
  PROVE  LET v == LoadedOf(page', AreaBottom(k))
         IN /\ \A q \in Procs, j \in Private : (q # p \/ j # k) =>
                 /\ Mem'[q][j] = IF j = k /\ q \in Live /\ Mem[q][j] = Nil THEN v ELSE Mem[q][j]
                 /\ Sight'[q][j] = Sight[q][j]
            /\ v \in Loads(k) \cup {Nil}
            /\ Shared' = Shared /\ Live' = Live /\ p \in Live
<1> DEFINE o == top[p][k]
           b == AreaBottom(k)
           C == {o, b}
           v == LoadedOf(page', b)
<1>1. /\ o \in Obj /\ o > 3 /\ b \in Obj /\ b \in {1, 2} /\ shadowed[b] = 0
      /\ \A x \in Obj : shadowed[x] # o
      /\ k = "heap" => b = 1
  BY AreaFacts, MemoryFacts
<1>2. /\ \A x \in Obj \ C : page'[x] = page[x]
      /\ \A x \in Obj \cap C : shadowed[x] = 0 \/ \A z \in Obj : shadowed[z] # x
  BY <1>1
<1>3. ASSUME NEW q \in Procs, NEW j \in Private, q # p \/ j # k
      PROVE  /\ Mem'[q][j] = IF j = k /\ q \in Live /\ Mem[q][j] = Nil THEN v ELSE Mem[q][j]
             /\ Sight'[q][j] = Sight[q][j]
  <2> DEFINE bb == AreaBottom(j)
  <2>1. bb \in Obj /\ bb \in {1, 2} /\ (j # k => bb # b)
    BY MemoryFacts DEF AreaBottom, Private, AnonObj, TextObj
  <2>2. j # k => LoadedOf(page', bb) = LoadedOf(page, bb)
    <3> SUFFICES ASSUME j # k PROVE LoadedOf(page', bb) = LoadedOf(page, bb)
      OBVIOUS
    <3>1. page'[bb] = page[bb]
      BY <1>1, <2>1
    <3> QED BY <3>1 DEF LoadedOf
  <2>3. status[q] = "live" => top[q][j] \notin C
    <3> SUFFICES ASSUME status[q] = "live" PROVE top[q][j] \notin C
      OBVIOUS
    <3>1. j \in Areas /\ top[q][j] > 3 /\ top[q][j] \in Nat
      BY AreaFacts, MemoryFacts
    <3>2. top[q][j] # o
      BY <1>3, <3>1, AreasApart
    <3> QED BY <1>1, <3>1, <3>2
  <2>4. LoadedOf(page, bb) # Nil => LoadedOf(page', bb) = LoadedOf(page, bb)
    BY <2>2
  <2>5. pte'[q][j] = pte[q][j]
    BY <1>3
  <2>6. /\ Mem'[q][j] = IF status[q] = "live" /\ Mem[q][j] = Nil
                        THEN LoadedOf(page', bb) ELSE Mem[q][j]
        /\ status[q] = "live" /\ Mem[q][j] = Nil => LoadedOf(page, bb) = Nil
        /\ Sight'[q][j] = Sight[q][j]
    <3> HIDE DEF C
    <3> QED BY <1>2, <2>3, <2>4, <2>5, AreaLeft
  <2>7. q \in Live <=> status[q] = "live"
    BY DEF Live
  <2>8. j = k => LoadedOf(page', bb) = v
    OBVIOUS
  <2> HIDE DEF bb, v
  <2> QED BY <2>2, <2>6, <2>7, <2>8
<1>4. v \in Loads(k) \cup {Nil}
  <2>1. page' \in [Obj -> Page \cup {Nil}]
    BY DEF IInv, MemoryTypeOK
  <2>2. /\ v \in Values \cup {Nil}
        /\ v # Nil => page'[b] # Nil /\ v = page'[b].data
    BY <1>1, <2>1, LoadedFacts DEF LoadedOf
  <2>3. k = "heap" /\ page'[b] # Nil => page'[b].data = 0
    BY <1>1 DEF IInv, FreshData, AnonObj
  <2> HIDE DEF v
  <2> QED BY <2>2, <2>3 DEF Loads
<1>5. Shared' = Shared
  <2>1. 3 \in Obj /\ 3 \notin C
    BY <1>1, MemoryFacts
  <2>2. page'[3] = page[3]
    BY <1>2, <2>1
  <2> QED BY <2>2 DEF Shared, ShmObj
<1>6. Live' = Live /\ p \in Live
  BY DEF Live
<1> QED BY <1>3, <1>4, <1>5, <1>6

(* A step that leaves the content of the area as it was, or as it was read,
   and after which the program sees it, is a fault. *)
LEMMA FaultStep ==
  ASSUME NEW p \in Procs, NEW k \in Private, NEW v \in Loads(k) \cup {Nil},
         \A q \in Procs, j \in Private : (q # p \/ j # k) =>
           /\ Mem'[q][j] = IF j = k /\ q \in Live /\ Mem[q][j] = Nil THEN v ELSE Mem[q][j]
           /\ Sight'[q][j] = Sight[q][j],
         Shared' = Shared, Live' = Live, p \in Live,
         Mem'[p][k] = IF Mem[p][k] = Nil THEN v ELSE Mem[p][k],
         Mem'[p][k] # Nil, Sight'[p][k] \in {"read", "write"}
  PROVE  PM!Fault(p)
<1> DEFINE R == [q \in Procs |-> [j \in Private |->
                   IF j = k /\ q \in Live /\ Mem[q][j] = Nil THEN v ELSE Mem[q][j]]]
<1>1. Mem' = R
  <2>1. ASSUME NEW q \in Procs, NEW j \in Private PROVE Mem'[q][j] = R[q][j]
    BY <2>1
  <2> HIDE DEF R
  <2>2. R = [q \in Procs |-> [j \in Private |-> R[q][j]]]
    BY DEF R
  <2> QED BY <2>1, <2>2, MappedFacts
<1>2. Sight' = [Sight EXCEPT ![p][k] = Sight'[p][k]]
  BY MappedFacts
<1>3. PM!Read(k, v) = R
  BY DEF PM!Read, Mem
<1> HIDE DEF R
<1>4. \E w \in {"read", "write"} : Sight' = [Sight EXCEPT ![p][k] = w]
  BY <1>2
<1>5. Mem' = PM!Read(k, v)
  BY <1>1, <1>3
<1> QED BY <1>4, <1>5 DEF PM!Fault, Mem, Sight, Shared

(* A step after which the area holds some value, and the program sees no other
   page than before, is a copy. *)
LEMMA CopyStep ==
  ASSUME NEW p \in Procs, NEW k \in Private, NEW v \in Loads(k) \cup {Nil},
         \A q \in Procs, j \in Private : (q # p \/ j # k) =>
           /\ Mem'[q][j] = IF j = k /\ q \in Live /\ Mem[q][j] = Nil THEN v ELSE Mem[q][j]
           /\ Sight'[q][j] = Sight[q][j],
         Shared' = Shared, Live' = Live, p \in Live, Mem'[p][k] \in Values,
         \/ Sight'[p][k] = Sight[p][k]
         \/ Sight[p][k] = "read" /\ Sight'[p][k] = "stale"
  PROVE  PM!Copy(p)
<1> DEFINE R == [q \in Procs |-> [j \in Private |->
                   IF j = k /\ q \in Live /\ Mem[q][j] = Nil THEN v ELSE Mem[q][j]]]
           w == Mem'[p][k]
<1>1. Mem' = [R EXCEPT ![p][k] = w]
  <2>1. \A q \in Procs, j \in Private : (q # p \/ j # k) => Mem'[q][j] = R[q][j]
    OBVIOUS
  <2> HIDE DEF R
  <2>2. R = [q \in Procs |-> [j \in Private |-> R[q][j]]]
    BY DEF R
  <2> QED BY <2>1, <2>2, MappedFacts
<1>2. \/ Sight' = Sight
      \/ Sight[p][k] = "read" /\ Sight' = [Sight EXCEPT ![p][k] = "stale"]
  <2>1. CASE Sight'[p][k] = Sight[p][k]
    <3>1. \A q \in Procs, j \in Private : Sight'[q][j] = Sight[q][j]
      BY <2>1
    <3> QED BY <3>1, MappedFacts
  <2>2. CASE Sight[p][k] = "read" /\ Sight'[p][k] = "stale"
    BY <2>2, MappedFacts
  <2> QED BY <2>1, <2>2
<1>3. PM!Read(k, v) = R
  BY DEF PM!Read, Mem
<1> HIDE DEF R, w
<1>4. Mem' = [PM!Read(k, v) EXCEPT ![p][k] = Mem'[p][k]] /\ Mem'[p][k] \in Values
  BY <1>1, <1>3 DEF w
<1> QED BY <1>2, <1>4 DEF PM!Copy, Mem, Sight, Shared

(* The end of a fault or a copy in a private area, from a memory m in which the
   page it looks for is resident. *)
LEMMA FinishRefines ==
  ASSUME IInv, IInv', status' = status, UNCHANGED objects, disk' = disk,
         NEW p \in Procs, status[p] = "live", NEW r \in Requests, r.k \in Private,
         NEW m \in Memories, m.pte = pte,
         \A x \in Obj \ {top[p][r.k], AreaBottom(r.k)} : m.page[x] = page[x],
         LoadedOf(page, AreaBottom(r.k)) # Nil =>
           LoadedOf(m.page, AreaBottom(r.k)) = LoadedOf(page, AreaBottom(r.k)),
         \/ /\ m.page[top[p][r.k]] = page[top[p][r.k]]
            /\ page[top[p][r.k]] = Nil \/ ~page[top[p][r.k]].busy
         \/ /\ m.page[top[p][r.k]] = Nil /\ pte[p][r.k] = Nil
            /\ page[top[p][r.k]] # Nil /\ page[top[p][r.k]].busy,
         m.page[FirstOf(shadowed, m.page)[top[p][r.k]]] # Nil,
         ~m.page[FirstOf(shadowed, m.page)[top[p][r.k]]].busy,
         SetMemory(Finished(m, p, r))
  PROVE  PM!Fault(p) \/ PM!Copy(p)
<1> DEFINE k == r.k
           o == top[p][k]
           b == AreaBottom(k)
           C == {o, b}
           f == FirstOf(shadowed, page)[shadowed[o]]
           s == FirstOf(shadowed, m.page)[o]
           u == Under(shadowed, page, o)
           n == Finished(m, p, r)
           v == LoadedOf(page', b)
           c == LoadedOf(m.page, s)
<1>1. /\ o \in Obj /\ o > 3 /\ b \in Obj /\ b \in {1, 2} /\ shadowed[b] = 0 /\ o # b
      /\ \A x \in Obj : shadowed[x] # o
      /\ r.kind \in {"fault", "copy"} /\ r.write \in BOOLEAN
  BY AreaFacts, MemoryFacts DEF Requests
<1>2. /\ Outcome(m, n, p, r, o, s) /\ page' = n.page /\ pte' = n.pte
      /\ m.page \in [Obj -> Page \cup {Nil}] /\ n.page \in [Obj -> Page \cup {Nil}]
      /\ n.pte \in [Procs -> [Areas -> PageTableEntry \cup {Nil}]]
  <2>1. Outcome(m, n, p, r, o, s)
    BY FinishedOutcome
  <2>2. n \in Memories
    BY <2>1 DEF Outcome
  <2> QED BY <2>1, <2>2 DEF SetMemory, Memories
<1>3. /\ s \in Obj
      /\ m.page[o] # Nil => s = o
      /\ m.page[o] = Nil => s = FirstOf(shadowed, m.page)[shadowed[o]]
  BY LookupFacts
<1>4. /\ FirstOf(shadowed, m.page)[shadowed[o]] = f
      /\ Under(shadowed, m.page, o) = IF u = Nil THEN LoadedOf(m.page, b) ELSE u
  <2>1. /\ \A x \in Obj \ C : m.page[x] = page[x]
        /\ \A x \in Obj \cap C : shadowed[x] = 0 \/ \A z \in Obj : shadowed[z] # x
        /\ LoadedOf(page, b) # Nil => LoadedOf(m.page, b) = LoadedOf(page, b)
    BY <1>1
  <2>2. PICK pg : pg = m.page
    OBVIOUS
  <2>3. PICK D : D = C
    OBVIOUS
  <2> HIDE DEF C
  <2>4. /\ \A x \in Obj \ D : pg[x] = page[x]
        /\ \A x \in Obj \cap D : shadowed[x] = 0 \/ \A z \in Obj : shadowed[z] # x
        /\ LoadedOf(page, b) # Nil => LoadedOf(pg, b) = LoadedOf(page, b)
    BY <2>1, <2>2, <2>3
  <2>5. /\ FirstOf(shadowed, pg)[shadowed[o]] = f
        /\ Under(shadowed, pg, o) = IF u = Nil THEN LoadedOf(pg, b) ELSE u
    <3>1. p \in Procs /\ status[p] # "unused" /\ k \in Private
      OBVIOUS
    <3> HIDE DEF k
    <3> QED BY ONLY IInv, <2>4, <3>1, UnderStep
  <2> QED BY <2>2, <2>5
<1>5. LoadedOf(m.page, o) = LoadedOf(page, o)
  BY DEF LoadedOf
<1>6. page'[b] = m.page[b] /\ \A x \in Obj : x # o => page'[x] = m.page[x]
  BY <1>1, <1>2 DEF Outcome
<1>7. v = LoadedOf(m.page, b)
  BY <1>6 DEF LoadedOf
<1>8. Mem[p][k] = IF LoadedOf(page, o) # Nil THEN LoadedOf(page, o) ELSE u
  BY MappedFacts DEF Seen
<1>9. c # Nil /\ c = m.page[s].data
  BY <1>2, <1>3, LoadedFacts
<1>10. Seen(shadowed, m.page, o) = c
  BY <1>3, <1>9 DEF Seen, Under, LoadedOf
<1>11. c = IF Mem[p][k] = Nil THEN v ELSE Mem[p][k]
  <2>1. Seen(shadowed, m.page, o) = IF LoadedOf(page, o) # Nil THEN LoadedOf(page, o)
                                    ELSE IF u = Nil THEN v ELSE u
    BY <1>4, <1>5, <1>7 DEF Seen
  <2> HIDE DEF c, v, u
  <2> QED BY <1>8, <1>10, <2>1
<1>12. /\ \A q \in Procs, j \in Private : (q # p \/ j # k) =>
            /\ Mem'[q][j] = IF j = k /\ q \in Live /\ Mem[q][j] = Nil THEN v ELSE Mem[q][j]
            /\ Sight'[q][j] = Sight[q][j]
       /\ v \in Loads(k) \cup {Nil}
       /\ Shared' = Shared /\ Live' = Live /\ p \in Live
  <2>1. \A x \in Obj \ {o, b} : page'[x] = page[x]
    BY <1>6
  <2>2. LoadedOf(page, b) # Nil => LoadedOf(page', b) = LoadedOf(page, b)
    BY <1>7
  <2>3. \A q \in Procs, j \in Private : (q # p \/ j # k) => pte'[q][j] = pte[q][j]
    BY <1>2, MemoryFacts DEF Outcome
  <2> QED BY <2>1, <2>2, <2>3, OneArea
<1>13. /\ Mem'[p][k] = Seen(shadowed, page', o)
       /\ Sight'[p][k] = Shows(pte'[p][k], FirstOf(shadowed, page')[o])
       /\ Sight[p][k] = Shows(pte[p][k], FirstOf(shadowed, page)[o])
  BY MappedFacts DEF objects
<1>14. CASE r.kind = "fault" /\ ~r.write
  <2>1. page' = m.page
    <3>1. \A x \in Obj : page'[x] = m.page[x]
      BY <1>2, <1>6, <1>14 DEF Outcome
    <3> QED BY <1>2, <3>1
  <2>2. pte'[p][k] = [obj |-> s, write |-> FALSE]
    <3>1. r.write = FALSE
      BY <1>1, <1>14
    <3>2. pte'[p][k] = [obj |-> IF r.write THEN o ELSE s, write |-> r.write]
      BY <1>2, <1>14 DEF Outcome
    <3> QED BY <3>1, <3>2
  <2>3. [obj |-> s, write |-> FALSE] # Nil
    <3> HIDE DEF s
    <3>1. [obj |-> s, write |-> FALSE] \in PageTableEntry
      BY <1>3 DEF PageTableEntry
    <3> QED BY <3>1, NilAssumption
  <2>4. Sight'[p][k] = "read"
    BY <1>13, <2>1, <2>2, <2>3 DEF Shows
  <2>5. Mem'[p][k] = c
    BY <1>10, <1>13, <2>1
  <2> HIDE DEF v, c, k
  <2>6. PM!Fault(p)
    BY <1>9, <1>11, <1>12, <2>4, <2>5, FaultStep DEF k
  <2> QED BY <2>6
<1>15. ASSUME ~(r.kind = "fault" /\ ~r.write)
       PROVE  /\ page'[o] # Nil /\ ~page'[o].busy /\ page'[o].data \in Values
              /\ Mem'[p][k] = page'[o].data
              /\ FirstOf(shadowed, page')[o] = o
  <2>1. /\ n.page[o] \in Page /\ n.page[o] # Nil
        /\ IF m.page[o] = Nil THEN ~n.page[o].busy ELSE n.page[o].busy = m.page[o].busy
    BY <1>2, <1>15 DEF Outcome
  <2>2. m.page[o] # Nil => ~m.page[o].busy
    OBVIOUS
  <2>3. page'[o] # Nil /\ ~page'[o].busy /\ page'[o].data \in Values
    BY <1>2, <2>1, <2>2 DEF Page
  <2>4. LoadedOf(page', o) = page'[o].data /\ page'[o].data # Nil
    BY <2>3, NilAssumption DEF LoadedOf
  <2>5. FirstOf(shadowed, page')[o] = o
    BY <2>3, LookupFacts
  <2> QED BY <1>13, <2>3, <2>4, <2>5 DEF Seen
<1>16. CASE r.kind = "fault" /\ r.write
  <2>1. pte'[p][k] = [obj |-> o, write |-> TRUE]
    <3>1. r.write = TRUE
      BY <1>1, <1>16
    <3>2. pte'[p][k] = [obj |-> IF r.write THEN o ELSE s, write |-> r.write]
      BY <1>2, <1>16 DEF Outcome
    <3> QED BY <3>1, <3>2
  <2>2. [obj |-> o, write |-> TRUE] # Nil
    <3> HIDE DEF o
    <3>1. [obj |-> o, write |-> TRUE] \in PageTableEntry
      BY <1>1 DEF PageTableEntry
    <3> QED BY <3>1, NilAssumption
  <2>3. Sight'[p][k] = "write"
    BY <1>13, <2>1, <2>2 DEF Shows
  <2>4. page'[o].data = m.page[s].data
    BY <1>2, <1>16 DEF Outcome
  <2>5. Mem'[p][k] = c
    BY <1>9, <1>15, <1>16, <2>4
  <2> HIDE DEF v, c, k
  <2>6. PM!Fault(p)
    BY <1>9, <1>11, <1>12, <2>3, <2>5, FaultStep DEF k
  <2> QED BY <2>6
<1>17. CASE r.kind = "copy"
  <2>1. pte'[p][k] = pte[p][k]
    BY <1>2, <1>17 DEF Outcome
  <2>2. Mem'[p][k] \in Values /\ FirstOf(shadowed, page')[o] = o
    BY <1>15, <1>17
  <2>3. \/ Sight'[p][k] = Sight[p][k]
        \/ Sight[p][k] = "read" /\ Sight'[p][k] = "stale"
    <3>1. CASE page[o] # Nil
      <4>1. FirstOf(shadowed, page)[o] = o
        BY <3>1, LookupFacts
      <4> QED BY <1>13, <2>1, <2>2, <4>1
    <3>2. CASE page[o] = Nil /\ pte[p][k] = Nil
      BY <1>13, <2>1, <3>2 DEF Shows
    <3>3. CASE page[o] = Nil /\ pte[p][k] # Nil
      <4>1. pte[p][k].obj = FirstOf(shadowed, page)[o]
        BY <3>3 DEF IInv, FreshData
      <4>2. FirstOf(shadowed, page)[o] # o
        BY <3>3, LookupFacts
      <4>3. ~pte[p][k].write
        BY <3>3, <4>1, <4>2, EntryFacts, MemoryFacts
      <4> QED BY <1>13, <2>1, <2>2, <3>3, <4>1, <4>2, <4>3 DEF Shows
    <3> QED BY <3>1, <3>2, <3>3
  <2> HIDE DEF v, c, k
  <2>4. PM!Copy(p)
    BY <1>12, <2>2, <2>3, CopyStep DEF k
  <2> QED BY <2>4
<1> QED BY <1>1, <1>14, <1>16, <1>17

(* An access that neither stops the CPU nor blocks. *)
LEMMA AccessFinishesRefines ==
  ASSUME IInv, IInv', NEW p \in Procs, NEW r \in Requests, CanRun(p),
         NEW below, below = (Source(page, top[p][r.k]) = AreaBottom(r.k)),
         ~(below /\ page[AreaBottom(r.k)] # Nil /\ page[AreaBottom(r.k)].busy),
         ~(below /\ AreaBottom(r.k) \in FileObjs /\ page[AreaBottom(r.k)] = Nil),
         SetMemory(Finished(IF below /\ page[AreaBottom(r.k)] = Nil
                            THEN pframe_alloc(Now, AreaBottom(r.k), FillData(AreaBottom(r.k)))
                            ELSE Now, p, r)),
         UNCHANGED <<status, disk>>, UNCHANGED objects
  PROVE  PM!Fault(p) \/ PM!Copy(p) \/ PM!WriteShared
<1> DEFINE k == r.k
           o == top[p][k]
           b == AreaBottom(k)
           m == IF below /\ page[b] = Nil THEN pframe_alloc(Now, b, FillData(b)) ELSE Now
           s == FirstOf(shadowed, page)[o]
<1>0. /\ k \in Areas /\ r.kind \in {"fault", "copy"} /\ r.write \in BOOLEAN
      /\ status[p] = "live" /\ req[p] = Nil /\ Shadows(shadowed) /\ Nil \notin Page
  BY NilAssumption, InvShadows DEF Requests, CanRun
<1>1. /\ o \in Obj /\ b \in Obj /\ b \in {1, 2, 3} /\ shadowed[b] = 0
      /\ k = "shm" => o = 3 /\ b = 3
      /\ k \in Private => o > 3 /\ o # b /\ b # 3
      /\ k = "heap" => b = 1
      /\ k = "text" => b = 2
  BY <1>0, AreaFacts
<1>2. below <=> s = b
  BY ChainOps
<1>4. Awaits(p) = 0
  BY <1>0, RequestFacts
<1>5. Now \in Memories /\ Now.page = page /\ Now.pte = pte
  BY NowFacts
<1>6. SetMemory(Finished(m, p, r))
  OBVIOUS
<1>7. CASE k = "shm"
  <2>1. s = 3 /\ below /\ b = 3 /\ 3 \in FileObjs
    BY <1>0, <1>1, <1>2, <1>7, FirstFacts DEF FileObjs, ShmObj
  <2>2. page[3] # Nil /\ m = Now
    BY <2>1
  <2> DEFINE n == Finished(Now, p, r)
  <2>3. Outcome(Now, n, p, r, 3, 3)
    BY <1>0, <1>1, <1>5, <1>7, <2>1, <2>2, FinishedOutcome
  <2>4. page' = n.page /\ pte' = n.pte
    BY <1>6, <2>2 DEF SetMemory
  <2>5. \A x \in Obj \ {3} : page'[x] = page[x]
    BY <1>5, <2>3, <2>4 DEF Outcome
  <2>6. \A q \in Procs, j \in Private : pte'[q][j] = pte[q][j]
    BY <1>5, <1>7, <2>3, <2>4, MemoryFacts DEF Outcome
  <2> QED BY <2>5, <2>6, SharedStep
<1>8. CASE k \in Private
  <2>0. page[o] = Nil \/ ~page[o].busy
    BY <1>0, <1>4, <1>8, OwnPageFacts
  <2>1. CASE ~(below /\ page[b] = Nil)
    <3>1. m = Now
      BY <2>1
    <3> HIDE DEF m
    <3>2. page[s] # Nil
      BY <1>0, <1>2, <1>8, <2>1, LookupFacts
    <3>3. ~page[s].busy
      <4>1. CASE s = b
        BY <1>2, <3>2, <4>1
      <4>2. CASE s = o
        BY <2>0, <3>2, <4>2
      <4>3. CASE s # b /\ s # o
        <5>1. s = FirstOf(shadowed, page)[shadowed[o]]
          BY <1>0, <1>8, <4>3, LookupFacts
        <5>2. LoadedOf(page, s) # Nil
          BY <1>0, <1>8, <4>3, <5>1, UnderFinds
        <5> QED BY <5>2 DEF LoadedOf
      <4> QED BY <4>1, <4>2, <4>3
    <3>4. PM!Fault(p) \/ PM!Copy(p)
      BY <1>0, <1>5, <1>6, <1>8, <2>0, <3>1, <3>2, <3>3, FinishRefines
    <3> QED BY <3>4
  <2>2. CASE below /\ page[b] = Nil
    <3>1. m = pframe_alloc(Now, b, FillData(b)) /\ FillData(b) \in Values
      BY <1>1, <2>2, FillFacts
    <3> HIDE DEF m
    <3>2. /\ m \in Memories /\ m.pte = pte
          /\ m.page[b] # Nil /\ ~m.page[b].busy
          /\ \A x \in Obj : x # b => m.page[x] = page[x]
      BY <1>1, <1>5, <3>1, AllocFacts
    <3>3. page[o] = Nil /\ m.page[o] = Nil
      <4>1. page[o] # Nil => s = o
        BY <1>0, <1>8, LookupFacts
      <4> QED BY <1>1, <1>2, <1>8, <2>2, <3>2, <4>1
    <3>4. FirstOf(shadowed, m.page)[o] = b
      <4> DEFINE t == FirstOf(shadowed, m.page)[o]
      <4>1. SameAbove(shadowed, page, m.page, o)
        <5> SUFFICES ASSUME NEW z \in Obj, shadowed[z] # 0 PROVE m.page[z] = page[z]
          BY DEF SameAbove
        <5> QED BY <1>1, <3>2
      <4>2. s = t
        BY <1>0, <1>1, <4>1, FirstSame
      <4> QED BY <1>2, <2>2, <4>2
    <3>5. LoadedOf(page, b) = Nil
      BY <2>2 DEF LoadedOf
    <3>6. \A x \in Obj \ {o, b} : m.page[x] = page[x]
      BY <3>2
    <3>7. PM!Fault(p) \/ PM!Copy(p)
      BY <1>0, <1>6, <1>8, <2>0, <3>2, <3>3, <3>4, <3>5, <3>6, FinishRefines
    <3> QED BY <3>7
  <2> QED BY <2>1, <2>2
<1> QED BY <1>0, <1>7, <1>8, MemoryFacts

(* An access that blocks: the page of the file is there, but not yet its
   content. *)
LEMMA AccessBlocksRefines ==
  ASSUME IInv, IInv', NEW p \in Procs, NEW r \in Requests, CanRun(p),
         Source(page, top[p][r.k]) = AreaBottom(r.k), page[AreaBottom(r.k)] = Nil,
         NEW n, NEW early \in BOOLEAN,
         early <=> (/\ r.kind = "copy" /\ page[top[p][r.k]] = Nil
                    /\ top[p][r.k] # AreaBottom(r.k)),
         Filling(n, top[p][r.k], AreaBottom(r.k), FillData(AreaBottom(r.k)), early),
         SetMemory(n), UNCHANGED <<status, disk>>, UNCHANGED objects
  PROVE  PM!WriteShared
<1> DEFINE k == r.k
           o == top[p][k]
           b == AreaBottom(k)
           C == {o, b}
           u == Under(shadowed, page, o)
<1>0. k \in Areas /\ status[p] = "live" /\ shadowed' = shadowed /\ top' = top
  BY DEF Requests, CanRun, objects
<1>1. /\ o \in Obj /\ b \in Obj /\ shadowed[b] = 0
      /\ k = "shm" => o = 3 /\ b = 3
      /\ k \in Private => o # b /\ \A x \in Obj : shadowed[x] # o
  BY <1>0, AreaFacts
<1>2. /\ pte' = pte
      /\ \A x \in Obj \ C : page'[x] = page[x]
      /\ page'[b] # Nil /\ page'[b].busy
      /\ early => page[o] = Nil /\ page'[o] # Nil /\ page'[o].busy
      /\ ~early /\ o # b => page'[o] = page[o]
  BY <1>1 DEF Filling, SetMemory
<1>3. CASE k = "shm"
  BY <1>1, <1>2, <1>3, SharedStep
<1>4. CASE k \in Private
  <2>1. LoadedOf(page, b) = Nil /\ LoadedOf(page', b) = Nil
    BY <1>2 DEF LoadedOf
  <2>2. LoadedOf(page', o) = LoadedOf(page, o)
    BY <1>1, <1>2, <1>4 DEF LoadedOf
  <2>3. \A q \in Procs, j \in Private : (q # p \/ j # k) =>
           Mem'[q][j] = Mem[q][j] /\ Sight'[q][j] = Sight[q][j]
    <3> DEFINE v == LoadedOf(page', b)
    <3>1. \A q \in Procs, j \in Private : (q # p \/ j # k) =>
            /\ Mem'[q][j] = IF j = k /\ q \in Live /\ Mem[q][j] = Nil THEN v ELSE Mem[q][j]
            /\ Sight'[q][j] = Sight[q][j]
      BY <1>0, <1>2, <1>4, <2>1, OneArea
    <3> HIDE DEF v
    <3>2. v = Nil
      BY <2>1 DEF v
    <3> QED BY <3>1, <3>2
  <2>4. Under(shadowed, page', o) = u
    <3>1. /\ \A x \in Obj \cap C : shadowed[x] = 0 \/ \A z \in Obj : shadowed[z] # x
          /\ LoadedOf(page, b) # Nil => LoadedOf(page', b) = LoadedOf(page, b)
          /\ p \in Procs /\ status[p] # "unused" /\ k \in Private
          /\ \A x \in Obj \ C : page'[x] = page[x]
      BY <1>0, <1>1, <1>2, <1>4, <2>1
    <3>2. Under(shadowed, page', o) = IF u = Nil THEN LoadedOf(page', b) ELSE u
      <4> HIDE DEF C, k
      <4> QED BY ONLY IInv, <3>1, UnderStep
    <3> QED BY <2>1, <3>2
  <2>5. Mem'[p][k] = Mem[p][k]
    BY <1>0, <1>4, <2>2, <2>4, MappedFacts DEF Seen
  <2>6. Sight'[p][k] = Sight[p][k]
    <3>1. FirstOf(shadowed, page)[o] = b
      BY ChainOps
    <3>2. pte[p][k] = Nil
      BY <1>4, <3>1 DEF IInv, FreshData
    <3> QED BY <1>2, <1>4, <3>2, MappedFacts DEF Shows
  <2>7. \A q \in Procs, j \in Private : Mem'[q][j] = Mem[q][j] /\ Sight'[q][j] = Sight[q][j]
    BY <2>3, <2>5, <2>6
  <2>8. Mem' = Mem /\ Sight' = Sight
    BY <2>7, MappedFacts
  <2> QED BY <2>8, QuietStep
<1> QED BY <1>0, <1>3, <1>4, MemoryFacts

(* A fault or a copy, up to its end or to where it blocks. *)
LEMMA AccessRefines ==
  ASSUME IInv, IInv', NEW p \in Procs, NEW r \in Requests, Access(p, r)
  PROVE  PM!Fault(p) \/ PM!Copy(p) \/ PM!WriteShared
<1> DEFINE k == r.k
           o == top[p][k]
           b == AreaBottom(k)
           below == Source(page, o) = b
           blocks == below /\ b \in FileObjs /\ page[b] = Nil
           own == (r.kind = "copy" \/ r.write) /\ page[o] = Nil /\ o # b
           early == own /\ r.kind = "copy"
           bottom == IF below /\ page[b] = Nil THEN pframe_alloc(Now, b, FillData(b)) ELSE Now
           filling == WithBusy(bottom, b, TRUE)
           held == IF early THEN WithBusy(pframe_alloc(filling, o, 0), o, TRUE) ELSE filling
<1>0. CanRun(p) /\ status[p] = "live" /\ k \in Areas
  BY DEF Access, CanRun, Requests
<1>1. o \in Obj /\ b \in Obj /\ b \in {1, 2, 3} /\ Bottom(o) = b
  BY <1>0, AreaFacts
<1>2. /\ UNCHANGED <<status, disk>> /\ UNCHANGED objects
      /\ \/ Stop("hung")
         \/ Stop("nomem")
         \/ blocks /\ SetMemory(held)
         \/ /\ ~(below /\ page[b] # Nil /\ page[b].busy)
            /\ ~blocks /\ SetMemory(Finished(bottom, p, r))
  BY <1>1 DEF Access, WithBusy
<1>3. CASE Stop("hung") \/ Stop("nomem")
  <2>1. page' = page /\ pte' = pte
    BY <1>3 DEF Stop
  <2> QED BY <1>2, <2>1, SharedStep
<1>4. CASE blocks /\ SetMemory(held)
  <2>1. held = IF early THEN BusyPage(BusyPage(Now, b, FillData(b)), o, 0)
               ELSE BusyPage(Now, b, FillData(b))
    BY <1>4 DEF BusyPage
  <2>2. FillData(b) \in Values
    BY <1>1, FillFacts
  <2>3. early \in BOOLEAN /\ (early => o # b)
    OBVIOUS
  <2>4. early <=> r.kind = "copy" /\ page[o] = Nil /\ o # b
    OBVIOUS
  <2>5. SetMemory(held) /\ blocks
    BY <1>4
  <2> DEFINE e == early
             h == held
  <2>6. h = IF e THEN BusyPage(BusyPage(Now, b, FillData(b)), o, 0)
               ELSE BusyPage(Now, b, FillData(b))
    BY <2>1
  <2>7. e \in BOOLEAN /\ (e => o # b) /\ (e <=> r.kind = "copy" /\ page[o] = Nil /\ o # b)
    BY <2>3, <2>4
  <2>8. SetMemory(h) /\ Source(page, o) = b /\ page[b] = Nil
    BY <2>5
  <2> HIDE DEF e, h
  <2>9. Filling(h, o, b, FillData(b), e)
    BY <1>1, <2>2, <2>6, <2>7, FillingFacts
  <2> QED BY <1>0, <1>2, <2>7, <2>8, <2>9, AccessBlocksRefines
<1>5. CASE /\ ~(below /\ page[b] # Nil /\ page[b].busy)
           /\ ~blocks /\ SetMemory(Finished(bottom, p, r))
  BY <1>0, <1>2, <1>5, AccessFinishesRefines
<1> QED BY <1>2, <1>3, <1>4, <1>5

(* The disk has answered: what the read has left is what is found from now on. *)
LEMMA FillDoneRefines ==
  ASSUME IInv, IInv', NEW p \in Procs, FillDone(p)
  PROVE  PM!Fault(p) \/ PM!Copy(p) \/ PM!WriteShared
<1> DEFINE r == req[p]
           k == r.k
           o == top[p][k]
           b == AreaBottom(k)
           read(d) == [Now EXCEPT !.page[b].busy = FALSE, !.page[b].data = d]
           start(n) == IF r.kind = "copy" /\ o # b
                       THEN [n EXCEPT !.page[o] = Nil, !.refs[o] = @ - 1] ELSE n
<1>0. Reading(p)
  BY DEF FillDone, Reading
<1>1. /\ r \in Requests /\ k \in Areas /\ Awaits(p) = b /\ k \in {"text", "shm"}
      /\ status[p] = "live" /\ b # 0
  BY <1>0, RequestFacts
<1>2. /\ o \in Obj /\ b \in Obj /\ Bottom(o) = b /\ shadowed[b] = 0
      /\ k = "shm" => o = 3 /\ b = 3
      /\ k = "text" => b = 2 /\ o > 3 /\ o # b
  <2>1. "text" \in Private
    BY DEF Private
  <2> QED BY <1>1, <2>1, AreaFacts
<1>3. /\ UNCHANGED <<status, disk>> /\ UNCHANGED objects
      /\ \/ UNCHANGED <<page, pte>>
         \/ \E d \in Values : SetMemory(Finished(start(read(d)), p, r))
  BY <1>2 DEF FillDone
<1>4. CASE UNCHANGED <<page, pte>>
  BY <1>3, <1>4, SharedStep
<1>5. ASSUME NEW d \in Values, SetMemory(Finished(start(read(d)), p, r))
      PROVE  PM!Fault(p) \/ PM!Copy(p) \/ PM!WriteShared
  <2>3. /\ page[b] # Nil /\ page[b].busy
        /\ b = 2 => /\ pte[p]["text"] = Nil
                    /\ IF r.kind = "copy"
                       THEN page[top[p]["text"]] # Nil /\ page[top[p]["text"]].busy
                       ELSE page[top[p]["text"]] = Nil
    BY <1>1 DEF IInv, BlockedRelyOn, TextObj
  <2>4. Now \in Memories /\ Now.page = page /\ Now.refs = refs /\ Now.pte = pte
    BY NowFacts
  <2> DEFINE f == FALSE
             filled == read(d)
             m == start(filled)
  <2>5. filled = Refilled(Now, b, f, d) /\ f \in BOOLEAN
    BY DEF Refilled
  <2>6. m = start(filled) /\ SetMemory(Finished(m, p, r))
    BY <1>5
  <2> HIDE DEF f, m, filled
  <2>7. /\ filled \in Memories /\ filled.pte = pte /\ filled.refs = refs
        /\ filled.page[b] \in Page /\ filled.page[b] # Nil
        /\ filled.page[b].busy = f
        /\ \A x \in Obj : x # b => filled.page[x] = page[x]
    <3>1. Now.page[b] \in Page
      BY <1>2, <2>3, <2>4, TypeFacts
    <3> QED BY <1>2, <2>4, <2>5, <3>1, ReadFacts
  <2>8. ~filled.page[b].busy
    BY <2>7 DEF f
  <2>10. CASE k = "shm"
    <3>1. o = 3 /\ b = 3 /\ m = filled
      BY <1>2, <2>6, <2>10
    <3> DEFINE n == Finished(m, p, r)
               t == FirstOf(shadowed, m.page)[o]
    <3>2. m \in Memories /\ m.pte = pte /\ m.page[3] # Nil
      BY <2>7, <3>1
    <3>3. t = 3
      BY <1>2, <3>1, InvShadows, FirstFacts
    <3>4. m.page[t] # Nil
      BY <3>2, <3>3
    <3>5. Outcome(m, n, p, r, o, t)
      BY <1>1, <3>2, <3>4, FinishedOutcome
    <3>6. page' = n.page /\ pte' = n.pte
      BY <2>6 DEF SetMemory
    <3>7. \A x \in Obj \ {3} : page'[x] = page[x]
      BY <2>7, <3>1, <3>5, <3>6 DEF Outcome
    <3>8. \A q \in Procs, j \in Private : pte'[q][j] = pte[q][j]
      BY <2>10, <3>2, <3>5, <3>6, MemoryFacts DEF Outcome
    <3> QED BY <1>3, <3>7, <3>8, SharedStep
  <2>11. CASE k = "text"
    <3>0. k \in Private /\ b = 2 /\ o > 3 /\ o # b /\ pte[p][k] = Nil
      BY <1>2, <2>3, <2>11 DEF Private
    <3>3. /\ m \in Memories /\ m.pte = pte /\ m.page[o] = Nil
          /\ m.page[b] = filled.page[b]
          /\ \A x \in Obj \ {o, b} : m.page[x] = page[x]
      <4>1. CASE r.kind = "copy"
        <5>1. m = [filled EXCEPT !.page[o] = Nil, !.refs[o] = @ - 1]
          BY <2>6, <3>0, <4>1
        <5>2. /\ filled.page \in [Obj -> Page \cup {Nil}] /\ filled.refs \in [Obj -> Int]
              /\ filled.pte \in [Procs -> [Areas -> PageTableEntry \cup {Nil}]]
          BY <2>7 DEF Memories
        <5>3. /\ m.page = [filled.page EXCEPT ![o] = Nil]
              /\ m.refs = [filled.refs EXCEPT ![o] = filled.refs[o] - 1]
              /\ m.pte = filled.pte
              /\ m = [page |-> m.page, refs |-> m.refs, pte |-> m.pte]
          BY <2>7, <5>1 DEF Memories
        <5>4. m.page \in [Obj -> Page \cup {Nil}] /\ m.refs \in [Obj -> Int]
          BY SMTT(60), <1>2, <5>2, <5>3
        <5>5. m \in Memories
          BY <5>2, <5>3, <5>4 DEF Memories
        <5>6. m.page[o] = Nil /\ \A x \in Obj : x # o => m.page[x] = filled.page[x]
          BY <1>2, <2>7, <5>2, <5>3
        <5> QED BY <1>2, <2>7, <3>0, <5>3, <5>5, <5>6
      <4>2. CASE r.kind # "copy"
        <5>1. m = filled
          BY <2>6, <4>2
        <5>2. page[o] = Nil
          BY <2>3, <2>11, <3>0, <4>2
        <5> QED BY <1>2, <2>7, <3>0, <5>1, <5>2
      <4> QED BY <4>1, <4>2
    <3>4. m.page[b] # Nil /\ ~m.page[b].busy
      BY <2>7, <2>8, <3>3
    <3>5. LoadedOf(page, b) = Nil
      BY <2>3 DEF LoadedOf
    <3>6. \/ m.page[o] = page[o] /\ page[o] = Nil
          \/ m.page[o] = Nil /\ pte[p][k] = Nil /\ page[o] # Nil /\ page[o].busy
      BY <2>3, <2>11, <3>0, <3>3
    <3>7. m.page[FirstOf(shadowed, m.page)[o]] # Nil /\ ~m.page[FirstOf(shadowed, m.page)[o]].busy
      <4> DEFINE t == FirstOf(shadowed, m.page)[o]
                 f1 == FirstOf(shadowed, page)[shadowed[o]]
                 C == {o, b}
      <4>1. status[p] # "unused" /\ t \in Obj /\ t # o /\ t = FirstOf(shadowed, m.page)[shadowed[o]]
        <5>1. status[p] # "unused" /\ k \in Private /\ m.page[top[p][k]] = Nil
          BY <1>1, <3>0, <3>3
        <5> HIDE DEF k, m
        <5> QED BY ONLY IInv, p \in Procs, <5>1, LookupFacts
      <4>2. \A x \in Obj : shadowed[x] # o
        BY <3>0, <4>1, AreaFacts, MemoryFacts
      <4>3. /\ \A x \in Obj \ C : m.page[x] = page[x]
            /\ \A x \in Obj \cap C : shadowed[x] = 0 \/ \A z \in Obj : shadowed[z] # x
            /\ LoadedOf(page, b) # Nil => LoadedOf(m.page, b) = LoadedOf(page, b)
        BY <1>2, <3>3, <3>5, <4>2
      <4>4. t = f1
        <5>1. FirstOf(shadowed, m.page)[shadowed[o]] = f1
          <6> HIDE DEF C, k, f1
          <6>1. k \in Private
            BY <3>0
          <6> QED BY ONLY IInv, p \in Procs, <4>1, <4>3, <6>1, UnderStep DEF f1
        <5> QED BY <4>1, <5>1
      <4>5. CASE t = b
        BY <3>4, <4>5
      <4>6. CASE t # b
        <5>1. LoadedOf(page, t) # Nil
          BY <3>0, <4>1, <4>4, <4>6, UnderFinds
        <5>2. m.page[t] = page[t]
          BY <3>3, <4>1, <4>6
        <5> QED BY <5>1, <5>2 DEF LoadedOf
      <4> QED BY <4>5, <4>6
    <3>8. PM!Fault(p) \/ PM!Copy(p)
      <4> HIDE DEF r
      <4> QED BY <1>1, <1>3, <2>6, <3>0, <3>3, <3>5, <3>6, <3>7, FinishRefines
    <3> QED BY <3>8
  <2> QED BY <1>1, <2>10, <2>11
<1> QED BY <1>3, <1>4, <1>5

(* A store of the user program. *)
LEMMA UserWriteRefines ==
  ASSUME IInv, IInv', NEW p \in Procs, NEW k \in Areas, NEW v \in Values, UserWrite(p, k, v)
  PROVE  PM!Copy(p) \/ PM!WriteShared
<1> DEFINE o == top[p][k]
           b == AreaBottom(k)
<1>1. /\ status[p] = "live" /\ req[p] = Nil /\ pte[p][k] # Nil /\ pte[p][k].write
      /\ page' = [page EXCEPT ![pte[p][k].obj].data = v]
      /\ status' = status /\ disk' = disk /\ pte' = pte /\ UNCHANGED objects
      /\ shadowed' = shadowed /\ top' = top
  BY DEF UserWrite, CanRun, objects
<1>2. pte[p][k].obj = o /\ page[o] # Nil /\ o \in Obj
  BY <1>1, EntryFacts
<1>3. page \in [Obj -> Page \cup {Nil}]
  BY TypeFacts
<1>4. /\ \A x \in Obj \ {o} : page'[x] = page[x]
      /\ page'[o] = [page[o] EXCEPT !.data = v] /\ page[o] \in Page
  BY <1>1, <1>2, <1>3
<1>5. CASE k = "shm"
  <2>1. o = 3
    BY <1>1, <1>5, AreaFacts
  <2> QED BY <1>1, <1>4, <2>1, SharedStep
<1>6. CASE k \in Private
  <2>0. o # b
    BY <1>1, <1>6, AreaFacts
  <2>1. ~page[o].busy
    <3>1. Awaits(p) = 0
      BY <1>1, RequestFacts
    <3> QED BY <1>1, <1>2, <1>6, <3>1, OwnPageFacts
  <2>2. page'[o] \in Page /\ page'[o].data = v /\ ~page'[o].busy /\ page'[o] # Nil
    <3>1. page'[o] \in Page /\ page'[o].data = v /\ ~page'[o].busy
      BY <1>4, <2>1 DEF Page
    <3> QED BY <3>1, NilAssumption
  <2>3. LoadedOf(page', o) = v /\ v # Nil
    BY <2>2, NilAssumption DEF LoadedOf
  <2>4. Mem'[p][k] = v
    BY <1>1, <1>6, <2>3, MappedFacts DEF Seen
  <2>5. FirstOf(shadowed, page)[o] = o /\ FirstOf(shadowed, page')[o] = o
    <3>1. status[p] # "unused" /\ page[top[p][k]] # Nil /\ page'[top[p][k]] # Nil
      BY <1>1, <1>2, <2>2
    <3>2. FirstOf(shadowed, page)[o] = o
      BY ONLY IInv, p \in Procs, <1>6, <3>1, LookupFacts
    <3>3. FirstOf(shadowed, page')[o] = o
      BY ONLY IInv, p \in Procs, <1>6, <3>1, LookupFacts
    <3> QED BY <3>2, <3>3
  <2>6. Sight'[p][k] = Sight[p][k]
    <3>1. /\ Sight[p][k] = Shows(pte[p][k], FirstOf(shadowed, page)[o])
          /\ Sight'[p][k] = Shows(pte'[p][k], FirstOf(shadowed', page')[top'[p][k]])
      BY <1>6, MappedFacts
    <3> QED BY <1>1, <2>5, <3>1
  <2> DEFINE w == LoadedOf(page', b)
  <2>7. LoadedOf(page, b) # Nil => w = LoadedOf(page, b)
    <3>1. b \in Obj
      BY <1>1, AreaFacts
    <3>2. page'[b] = page[b]
      BY <1>4, <2>0, <3>1
    <3> QED BY <3>2 DEF LoadedOf
  <2>8. \A x \in Obj \ {o, b} : page'[x] = page[x]
    BY <1>4
  <2>9. /\ \A q \in Procs, j \in Private : (q # p \/ j # k) =>
             /\ Mem'[q][j] = IF j = k /\ q \in Live /\ Mem[q][j] = Nil THEN w ELSE Mem[q][j]
             /\ Sight'[q][j] = Sight[q][j]
        /\ w \in Loads(k) \cup {Nil}
        /\ Shared' = Shared /\ Live' = Live /\ p \in Live
    BY <1>1, <1>6, <2>7, <2>8, OneArea
  <2> HIDE DEF w
  <2> QED BY <1>6, <2>4, <2>6, <2>9, CopyStep
<1> QED BY <1>5, <1>6, MemoryFacts

(* Sync. *)
LEMMA SyncRefines ==
  ASSUME IInv, IInv', NEW p \in Procs,
         SyncSleeps(p) \/ SyncCleans(p) \/ CleanDone(p) \/ SyncReturns(p)
  PROVE  PM!WriteShared
<1>1. status' = status /\ UNCHANGED objects
  BY DEF SyncSleeps, SyncCleans, CleanDone, SyncReturns
<1>2. DOMAIN page = Obj /\ pte \in [Procs -> [Areas -> PageTableEntry \cup {Nil}]]
  BY TypeFacts
<1>3. /\ \A x \in Obj \ {3} : page'[x] = page[x]
      /\ \A q \in Procs, j \in Private : pte'[q][j] = pte[q][j]
  <2>1. CASE SyncSleeps(p) \/ SyncReturns(p)
    BY <2>1 DEF SyncSleeps, SyncReturns
  <2>2. CASE SyncCleans(p)
    <3>1. PICK o \in AllocList :
            /\ page[o].dirty
            /\ page' = [page EXCEPT ![o].dirty = FALSE, ![o].busy = TRUE]
            /\ pte' = pframe_remove_from_pts(Now, "shm").pte
      BY <2>2 DEF SyncCleans
    <3>2. o \in Obj /\ page[o] # Nil
      BY DEF AllocList, Resident
    <3>3. o = 3
      BY <3>1, <3>2 DEF IInv, SharedPageSaved, ShmObj
    <3>4. pte' = [pte EXCEPT ![FirstProc]["shm"] = Nil]
      BY <3>1 DEF pframe_remove_from_pts, Now
    <3>5. \A q \in Procs, j \in Private : pte'[q][j] = pte[q][j]
      BY <1>2, <3>4, MemoryFacts
    <3> QED BY <1>2, <3>1, <3>3, <3>5
  <2>3. CASE CleanDone(p)
    BY <1>2, <2>3 DEF CleanDone, Cleaned, NotCleaned, ShmObj
  <2> QED BY <2>1, <2>2, <2>3
<1> QED BY <1>1, <1>3, SharedStep

(* The exit of a process. *)
LEMMA ExitRefines ==
  ASSUME IInv, IInv', NEW p \in Procs, Exit(p)
  PROVE  PM!Exit(p)
<1> DEFINE ho == top[p]["heap"]
           to == top[p]["text"]
           C == {ho, to}
           none == [k \in Private |-> Nil]
<1>0. Exited(p, ho, to)
  BY ExitFacts
<1>1. "heap" \in Private /\ "text" \in Private
  BY DEF Private
<1>2. /\ status[p] = "live" /\ ho \in Obj /\ ho > 3 /\ to \in Obj /\ to > 3
      /\ status' = [status EXCEPT ![p] = "dead"]
      /\ \A x \in Obj \ C : page'[x] = page[x]
      /\ \A q \in Procs, j \in Areas : pte'[q][j] \in {Nil, pte[q][j]}
      /\ \A j \in Areas : pte'[p][j] = Nil
      /\ disk' = disk /\ shadowed' = shadowed /\ top' = top
  BY <1>0 DEF Exited, objects
<1>3. /\ status \in [Procs -> {"unused", "live", "dead"}]
      /\ status'[p] = "dead" /\ \A q \in Procs : q # p => status'[q] = status[q]
  BY <1>2 DEF IInv, MemoryTypeOK
<1>4. \A x \in Obj \cap C : shadowed[x] = 0 \/ \A z \in Obj : shadowed[z] # x
  BY <1>1, <1>2, AreaFacts, MemoryFacts
<1>5. ASSUME NEW q \in Procs, q # p, NEW j \in Private
      PROVE  Mem'[q][j] = Mem[q][j] /\ Sight'[q][j] \in {"none", Sight[q][j]}
  <2>0. pte'[q][j] \in {Nil, pte[q][j]}
    BY <1>2, MemoryFacts
  <2>1. CASE status[q] = "live"
    <3> DEFINE o == top[q][j]
               b == AreaBottom(j)
               u == Seen(shadowed, page, o)
    <3>1. o \notin C
      BY <1>1, <1>2, <1>5, <2>1, AreasApart, MemoryFacts
    <3>2. status'[q] = "live"
      BY <1>3, <1>5, <2>1
    <3>3. LoadedOf(page', b) = LoadedOf(page, b)
      <4>1. b \in Obj /\ b \in {1, 2}
        BY MemoryFacts DEF AreaBottom, Private, AnonObj, TextObj
      <4>2. page'[b] = page[b]
        BY <1>2, <4>1
      <4> QED BY <4>2 DEF LoadedOf
    <3>4. /\ FirstOf(shadowed, page')[o] = FirstOf(shadowed, page)[o]
          /\ Seen(shadowed, page', o) = IF u = Nil THEN LoadedOf(page', b) ELSE u
          /\ u = Nil => LoadedOf(page, b) = Nil
      <4>1. status[q] # "unused"
        BY <2>1
      <4> HIDE DEF C
      <4> QED BY ONLY IInv, q \in Procs, j \in Private, <1>2, <1>4, <3>1, <3>3, <4>1, SeenStep
    <3>5. Seen(shadowed, page', o) = u
      <4> HIDE DEF u, b
      <4> QED BY <3>3, <3>4
    <3>6. Mem'[q][j] = Mem[q][j]
      BY <1>2, <2>1, <3>2, <3>5, MappedFacts
    <3>7. /\ Sight'[q][j] = Shows(pte'[q][j], FirstOf(shadowed, page)[o])
          /\ Sight[q][j] = Shows(pte[q][j], FirstOf(shadowed, page)[o])
      BY <1>2, <3>4, MappedFacts
    <3>8. Sight'[q][j] \in {"none", Sight[q][j]}
      <4>1. CASE pte'[q][j] = Nil
        BY <3>7, <4>1 DEF Shows
      <4>2. CASE pte'[q][j] = pte[q][j]
        BY <3>7, <4>2
      <4> QED BY <2>0, <4>1, <4>2
    <3> QED BY <3>6, <3>8
  <2>2. CASE status[q] # "live"
    <3>1. Mem'[q][j] = Mem[q][j]
      BY <1>3, <1>5, <2>2, MappedFacts
    <3>2. pte[q][j] = Nil
      BY <2>2, MemoryFacts DEF IInv, PteOfChain
    <3>3. Sight'[q][j] = "none"
      BY <2>0, <3>2, MappedFacts DEF Shows
    <3> QED BY <3>1, <3>3
  <2> QED BY <2>1, <2>2
<1>6. \A j \in Private : Mem'[p][j] = Nil /\ Sight'[p][j] = "none"
  <2> SUFFICES ASSUME NEW j \in Private PROVE Mem'[p][j] = Nil /\ Sight'[p][j] = "none"
    OBVIOUS
  <2>1. pte'[p][j] = Nil
    BY <1>2, MemoryFacts
  <2> QED BY <1>3, <2>1, MappedFacts DEF Shows
<1>7. Mem' = [Mem EXCEPT ![p] = none]
  <2>1. \A q \in Procs : Mem'[q] = [j \in Private |-> Mem'[q][j]] /\ Mem[q] = [j \in Private |-> Mem[q][j]]
    BY MappedFacts
  <2>2. Mem'[p] = none
    BY <1>6, <2>1
  <2>3. \A q \in Procs : q # p => Mem'[q] = Mem[q]
    BY <1>5, <2>1
  <2> HIDE DEF none
  <2> QED BY <2>2, <2>3, MappedFacts
<1>8. \A q \in Procs, j \in Private : Sight'[q][j] \in {"none", IF q = p THEN "none" ELSE Sight[q][j]}
  BY <1>5, <1>6
<1>9. Shared' = Shared
  <2>1. 3 \in Obj /\ 3 \notin C
    BY <1>2, MemoryFacts
  <2> QED BY <1>2, <2>1 DEF Shared, ShmObj
<1>10. Live' = Live \ {p} /\ p \in Live
  BY <1>2, <1>3 DEF Live
<1> QED BY <1>7, <1>8, <1>9, <1>10 DEF PM!Exit, PM!Untouched, Mem, Sight, Shared

(* Right after a fork, parent and child find what the parent found: their new
   objects have no page yet, and shadow the parent's old one. *)
LEMMA NewObject ==
  ASSUME IInv, NEW p \in Procs, status[p] = "live", req[p] = Nil, NEW k \in Private,
         NEW sh, Shadows(sh), NEW x \in Obj, page[x] = Nil, sh[x] = top[p][k],
         FirstOf(sh, page)[top[p][k]] = FirstOf(shadowed, page)[top[p][k]]
  PROVE  Seen(sh, page, x) = Seen(shadowed, page, top[p][k])
<1> DEFINE o == top[p][k]
           f == FirstOf(shadowed, page)[shadowed[o]]
           s == FirstOf(shadowed, page)[o]
<1>1. /\ page[o] # Nil => s = o
      /\ page[o] = Nil => s = f
  BY LookupFacts
<1>2. o \in Obj /\ Awaits(p) = 0
  BY RequestFacts, AreaFacts, MemoryFacts
<1>3. ~(page[o] # Nil /\ page[o].busy)
  BY <1>2, OwnPageFacts
<1>4. Seen(sh, page, x) = LoadedOf(page, s)
  BY DEF Seen, Under, LoadedOf
<1>5. Seen(shadowed, page, o) = IF LoadedOf(page, o) # Nil THEN LoadedOf(page, o) ELSE LoadedOf(page, f)
  BY DEF Seen, Under
<1>6. LoadedOf(page, o) = Nil <=> page[o] = Nil
  BY <1>2, <1>3, LoadedFacts, TypeFacts
<1> HIDE DEF o, f, s
<1>7. Seen(sh, page, x) = Seen(shadowed, page, o)
  BY <1>1, <1>4, <1>5, <1>6
<1> QED BY <1>7 DEF o

(* fork. *)
LEMMA ForkRefines ==
  ASSUME IInv, IInv', NEW p \in Procs, NEW c \in Procs, do_fork(p, c)
  PROVE  PM!Fork(p, c)
<1> DEFINE n == nextObj
           ho == top[p]["heap"]
           to == top[p]["text"]
           none == [j \in Private |-> "none"]
<1>0. Forked(p, c, n, ho, to)
  BY ForkFacts
<1>1. /\ p # c /\ status[p] = "live" /\ status[c] = "unused" /\ req[p] = Nil
      /\ n \in Nat /\ {n, n + 1, n + 2, n + 3} \subseteq Obj
      /\ ho \in Obj /\ ho < n /\ to \in Obj /\ to < n
      /\ top'[p]["heap"] = n /\ top'[p]["text"] = n + 2
      /\ top'[c]["heap"] = n + 1 /\ top'[c]["text"] = n + 3
      /\ \A q \in Procs : q \notin {p, c} => top'[q] = top[q]
      /\ shadowed'[n] = ho /\ shadowed'[n + 1] = ho /\ shadowed'[n + 2] = to /\ shadowed'[n + 3] = to
      /\ \A x \in Obj : x < n => shadowed'[x] = shadowed[x]
      /\ page' = page /\ disk' = disk /\ status' = [status EXCEPT ![c] = "live"]
      /\ \A k \in Private : pte'[p][k] = Nil
      /\ \A q \in Procs : q # p => pte'[q] = pte[q]
  BY <1>0 DEF Forked
<1>2. /\ Shadows(shadowed')
      /\ \A x \in Obj : x < n => FirstOf(shadowed', page)[x] = FirstOf(shadowed, page)[x]
  BY <1>0, ForkChains
<1>3. /\ status \in [Procs -> {"unused", "live", "dead"}]
      /\ status'[c] = "live" /\ \A q \in Procs : q # c => status'[q] = status[q]
  BY <1>1 DEF IInv, MemoryTypeOK
<1>4. page[n] = Nil /\ page[n + 1] = Nil /\ page[n + 2] = Nil /\ page[n + 3] = Nil
  BY <1>1 DEF IInv, ShadowsOlder
<1>5. "heap" \in Private /\ "text" \in Private /\ \A j \in Private : j = "heap" \/ j = "text"
  BY DEF Private
<1>6. ASSUME NEW j \in Private
      PROVE  /\ Seen(shadowed', page', top'[p][j]) = Seen(shadowed, page, top[p][j])
             /\ Seen(shadowed', page', top'[c][j]) = Seen(shadowed, page, top[p][j])
  <2>1. CASE j = "heap"
    <3>1. FirstOf(shadowed', page)[ho] = FirstOf(shadowed, page)[ho]
      BY <1>1, <1>2
    <3>2. /\ Seen(shadowed', page, n) = Seen(shadowed, page, ho)
          /\ Seen(shadowed', page, n + 1) = Seen(shadowed, page, ho)
      BY <1>1, <1>2, <1>4, <1>5, <3>1, NewObject
    <3> QED BY <1>1, <2>1, <3>2
  <2>2. CASE j = "text"
    <3>1. FirstOf(shadowed', page)[to] = FirstOf(shadowed, page)[to]
      BY <1>1, <1>2
    <3>2. /\ Seen(shadowed', page, n + 2) = Seen(shadowed, page, to)
          /\ Seen(shadowed', page, n + 3) = Seen(shadowed, page, to)
      BY <1>1, <1>2, <1>4, <1>5, <3>1, NewObject
    <3> QED BY <1>1, <2>2, <3>2
  <2> QED BY <1>5, <2>1, <2>2
<1>7. ASSUME NEW q \in Procs, q \notin {p, c}, status[q] = "live", NEW j \in Private
      PROVE  /\ Seen(shadowed', page', top'[q][j]) = Seen(shadowed, page, top[q][j])
             /\ FirstOf(shadowed', page')[top'[q][j]] = FirstOf(shadowed, page)[top[q][j]]
  <2> DEFINE o == top[q][j]
  <2>1. /\ o \in Obj /\ o < n /\ shadowed[o] \in Obj
    BY <1>7, AreaFacts, MemoryFacts
  <2>2. shadowed[o] < o
    BY <2>1, InvShadows DEF Shadows
  <2>3. shadowed[o] < n
    BY <1>1, <2>1, <2>2, MemoryFacts
  <2>4. /\ shadowed'[o] = shadowed[o] /\ FirstOf(shadowed', page)[o] = FirstOf(shadowed, page)[o]
        /\ FirstOf(shadowed', page)[shadowed[o]] = FirstOf(shadowed, page)[shadowed[o]]
    BY <1>1, <1>2, <2>1, <2>3
  <2>5. top'[q][j] = o
    BY <1>1, <1>7
  <2> QED BY <1>1, <2>4, <2>5 DEF Seen, Under
<1>8. ASSUME NEW q \in Procs, q # c, NEW j \in Private PROVE Mem'[q][j] = Mem[q][j]
  <2>1. CASE status[q] = "live"
    <3>1. status'[q] = "live"
      BY <1>3, <1>8, <2>1
    <3>2. Seen(shadowed', page', top'[q][j]) = Seen(shadowed, page, top[q][j])
      BY <1>6, <1>7, <1>8, <2>1
    <3> QED BY <2>1, <3>1, <3>2, MappedFacts
  <2>2. CASE status[q] # "live"
    BY <1>3, <1>8, <2>2, MappedFacts
  <2> QED BY <2>1, <2>2
<1>9. ASSUME NEW j \in Private PROVE Mem'[c][j] = Mem[p][j]
  BY <1>1, <1>3, <1>6, MappedFacts
<1>10. Mem' = [Mem EXCEPT ![c] = Mem[p]]
  <2>1. \A q \in Procs : Mem'[q] = [j \in Private |-> Mem'[q][j]] /\ Mem[q] = [j \in Private |-> Mem[q][j]]
    BY MappedFacts
  <2>2. Mem'[c] = Mem[p]
    BY <1>9, <2>1
  <2>3. \A q \in Procs : q # c => Mem'[q] = Mem[q]
    BY <1>8, <2>1
  <2> QED BY <2>2, <2>3, MappedFacts
<1>11. ASSUME NEW q \in Procs, q \notin {p, c}, NEW j \in Private PROVE Sight'[q][j] = Sight[q][j]
  <2>0. pte'[q][j] = pte[q][j]
    BY <1>1, <1>11
  <2>1. CASE status[q] = "live"
    BY <1>7, <1>11, <2>0, <2>1, MappedFacts
  <2>2. CASE status[q] # "live"
    <3>1. pte[q][j] = Nil
      BY <2>2, MemoryFacts DEF IInv, PteOfChain
    <3> QED BY <2>0, <3>1, MappedFacts DEF Shows
  <2> QED BY <2>1, <2>2
<1>12. ASSUME NEW j \in Private PROVE Sight'[p][j] = "none" /\ Sight'[c][j] = "none"
  <2>1. pte'[p][j] = Nil
    BY <1>1
  <2>2. pte[c][j] = Nil
    BY <1>1, MemoryFacts DEF IInv, PteOfChain
  <2>3. pte'[c][j] = Nil
    BY <1>1, <2>2
  <2> QED BY <2>1, <2>3, MappedFacts DEF Shows
<1>13. Sight' = [Sight EXCEPT ![p] = none, ![c] = none]
  <2>1. \A q \in Procs : Sight'[q] = [j \in Private |-> Sight'[q][j]] /\ Sight[q] = [j \in Private |-> Sight[q][j]]
    BY MappedFacts
  <2>2. Sight'[p] = none /\ Sight'[c] = none
    BY <1>12, <2>1
  <2>3. \A q \in Procs : q \notin {p, c} => Sight'[q] = Sight[q]
    BY <1>11, <2>1
  <2> HIDE DEF none
  <2> QED BY <2>2, <2>3, MappedFacts
<1>14. Shared' = Shared
  BY <1>1 DEF Shared
<1>15. Live' = Live \cup {c} /\ p \in Live /\ c \notin Live
  BY <1>1, <1>3 DEF Live
<1> QED BY <1>10, <1>13, <1>14, <1>15 DEF PM!Fork, PM!Unmapped, Mem, Sight, Shared

(* The first process has read nothing. *)
LEMMA InitRefines ==
  ASSUME Init
  PROVE  PM!Init
<1>0. IInv
  BY InitInv
<1>1. /\ status = [p \in Procs |-> IF p = FirstProc THEN "live" ELSE "unused"]
      /\ page = [o \in Obj |-> Nil] /\ pte = [p \in Procs |-> [k \in Areas |-> Nil]] /\ disk = 0
  BY DEF Init
<1>2. Live = {FirstProc}
  BY <1>1, MemoryFacts DEF Live
<1>3. ASSUME NEW p \in Procs, NEW k \in Private PROVE Mem[p][k] = Nil /\ Sight[p][k] = "none"
  <2>1. pte[p][k] = Nil
    BY <1>1, MemoryFacts
  <2>2. CASE status[p] # "live"
    BY <2>1, <2>2, MappedFacts DEF Shows
  <2>3. CASE status[p] = "live"
    <3> DEFINE o == top[p][k]
               f == FirstOf(shadowed, page)[shadowed[o]]
    <3>1. f \in Obj /\ o \in Obj
      BY <1>0, <2>3, UnderFinds, AreaFacts, MemoryFacts
    <3>2. page[o] = Nil /\ page[f] = Nil
      BY <1>1, <3>1
    <3>3. Mem[p][k] = Nil
      BY <2>3, <3>2, MappedFacts DEF Seen, Under, LoadedOf
    <3> QED BY <2>1, <3>3, MappedFacts DEF Shows
  <2> QED BY <2>2, <2>3
<1>4. Shared \in Values
  BY <1>0, SharedType
<1>5. /\ Mem = [p \in Procs |-> [k \in Private |-> Nil]]
      /\ Sight = [p \in Procs |-> [k \in Private |-> "none"]]
  <2>1. Mem = [p \in Procs |-> [k \in Private |-> Nil]]
    <3>1. Mem = [p \in Procs |-> [k \in Private |-> Mem[p][k]]]
      BY MappedFacts
    <3> QED BY <1>3, <3>1
  <2>2. Sight = [p \in Procs |-> [k \in Private |-> "none"]]
    <3>1. Sight = [p \in Procs |-> [k \in Private |-> Sight[p][k]]]
      BY MappedFacts
    <3> QED BY <1>3, <3>1
  <2> QED BY <2>1, <2>2
<1> QED BY <1>2, <1>4, <1>5 DEF PM!Init, PM!Untouched, PM!Unmapped, Mem, Sight, Shared

(* Every step is one of the private memory, or none. *)
LEMMA NextRefines ==
  ASSUME IInv, IInv', [Next]_vars
  PROVE  [PM!Next]_PM!vars
<1>1. CASE UNCHANGED vars
  <2>1. status' = status /\ UNCHANGED objects /\ page' = page /\ pte' = pte
    BY <1>1 DEF vars, objects
  <2>2. PM!WriteShared
    BY <2>1, SharedStep
  <2> QED BY <2>2 DEF PM!Next
<1>2. ASSUME NEW p \in Procs, NEW r \in Requests, Access(p, r) PROVE PM!Next
  BY <1>2, AccessRefines DEF PM!Next
<1>3. ASSUME NEW p \in Procs, FillDone(p) PROVE PM!Next
  BY <1>3, FillDoneRefines DEF PM!Next
<1>4. ASSUME NEW p \in Procs, NEW k \in Areas, NEW v \in Values, UserWrite(p, k, v) PROVE PM!Next
  BY <1>4, UserWriteRefines DEF PM!Next
<1>5. ASSUME NEW p \in Procs, NEW c \in Procs, do_fork(p, c) PROVE PM!Next
  BY <1>5, ForkRefines DEF PM!Next
<1>6. ASSUME NEW p \in Procs, Exit(p) PROVE PM!Next
  BY <1>6, ExitRefines DEF PM!Next
<1>7. ASSUME NEW p \in Procs, SyncSleeps(p) \/ SyncCleans(p) \/ CleanDone(p) \/ SyncReturns(p)
      PROVE  PM!Next
  BY <1>7, SyncRefines DEF PM!Next
<1>8. CASE Stopped
  BY <1>1, <1>8 DEF Stopped
<1> QED BY <1>1, <1>2, <1>3, <1>4, <1>5, <1>6, <1>7, <1>8 DEF Next

(* Shadow chains, copy on write, page tables and the kernel's copies implement
   one private memory per process and one shared cell: a fault changes nothing
   but what its program sees, a copy only its own area, though the program may
   go on reading the older page until its next write fault or fork, and what
   all find in an untouched area is what one read has left (fork.c,
   pagefault.c, shadow.c, vmmap.c). *)
THEOREM RefinesPrivateMemory == Spec => ImplementsPrivateMemory
<1>1. Init => IInv /\ PM!Init
  BY InitInv, InitRefines
<1>2. IInv /\ [Next]_vars => IInv'
  BY NextInv
<1>3. IInv /\ IInv' /\ [Next]_vars => [PM!Next]_PM!vars
  BY NextRefines
<1> QED BY <1>1, <1>2, <1>3, PTL DEF Spec, ImplementsPrivateMemory, PM!Spec
=============================================================================
