---------------------------- MODULE FilesProofs -----------------------------
(***************************************************************************)
(* Proofs about Files and Namev, for any number of processes, descriptors, *)
(* file_t objects, inodes and names, and paths of any length.              *)
(*                                                                         *)
(* The order is that of the argument: what lookup, dir_namev and           *)
(* open_namev return and which reference they leave; that each change of a *)
(* directory keeps the directories a tree; the invariant IInv; how counts  *)
(* of users change when one process, descriptor or file_t changes; then    *)
(* the kinds of step (a call on a path, fput, a use more of a file, a new  *)
(* file, a new working directory, a new process) and the actions, each of  *)
(* which is a step of one of these kinds; and the theorems.                *)
(*                                                                         *)
(* IInv is FilesInv with ShutdownFailsAfterLeaks.  A step that leaks a     *)
(* reference (do_fork, do_link of a name that exists) raises leaked with   *)
(* the count; every other one changes counts as the uses change.           *)
(***************************************************************************)
EXTENDS Files, LibraryProofs

(* What may stand between two slashes of a path. *)
Component == Name \cup {".", ""} \cup TooLong

(* The states of the file system that the operators of Namev work on. *)
Fs(s) == s \in [rc : [Inode -> Int], ent : [Dir -> [Name -> Inode \cup {NULL}]]]

(* 1 at a, 0 elsewhere: what a reference to a adds to the count of v. *)
One(a, v) == IF v = a THEN 1 ELSE 0

(***************************************************************************)
(* vref and vput change one count, and undo each other.                    *)
(***************************************************************************)
LEMMA RefFacts ==
  ASSUME NEW s, Fs(s), NEW a \in Inode
  PROVE  /\ Fs(vref(s, a)) /\ vref(s, a).ent = s.ent
         /\ Fs(vput(s, a)) /\ vput(s, a).ent = s.ent
         /\ \A v \in Inode : /\ vref(s, a).rc[v] = s.rc[v] + One(a, v)
                             /\ vput(s, a).rc[v] = s.rc[v] - One(a, v)
  BY DEF Fs, vref, vput, One

(* States with the same directories and counts are the same. *)
LEMMA FsEqual ==
  ASSUME NEW s, NEW t, Fs(s), Fs(t), s.ent = t.ent, \A v \in Inode : s.rc[v] = t.rc[v]
  PROVE  s = t
<1>1. s = [rc |-> s.rc, ent |-> s.ent] /\ t = [rc |-> t.rc, ent |-> t.ent]
  BY DEF Fs
<1>2. s.rc = t.rc
  <2>1. s.rc \in [Inode -> Int] /\ t.rc \in [Inode -> Int]
    BY DEF Fs
  <2> QED BY <2>1
<1> QED BY <1>1, <1>2

(***************************************************************************)
(* vput undoes vref, also when another vnode was referenced in between.    *)
(***************************************************************************)
LEMMA RefPut ==
  ASSUME NEW s, Fs(s), NEW a \in Inode, NEW b \in Inode
  PROVE  /\ vput(vref(s, a), a) = s
         /\ vput(vref(vref(s, a), b), a) = vref(s, b)
<1>1. /\ Fs(vref(s, a)) /\ vref(s, a).ent = s.ent
      /\ \A v \in Inode : vref(s, a).rc[v] = s.rc[v] + One(a, v)
  BY RefFacts
<1>2. /\ Fs(vref(s, b)) /\ vref(s, b).ent = s.ent
      /\ \A v \in Inode : vref(s, b).rc[v] = s.rc[v] + One(b, v)
  BY RefFacts
<1> DEFINE s1 == vref(s, a)
           s2 == vref(s1, b)
<1>3. /\ Fs(s2) /\ s2.ent = s.ent
      /\ \A v \in Inode : s2.rc[v] = s.rc[v] + One(a, v) + One(b, v)
  <2>1. /\ Fs(s2) /\ s2.ent = s1.ent
        /\ \A v \in Inode : s2.rc[v] = s1.rc[v] + One(b, v)
    BY <1>1, RefFacts
  <2> HIDE DEF s2
  <2> QED BY <1>1, <2>1
<1>4. /\ Fs(vput(s1, a)) /\ vput(s1, a).ent = s.ent
      /\ \A v \in Inode : vput(s1, a).rc[v] = s1.rc[v] - One(a, v)
  BY <1>1, RefFacts
<1>5. /\ Fs(vput(s2, a)) /\ vput(s2, a).ent = s.ent
      /\ \A v \in Inode : vput(s2, a).rc[v] = s2.rc[v] - One(a, v)
  BY <1>3, RefFacts
<1>6. \A v \in Inode : One(a, v) \in Int /\ One(b, v) \in Int /\ s.rc[v] \in Int
  BY DEF One, Fs
<1> HIDE DEF s1, s2
<1>7. vput(s1, a) = s
  <2>1. \A v \in Inode : vput(s1, a).rc[v] = s.rc[v]
    BY <1>1, <1>4, <1>6 DEF s1
  <2> QED BY <1>4, <2>1, FsEqual
<1>8. vput(s2, a) = vref(s, b)
  <2>1. \A v \in Inode : vput(s2, a).rc[v] = vref(s, b).rc[v]
    BY <1>2, <1>3, <1>5, <1>6
  <2> QED BY <1>2, <1>5, <2>1, FsEqual
<1> QED BY <1>7, <1>8 DEF s1, s2

(***************************************************************************)
(* lookup finds what Follow says, with one more reference to it.           *)
(***************************************************************************)
Found(r, s, v) == r.ret = "OK" /\ r.vn = v /\ r.s = vref(s, v) /\ v \in Inode

Failed(r, s) == r.ret # "OK" /\ r.s = s

(***************************************************************************)
(* lookup finds what Follow says and references it, or changes nothing;    *)
(* only a directory answers ENOENT, and only to a name it could have.      *)
(***************************************************************************)
LEMMA LookupFacts ==
  ASSUME NEW s, Fs(s), NEW dir \in Inode, NEW name \in Component
  PROVE  /\ \/ Found(lookup(s, dir, name), s, Follow(s.ent, dir, name)) /\ dir \in Dir /\ name \notin TooLong
            \/ Failed(lookup(s, dir, name), s) /\ Follow(s.ent, dir, name) = NULL
         /\ lookup(s, dir, name).ret = "ENOENT" => dir \in Dir /\ name \in Name \cup TooLong
         /\ dir \in Dir => lookup(s, dir, name).ret \in {"OK", "ENOENT"}
<1>1. CASE dir \notin Dir
  BY <1>1 DEF lookup, Error, Result, Follow, Failed
<1>2. CASE dir \in Dir /\ name \in {".", ""}
  BY <1>2, NamevAssumption DEF lookup, Result, Follow, Found, Inode
<1>3. CASE dir \in Dir /\ name \in Name
  <2>1. lookup(s, dir, name) = fs_lookup(s, dir, name) /\ Entry(s, dir, name) = s.ent[dir][name]
    BY <1>3, NamevAssumption DEF lookup, Entry
  <2>2. Follow(s.ent, dir, name) = s.ent[dir][name]
    BY <1>3, NamevAssumption DEF Follow
  <2>3. s.ent[dir][name] \in Inode \cup {NULL}
    BY <1>3 DEF Fs
  <2>4. name \notin TooLong
    BY <1>3, NamevAssumption
  <2> QED BY <1>3, <2>1, <2>2, <2>3, <2>4 DEF fs_lookup, Referenced, Error, Result, Found, Failed
<1>4. CASE dir \in Dir /\ name \in TooLong
  <2>1. lookup(s, dir, name) = fs_lookup(s, dir, name) /\ Entry(s, dir, name) = NULL
    BY <1>4, NamevAssumption DEF lookup, Entry
  <2>2. Follow(s.ent, dir, name) = NULL
    BY <1>4, NamevAssumption DEF Follow
  <2> QED BY <1>4, <2>1, <2>2 DEF fs_lookup, Error, Result, Failed
<1> QED BY <1>1, <1>2, <1>3, <1>4 DEF Component

(***************************************************************************)
(* The recursions of dir_namev and Denotes have solutions.                 *)
(***************************************************************************)
WalkOf(s, start, names, n, f) ==
  f = [i \in 0 .. n |-> IF i = 0 THEN Referenced(Result("OK", start, s))
                        ELSE dir_namev_step(names, i, f[i - 1])]

ReachedOf(ent, start, names, n, f) ==
  f = [i \in 0 .. n |-> IF i = 0 THEN start ELSE Follow(ent, f[i - 1], names[i])]

(***************************************************************************)
(* The recursion of dir_namev has a solution, by induction on the length   *)
(* of the path.                                                            *)
(***************************************************************************)
LEMMA WalkExists ==
  ASSUME NEW s, NEW start, NEW names, NEW n \in Nat
  PROVE  \E f : WalkOf(s, start, names, n, f)
<1> DEFINE T == {k \in Nat : \E f : WalkOf(s, start, names, k, f)}
           base == Referenced(Result("OK", start, s))
           step(i, x) == dir_namev_step(names, i, x)
<1>1. 0 \in T
  <2> DEFINE f == [i \in 0 .. 0 |-> base]
  <2>1. WalkOf(s, start, names, 0, f)
    BY DEF WalkOf
  <2> QED BY <2>1
<1>2. ASSUME NEW k \in Nat, k \in T PROVE k + 1 \in T
  <2>1. PICK f : WalkOf(s, start, names, k, f)
    BY <1>2
  <2>2. f = [i \in 0 .. k |-> IF i = 0 THEN base ELSE step(i, f[i - 1])]
    BY <2>1 DEF WalkOf
  <2> HIDE DEF base, step
  <2> DEFINE g == [i \in 0 .. k + 1 |-> IF i <= k THEN f[i] ELSE step(i, f[k])]
             h == [i \in 0 .. k + 1 |-> IF i = 0 THEN base ELSE step(i, g[i - 1])]
  <2>3. ASSUME NEW i \in 0 .. k + 1 PROVE g[i] = h[i]
    <3>1. CASE i = 0
      BY <2>2, <3>1
    <3>2. CASE i = k + 1
      <4>1. i # 0 /\ i - 1 = k /\ k \in 0 .. k + 1 /\ k <= k /\ ~(k + 1 <= k)
        BY <3>2
      <4> QED BY <3>2, <4>1
    <3>3. CASE i # 0 /\ i # k + 1
      <4>1. i \in 0 .. k /\ i - 1 \in 0 .. k /\ i - 1 \in 0 .. k + 1 /\ i <= k /\ i - 1 <= k
        BY <3>3
      <4>2. f[i] = step(i, f[i - 1])
        BY <2>2, <3>3, <4>1
      <4> QED BY <3>3, <4>1, <4>2
    <3> QED BY <3>1, <3>2, <3>3
  <2>4. g = h
    BY <2>3
  <2>5. WalkOf(s, start, names, k + 1, g)
    BY <2>4 DEF WalkOf, base, step
  <2> QED BY <2>5
<1>3. Nat \subseteq T
  <2> HIDE DEF T
  <2> QED BY <1>1, <1>2, SetInduction
<1> QED BY <1>3

(* And so has the recursion of Denotes. *)
LEMMA ReachedExists ==
  ASSUME NEW ent, NEW start, NEW names, NEW n \in Nat
  PROVE  \E f : ReachedOf(ent, start, names, n, f)
<1> DEFINE T == {k \in Nat : \E f : ReachedOf(ent, start, names, k, f)}
           step(i, x) == Follow(ent, x, names[i])
<1>1. 0 \in T
  <2> DEFINE f == [i \in 0 .. 0 |-> start]
  <2>1. ReachedOf(ent, start, names, 0, f)
    BY DEF ReachedOf
  <2> QED BY <2>1
<1>2. ASSUME NEW k \in Nat, k \in T PROVE k + 1 \in T
  <2>1. PICK f : ReachedOf(ent, start, names, k, f)
    BY <1>2
  <2>2. f = [i \in 0 .. k |-> IF i = 0 THEN start ELSE step(i, f[i - 1])]
    BY <2>1 DEF ReachedOf
  <2> HIDE DEF step
  <2> DEFINE g == [i \in 0 .. k + 1 |-> IF i <= k THEN f[i] ELSE step(i, f[k])]
             h == [i \in 0 .. k + 1 |-> IF i = 0 THEN start ELSE step(i, g[i - 1])]
  <2>3. ASSUME NEW i \in 0 .. k + 1 PROVE g[i] = h[i]
    <3>1. CASE i = 0
      BY <2>2, <3>1
    <3>2. CASE i = k + 1
      <4>1. i # 0 /\ i - 1 = k /\ k \in 0 .. k + 1 /\ k <= k /\ ~(k + 1 <= k)
        BY <3>2
      <4> QED BY <3>2, <4>1
    <3>3. CASE i # 0 /\ i # k + 1
      <4>1. i \in 0 .. k /\ i - 1 \in 0 .. k /\ i - 1 \in 0 .. k + 1 /\ i <= k /\ i - 1 <= k
        BY <3>3
      <4>2. f[i] = step(i, f[i - 1])
        BY <2>2, <3>3, <4>1
      <4> QED BY <3>3, <4>1, <4>2
    <3> QED BY <3>1, <3>2, <3>3
  <2>4. g = h
    BY <2>3
  <2>5. ReachedOf(ent, start, names, k + 1, g)
    BY <2>4 DEF ReachedOf, step
  <2> QED BY <2>5
<1>3. Nat \subseteq T
  <2> HIDE DEF T
  <2> QED BY <1>1, <1>2, SetInduction
<1> QED BY <1>3

(***************************************************************************)
(* One turn of the loop.  Before component i is looked up the walk is at   *)
(* what the first i - 1 components lead to, with one reference to it, or   *)
(* it has failed, without a reference, and the path leads nowhere.         *)
(***************************************************************************)
OnTheWay(at, s, names, i, v, next) ==
  \/ Found(at, s, v) /\ names[i + 1] \notin TooLong
  \/ Failed(at, s) /\ next = NULL

Arrived(at, s, names, i, v, next) ==
  \/ Found(at, s, v) /\ v \in Dir /\ names[i] \notin TooLong
  \/ Failed(at, s) /\ next = NULL

(***************************************************************************)
(* A turn of the loop takes the walk from before component i to before     *)
(* component i + 1, or ends it with the reference to the last directory    *)
(* given back.                                                             *)
(***************************************************************************)
LEMMA WalkStep ==
  ASSUME NEW s, Fs(s), NEW names \in Seq(Component), NEW i \in 1 .. Len(names),
         NEW at, NEW v,
         OnTheWay(at, s, names, i - 1, v, Follow(s.ent, v, names[i]))
  PROVE  LET to == dir_namev_step(names, i, at)
             w == Follow(s.ent, v, names[i])
         IN  /\ i < Len(names) => OnTheWay(to, s, names, i, w, Follow(s.ent, w, names[i + 1]))
             /\ i = Len(names) => Arrived(to, s, names, i, v, w)
<1> DEFINE w == Follow(s.ent, v, names[i])
           to == dir_namev_step(names, i, at)
<1>0. Len(names) \in Nat /\ \A j \in 1 .. Len(names) : names[j] \in Component
  OBVIOUS
<1>1. (i - 1) + 1 = i
  BY <1>0
<1>2. \A x : Follow(s.ent, NULL, x) = NULL
  BY NamevAssumption DEF Follow, Inode
<1>3. \A x \in TooLong : \A u : Follow(s.ent, u, x) = NULL
  BY NamevAssumption DEF Follow
<1>4. CASE Failed(at, s) /\ w = NULL
  <2>1. to = at
    BY <1>4 DEF dir_namev_step, Failed
  <2>2. Failed(to, s)
    BY <1>4, <2>1
  <2> HIDE DEF to, w
  <2>3. Follow(s.ent, w, names[i + 1]) = NULL
    BY <1>2, <1>4
  <2>4. OnTheWay(to, s, names, i, w, Follow(s.ent, w, names[i + 1])) /\ Arrived(to, s, names, i, v, w)
    BY <1>4, <2>2, <2>3 DEF OnTheWay, Arrived
  <2> QED BY <2>4 DEF to, w
<1>5. CASE Found(at, s, v) /\ names[i] \notin TooLong
  <2> DEFINE sv == vref(s, v)
             r == lookup(sv, v, names[i])
  <2>1. at.ret = "OK" /\ at.vn = v /\ at.s = sv /\ v \in Inode
    BY <1>5 DEF Found
  <2>2. to = NextDirectory(names, i, v, r)
    BY <2>1 DEF dir_namev_step
  <2>3. Fs(sv) /\ sv.ent = s.ent
    BY <2>1, RefFacts
  <2>4. names[i] \in Component
    BY <1>0
  <2>5. /\ \/ Found(r, sv, w) /\ v \in Dir /\ names[i] \notin TooLong
           \/ Failed(r, sv) /\ w = NULL
        /\ r.ret = "ENOENT" => v \in Dir
    <3> HIDE DEF sv
    <3> QED BY <2>1, <2>3, <2>4, LookupFacts
  <2>6. CASE Found(r, sv, w) /\ v \in Dir
    <3>1. r.ret = "OK" /\ r.vn = w /\ r.s = vref(sv, w) /\ w \in Inode
      BY <2>6 DEF Found
    <3>2. vput(r.s, w) = sv /\ vput(r.s, v) = vref(s, w)
      <4>1. vput(vref(sv, w), w) = sv
        BY <2>3, <3>1, RefPut
      <4>2. vput(vref(vref(s, v), w), v) = vref(s, w)
        BY <2>1, <3>1, RefPut
      <4> QED BY <3>1, <4>1, <4>2
    <3>3. vput(vput(r.s, w), v) = s
      BY <2>1, <3>2, RefPut
    <3> HIDE DEF sv, r, w
    <3>4. ASSUME i = Len(names) PROVE Arrived(to, s, names, i, v, w)
      <4>1. to = Result("OK", v, vput(r.s, r.vn))
        BY <2>2, <3>1, <3>4 DEF NextDirectory
      <4>2. Found(to, s, v)
        BY <2>1, <3>1, <3>2, <4>1 DEF Result, Found, sv
      <4> QED BY <1>5, <2>6, <4>2 DEF Arrived
    <3>5. ASSUME i < Len(names) PROVE OnTheWay(to, s, names, i, w, Follow(s.ent, w, names[i + 1]))
      <4>0. i # Len(names)
        BY <1>0, <3>5
      <4>1. CASE names[i + 1] \in TooLong
        <5>1. to = Error("ENAMETOOLONG", vput(vput(r.s, r.vn), v))
          BY <2>2, <3>1, <4>0, <4>1 DEF NextDirectory
        <5>2. Failed(to, s)
          BY <3>1, <3>3, <5>1 DEF Error, Result, Failed
        <5> QED BY <1>3, <4>1, <5>2 DEF OnTheWay
      <4>2. CASE names[i + 1] \notin TooLong
        <5>1. to = Putting(r, v)
          BY <2>2, <3>1, <4>0, <4>2 DEF NextDirectory
        <5>2. r = [ret |-> r.ret, vn |-> r.vn, s |-> r.s]
          BY <2>1, <2>6, NamevAssumption DEF r, lookup, fs_lookup, Referenced, Error, Result, Found
        <5>3. Found(to, s, w)
          BY <3>1, <3>2, <5>1, <5>2 DEF Putting, Found
        <5> QED BY <4>2, <5>3 DEF OnTheWay
      <4> QED BY <4>1, <4>2
    <3> QED BY <3>4, <3>5 DEF w
  <2>7. CASE Failed(r, sv) /\ w = NULL
    <3>1. r.ret # "OK" /\ r.s = sv
      BY <2>7 DEF Failed
    <3>2. vput(sv, v) = s
      BY <2>1, RefPut
    <3> HIDE DEF sv, r, w
    <3>3. ASSUME i = Len(names) PROVE Arrived(to, s, names, i, v, w)
      <4>1. CASE r.ret = "ENOENT"
        <5>1. to = Result("OK", v, r.s)
          BY <2>2, <3>1, <3>3, <4>1 DEF NextDirectory
        <5>2. Found(to, s, v)
          BY <2>1, <3>1, <5>1 DEF Result, Found, sv
        <5> QED BY <1>5, <2>5, <4>1, <5>2 DEF Arrived
      <4>2. CASE r.ret # "ENOENT"
        <5>1. to = Error(r.ret, vput(r.s, v))
          BY <2>2, <3>1, <4>2 DEF NextDirectory
        <5>2. Failed(to, s)
          BY <3>1, <3>2, <5>1 DEF Error, Result, Failed
        <5> QED BY <2>7, <5>2 DEF Arrived
      <4> QED BY <4>1, <4>2
    <3>4. ASSUME i < Len(names) PROVE OnTheWay(to, s, names, i, w, Follow(s.ent, w, names[i + 1]))
      <4>0. i # Len(names)
        BY <1>0, <3>4
      <4>1. to = Error(r.ret, vput(r.s, v))
        BY <2>2, <3>1, <4>0 DEF NextDirectory
      <4>2. Failed(to, s)
        BY <3>1, <3>2, <4>1 DEF Error, Result, Failed
      <4> QED BY <1>2, <2>7, <4>2 DEF OnTheWay
    <3> QED BY <3>3, <3>4 DEF w
  <2> QED BY <2>5, <2>6, <2>7
<1> QED BY <1>1, <1>4, <1>5 DEF OnTheWay

(***************************************************************************)
(* dir_namev returns a directory, with one reference to it, in which the   *)
(* last component is what the path denotes; or it fails, takes no          *)
(* reference, and the path denotes nothing.                                *)
(***************************************************************************)
PathOK(path) == path \in [abs : BOOLEAN, names : Seq((Name \ {"/"}) \cup {".", ""} \cup TooLong)]

(***************************************************************************)
(* dir_namev returns the directory that holds the last component, with one *)
(* reference, and the directory is where Denotes is before that component; *)
(* or it fails, changes nothing, and the path denotes nothing.             *)
(***************************************************************************)
LEMMA DirNamevFacts ==
  ASSUME NEW s, Fs(s), NEW cwd \in Dir, NEW path, PathOK(path)
  PROVE  LET d == dir_namev(s, cwd, path) IN
         \/ /\ Found(d, s, d.vn) /\ d.vn \in Dir
            /\ BaseName(path) \in Name \cup {".", ""}
            /\ Denotes(s.ent, cwd, path) = Follow(s.ent, d.vn, OpenName(path, d.vn))
         \/ Failed(d, s) /\ Denotes(s.ent, cwd, path) = NULL
<1> DEFINE names == path.names
           start == IF path.abs THEN root ELSE cwd
           n == Len(names)
           d == dir_namev(s, cwd, path)
           ent == s.ent
<1>0. /\ names \in Seq((Name \ {"/"}) \cup {".", ""} \cup TooLong)
      /\ path.abs \in BOOLEAN
  BY DEF PathOK
<1>1. names \in Seq(Component) /\ n \in Nat /\ \A j \in 1 .. n : names[j] \in Component /\ names[j] # "/"
  <2>1. (Name \ {"/"}) \cup {".", ""} \cup TooLong \subseteq Component
    BY DEF Component
  <2>2. "/" \notin (Name \ {"/"}) \cup {".", ""} \cup TooLong
    BY NamevAssumption
  <2> DEFINE X == (Name \ {"/"}) \cup {".", ""} \cup TooLong
  <2>3. names \in Seq(X) /\ X \subseteq Component /\ "/" \notin X
    BY <1>0, <2>1, <2>2
  <2> HIDE DEF X, names
  <2>4. Len(names) \in Nat /\ \A j \in 1 .. Len(names) : names[j] \in X
    BY <2>3
  <2>5. names \in Seq(Component)
    BY <2>3, <2>4
  <2> QED BY <2>3, <2>4, <2>5 DEF n
<1>2. start \in Inode /\ root \in Dir /\ Dir \subseteq Inode
  BY NamevAssumption DEF Inode
<1>3. CASE names = <<>> /\ ~path.abs
  BY <1>3 DEF dir_namev, Denotes, Failed, Error, Result
<1>4. CASE names # <<>> /\ Head(names) \in TooLong
  <2>1. Failed(d, s)
    BY <1>4 DEF dir_namev, Failed, Error, Result
  <2>2. PICK g : ReachedOf(ent, start, names, n, g) /\ Denotes(ent, cwd, path) = g[n]
    <3>1. \E g : ReachedOf(ent, start, names, n, g)
      BY <1>1, ReachedExists
    <3> DEFINE g == CHOOSE f : ReachedOf(ent, start, names, n, f)
    <3>2. ReachedOf(ent, start, names, n, g)
      BY <3>1
    <3>3. Denotes(ent, cwd, path) = g[n]
      BY <1>4 DEF Denotes, ReachedOf
    <3> QED BY <3>2, <3>3
  <2> DEFINE T == {k \in Nat : k \in 1 .. n => g[k] = NULL}
  <2>3. 0 \in T
    OBVIOUS
  <2>4. ASSUME NEW k \in Nat, k \in T PROVE k + 1 \in T
    <3> SUFFICES ASSUME k + 1 \in 1 .. n PROVE g[k + 1] = NULL
      OBVIOUS
    <3>1. g[k + 1] = Follow(ent, g[k], names[k + 1])
      BY <1>1, <2>2 DEF ReachedOf
    <3>2. CASE k = 0
      <4>1. names[1] \in TooLong
        BY <1>1, <1>4
      <4>2. \A v : Follow(ent, v, names[1]) = NULL
        BY <4>1, NamevAssumption DEF Follow
      <4> QED BY <3>1, <3>2, <4>2
    <3>3. CASE k # 0
      <4>1. k \in 1 .. n
        BY <1>1, <3>3
      <4>2. g[k] = NULL
        BY <2>4, <4>1
      <4> QED BY <3>1, <4>2, NamevAssumption DEF Follow, Inode
    <3> QED BY <3>2, <3>3
  <2>5. Nat \subseteq T
    <3> HIDE DEF T
    <3> QED BY <2>3, <2>4, SetInduction
  <2>6. n \in 1 .. n
    BY <1>1, <1>4
  <2>7. g[n] = NULL
    BY <1>1, <2>5, <2>6
  <2> QED BY <2>1, <2>2, <2>7
<1>5. CASE ~(names = <<>> /\ ~path.abs) /\ ~(names # <<>> /\ Head(names) \in TooLong)
  <2>1. PICK g : ReachedOf(ent, start, names, n, g) /\ Denotes(ent, cwd, path) = g[n]
    <3>1. \E g : ReachedOf(ent, start, names, n, g)
      BY <1>1, ReachedExists
    <3> DEFINE g == CHOOSE f : ReachedOf(ent, start, names, n, f)
    <3>2. ReachedOf(ent, start, names, n, g)
      BY <3>1
    <3>3. Denotes(ent, cwd, path) = g[n]
      BY <1>5 DEF Denotes, ReachedOf
    <3> QED BY <3>2, <3>3
  <2>2. PICK f : WalkOf(s, start, names, n, f) /\ d = f[n]
    <3>1. \E f : WalkOf(s, start, names, n, f)
      BY <1>1, WalkExists
    <3> DEFINE f == CHOOSE h : WalkOf(s, start, names, n, h)
    <3>2. WalkOf(s, start, names, n, f)
      BY <3>1
    <3>3. d = f[n]
      BY <1>5 DEF dir_namev, WalkOf
    <3> QED BY <3>2, <3>3
  <2>3. f[0] = Referenced(Result("OK", start, s)) /\ g[0] = start
    BY <1>1, <2>1, <2>2 DEF WalkOf, ReachedOf
  <2>4. \A k \in 1 .. n : /\ f[k] = dir_namev_step(names, k, f[k - 1])
                          /\ g[k] = Follow(ent, g[k - 1], names[k])
    <3> TAKE k \in 1 .. n
    <3>1. k \in 0 .. n /\ k # 0
      BY <1>1
    <3> QED BY <2>1, <2>2, <3>1 DEF WalkOf, ReachedOf
  <2>5. Found(f[0], s, start)
    BY <1>2, <2>3 DEF Referenced, Result, Found
  <2>6. CASE names = <<>>
    <3>1. n = 0 /\ path.abs /\ start = root
      BY <1>0, <1>5, <2>6
    <3>2. BaseName(path) = "/"
      BY <2>6 DEF BaseName
    <3>3. d = f[0] /\ d.vn = root
      BY <2>2, <2>5, <3>1 DEF Found
    <3>4. OpenName(path, root) = "."
      BY <3>2 DEF OpenName
    <3>5. Follow(ent, root, ".") = root
      BY <1>2, NamevAssumption DEF Follow
    <3>6. Denotes(ent, cwd, path) = root
      BY <2>1, <2>3, <3>1
    <3>7. Found(d, s, d.vn) /\ d.vn \in Dir
      BY <1>2, <2>5, <3>1, <3>3
    <3>8. "/" \in Name
      BY NamevAssumption
    <3> QED BY <3>2, <3>3, <3>4, <3>5, <3>6, <3>7, <3>8
  <2>7. CASE names # <<>>
    <3>0. n >= 1 /\ n \in 1 .. n /\ n - 1 \in 0 .. n /\ 1 \in 1 .. n /\ Head(names) = names[1]
      BY <1>1, <2>7
    <3> DEFINE T == {k \in Nat : k < n => OnTheWay(f[k], s, names, k, g[k], Follow(ent, g[k], names[k + 1]))}
    <3>1. 0 \in T
      BY <1>5, <2>3, <2>5, <2>7, <3>0 DEF OnTheWay
    <3>2. ASSUME NEW k \in Nat, k \in T PROVE k + 1 \in T
      <4> SUFFICES ASSUME k + 1 < n
                   PROVE  OnTheWay(f[k + 1], s, names, k + 1, g[k + 1], Follow(ent, g[k + 1], names[(k + 1) + 1]))
        OBVIOUS
      <4>1. k < n /\ k + 1 \in 1 .. n /\ (k + 1) - 1 = k
        BY <1>1
      <4>2. OnTheWay(f[k], s, names, (k + 1) - 1, g[k], Follow(ent, g[k], names[k + 1]))
        BY <3>2, <4>1
      <4>3. f[k + 1] = dir_namev_step(names, k + 1, f[k]) /\ g[k + 1] = Follow(ent, g[k], names[k + 1])
        BY <2>4, <4>1
      <4> HIDE DEF names, n, ent
      <4> QED BY <1>1, <4>1, <4>2, <4>3, WalkStep DEF ent, n
    <3>3. Nat \subseteq T
      <4> HIDE DEF T
      <4> QED BY <3>1, <3>2, SetInduction
    <3>4. OnTheWay(f[n - 1], s, names, n - 1, g[n - 1], Follow(ent, g[n - 1], names[n]))
      <4>1. n - 1 \in Nat /\ n - 1 < n /\ (n - 1) + 1 = n
        BY <1>1, <3>0
      <4> QED BY <3>3, <4>1
    <3>5. f[n] = dir_namev_step(names, n, f[n - 1]) /\ g[n] = Follow(ent, g[n - 1], names[n])
      BY <2>4, <3>0
    <3>6. Arrived(f[n], s, names, n, g[n - 1], g[n])
      <4> HIDE DEF names, ent
      <4> QED BY <1>1, <3>0, <3>4, <3>5, WalkStep DEF ent
    <3>7. BaseName(path) = names[n] /\ names[n] # "/"
      BY <1>1, <2>7, <3>0 DEF BaseName
    <3>8. \A v : OpenName(path, v) = names[n]
      BY <3>7 DEF OpenName
    <3>9. names[n] \in Component
      BY <1>1, <3>0
    <3>10. CASE Found(f[n], s, g[n - 1]) /\ g[n - 1] \in Dir /\ names[n] \notin TooLong
      <4>1. d.vn = g[n - 1] /\ Found(d, s, d.vn)
        BY <2>2, <3>10 DEF Found
      <4>2. BaseName(path) \in Name \cup {".", ""}
        BY <3>7, <3>9, <3>10 DEF Component
      <4>3. Denotes(ent, cwd, path) = Follow(ent, d.vn, OpenName(path, d.vn))
        BY <2>1, <3>5, <3>8, <4>1
      <4> QED BY <3>10, <4>1, <4>2, <4>3
    <3>11. CASE Failed(f[n], s) /\ g[n] = NULL
      BY <2>1, <2>2, <3>11
    <3> QED BY <3>6, <3>10, <3>11 DEF Arrived
  <2> QED BY <2>6, <2>7
<1> QED BY <1>3, <1>4, <1>5

(***************************************************************************)
(* open_namev finds what the path denotes, and takes one reference to it.  *)
(***************************************************************************)
LEMMA OpenNamevFacts ==
  ASSUME NEW s, Fs(s), NEW cwd \in Dir, NEW path, PathOK(path)
  PROVE  LET r == open_namev(s, cwd, path)
             v == Denotes(s.ent, cwd, path)
         IN  \/ Found(r, s, v) /\ v # NULL
             \/ Failed(r, s) /\ v = NULL
<1> DEFINE d == dir_namev(s, cwd, path)
           v == Denotes(s.ent, cwd, path)
           name == OpenName(path, d.vn)
           r == lookup(d.s, d.vn, name)
<1>1. CASE Failed(d, s) /\ v = NULL
  BY <1>1 DEF open_namev, OpenIn, Failed
<1>2. CASE /\ Found(d, s, d.vn) /\ d.vn \in Dir
           /\ BaseName(path) \in Name \cup {".", ""}
           /\ v = Follow(s.ent, d.vn, name)
  <2>1. d.ret = "OK" /\ d.s = vref(s, d.vn) /\ d.vn \in Inode /\ d.vn \in Dir
    BY <1>2 DEF Found
  <2>2. open_namev(s, cwd, path) = Putting(r, d.vn)
    BY <2>1 DEF open_namev, OpenIn
  <2>3. Fs(d.s) /\ d.s.ent = s.ent
    BY <2>1, RefFacts
  <2>4. name \in Component
    BY <1>2 DEF OpenName, Component
  <2>5. \/ Found(r, d.s, v)
        \/ Failed(r, d.s) /\ v = NULL
    <3>1. Follow(d.s.ent, d.vn, name) = v
      BY <1>2, <2>3
    <3> HIDE DEF d, name, r, v
    <3>2. \/ Found(lookup(d.s, d.vn, name), d.s, Follow(d.s.ent, d.vn, name))
          \/ /\ Failed(lookup(d.s, d.vn, name), d.s)
             /\ Follow(d.s.ent, d.vn, name) = NULL
      BY <2>1, <2>3, <2>4, LookupFacts
    <3> QED BY <3>1, <3>2 DEF r
  <2>6. r = [ret |-> r.ret, vn |-> r.vn, s |-> r.s]
    <3>1. r.ret \in {"OK", "ENOENT"}
      <4> HIDE DEF d, name
      <4> QED BY <2>1, <2>3, <2>4, LookupFacts
    <3> HIDE DEF d, name
    <3> QED BY <2>1 DEF lookup, fs_lookup, Referenced, Error, Result
  <2> HIDE DEF r, d, name, v
  <2>7. CASE Found(r, d.s, v)
    <3>1. r.ret = "OK" /\ r.vn = v /\ r.s = vref(vref(s, d.vn), v) /\ v \in Inode
      BY <2>1, <2>7 DEF Found
    <3>2. vput(r.s, d.vn) = vref(s, v)
      BY <2>1, <3>1, RefPut
    <3>3. Found(Putting(r, d.vn), s, v)
      BY <2>6, <3>1, <3>2 DEF Putting, Found
    <3> QED BY <2>2, <3>1, <3>3, NamevAssumption DEF v
  <2>8. CASE Failed(r, d.s) /\ v = NULL
    <3>1. r.ret # "OK" /\ vput(r.s, d.vn) = s
      BY <2>1, <2>8, RefPut DEF Failed
    <3>2. Failed(Putting(r, d.vn), s)
      BY <2>6, <3>1 DEF Putting, Failed
    <3> QED BY <2>2, <2>8, <3>2 DEF v
  <2> QED BY <2>5, <2>7, <2>8
<1> QED BY <1>1, <1>2, DirNamevFacts

----------------------------------------------------------------------------
(***************************************************************************)
(* The directories.  Tree says of a state s what DirectoriesFormTree says  *)
(* of the current one, without counting.                                   *)
(***************************************************************************)
Plain == Name \ {".."}

(***************************************************************************)
(* A directory other than the root has one name, in a linked directory     *)
(* that is its "..". ".." itself is not such a name.                       *)
(***************************************************************************)
Tree(s) ==
  \A d \in Dir \ {root}, e \in Dir, n \in Plain : s.ent[e][n] = d =>
    /\ s.ent[d][".."] = e /\ Linked(s, e)
    /\ \A m \in Plain : s.ent[e][m] = d => m = n

(***************************************************************************)
(* Tree says as much as DirectoriesFormTree: two names of a directory      *)
(* would be the same one.                                                  *)
(***************************************************************************)
LEMMA TreeForms ==
  ASSUME Tree(fs)
  PROVE  DirectoriesFormTree
<1> SUFFICES ASSUME NEW d \in Dir \ {root}
             PROVE  LET names == {u \in Dir \X (Name \ {".."}) : dirents[u[1]][u[2]] = d}
                    IN  /\ Cardinality(names) <= 1
                        /\ \A u \in names : dirents[d][".."] = u[1] /\ Linked(fs, u[1])
  BY DEF DirectoriesFormTree
<1> DEFINE names == {u \in Dir \X (Name \ {".."}) : dirents[u[1]][u[2]] = d}
<1>0. fs.ent = dirents
  BY DEF fs
<1>1. \A u \in names : dirents[d][".."] = u[1] /\ Linked(fs, u[1])
  BY <1>0 DEF Tree, Plain
<1>2. \A u, w \in names : u = w
  <2> SUFFICES ASSUME NEW u \in names, NEW w \in names PROVE u = w
    OBVIOUS
  <2>1. u = <<u[1], u[2]>> /\ w = <<w[1], w[2]>> /\ u[2] \in Plain /\ w[2] \in Plain /\ u[1] \in Dir
    BY DEF Plain
  <2>2. u[1] = w[1]
    BY <1>1
  <2>3. u[2] = w[2]
    BY <1>0, <2>1, <2>2 DEF Tree
  <2> QED BY <2>1, <2>2, <2>3
<1>3. Cardinality(names) <= 1
  <2> HIDE DEF names
  <2>1. CASE names = {}
    BY <2>1, FS_EmptySet
  <2>2. CASE names # {}
    <3>1. PICK u : u \in names
      BY <2>2
    <3>2. names = {u}
      BY <1>2, <3>1
    <3>3. Cardinality({u}) = 1
      BY FS_Singleton
    <3> QED BY <3>2, <3>3
  <2> QED BY <2>1, <2>2
<1> QED BY <1>1, <1>3

(* Where entries change, directories stay linked, and so the tree a tree. *)
(* FreeDirsEmpty of a state s. *)
FreeEmpty(s) == \A d \in FreeInodes(s, Dir) : s.ent[d] = EmptyDir

(* What Settle does to the directories. *)
Settled(s) == [s EXCEPT !.ent = [d \in Dir |-> IF d \in FreeInodes(s, Inode) THEN EmptyDir ELSE s.ent[d]]]

(***************************************************************************)
(* Settle empties directories that nothing names, so that the tree stays a *)
(* tree.                                                                   *)
(***************************************************************************)
LEMMA SettledTree ==
  ASSUME NEW s, Fs(s), Tree(s)
  PROVE  Fs(Settled(s)) /\ Tree(Settled(s)) /\ FreeEmpty(Settled(s)) /\ Settled(s).rc = s.rc
<1> DEFINE t == Settled(s)
           free == FreeInodes(s, Inode)
<1>0. NULL \notin Inode /\ Dir \subseteq Inode /\ root \in Dir /\ ".." \in Name
  BY NamevAssumption DEF Inode
<1>1. t = [rc |-> s.rc, ent |-> [d \in Dir |-> IF d \in free THEN EmptyDir ELSE s.ent[d]]]
  BY DEF Settled, Fs
<1>2. /\ t.rc = s.rc
      /\ \A d \in Dir : t.ent[d] = IF d \in free THEN EmptyDir ELSE s.ent[d]
  BY <1>1
<1>3. EmptyDir \in [Name -> Inode \cup {NULL}] /\ \A n \in Name : EmptyDir[n] = NULL
  BY DEF EmptyDir
<1>4. Fs(t)
  BY <1>1, <1>3 DEF Fs
<1> HIDE DEF t
<1>5. \A v \in Inode : Linked(s, v) => v \notin free
  BY DEF FreeInodes
<1>6. \A v \in Dir : Linked(t, v) <=> Linked(s, v)
  <2> TAKE v \in Dir
  <2>1. ASSUME Linked(s, v) PROVE Linked(t, v)
    <3>1. CASE v = root
      BY <3>1 DEF Linked
    <3>2. CASE v # root
      <4>1. PICK d \in Dir, n \in Plain : s.ent[d][n] = v
        BY <2>1, <3>2 DEF Linked, Plain
      <4>2. d \notin free
        BY <1>0, <1>5, <3>2, <4>1 DEF Tree
      <4>3. t.ent[d][n] = v
        BY <1>2, <4>1, <4>2
      <4> QED BY <4>3 DEF Linked, Plain
    <3> QED BY <3>1, <3>2
  <2>2. ASSUME Linked(t, v) PROVE Linked(s, v)
    BY <1>0, <1>2, <1>3, <2>2 DEF Linked
  <2> QED BY <2>1, <2>2
<1>7. Tree(t)
  <2> SUFFICES ASSUME NEW d \in Dir \ {root}, NEW e \in Dir, NEW n \in Plain, t.ent[e][n] = d
               PROVE  /\ t.ent[d][".."] = e /\ Linked(t, e)
                      /\ \A m \in Plain : t.ent[e][m] = d => m = n
    BY DEF Tree
  <2>1. e \notin free /\ t.ent[e] = s.ent[e]
    BY <1>0, <1>2, <1>3 DEF Plain
  <2>2. s.ent[e][n] = d
    BY <2>1
  <2>3. Linked(s, d)
    BY <2>2 DEF Linked, Plain
  <2>4. t.ent[d] = s.ent[d]
    BY <1>0, <1>2, <1>5, <2>3
  <2> QED BY <1>6, <2>1, <2>2, <2>4 DEF Tree
<1>8. FreeEmpty(t)
  <2> SUFFICES ASSUME NEW d \in Dir, ~Linked(t, d), t.rc[d] = 0 PROVE t.ent[d] = EmptyDir
    BY DEF FreeEmpty, FreeInodes
  <2>1. d \in free
    BY <1>0, <1>2, <1>6 DEF FreeInodes
  <2> QED BY <1>2, <2>1
<1> QED BY <1>2, <1>4, <1>7, <1>8 DEF t

(* SetEntry changes one entry of one directory. *)
LEMMA SetEntryFacts ==
  ASSUME NEW s, Fs(s), NEW dir \in Dir, NEW name \in Name, NEW v \in Inode \cup {NULL}
  PROVE  LET t == SetEntry(s, dir, name, v)
         IN  /\ Fs(t) /\ t.rc = s.rc /\ t.ent[dir][name] = v
             /\ \A d \in Dir, n \in Name : d # dir \/ n # name => t.ent[d][n] = s.ent[d][n]
  BY DEF Fs, SetEntry

(* A state whose counts do not matter to the tree. *)
LEMMA TreeEnt ==
  ASSUME NEW s, NEW t, Tree(s), t.ent = s.ent
  PROVE  Tree(t) /\ \A v : Linked(t, v) <=> Linked(s, v)
  BY DEF Tree, Linked

(* The link operation on what is no directory. *)
LEMMA LinkTree ==
  ASSUME NEW s, Fs(s), Tree(s), NEW v \in Inode \ Dir, NEW dir \in Dir, NEW name \in Name
  PROVE  LET r == fs_link(s, v, dir, name)
         IN  /\ Fs(r.s) /\ Tree(r.s) /\ r.s.rc = s.rc
             /\ r = [ret |-> r.ret, vn |-> r.vn, s |-> r.s]
<1> DEFINE t == SetEntry(s, dir, name, v)
           r == fs_link(s, v, dir, name)
<1>0. NULL \notin Inode /\ Dir \subseteq Inode /\ root \in Dir /\ ".." \in Name
  BY NamevAssumption DEF Inode
<1>1. Entry(s, dir, name) = s.ent[dir][name]
  BY DEF Entry
<1>2. CASE Entry(s, dir, name) # NULL \/ ~Linked(s, dir)
  BY <1>2 DEF fs_link, Error, Result
<1>3. CASE Entry(s, dir, name) = NULL /\ Linked(s, dir)
  <2>1. r = [ret |-> "OK", vn |-> v, s |-> t]
    BY <1>3 DEF fs_link, Result
  <2>2. /\ Fs(t) /\ t.rc = s.rc /\ t.ent[dir][name] = v
        /\ \A d \in Dir, n \in Name : d # dir \/ n # name => t.ent[d][n] = s.ent[d][n]
    BY SetEntryFacts
  <2> HIDE DEF t
  <2>3. ASSUME NEW u \in Dir, Linked(s, u) PROVE Linked(t, u)
    <3>1. CASE u = root
      BY <3>1 DEF Linked
    <3>2. CASE u # root
      <4>1. PICK d \in Dir, n \in Plain : s.ent[d][n] = u
        BY <2>3, <3>2 DEF Linked, Plain
      <4>2. t.ent[d][n] = u
        BY <1>0, <1>1, <1>3, <2>2, <4>1 DEF Plain
      <4> QED BY <4>2 DEF Linked, Plain
    <3> QED BY <3>1, <3>2
  <2>4. Tree(t)
    <3> SUFFICES ASSUME NEW d \in Dir \ {root}, NEW e \in Dir, NEW n \in Plain, t.ent[e][n] = d
                 PROVE  /\ t.ent[d][".."] = e /\ Linked(t, e)
                        /\ \A m \in Plain : t.ent[e][m] = d => m = n
      BY DEF Tree
    <3>1. e # dir \/ n # name
      BY <2>2
    <3>2. s.ent[e][n] = d
      BY <2>2, <3>1 DEF Plain
    <3>3. s.ent[d][".."] = e /\ Linked(t, e)
      BY <2>3, <3>2 DEF Tree
    <3>4. t.ent[d][".."] = e
      BY <1>0, <1>1, <1>3, <2>2, <3>3
    <3>5. \A m \in Plain : t.ent[e][m] = d => s.ent[e][m] = d
      BY <2>2 DEF Plain
    <3> QED BY <3>2, <3>3, <3>4, <3>5 DEF Tree
  <2> QED BY <2>1, <2>2, <2>4
<1> QED BY <1>2, <1>3

(* create, mkdir and mknod. *)
LEMMA MakeTree ==
  ASSUME NEW s, Fs(s), Tree(s), FreeEmpty(s), NEW dir \in Dir, s.rc[dir] # 0,
         NEW name \in Name, NEW K, K \in {Dir, Reg, Chr}
  PROVE  LET r == fs_make(s, dir, name, K)
         IN  /\ Fs(r.s) /\ Tree(r.s) /\ r.s.rc = s.rc
             /\ r = [ret |-> r.ret, vn |-> r.vn, s |-> r.s]
             /\ r.ret = "OK" => r.vn \in K
<1>0. /\ NULL \notin Inode /\ Dir \subseteq Inode /\ root \in Dir /\ ".." \in Name /\ K \subseteq Inode
      /\ Dir \cap Reg = {} /\ Dir \cap Chr = {}
  BY NamevAssumption DEF Inode
<1>1. CASE FreeInodes(s, K) = {}
  BY <1>1 DEF fs_make, Error, Result
<1>2. CASE FreeInodes(s, K) # {}
  <2> DEFINE v == CHOOSE v \in FreeInodes(s, K) : TRUE
             s2 == IF v \in Dir THEN SetEntry(s, v, "..", dir) ELSE s
             r == fs_make(s, dir, name, K)
             t == SetEntry(s2, dir, name, v)
  <2>1. v \in K /\ ~Linked(s, v) /\ s.rc[v] = 0
    BY <1>2 DEF FreeInodes
  <2>2. r = fs_link(s2, v, dir, name)
    BY <1>2 DEF fs_make
  <2>3. v \in Inode /\ v # dir /\ v # root /\ (v \in Dir => s.ent[v] = EmptyDir)
    BY <1>0, <2>1 DEF FreeEmpty, FreeInodes, Linked
  <2> HIDE DEF v
  <2>4. CASE v \notin Dir
    <3>1. s2 = s
      BY <2>4
    <3> HIDE DEF s2, r
    <3>2. /\ Fs(r.s) /\ Tree(r.s) /\ r.s.rc = s.rc
          /\ r = [ret |-> r.ret, vn |-> r.vn, s |-> r.s]
      BY <2>2, <2>3, <2>4, <3>1, LinkTree
    <3>3. r.ret = "OK" => r.vn = v
      BY <2>2, <3>1 DEF fs_link, Error, Result
    <3> QED BY <2>1, <3>2, <3>3 DEF r
  <2>5. CASE v \in Dir
    <3>1. /\ Fs(s2) /\ s2.rc = s.rc /\ s2.ent[v][".."] = dir
          /\ \A d \in Dir, n \in Name : d # v \/ n # ".." => s2.ent[d][n] = s.ent[d][n]
      BY <1>0, <2>5, SetEntryFacts
    <3>2. /\ Fs(t) /\ t.rc = s.rc /\ t.ent[dir][name] = v
          /\ \A d \in Dir, n \in Name : d # dir \/ n # name => t.ent[d][n] = s2.ent[d][n]
      <4> HIDE DEF s2
      <4> QED BY <2>3, <3>1, SetEntryFacts
    <3> HIDE DEF s2, t
    <3>3. \A u : Linked(s2, u) <=> Linked(s, u)
      BY <3>1 DEF Linked, Plain
    <3>4. Tree(s2)
      <4> SUFFICES ASSUME NEW d \in Dir \ {root}, NEW e \in Dir, NEW n \in Plain, s2.ent[e][n] = d
                   PROVE  /\ s2.ent[d][".."] = e /\ Linked(s2, e)
                          /\ \A m \in Plain : s2.ent[e][m] = d => m = n
        BY DEF Tree
      <4>1. \A m \in Plain : s2.ent[e][m] = s.ent[e][m]
        BY <3>1 DEF Plain
      <4>2. d # v
        BY <2>1, <4>1 DEF Linked, Plain
      <4>3. s2.ent[d][".."] = s.ent[d][".."]
        BY <1>0, <3>1, <4>2
      <4> QED BY <3>3, <4>1, <4>3 DEF Tree
    <3>5. Entry(s2, dir, name) = s.ent[dir][name]
      BY <2>3, <3>1 DEF Entry
    <3>6. CASE Entry(s2, dir, name) # NULL \/ ~Linked(s2, dir)
      BY <2>2, <3>1, <3>4, <3>6 DEF fs_link, Error, Result
    <3>7. CASE Entry(s2, dir, name) = NULL /\ Linked(s2, dir)
      <4>1. r = [ret |-> "OK", vn |-> v, s |-> t]
        BY <2>2, <3>7 DEF fs_link, Result, t
      <4>2. ASSUME NEW u \in Dir, Linked(s2, u) PROVE Linked(t, u)
        <5>1. CASE u = root
          BY <5>1 DEF Linked
        <5>2. CASE u # root
          <6>1. PICK d \in Dir, n \in Plain : s2.ent[d][n] = u
            BY <4>2, <5>2 DEF Linked, Plain
          <6>2. s2.ent[dir][name] = NULL /\ u # NULL /\ n \in Name
            BY <1>0, <2>3, <3>1, <3>5, <3>7 DEF Plain
          <6>3. t.ent[d][n] = u
            BY <3>2, <6>1, <6>2
          <6> QED BY <6>3 DEF Linked, Plain
        <5> QED BY <5>1, <5>2
      <4>3. Tree(t)
        <5> SUFFICES ASSUME NEW d \in Dir \ {root}, NEW e \in Dir, NEW n \in Plain, t.ent[e][n] = d
                     PROVE  /\ t.ent[d][".."] = e /\ Linked(t, e)
                            /\ \A m \in Plain : t.ent[e][m] = d => m = n
          BY DEF Tree
        <5>1. CASE d = v
          <6>1. \A x \in Dir, m \in Plain : s2.ent[x][m] # v
            BY <2>1, <3>3 DEF Linked, Plain
          <6>2. e = dir /\ \A m \in Plain : t.ent[e][m] = d => m = name
            BY <3>2, <5>1, <6>1 DEF Plain
          <6>3. t.ent[d][".."] = e
            BY <1>0, <2>3, <3>1, <3>2, <5>1, <6>2
          <6> QED BY <3>7, <4>2, <6>2, <6>3
        <5>2. CASE d # v
          <6>1. s2.ent[e][n] = d /\ \A m \in Plain : t.ent[e][m] = d => s2.ent[e][m] = d
            BY <3>2, <5>2 DEF Plain
          <6>2. s2.ent[d][".."] = e /\ Linked(s2, e) /\ \A m \in Plain : s2.ent[e][m] = d => m = n
            BY <3>4, <6>1 DEF Tree
          <6>3. s2.ent[d][".."] # NULL
            BY <1>0, <6>2
          <6>4. d # dir \/ ".." # name
            BY <3>1, <3>5, <3>7, <5>2, <6>3
          <6>5. t.ent[d][".."] = e
            BY <1>0, <3>2, <6>2, <6>4
          <6> QED BY <4>2, <6>1, <6>2, <6>5
        <5> QED BY <5>1, <5>2
      <4> HIDE DEF r
      <4> QED BY <2>1, <3>2, <4>1, <4>3 DEF r
    <3> QED BY <3>6, <3>7
  <2> QED BY <2>4, <2>5
<1> QED BY <1>1, <1>2

(* unlink, which leaves directories alone. *)
LEMMA UnlinkTree ==
  ASSUME NEW s, Fs(s), Tree(s), NEW dir \in Dir, NEW name \in Name
  PROVE  LET t == fs_unlink(s, dir, name) IN Fs(t) /\ Tree(t) /\ t.rc = s.rc
<1>0. NULL \notin Inode /\ Dir \subseteq Inode /\ root \in Dir /\ ".." \in Name
  BY NamevAssumption DEF Inode
<1>1. Entry(s, dir, name) = s.ent[dir][name]
  BY DEF Entry
<1>2. CASE Entry(s, dir, name) \in Dir \cup {NULL}
  BY <1>2 DEF fs_unlink
<1>3. CASE Entry(s, dir, name) \notin Dir \cup {NULL}
  <2> DEFINE t == SetEntry(s, dir, name, NULL)
  <2>1. fs_unlink(s, dir, name) = t
    BY <1>3 DEF fs_unlink
  <2>2. /\ Fs(t) /\ t.rc = s.rc /\ t.ent[dir][name] = NULL
        /\ \A d \in Dir, n \in Name : d # dir \/ n # name => t.ent[d][n] = s.ent[d][n]
    BY SetEntryFacts
  <2> HIDE DEF t
  <2>3. \A d \in Dir, n \in Name, u \in Dir : t.ent[d][n] = u <=> s.ent[d][n] = u
    BY <1>0, <1>1, <1>3, <2>2
  <2>4. \A u \in Dir : Linked(t, u) <=> Linked(s, u)
    BY <2>3 DEF Linked
  <2>5. Tree(t)
    BY <1>0, <2>3, <2>4 DEF Tree, Plain
  <2> QED BY <2>1, <2>2, <2>5
<1> QED BY <1>2, <1>3

(* rmdir, which takes out an empty directory. *)
LEMMA RmdirTree ==
  ASSUME NEW s, Fs(s), Tree(s), NEW dir \in Dir, NEW name, name # ".."
  PROVE  LET t == fs_rmdir(s, dir, name) IN Fs(t) /\ Tree(t) /\ t.rc = s.rc
<1> DEFINE v == Entry(s, dir, name)
<1>0. NULL \notin Inode /\ Dir \subseteq Inode /\ root \in Dir /\ ".." \in Name
  BY NamevAssumption DEF Inode
<1>1. CASE ~(v \in Dir /\ \A n \in Name \ {".."} : s.ent[v][n] = NULL)
  BY <1>1 DEF fs_rmdir
<1>2. CASE v \in Dir /\ \A n \in Name \ {".."} : s.ent[v][n] = NULL
  <2>1. name \in Name /\ v = s.ent[dir][name]
    BY <1>0, <1>2 DEF Entry
  <2> HIDE DEF v
  <2> DEFINE s2 == SetEntry(s, dir, name, NULL)
             t == [s2 EXCEPT !.ent[v] = EmptyDir]
  <2>2. fs_rmdir(s, dir, name) = t
    BY <1>2 DEF fs_rmdir, v
  <2>3. /\ Fs(s2) /\ s2.rc = s.rc /\ s2.ent[dir][name] = NULL
        /\ \A d \in Dir, n \in Name : d # dir \/ n # name => s2.ent[d][n] = s.ent[d][n]
    BY <2>1, SetEntryFacts
  <2>4. EmptyDir \in [Name -> Inode \cup {NULL}] /\ \A n \in Name : EmptyDir[n] = NULL
    BY DEF EmptyDir
  <2> HIDE DEF s2
  <2>5. /\ Fs(t) /\ t.rc = s.rc /\ t.ent[v] = EmptyDir
        /\ \A d \in Dir \ {v} : t.ent[d] = s2.ent[d]
    BY <1>2, <2>3, <2>4 DEF Fs
  <2> HIDE DEF t
  <2>6. /\ t.ent[dir][name] = NULL
        /\ \A d \in Dir, n \in Plain : d # dir \/ n # name => t.ent[d][n] = s.ent[d][n]
    BY <1>2, <2>1, <2>3, <2>4, <2>5 DEF Plain
  <2>7. ASSUME NEW u \in Dir, u # v, Linked(s, u) PROVE Linked(t, u)
    <3>1. CASE u = root
      BY <3>1 DEF Linked
    <3>2. CASE u # root
      <4>1. PICK d \in Dir, n \in Plain : s.ent[d][n] = u
        BY <2>7, <3>2 DEF Linked, Plain
      <4>2. t.ent[d][n] = u
        BY <2>1, <2>6, <2>7, <4>1
      <4> QED BY <4>2 DEF Linked, Plain
    <3> QED BY <3>1, <3>2
  <2>8. Tree(t)
    <3> SUFFICES ASSUME NEW d \in Dir \ {root}, NEW e \in Dir, NEW n \in Plain, t.ent[e][n] = d
                 PROVE  /\ t.ent[d][".."] = e /\ Linked(t, e)
                        /\ \A m \in Plain : t.ent[e][m] = d => m = n
      BY DEF Tree
    <3>1. e # dir \/ n # name
      BY <1>0, <2>6
    <3>2. s.ent[e][n] = d
      BY <2>6, <3>1
    <3>3. s.ent[d][".."] = e /\ Linked(s, e) /\ \A m \in Plain : s.ent[e][m] = d => m = n
      BY <3>2 DEF Tree
    <3>4. e # v
      BY <1>0, <1>2, <3>2 DEF Plain
    <3>5. d # v
      <4> SUFFICES ASSUME d = v PROVE FALSE
        OBVIOUS
      <4>1. name \in Plain /\ s.ent[dir][name] = d
        BY <2>1 DEF Plain
      <4>2. s.ent[d][".."] = dir
        BY <4>1 DEF Tree
      <4> QED BY <3>1, <3>3, <4>1, <4>2
    <3>6. t.ent[d][".."] = e
      BY <1>0, <2>1, <2>3, <2>5, <3>3, <3>5
    <3>7. \A m \in Plain : t.ent[e][m] = d => s.ent[e][m] = d
      BY <1>0, <2>6
    <3> QED BY <2>7, <3>3, <3>4, <3>6, <3>7
  <2> QED BY <2>2, <2>5, <2>8
<1> QED BY <1>1, <1>2
----------------------------------------------------------------------------
(***************************************************************************)
(* The invariant.                                                          *)
(***************************************************************************)
(* The directories form a tree, and those that are gone are empty. *)
DirsOK == Tree(fs) /\ FreeDirsEmpty

(* The inductive invariant. *)
IInv ==
  /\ FilesTypeOK /\ RefsExact /\ DirsOK /\ HoldersAlive /\ FilesAccounted /\ BlockedRelyOn
  /\ ShutdownFailsAfterLeaks

(***************************************************************************)
(* Counting: a set that changes at one member.                             *)
(***************************************************************************)
LEMMA CardAt ==
  ASSUME NEW A, NEW B, IsFiniteSet(A), IsFiniteSet(B), NEW y, A \ {y} = B \ {y}
  PROVE  /\ Cardinality(A) \in Nat /\ Cardinality(B) \in Nat
         /\ Cardinality(B) = Cardinality(A) + (IF y \in B THEN 1 ELSE 0) - (IF y \in A THEN 1 ELSE 0)
<1>1. Cardinality(A) \in Nat /\ Cardinality(B) \in Nat
  BY FS_CardinalityType
<1>2. \A X : IsFiniteSet(X) => Cardinality(X) = Cardinality(X \ {y}) + (IF y \in X THEN 1 ELSE 0)
  <2> TAKE X
  <2> SUFFICES ASSUME IsFiniteSet(X) PROVE Cardinality(X) = Cardinality(X \ {y}) + (IF y \in X THEN 1 ELSE 0)
    OBVIOUS
  <2>1. Cardinality(X) \in Nat
    BY FS_CardinalityType
  <2>2. Cardinality(X \ {y}) = IF y \in X THEN Cardinality(X) - 1 ELSE Cardinality(X)
    BY FS_RemoveElement
  <2> QED BY <2>1, <2>2
<1>3. IsFiniteSet(A \ {y}) /\ Cardinality(A \ {y}) \in Nat
  BY FS_RemoveElement, FS_CardinalityType
<1> QED BY <1>1, <1>2, <1>3

(* A blocked call and what it refers to. *)
FileCall(b) == b # NULL /\ b.call \in {"do_read", "do_write", "do_getdent"}

PathCall(b) == b # NULL /\ ~FileCall(b)

(* 1 if c holds, so that uses can be added up. *)
If(c) == IF c THEN 1 ELSE 0

(***************************************************************************)
(* The references that a blocked call holds: to its directory, to its      *)
(* vnode and to its file.                                                  *)
(***************************************************************************)
DirUse(b, v) == If(PathCall(b) /\ b.dir = v)

VnUse(b, v) == If(PathCall(b) /\ b.vn = v)

CallUse(b, f) == If(FileCall(b) /\ b.file = f)

(* The counts that VnodeUses and FileUses add up, of given parts of a state:  *)
(* al for alive, cwd for p_cwd, pf for p_files, fv for f_vnode, bl for        *)
(* blocked.                                                                   *)
CwdSet(al, cwd, v) == {p \in al : cwd[p] = v}

VnodeSet(fv, v) == {f \in File : fv[f] = v}

DirSet(bl, v) == {p \in Proc : PathCall(bl[p]) /\ bl[p].dir = v}

VnSet(bl, v) == {p \in Proc : PathCall(bl[p]) /\ bl[p].vn = v}

FdSet(al, pf, f) == {u \in al \X FD : pf[u[1]][u[2]] = f}

CallSet(bl, f) == {p \in Proc : FileCall(bl[p]) /\ bl[p].file = f}

CwdCount(al, cwd, v) == Cardinality(CwdSet(al, cwd, v))

VnodeCount(fv, v) == Cardinality(VnodeSet(fv, v))

DirCount(bl, v) == Cardinality(DirSet(bl, v))

VnCount(bl, v) == Cardinality(VnSet(bl, v))

FdCount(al, pf, f) == Cardinality(FdSet(al, pf, f))

CallCount(bl, f) == Cardinality(CallSet(bl, f))

RootCount(sys, v) == IF v = root THEN (IF sys \in {"up", "assert"} THEN 2 ELSE 1) ELSE 0

(***************************************************************************)
(* VnodeUses and FileUses are sums of counts, in this state and in the     *)
(* next.                                                                   *)
(***************************************************************************)
LEMMA UsesAreCounts ==
  /\ \A v : VnodeUses(v) = RootCount(system, v) + CwdCount(alive, p_cwd, v) + VnodeCount(f_vnode, v)
                           + DirCount(blocked, v) + VnCount(blocked, v)
  /\ \A v : VnodeUses(v)' = RootCount(system', v) + CwdCount(alive', p_cwd', v) + VnodeCount(f_vnode', v)
                           + DirCount(blocked', v) + VnCount(blocked', v)
  /\ \A f : FileUses(f) = FdCount(alive, p_files, f) + CallCount(blocked, f)
  /\ \A f : FileUses(f)' = FdCount(alive', p_files', f) + CallCount(blocked', f)
<1>1. \A v : VnodeUses(v) = RootCount(system, v) + CwdCount(alive, p_cwd, v) + VnodeCount(f_vnode, v)
                           + DirCount(blocked, v) + VnCount(blocked, v)
  BY DEF VnodeUses, RootRefs, RootCount, CwdCount, CwdSet, VnodeCount, VnodeSet, DirCount, DirSet,
         VnCount, VnSet, InPathCall, InFileCall, PathCall, FileCall
<1>2. \A v : VnodeUses(v)' = RootCount(system', v) + CwdCount(alive', p_cwd', v) + VnodeCount(f_vnode', v)
                           + DirCount(blocked', v) + VnCount(blocked', v)
  BY DEF VnodeUses, RootRefs, RootCount, CwdCount, CwdSet, VnodeCount, VnodeSet, DirCount, DirSet,
         VnCount, VnSet, InPathCall, InFileCall, PathCall, FileCall
<1>3. \A f : FileUses(f) = FdCount(alive, p_files, f) + CallCount(blocked, f)
  BY DEF FileUses, FdCount, FdSet, CallCount, CallSet, InFileCall, FileCall
<1>4. \A f : FileUses(f)' = FdCount(alive', p_files', f) + CallCount(blocked', f)
  BY DEF FileUses, FdCount, FdSet, CallCount, CallSet, InFileCall, FileCall
<1> QED BY <1>1, <1>2, <1>3, <1>4

(* There are finitely many processes, file_t objects and descriptors. *)
LEMMA FiniteConstants == IsFiniteSet(Proc) /\ IsFiniteSet(File) /\ IsFiniteSet(FD)
<1>1. IsFiniteSet(Proc) /\ IsFiniteSet(File) /\ NFILES \in Nat
  BY FilesAssumption
<1>2. NFILES - 1 \in Int
  BY <1>1
<1>3. IsFiniteSet(0..(NFILES - 1))
  BY <1>2, FS_Interval
<1> QED BY <1>1, <1>3 DEF FD

(* So the sets that are counted are finite, *)
LEMMA FiniteCounts ==
  ASSUME NEW al, al \subseteq Proc
  PROVE  /\ \A cwd, v : IsFiniteSet(CwdSet(al, cwd, v))
         /\ \A fv, v : IsFiniteSet(VnodeSet(fv, v))
         /\ \A bl, v : IsFiniteSet(DirSet(bl, v)) /\ IsFiniteSet(VnSet(bl, v))
         /\ \A pf, f : IsFiniteSet(FdSet(al, pf, f))
         /\ \A bl, f : IsFiniteSet(CallSet(bl, f))
         /\ IsFiniteSet(al)
<1>1. IsFiniteSet(al)
  BY FiniteConstants, FS_Subset
<1>2. IsFiniteSet(al \X FD)
  BY <1>1, FiniteConstants, FS_Product
<1>3. \A cwd, v : IsFiniteSet(CwdSet(al, cwd, v))
  BY <1>1, FS_Subset DEF CwdSet
<1>4. \A fv, v : IsFiniteSet(VnodeSet(fv, v))
  BY FiniteConstants, FS_Subset DEF VnodeSet
<1>5. \A bl, v : IsFiniteSet(DirSet(bl, v)) /\ IsFiniteSet(VnSet(bl, v))
  BY FiniteConstants, FS_Subset DEF DirSet, VnSet
<1>6. \A pf, f : IsFiniteSet(FdSet(al, pf, f))
  <2> TAKE pf, f
  <2>1. FdSet(al, pf, f) \subseteq al \X FD
    BY DEF FdSet
  <2> QED BY <2>1, <1>2, FS_Subset
<1>7. \A bl, f : IsFiniteSet(CallSet(bl, f))
  BY FiniteConstants, FS_Subset DEF CallSet
<1> QED BY <1>1, <1>3, <1>4, <1>5, <1>6, <1>7

(* and the counts are natural numbers. *)
LEMMA CountTypes ==
  ASSUME NEW al, al \subseteq Proc
  PROVE  /\ \A cwd, v : CwdCount(al, cwd, v) \in Nat
         /\ \A fv, v : VnodeCount(fv, v) \in Nat
         /\ \A bl, v : DirCount(bl, v) \in Nat /\ VnCount(bl, v) \in Nat
         /\ \A pf, f : FdCount(al, pf, f) \in Nat
         /\ \A bl, f : CallCount(bl, f) \in Nat
         /\ \A sys, v : RootCount(sys, v) \in Nat
  BY FiniteCounts, FS_CardinalityType
     DEF CwdCount, VnodeCount, DirCount, VnCount, FdCount, CallCount, RootCount

(***************************************************************************)
(* A call uses a vnode or a file once or not at all, and a process that is *)
(* in no call uses nothing.                                                *)
(***************************************************************************)
LEMMA UseTypes ==
  /\ \A b, v : DirUse(b, v) \in {0, 1} /\ VnUse(b, v) \in {0, 1} /\ CallUse(b, v) \in {0, 1}
  /\ \A v : DirUse(NULL, v) = 0 /\ VnUse(NULL, v) = 0 /\ CallUse(NULL, v) = 0
  BY DEF DirUse, VnUse, CallUse, If, PathCall, FileCall

(***************************************************************************)
(* What a change of the call of one process does to the counts.            *)
(***************************************************************************)
LEMMA BlockedCounts ==
  \A bl, bm, v : \A p \in Proc : (\A q \in Proc \ {p} : bm[q] = bl[q]) =>
    /\ DirCount(bm, v) = DirCount(bl, v) + DirUse(bm[p], v) - DirUse(bl[p], v)
    /\ VnCount(bm, v) = VnCount(bl, v) + VnUse(bm[p], v) - VnUse(bl[p], v)
    /\ CallCount(bm, v) = CallCount(bl, v) + CallUse(bm[p], v) - CallUse(bl[p], v)
<1> TAKE bl, bm, v
<1> TAKE p \in Proc
<1> HAVE \A q \in Proc \ {p} : bm[q] = bl[q]
<1>1. DirCount(bm, v) = DirCount(bl, v) + DirUse(bm[p], v) - DirUse(bl[p], v)
  <2>1. IsFiniteSet(DirSet(bl, v)) /\ IsFiniteSet(DirSet(bm, v))
    BY FiniteCounts
  <2>2. DirSet(bl, v) \ {p} = DirSet(bm, v) \ {p}
    BY DEF DirSet
  <2>3. /\ (IF p \in DirSet(bm, v) THEN 1 ELSE 0) = DirUse(bm[p], v)
        /\ (IF p \in DirSet(bl, v) THEN 1 ELSE 0) = DirUse(bl[p], v)
    BY DEF DirSet, DirUse, If
  <2> QED BY <2>1, <2>2, <2>3, CardAt DEF DirCount
<1>2. VnCount(bm, v) = VnCount(bl, v) + VnUse(bm[p], v) - VnUse(bl[p], v)
  <2>1. IsFiniteSet(VnSet(bl, v)) /\ IsFiniteSet(VnSet(bm, v))
    BY FiniteCounts
  <2>2. VnSet(bl, v) \ {p} = VnSet(bm, v) \ {p}
    BY DEF VnSet
  <2>3. /\ (IF p \in VnSet(bm, v) THEN 1 ELSE 0) = VnUse(bm[p], v)
        /\ (IF p \in VnSet(bl, v) THEN 1 ELSE 0) = VnUse(bl[p], v)
    BY DEF VnSet, VnUse, If
  <2> QED BY <2>1, <2>2, <2>3, CardAt DEF VnCount
<1>3. CallCount(bm, v) = CallCount(bl, v) + CallUse(bm[p], v) - CallUse(bl[p], v)
  <2>1. IsFiniteSet(CallSet(bl, v)) /\ IsFiniteSet(CallSet(bm, v))
    BY FiniteCounts
  <2>2. CallSet(bl, v) \ {p} = CallSet(bm, v) \ {p}
    BY DEF CallSet
  <2>3. /\ (IF p \in CallSet(bm, v) THEN 1 ELSE 0) = CallUse(bm[p], v)
        /\ (IF p \in CallSet(bl, v) THEN 1 ELSE 0) = CallUse(bl[p], v)
    BY DEF CallSet, CallUse, If
  <2> QED BY <2>1, <2>2, <2>3, CardAt DEF CallCount
<1> QED BY <1>1, <1>2, <1>3

(* What a change of one process and its working directory does. *)
LEMMA CwdCounts ==
  \A al, am, cwd, cwe, p, v :
    al \subseteq Proc /\ am \subseteq Proc /\ al \ {p} = am \ {p} /\ (\A q \in al \ {p} : cwe[q] = cwd[q]) =>
    CwdCount(am, cwe, v) = CwdCount(al, cwd, v) + If(p \in am /\ cwe[p] = v) - If(p \in al /\ cwd[p] = v)
<1> TAKE al, am, cwd, cwe, p, v
<1> HAVE al \subseteq Proc /\ am \subseteq Proc /\ al \ {p} = am \ {p} /\ (\A q \in al \ {p} : cwe[q] = cwd[q])
<1>1. IsFiniteSet(CwdSet(al, cwd, v)) /\ IsFiniteSet(CwdSet(am, cwe, v))
  BY FiniteCounts
<1>2. CwdSet(al, cwd, v) \ {p} = CwdSet(am, cwe, v) \ {p}
  BY DEF CwdSet
<1>3. /\ (IF p \in CwdSet(am, cwe, v) THEN 1 ELSE 0) = If(p \in am /\ cwe[p] = v)
      /\ (IF p \in CwdSet(al, cwd, v) THEN 1 ELSE 0) = If(p \in al /\ cwd[p] = v)
  BY DEF CwdSet, If
<1> QED BY <1>1, <1>2, <1>3, CardAt DEF CwdCount

(* What a new vnode of one file_t does. *)
LEMMA VnodeCounts ==
  \A fv, fw, v : \A f \in File : (\A g \in File \ {f} : fw[g] = fv[g]) =>
    VnodeCount(fw, v) = VnodeCount(fv, v) + If(fw[f] = v) - If(fv[f] = v)
<1> TAKE fv, fw, v
<1> TAKE f \in File
<1> HAVE \A g \in File \ {f} : fw[g] = fv[g]
<1>1. IsFiniteSet(VnodeSet(fv, v)) /\ IsFiniteSet(VnodeSet(fw, v))
  BY FiniteConstants, FS_Subset DEF VnodeSet
<1>2. VnodeSet(fv, v) \ {f} = VnodeSet(fw, v) \ {f}
  BY DEF VnodeSet
<1>3. /\ (IF f \in VnodeSet(fw, v) THEN 1 ELSE 0) = If(fw[f] = v)
      /\ (IF f \in VnodeSet(fv, v) THEN 1 ELSE 0) = If(fv[f] = v)
  BY DEF VnodeSet, If
<1> QED BY <1>1, <1>2, <1>3, CardAt DEF VnodeCount

(* What the end of the file_t in S does. *)
ClosedCount(S, fv, v) == Cardinality({f \in S : fv[f] = v})

(***************************************************************************)
(* The vnodes that the closed files S let go of are as many as there are   *)
(* fewer files of the vnode.                                               *)
(***************************************************************************)
LEMMA ClosedCounts ==
  \A fv, fw, v : \A S \in SUBSET File :
    v # NULL /\ (\A f \in File : fw[f] = IF f \in S THEN NULL ELSE fv[f]) =>
    /\ ClosedCount(S, fv, v) \in Nat
    /\ VnodeCount(fw, v) = VnodeCount(fv, v) - ClosedCount(S, fv, v)
<1> TAKE fv, fw, v
<1> TAKE S \in SUBSET File
<1> HAVE v # NULL /\ (\A f \in File : fw[f] = IF f \in S THEN NULL ELSE fv[f])
<1> DEFINE A == VnodeSet(fw, v)
           B == {f \in S : fv[f] = v}
<1>1. IsFiniteSet(A) /\ IsFiniteSet(B) /\ A \cap B = {} /\ A \cup B = VnodeSet(fv, v)
  <2>1. A \subseteq File /\ B \subseteq File
    BY DEF VnodeSet
  <2>2. A \cap B = {} /\ A \cup B = VnodeSet(fv, v)
    BY DEF VnodeSet
  <2> QED BY <2>1, <2>2, FiniteConstants, FS_Subset
<1>2. Cardinality(A) \in Nat /\ Cardinality(B) \in Nat
  BY <1>1, FS_CardinalityType
<1>3. Cardinality(A \cup B) = Cardinality(A) + Cardinality(B)
  <2>1. Cardinality(A \cup B) = Cardinality(A) + Cardinality(B) - Cardinality(A \cap B)
    BY <1>1, FS_Union
  <2>2. Cardinality(A \cap B) = 0
    BY <1>1, FS_EmptySet
  <2> HIDE DEF A, B
  <2> QED BY <1>2, <2>1, <2>2
<1> HIDE DEF A
<1>4. VnodeCount(fw, v) = Cardinality(A) /\ VnodeCount(fv, v) = Cardinality(A \cup B)
  BY <1>1 DEF VnodeCount, A
<1> HIDE DEF B
<1>5. VnodeCount(fw, v) = VnodeCount(fv, v) - Cardinality(B) /\ Cardinality(B) \in Nat
  BY <1>2, <1>3, <1>4
<1> QED BY <1>5 DEF B, ClosedCount

(* What a change of one descriptor does. *)
LEMMA FdCounts ==
  \A al, pf, pg, f : \A p \in al, fd \in FD :
    al \subseteq Proc /\ (\A q \in al, g \in FD : q # p \/ g # fd => pg[q][g] = pf[q][g]) =>
    FdCount(al, pg, f) = FdCount(al, pf, f) + If(pg[p][fd] = f) - If(pf[p][fd] = f)
<1> TAKE al, pf, pg, f
<1> TAKE p \in al, fd \in FD
<1> HAVE al \subseteq Proc /\ (\A q \in al, g \in FD : q # p \/ g # fd => pg[q][g] = pf[q][g])
<1> DEFINE u == <<p, fd>>
<1>1. IsFiniteSet(FdSet(al, pf, f)) /\ IsFiniteSet(FdSet(al, pg, f))
  BY FiniteCounts
<1>2. FdSet(al, pf, f) \ {u} = FdSet(al, pg, f) \ {u}
  <2>1. ASSUME NEW x \in al \X FD, x # u
        PROVE  pg[x[1]][x[2]] = pf[x[1]][x[2]]
    <3>1. x = <<x[1], x[2]>> /\ x[1] \in al /\ x[2] \in FD
      BY <2>1
    <3> QED BY <2>1, <3>1
  <2> QED BY <2>1 DEF FdSet
<1>3. /\ (IF u \in FdSet(al, pg, f) THEN 1 ELSE 0) = If(pg[p][fd] = f)
      /\ (IF u \in FdSet(al, pf, f) THEN 1 ELSE 0) = If(pf[p][fd] = f)
  BY DEF FdSet, If
<1> QED BY <1>1, <1>2, <1>3, CardAt DEF FdCount

(* What the descriptors of one more process do. *)
LEMMA FdsCounts ==
  \A al, pf, pg, f : \A q \in Proc :
    al \subseteq Proc /\ q \notin al /\ (\A p \in al : pg[p] = pf[p]) =>
    /\ Cardinality({fd \in FD : pg[q][fd] = f}) \in Nat
    /\ FdCount(al \cup {q}, pg, f) = FdCount(al, pf, f) + Cardinality({fd \in FD : pg[q][fd] = f})
<1> TAKE al, pf, pg, f
<1> TAKE q \in Proc
<1> HAVE al \subseteq Proc /\ q \notin al /\ (\A p \in al : pg[p] = pf[p])
<1> DEFINE A == FdSet(al, pf, f)
           H == {fd \in FD : pg[q][fd] = f}
           B == {q} \X H
<1>1. IsFiniteSet(A) /\ IsFiniteSet(H)
  BY FiniteCounts, FiniteConstants, FS_Subset
<1>2. IsFiniteSet({q}) /\ Cardinality({q}) = 1
  BY FS_Singleton
<1>3. IsFiniteSet(B) /\ Cardinality(B) = 1 * Cardinality(H)
  BY <1>1, <1>2, FS_Product
<1>4. Cardinality(A) \in Nat /\ Cardinality(H) \in Nat
  BY <1>1, FS_CardinalityType
<1>5. A \cap B = {} /\ A \cup B = FdSet(al \cup {q}, pg, f)
  BY DEF FdSet
<1>6. Cardinality(A \cup B) = Cardinality(A) + Cardinality(B) - Cardinality(A \cap B)
  BY <1>1, <1>3, FS_Union
<1>7. Cardinality(A \cap B) = 0
  BY <1>5, FS_EmptySet
<1> HIDE DEF A, B
<1>8. FdCount(al \cup {q}, pg, f) = Cardinality(A \cup B) /\ FdCount(al, pf, f) = Cardinality(A)
  BY <1>5 DEF FdCount, A
<1> HIDE DEF H
<1>9. Cardinality(H) \in Nat /\ FdCount(al \cup {q}, pg, f) = FdCount(al, pf, f) + Cardinality(H)
  BY <1>3, <1>4, <1>6, <1>7, <1>8
<1> QED BY <1>9 DEF H
(* Something is counted where, and only where, the count is positive. *)
LEMMA Counted ==
  ASSUME NEW al, al \subseteq Proc
  PROVE  /\ \A cwd : \A p \in al : CwdCount(al, cwd, cwd[p]) >= 1
         /\ \A fv : \A f \in File : VnodeCount(fv, fv[f]) >= 1
         /\ \A bl : \A p \in Proc : PathCall(bl[p]) => DirCount(bl, bl[p].dir) >= 1 /\ VnCount(bl, bl[p].vn) >= 1
         /\ \A pf : \A p \in al, fd \in FD : FdCount(al, pf, pf[p][fd]) >= 1
         /\ \A bl : \A p \in Proc : FileCall(bl[p]) => CallCount(bl, bl[p].file) >= 1
         /\ \A pf, f : FdCount(al, pf, f) > 0 => \E p \in al, fd \in FD : pf[p][fd] = f
         /\ \A bl, f : CallCount(bl, f) > 0 => \E p \in Proc : FileCall(bl[p]) /\ bl[p].file = f
<1>1. \A S : IsFiniteSet(S) => Cardinality(S) \in Nat /\ (S # {} <=> Cardinality(S) >= 1)
  <2> TAKE S
  <2>1. IsFiniteSet(S) => Cardinality(S) \in Nat /\ (Cardinality(S) = 0 <=> S = {})
    BY FS_EmptySet, FS_CardinalityType
  <2> QED BY <2>1
<1>2. \A cwd : \A p \in al : CwdCount(al, cwd, cwd[p]) >= 1
  <2> TAKE cwd
  <2> TAKE p \in al
  <2>1. p \in CwdSet(al, cwd, cwd[p]) /\ IsFiniteSet(CwdSet(al, cwd, cwd[p]))
    BY FiniteCounts DEF CwdSet
  <2> QED BY <2>1, <1>1 DEF CwdCount
<1>3. \A fv : \A f \in File : VnodeCount(fv, fv[f]) >= 1
  <2> TAKE fv
  <2> TAKE f \in File
  <2>1. f \in VnodeSet(fv, fv[f]) /\ IsFiniteSet(VnodeSet(fv, fv[f]))
    BY FiniteCounts DEF VnodeSet
  <2> QED BY <2>1, <1>1 DEF VnodeCount
<1>4. \A bl : \A p \in Proc : PathCall(bl[p]) => DirCount(bl, bl[p].dir) >= 1 /\ VnCount(bl, bl[p].vn) >= 1
  <2> TAKE bl
  <2> TAKE p \in Proc
  <2> HAVE PathCall(bl[p])
  <2>1. /\ p \in DirSet(bl, bl[p].dir) /\ IsFiniteSet(DirSet(bl, bl[p].dir))
        /\ p \in VnSet(bl, bl[p].vn) /\ IsFiniteSet(VnSet(bl, bl[p].vn))
    BY FiniteCounts DEF DirSet, VnSet
  <2> QED BY <2>1, <1>1 DEF DirCount, VnCount
<1>5. \A pf : \A p \in al, fd \in FD : FdCount(al, pf, pf[p][fd]) >= 1
  <2> TAKE pf
  <2> TAKE p \in al, fd \in FD
  <2>1. <<p, fd>> \in FdSet(al, pf, pf[p][fd])
    BY DEF FdSet
  <2>2. IsFiniteSet(FdSet(al, pf, pf[p][fd]))
    BY FiniteCounts
  <2> QED BY <2>1, <2>2, <1>1 DEF FdCount
<1>6. \A bl : \A p \in Proc : FileCall(bl[p]) => CallCount(bl, bl[p].file) >= 1
  <2> TAKE bl
  <2> TAKE p \in Proc
  <2> HAVE FileCall(bl[p])
  <2>1. p \in CallSet(bl, bl[p].file) /\ IsFiniteSet(CallSet(bl, bl[p].file))
    BY FiniteCounts DEF CallSet
  <2> QED BY <2>1, <1>1 DEF CallCount
<1>7. \A pf, f : FdCount(al, pf, f) > 0 => \E p \in al, fd \in FD : pf[p][fd] = f
  <2> TAKE pf, f
  <2> HAVE FdCount(al, pf, f) > 0
  <2>1. IsFiniteSet(FdSet(al, pf, f))
    BY FiniteCounts
  <2>2. FdCount(al, pf, f) = Cardinality(FdSet(al, pf, f)) /\ Cardinality(FdSet(al, pf, f)) \in Nat
    BY <2>1, FS_CardinalityType DEF FdCount
  <2>3. FdSet(al, pf, f) # {}
    BY <2>1, <2>2, FS_EmptySet
  <2> QED BY <2>3 DEF FdSet
<1>8. \A bl, f : CallCount(bl, f) > 0 => \E p \in Proc : FileCall(bl[p]) /\ bl[p].file = f
  <2> TAKE bl, f
  <2> HAVE CallCount(bl, f) > 0
  <2>1. IsFiniteSet(CallSet(bl, f))
    BY FiniteCounts
  <2>2. CallCount(bl, f) = Cardinality(CallSet(bl, f)) /\ Cardinality(CallSet(bl, f)) \in Nat
    BY <2>1, FS_CardinalityType DEF CallCount
  <2>3. CallSet(bl, f) # {}
    BY <2>1, <2>2, FS_EmptySet
  <2> QED BY <2>3 DEF CallSet
<1> QED BY <1>2, <1>3, <1>4, <1>5, <1>6, <1>7, <1>8

----------------------------------------------------------------------------
(***************************************************************************)
(* What holds in every state of the invariant.                             *)
(***************************************************************************)
LEMMA CallShapes ==
  ASSUME NEW b \in InFile \cup InDirectory \cup {NULL}
  PROVE  /\ FileCall(b) => b \in InFile
         /\ PathCall(b) => b \in InDirectory
         /\ b = NULL \/ FileCall(b) \/ PathCall(b)
         /\ b \in InFile => FileCall(b)
         /\ b \in InDirectory => PathCall(b)
<1>1. b \in InFile => b # NULL /\ b.call \in {"do_read", "do_write", "do_getdent"}
  BY NullAssumption DEF InFile
<1>2. b \in InDirectory => b # NULL /\ b.call \notin {"do_read", "do_write", "do_getdent"}
  BY NullAssumption DEF InDirectory
<1> QED BY <1>1, <1>2 DEF FileCall, PathCall

(***************************************************************************)
(* What is in use is referenced: working directories, the directory and    *)
(* vnode of a blocked call, the file of a blocked read or write and the    *)
(* files in descriptors.                                                   *)
(***************************************************************************)
LEMMA InUse ==
  ASSUME IInv
  PROVE  /\ \A p \in alive : p \in Proc /\ p_cwd[p] \in Dir /\ vn_refcount[p_cwd[p]] >= 1
         /\ \A p \in Proc : PathCall(blocked[p]) =>
              /\ blocked[p] \in InDirectory
              /\ vn_refcount[blocked[p].dir] >= 1
         /\ \A p \in Proc : blocked[p] # NULL => p \in alive
         /\ \A p \in Proc : FileCall(blocked[p]) =>
              /\ blocked[p].file \in File /\ f_vnode[blocked[p].file] \in Inode
              /\ blocked[p].pos \in 0..MaxPos
              /\ f_refcount[blocked[p].file] = FileUses(blocked[p].file)
              /\ FileUses(blocked[p].file) >= 1
         /\ \A f \in File : VnodeUses(f_vnode[f]) >= 1
         /\ \A v : VnodeUses(v) \in Nat
         /\ \A f : FileUses(f) \in Nat
         /\ \A p \in alive : \A fd \in FD \ EmptyFds(p) :
              /\ p_files[p][fd] \in File
              /\ f_refcount[p_files[p][fd]] = FileUses(p_files[p][fd])
              /\ FileUses(p_files[p][fd]) >= 1
         /\ \A f \in File : f_refcount[f] = 0 => FileUses(f) = 0 /\ f_vnode[f] = NULL
<1>1. alive \subseteq Proc /\ \A p \in Proc : blocked[p] \in InFile \cup InDirectory \cup {NULL}
  BY DEF IInv, FilesTypeOK
<1>2. /\ \A v : RootCount(system, v) \in Nat /\ CwdCount(alive, p_cwd, v) \in Nat /\ VnodeCount(f_vnode, v) \in Nat
                /\ DirCount(blocked, v) \in Nat /\ VnCount(blocked, v) \in Nat
      /\ \A f : FdCount(alive, p_files, f) \in Nat /\ CallCount(blocked, f) \in Nat
  BY <1>1, CountTypes
<1>3. (\A v : VnodeUses(v) \in Nat) /\ (\A f : FileUses(f) \in Nat)
  BY <1>2, UsesAreCounts
<1>4. \A v \in Inode : vn_refcount[v] \in Nat /\ vn_refcount[v] >= VnodeUses(v)
  <2> TAKE v \in Inode
  <2>1. /\ vn_refcount[v] \in Nat /\ leaked[v] \in Nat
        /\ vn_refcount[v] = VnodeUses(v) + leaked[v]
    BY DEF IInv, FilesTypeOK, RefsExact
  <2>2. VnodeUses(v) \in Nat
    BY <1>3
  <2> QED BY <2>1, <2>2
<1>5. \A p \in alive : p \in Proc /\ p_cwd[p] \in Dir /\ vn_refcount[p_cwd[p]] >= 1
  <2> TAKE p \in alive
  <2>1. p \in Proc /\ p_cwd[p] \in Dir /\ p_cwd[p] \in Inode
    BY <1>1 DEF IInv, HoldersAlive, Inode
  <2>2. CwdCount(alive, p_cwd, p_cwd[p]) >= 1
    BY <1>1, Counted
  <2>3. VnodeUses(p_cwd[p]) >= 1
    BY <1>2, <2>2, UsesAreCounts
  <2> QED BY <2>1, <2>3, <1>3, <1>4
<1>6. \A p \in Proc : PathCall(blocked[p]) => /\ blocked[p] \in InDirectory
                                             /\ vn_refcount[blocked[p].dir] >= 1
  <2> TAKE p \in Proc
  <2> HAVE PathCall(blocked[p])
  <2>1. blocked[p] \in InDirectory
    BY <1>1, CallShapes
  <2>2. blocked[p].dir \in Dir /\ blocked[p].dir \in Inode
    BY <2>1 DEF InDirectory, Inode
  <2>3. DirCount(blocked, blocked[p].dir) >= 1
    BY <1>1, Counted
  <2>4. VnodeUses(blocked[p].dir) >= 1
    BY <1>2, <2>3, UsesAreCounts
  <2> QED BY <2>1, <2>2, <2>4, <1>3, <1>4
<1>7. \A p \in Proc : blocked[p] # NULL => p \in alive
  BY DEF IInv, HoldersAlive
<1>8. \A f \in File : f_refcount[f] \in Nat /\ (FileUses(f) >= 1 => f_refcount[f] = FileUses(f))
  BY <1>3 DEF IInv, FilesTypeOK, FilesAccounted
<1>9. \A p \in Proc : FileCall(blocked[p]) =>
              /\ blocked[p].file \in File /\ f_vnode[blocked[p].file] \in Inode
              /\ blocked[p].pos \in 0..MaxPos
              /\ f_refcount[blocked[p].file] = FileUses(blocked[p].file)
              /\ FileUses(blocked[p].file) >= 1
  <2> TAKE p \in Proc
  <2> HAVE FileCall(blocked[p])
  <2>1. blocked[p] \in InFile
    BY <1>1, CallShapes
  <2>2. blocked[p].file \in File /\ blocked[p].pos \in 0..MaxPos
    BY <2>1 DEF InFile
  <2>3. f_vnode[blocked[p].file] \in Inode
    <3>1. f_vnode[blocked[p].file] # NULL
      BY DEF IInv, BlockedRelyOn, InFileCall, FileCall
    <3>2. f_vnode[blocked[p].file] \in Inode \cup {NULL}
      BY <2>2 DEF IInv, FilesTypeOK
    <3> QED BY <3>1, <3>2
  <2>4. CallCount(blocked, blocked[p].file) >= 1
    BY <1>1, Counted
  <2>5. FileUses(blocked[p].file) >= 1
    BY <1>2, <2>4, UsesAreCounts
  <2> QED BY <2>2, <2>3, <2>5, <1>8
<1>10. \A f \in File : VnodeUses(f_vnode[f]) >= 1
  <2> TAKE f \in File
  <2>1. VnodeCount(f_vnode, f_vnode[f]) >= 1
    BY <1>1, Counted
  <2> QED BY <1>2, <2>1, UsesAreCounts
<1>11. \A p \in alive : \A fd \in FD \ EmptyFds(p) :
              /\ p_files[p][fd] \in File
              /\ f_refcount[p_files[p][fd]] = FileUses(p_files[p][fd])
              /\ FileUses(p_files[p][fd]) >= 1
  <2> TAKE p \in alive
  <2> TAKE fd \in FD \ EmptyFds(p)
  <2>1. p_files[p][fd] \in File
    BY <1>1 DEF IInv, FilesTypeOK, EmptyFds
  <2>2. FdCount(alive, p_files, p_files[p][fd]) >= 1
    BY <1>1, Counted
  <2>3. FileUses(p_files[p][fd]) >= 1
    BY <1>2, <2>2, UsesAreCounts
  <2> QED BY <2>1, <2>3, <1>8
<1>12. \A f \in File : f_refcount[f] = 0 => FileUses(f) = 0 /\ f_vnode[f] = NULL
  BY <1>3 DEF IInv, FilesAccounted
<1> QED BY <1>3, <1>5, <1>6, <1>7, <1>9, <1>10, <1>11, <1>12

(* The file system in a state of the invariant. *)
LEMMA FsFacts ==
  ASSUME IInv
  PROVE  Fs(fs) /\ Tree(fs) /\ FreeEmpty(fs) /\ fs.rc = vn_refcount /\ fs.ent = dirents
<1>1. vn_refcount \in [Inode -> Int] /\ dirents \in [Dir -> [Name -> Inode \cup {NULL}]]
  BY DEF IInv, FilesTypeOK
<1>2. Fs(fs) /\ fs.rc = vn_refcount /\ fs.ent = dirents
  BY <1>1 DEF Fs, fs
<1> QED BY <1>2 DEF IInv, DirsOK, FreeDirsEmpty, FreeEmpty

(***************************************************************************)
(* The parts of the invariant that SettleFs establishes.                   *)
(***************************************************************************)
LEMMA SettleStep ==
  ASSUME NEW s, Fs(s), Tree(s), NEW len \in [Inode -> 0..MaxPos], SettleFs(s, len)
  PROVE  /\ vn_refcount' = s.rc /\ vn_refcount' \in [Inode -> Int]
         /\ dirents' \in [Dir -> [Name -> Inode \cup {NULL}]]
         /\ vn_len' \in [Inode -> 0..MaxPos]
         /\ DirsOK'
<1>1. fs' = [rc |-> vn_refcount', ent |-> dirents']
  BY DEF fs
<1>2. fs' = Settled(s)
  <2>1. s = [rc |-> s.rc, ent |-> s.ent]
    BY DEF Fs
  <2> QED BY <1>1, <2>1 DEF SettleFs, Settled
<1>3. Fs(fs') /\ Tree(fs') /\ FreeEmpty(fs')
  BY <1>2, SettledTree
<1>4. DirsOK'
  <2>1. fs'.ent = dirents'
    BY <1>1
  <2>2. \A d \in FreeInodes(fs', Dir) : dirents'[d] = EmptyDir
    BY <1>3, <2>1 DEF FreeEmpty
  <2>3. Tree(fs)'
    BY <1>3 DEF Tree, Linked
  <2> QED BY <2>2, <2>3 DEF DirsOK, FreeDirsEmpty, FreeInodes, Linked
<1>5. vn_refcount' = s.rc /\ vn_refcount' \in [Inode -> Int] /\ dirents' \in [Dir -> [Name -> Inode \cup {NULL}]]
  BY <1>1, <1>3 DEF Fs, SettleFs
<1>6. vn_len' \in [Inode -> 0..MaxPos]
  <2>1. 0 \in 0..MaxPos
    <3>1. MaxPos \in Nat
      BY FilesAssumption
    <3> QED BY <3>1
  <2>2. vn_len' = [v \in Inode |-> IF v \in FreeInodes(s, Inode) THEN 0 ELSE len[v]]
    BY DEF SettleFs
  <2> QED BY <2>1, <2>2
<1> QED BY <1>4, <1>5, <1>6

(* A step that changes counts as the uses and what is leaked change. *)
LEMMA RefsStep ==
  ASSUME IInv, alive' \subseteq Proc, leaked' \in [Inode -> Nat],
         \A v \in Inode : /\ vn_refcount'[v] \in Int
                          /\ vn_refcount'[v] - vn_refcount[v] = VnodeUses(v)' - VnodeUses(v) + leaked'[v] - leaked[v]
  PROVE  RefsExact' /\ \A v \in Inode : vn_refcount'[v] \in Nat
<1>1. \A v : VnodeUses(v) \in Nat /\ VnodeUses(v)' \in Nat
  <2>1. \A v : RootCount(system', v) \in Nat /\ CwdCount(alive', p_cwd', v) \in Nat /\ VnodeCount(f_vnode', v) \in Nat
               /\ DirCount(blocked', v) \in Nat /\ VnCount(blocked', v) \in Nat
    BY CountTypes
  <2>2. \A v : VnodeUses(v)' \in Nat
    BY <2>1, UsesAreCounts
  <2> QED BY <2>2, InUse
<1>2. ASSUME NEW v \in Inode
      PROVE  vn_refcount'[v] = VnodeUses(v)' + leaked'[v] /\ vn_refcount'[v] \in Nat
  <2>1. /\ vn_refcount[v] \in Int /\ leaked[v] \in Int /\ vn_refcount[v] = VnodeUses(v) + leaked[v]
        /\ leaked'[v] \in Nat
    BY DEF IInv, FilesTypeOK, RefsExact
  <2>2. vn_refcount'[v] - vn_refcount[v] = VnodeUses(v)' - VnodeUses(v) + leaked'[v] - leaked[v] /\ vn_refcount'[v] \in Int
    OBVIOUS
  <2>3. VnodeUses(v) \in Nat /\ VnodeUses(v)' \in Nat
    BY <1>1
  <2> QED BY ONLY <2>1, <2>2, <2>3
<1> QED BY <1>2 DEF RefsExact

(* One that leaks nothing. *)
LEMMA RefsSame ==
  ASSUME IInv, alive' \subseteq Proc, leaked' = leaked,
         \A v \in Inode : /\ vn_refcount'[v] \in Int
                          /\ vn_refcount'[v] - vn_refcount[v] = VnodeUses(v)' - VnodeUses(v)
  PROVE  RefsExact' /\ \A v \in Inode : vn_refcount'[v] \in Nat
<1>1. leaked' \in [Inode -> Nat]
  BY DEF IInv, FilesTypeOK
<1>2. ASSUME NEW v \in Inode
      PROVE  vn_refcount'[v] - vn_refcount[v] = VnodeUses(v)' - VnodeUses(v) + leaked'[v] - leaked[v]
  <2>1. leaked'[v] = leaked[v] /\ leaked[v] \in Int /\ vn_refcount[v] \in Int /\ vn_refcount'[v] \in Int
    BY DEF IInv, FilesTypeOK
  <2>2. VnodeUses(v) \in Nat /\ VnodeUses(v)' \in Nat
    <3>1. RootCount(system', v) \in Nat /\ CwdCount(alive', p_cwd', v) \in Nat /\ VnodeCount(f_vnode', v) \in Nat
               /\ DirCount(blocked', v) \in Nat /\ VnCount(blocked', v) \in Nat
      BY CountTypes
    <3> QED BY <3>1, UsesAreCounts, InUse
  <2>3. vn_refcount'[v] - vn_refcount[v] = VnodeUses(v)' - VnodeUses(v)
    OBVIOUS
  <2> QED BY ONLY <2>1, <2>2, <2>3
<1> QED BY <1>1, <1>2, RefsStep
----------------------------------------------------------------------------
(***************************************************************************)
(* Calls on paths change the file system, the counts and what the caller   *)
(* is blocked in.                                                          *)
(***************************************************************************)
EnterOK(b) ==
  /\ b \in InDirectory /\ b.call # "do_open"
  /\ b.vn = NULL <=> b.call \in {"do_mkdir", "do_mknod", "do_rmdir"}
  /\ b.call = "do_rmdir" => b.name # ".."
  /\ b.call # "do_rmdir" => b.name \in Name
  /\ b.call \in {"do_link", "do_rename"} => b.vn \notin Dir
  /\ b.call = "do_rename" => b.old # NULL

(* A process is in no call, or in one that may be. *)
CallOK(b) == b = NULL \/ EnterOK(b)

(* How often a blocked call uses a vnode. *)
BUse(b, v) == DirUse(b, v) + VnUse(b, v)

(***************************************************************************)
(* A step that changes only the file system and what p is blocked in       *)
(* preserves the invariant, if it changes each count by what the call uses *)
(* more or less and by what is leaked.                                     *)
(***************************************************************************)
LEMMA PathStep ==
  ASSUME IInv, system = "up", NEW p \in alive,
         blocked[p] = NULL \/ (PathCall(blocked[p]) /\ blocked[p].call # "do_open"),
         NEW b, CallOK(b), blocked' = [blocked EXCEPT ![p] = b], UNCHANGED onlyFs,
         NEW s, Fs(s), Tree(s), SettleFs(s, vn_len), leaked' \in [Inode -> Nat],
         \A v \in Inode : s.rc[v] - vn_refcount[v] = BUse(b, v) - BUse(blocked[p], v) + leaked'[v] - leaked[v]
  PROVE  IInv'
<1>1. p \in Proc /\ alive \subseteq Proc /\ blocked \in [Proc -> InFile \cup InDirectory \cup {NULL}]
  BY DEF IInv, FilesTypeOK
<1>2. /\ alive' = alive /\ p_files' = p_files /\ p_cwd' = p_cwd /\ system' = system
      /\ f_refcount' = f_refcount /\ f_vnode' = f_vnode /\ f_mode' = f_mode /\ f_pos' = f_pos
  BY DEF onlyFs, fileVars
<1>3. b \in InFile \cup InDirectory \cup {NULL} /\ ~FileCall(b) /\ ~FileCall(blocked[p])
  <2>1. b \in InFile \cup InDirectory \cup {NULL}
    BY DEF CallOK, EnterOK
  <2>2. ~FileCall(b)
    <3>1. CASE b = NULL
      BY <3>1 DEF FileCall
    <3>2. CASE b \in InDirectory
      BY <3>2, <2>1, CallShapes DEF PathCall
    <3> QED BY <3>1, <3>2 DEF CallOK, EnterOK
  <2> QED BY <2>1, <2>2 DEF PathCall, FileCall
<1>4. blocked'[p] = b /\ \A q \in Proc \ {p} : blocked'[q] = blocked[q]
  BY <1>1
<1>a. \A v : /\ DirCount(blocked', v) = DirCount(blocked, v) + DirUse(blocked'[p], v) - DirUse(blocked[p], v)
             /\ VnCount(blocked', v) = VnCount(blocked, v) + VnUse(blocked'[p], v) - VnUse(blocked[p], v)
             /\ CallCount(blocked', v) = CallCount(blocked, v) + CallUse(blocked'[p], v) - CallUse(blocked[p], v)
  <2>1. p \in Proc /\ \A q \in Proc \ {p} : blocked'[q] = blocked[q]
    BY <1>1, <1>4
  <2> QED BY ONLY <2>1, BlockedCounts
<1>5. blocked' \in [Proc -> InFile \cup InDirectory \cup {NULL}]
  BY <1>1, <1>3
<1>6. vn_len \in [Inode -> 0..MaxPos]
  BY DEF IInv, FilesTypeOK
<1>7. /\ vn_refcount' = s.rc /\ vn_refcount' \in [Inode -> Int]
      /\ dirents' \in [Dir -> [Name -> Inode \cup {NULL}]] /\ vn_len' \in [Inode -> 0..MaxPos]
      /\ DirsOK'
  BY <1>6, SettleStep
<1>8. \A v : VnodeUses(v)' = VnodeUses(v) + BUse(b, v) - BUse(blocked[p], v) /\ BUse(b, v) \in Int /\ BUse(blocked[p], v) \in Int
  <2> TAKE v
  <2>1. /\ DirCount(blocked', v) = DirCount(blocked, v) + DirUse(b, v) - DirUse(blocked[p], v)
        /\ VnCount(blocked', v) = VnCount(blocked, v) + VnUse(b, v) - VnUse(blocked[p], v)
    BY <1>4, <1>a
  <2>2. /\ RootCount(system, v) \in Nat /\ CwdCount(alive, p_cwd, v) \in Nat /\ VnodeCount(f_vnode, v) \in Nat
        /\ DirCount(blocked, v) \in Nat /\ VnCount(blocked, v) \in Nat
    BY <1>1, CountTypes
  <2>3. /\ DirUse(b, v) \in {0, 1} /\ VnUse(b, v) \in {0, 1}
        /\ DirUse(blocked[p], v) \in {0, 1} /\ VnUse(blocked[p], v) \in {0, 1}
    BY UseTypes
  <2>4. /\ VnodeUses(v) = RootCount(system, v) + CwdCount(alive, p_cwd, v) + VnodeCount(f_vnode, v)
                           + DirCount(blocked, v) + VnCount(blocked, v)
        /\ VnodeUses(v)' = RootCount(system, v) + CwdCount(alive, p_cwd, v) + VnodeCount(f_vnode, v)
                           + DirCount(blocked', v) + VnCount(blocked', v)
    BY <1>2, UsesAreCounts
  <2> QED BY <2>1, <2>2, <2>3, <2>4 DEF BUse
<1>9. RefsExact' /\ \A v \in Inode : vn_refcount'[v] \in Nat
  <2>1. \A v \in Inode : /\ vn_refcount'[v] \in Int /\ vn_refcount[v] \in Int /\ VnodeUses(v) \in Int
                         /\ vn_refcount'[v] = s.rc[v]
    BY <1>7, InUse DEF IInv, FilesTypeOK
  <2>2. \A v \in Inode : vn_refcount'[v] - vn_refcount[v] = VnodeUses(v)' - VnodeUses(v) + leaked'[v] - leaked[v]
    <3> TAKE v \in Inode
    <3>1. /\ VnodeUses(v)' = VnodeUses(v) + BUse(b, v) - BUse(blocked[p], v)
          /\ BUse(b, v) \in Int /\ BUse(blocked[p], v) \in Int
      BY <1>8
    <3>2. /\ vn_refcount'[v] = s.rc[v] /\ VnodeUses(v) \in Int /\ leaked[v] \in Int /\ leaked'[v] \in Int
          /\ vn_refcount'[v] \in Int /\ vn_refcount[v] \in Int
      BY <2>1 DEF IInv, FilesTypeOK
    <3>3. s.rc[v] - vn_refcount[v] = BUse(b, v) - BUse(blocked[p], v) + leaked'[v] - leaked[v]
      OBVIOUS
    <3> QED BY ONLY <3>1, <3>2, <3>3
  <2> QED BY <1>1, <1>2, <2>1, <2>2, RefsStep
<1>10. FilesTypeOK'
  <2>1. vn_refcount' \in [Inode -> Nat]
    BY <1>7, <1>9
  <2> QED BY <2>1, <1>2, <1>5, <1>7 DEF IInv, FilesTypeOK
<1>11. HoldersAlive'
  BY <1>2, <1>4 DEF IInv, HoldersAlive
<1>12. \A f : FileUses(f)' = FileUses(f)
  <2> TAKE f
  <2>1. CallCount(blocked', f) = CallCount(blocked, f) + CallUse(b, f) - CallUse(blocked[p], f)
    BY <1>4, <1>a
  <2>2. CallCount(blocked, f) \in Nat
    BY <1>1, CountTypes
  <2>3. CallUse(b, f) = 0 /\ CallUse(blocked[p], f) = 0
    BY <1>3 DEF CallUse, If
  <2>4. CallCount(blocked', f) = CallCount(blocked, f)
    BY <2>1, <2>2, <2>3
  <2> QED BY <1>2, <2>4, UsesAreCounts
<1>13. FilesAccounted'
  <2>1. \A f \in File :
       /\ \/ f_refcount[f] = FileUses(f)
          \/ "do_open_invalid" \in Calls /\ f_refcount[f] = 1 /\ FileUses(f) = 0 /\ f_vnode[f] = NULL
       /\ f_refcount[f] = 0 => f_vnode[f] = NULL
    BY DEF IInv, FilesAccounted
  <2>2. \A q \in alive, fd \in FD :
       p_files[q][fd] # NULL /\ f_vnode[p_files[q][fd]] = NULL
         => blocked'[q] # NULL /\ blocked'[q].call = "do_open" /\ blocked'[q].fd = fd
    <3>1. \A q \in alive, fd \in FD :
       p_files[q][fd] # NULL /\ f_vnode[p_files[q][fd]] = NULL
         => blocked[q] # NULL /\ blocked[q].call = "do_open" /\ blocked[q].fd = fd
      BY DEF IInv, FilesAccounted
    <3> QED BY <3>1, <1>1, <1>4
  <2> QED BY <2>1, <2>2, <1>2, <1>12 DEF FilesAccounted
<1>14. BlockedRelyOn'
  <2>1. ASSUME NEW q \in Proc \ {p}
        PROVE  blocked'[q] = blocked[q]
    BY <1>4
  <2>2. b # NULL => b.call \notin {"do_read", "do_write", "do_getdent"}
    BY <1>3 DEF FileCall
  <2> QED BY <2>1, <2>2, <1>2, <1>4 DEF IInv, BlockedRelyOn, InFileCall, InPathCall, CallOK, EnterOK
<1>15. ShutdownFailsAfterLeaks'
  BY <1>2 DEF ShutdownFailsAfterLeaks
<1> QED BY <1>7, <1>9, <1>10, <1>11, <1>13, <1>14, <1>15 DEF IInv
(* The caller may change what it is blocked in; s is the file system without   *)
(* the references of the old call.                                             *)
Caller(p) ==
  /\ system = "up" /\ p \in alive
  /\ blocked[p] = NULL \/ (PathCall(blocked[p]) /\ blocked[p].call # "do_open")

(***************************************************************************)
(* s is the file system without the references that the call of p holds.   *)
(***************************************************************************)
Base(p, s) ==
  Fs(s) /\ Tree(s) /\ \A v \in Inode : s.rc[v] = vn_refcount[v] - BUse(blocked[p], v)

(***************************************************************************)
(* What a call on a path uses: its directory, and its vnode if it has one. *)
(***************************************************************************)
LEMMA BUseTypes ==
  /\ \A b, v : BUse(b, v) \in Nat
  /\ \A v : BUse(NULL, v) = 0
  /\ \A b \in InDirectory : \A v \in Inode :
       BUse(b, v) = One(b.dir, v) + One(b.vn, v)
  /\ \A v \in Inode : One(NULL, v) = 0
  /\ \A a, v : One(a, v) \in {0, 1}
<1>1. \A b, v : BUse(b, v) \in Nat
  <2> TAKE b, v
  <2>1. DirUse(b, v) \in {0, 1} /\ VnUse(b, v) \in {0, 1}
    BY UseTypes
  <2> QED BY <2>1 DEF BUse
<1>2. \A v : BUse(NULL, v) = 0
  BY UseTypes DEF BUse
<1>3. \A b \in InDirectory : \A v \in Inode : BUse(b, v) = One(b.dir, v) + One(b.vn, v)
  <2> TAKE b \in InDirectory
  <2> TAKE v \in Inode
  <2>1. PathCall(b)
    BY CallShapes
  <2> QED BY <2>1 DEF BUse, DirUse, VnUse, If, One
<1>4. \A v \in Inode : One(NULL, v) = 0
  BY NamevAssumption DEF One
<1> QED BY <1>1, <1>2, <1>3, <1>4 DEF One

(***************************************************************************)
(* A call that returns with all its references given back preserves the    *)
(* invariant,                                                              *)
(***************************************************************************)
LEMMA ReturnStep ==
  ASSUME IInv, NEW p, Caller(p), NEW s, Base(p, s), Return(p, s), UNCHANGED onlyFs
  PROVE  IInv'
<1>1. CallOK(NULL)
  BY DEF CallOK
<1>2. \A v \in Inode : s.rc[v] \in Int /\ vn_refcount[v] \in Int
  BY DEF Base, Fs, IInv, FilesTypeOK
<1>3. \A v \in Inode : s.rc[v] = vn_refcount[v] - BUse(blocked[p], v)
  BY DEF Base
<1>4. /\ SettleFs(s, vn_len) /\ leaked' = leaked /\ leaked' \in [Inode -> Nat]
      /\ \A v \in Inode : leaked'[v] = leaked[v] /\ leaked[v] \in Int
  BY DEF Return, Settle, IInv, FilesTypeOK
<1>5. \A v \in Inode : s.rc[v] - vn_refcount[v] = BUse(NULL, v) - BUse(blocked[p], v) + leaked'[v] - leaked[v]
  BY <1>2, <1>3, <1>4, BUseTypes
<1> QED BY <1>1, <1>4, <1>5, PathStep DEF Caller, Base, Return

(***************************************************************************)
(* and so does one that enters the file system with references to dir and  *)
(* vn.                                                                     *)
(***************************************************************************)
LEMMA EnterStep ==
  ASSUME IInv, NEW p, Caller(p), NEW s, Base(p, s), NEW t, Fs(t), t.ent = s.ent,
         NEW call, NEW dir, NEW name, NEW vn, NEW old,
         EnterOK([call |-> call, dir |-> dir, name |-> name, vn |-> vn, fd |-> NULL, old |-> old]),
         \A v \in Inode : t.rc[v] = s.rc[v] + One(dir, v) + One(vn, v),
         Enter(p, t, call, dir, name, vn, NULL, old), UNCHANGED onlyFs
  PROVE  IInv'
<1> DEFINE b == [call |-> call, dir |-> dir, name |-> name, vn |-> vn, fd |-> NULL, old |-> old]
<1>1. b \in InDirectory /\ b.dir = dir /\ b.vn = vn
  BY DEF EnterOK
<1>2. /\ SettleFs(t, vn_len) /\ blocked' = [blocked EXCEPT ![p] = b]
      /\ leaked' = leaked /\ leaked' \in [Inode -> Nat]
  BY DEF Enter, Settle, IInv, FilesTypeOK
<1>3. CallOK(b)
  BY DEF CallOK
<1> HIDE DEF b
<1>4. \A v \in Inode : BUse(b, v) = One(dir, v) + One(vn, v)
  BY <1>1, BUseTypes
<1>5. \A v \in Inode : s.rc[v] = vn_refcount[v] - BUse(blocked[p], v)
  BY DEF Base
<1>6. \A v \in Inode : vn_refcount[v] \in Int /\ s.rc[v] \in Int /\ t.rc[v] \in Int
  BY DEF Base, Fs, IInv, FilesTypeOK
<1>7. \A v \in Inode : One(dir, v) \in Int /\ One(vn, v) \in Int /\ BUse(blocked[p], v) \in Int
  BY BUseTypes
<1>8. \A v \in Inode : t.rc[v] - vn_refcount[v] = BUse(b, v) - BUse(blocked[p], v) + leaked'[v] - leaked[v]
  <2> TAKE v \in Inode
  <2>1. leaked'[v] = leaked[v] /\ leaked[v] \in Int
    BY <1>2
  <2> QED BY <1>4, <1>5, <1>6, <1>7, <2>1
<1>9. Tree(t)
  BY TreeEnt DEF Base
<1> QED BY <1>2, <1>3, <1>8, <1>9, PathStep DEF Caller

(***************************************************************************)
(* The results of dir_namev and of the lookup that follows it, and what is *)
(* left when their references are given back.                              *)
(***************************************************************************)
LEMMA DirFound ==
  ASSUME NEW s, Fs(s), NEW cwd \in Dir, NEW path \in Path
  PROVE  LET d == dir_namev(s, cwd, path) IN
         \/ d.ret # "OK" /\ d.s = s
         \/ /\ d.ret = "OK" /\ d.vn \in Dir /\ d.s = vref(s, d.vn) /\ vput(d.s, d.vn) = s
            /\ BaseName(path) \in Name \cup {".", ""}
<1>1. PathOK(path)
  BY FilesAssumption DEF PathOK
<1> DEFINE d == dir_namev(s, cwd, path)
<1>2. \/ /\ Found(d, s, d.vn) /\ d.vn \in Dir
         /\ BaseName(path) \in Name \cup {".", ""}
      \/ Failed(d, s)
  BY <1>1, DirNamevFacts
<1> HIDE DEF d
<1>3. d.vn \in Dir => d.vn \in Inode
  BY DEF Inode
<1>4. d.vn \in Dir => vput(vref(s, d.vn), d.vn) = s
  BY <1>3, RefPut
<1>5. \/ d.ret # "OK" /\ d.s = s
      \/ /\ d.ret = "OK" /\ d.vn \in Dir /\ d.s = vref(s, d.vn) /\ vput(d.s, d.vn) = s
         /\ BaseName(path) \in Name \cup {".", ""}
  BY <1>2, <1>4 DEF Found, Failed
<1> QED BY <1>5 DEF d

(* lookup of name in dir, which has a reference already. *)
LookedUp(r, s, dir, name) ==
  \/ r.ret # "OK" /\ r.s = vref(s, dir) /\ name \in Name
  \/ /\ r.ret = "OK" /\ r.vn \in Inode
     /\ r.s = vref(vref(s, dir), r.vn)
     /\ vput(r.s, dir) = vref(s, r.vn)
     /\ vput(vput(r.s, dir), r.vn) = s
     /\ vput(vput(r.s, r.vn), dir) = s
     /\ r.vn \notin Dir => name \in Name

(***************************************************************************)
(* What lookup returns after dir_namev, and what is left when its          *)
(* references are given back.                                              *)
(***************************************************************************)
LEMMA LookupFound ==
  ASSUME NEW s, Fs(s), NEW dir \in Dir, NEW name, name \in Name \cup {".", ""}
  PROVE  LookedUp(lookup(vref(s, dir), dir, name), s, dir, name)
<1> DEFINE s1 == vref(s, dir)
           r == lookup(s1, dir, name)
<1>1. dir \in Inode /\ name \in Component /\ NULL \notin Inode
  BY NamevAssumption DEF Component, Inode
<1>2. Fs(s1)
  BY <1>1, RefFacts
<1>3. CASE name \in {".", ""}
  <2>1. r = Result("OK", dir, vref(s1, dir))
    BY <1>3 DEF lookup
  <2> HIDE DEF r, s1
  <2>2. r.ret = "OK" /\ r.vn = dir /\ r.s = vref(s1, dir)
    BY <2>1 DEF Result
  <2>3. vput(r.s, dir) = s1 /\ vput(s1, dir) = s
    <3>1. vput(vref(s1, dir), dir) = s1
      BY <1>1, <1>2, RefPut
    <3>2. vput(s1, dir) = s
      BY <1>1, RefPut DEF s1
    <3> QED BY <2>2, <3>1, <3>2
  <2> QED BY <1>1, <2>2, <2>3 DEF r, s1, LookedUp
<1>4. CASE name \in Name
  <2>1. \/ Found(r, s1, Follow(s1.ent, dir, name)) \/ Failed(r, s1)
    BY <1>1, <1>2, LookupFacts
  <2> HIDE DEF r, s1
  <2>2. r.ret = "OK" => r.vn \in Inode /\ r.s = vref(s1, r.vn)
    BY <2>1 DEF Found, Failed
  <2>3. r.ret # "OK" => r.s = s1
    BY <2>1 DEF Found, Failed
  <2>4. ASSUME r.vn \in Inode
        PROVE  /\ vput(vref(s1, r.vn), dir) = vref(s, r.vn)
               /\ vput(vref(s, r.vn), r.vn) = s
               /\ vput(vref(s1, r.vn), r.vn) = s1
               /\ vput(s1, dir) = s
    BY <1>1, <1>2, <2>4, RefPut DEF s1
  <2>5. r.ret = "OK" => /\ vput(r.s, dir) = vref(s, r.vn)
                        /\ vput(vput(r.s, dir), r.vn) = s
                        /\ vput(vput(r.s, r.vn), dir) = s
    BY <2>2, <2>4
  <2> QED BY <1>4, <2>2, <2>3, <2>5 DEF r, s1, LookedUp
<1> QED BY <1>3, <1>4

(* The same of open_namev. *)
LEMMA OpenFound ==
  ASSUME NEW s, Fs(s), NEW cwd \in Dir, NEW path \in Path
  PROVE  LET r == open_namev(s, cwd, path) IN
         \/ r.ret # "OK" /\ r.s = s
         \/ r.ret = "OK" /\ r.vn \in Inode /\ r.s = vref(s, r.vn) /\ vput(r.s, r.vn) = s
<1>1. PathOK(path)
  BY FilesAssumption DEF PathOK
<1> DEFINE r == open_namev(s, cwd, path)
           v == Denotes(s.ent, cwd, path)
<1>2. Found(r, s, v) \/ Failed(r, s)
  BY <1>1, OpenNamevFacts
<1> HIDE DEF r, v
<1>3. v \in Inode => vput(vref(s, v), v) = s
  BY RefPut
<1>4. \/ r.ret # "OK" /\ r.s = s
      \/ r.ret = "OK" /\ r.vn \in Inode /\ r.s = vref(s, r.vn) /\ vput(r.s, r.vn) = s
  BY <1>2, <1>3 DEF Found, Failed
<1> QED BY <1>4 DEF r

(***************************************************************************)
(* A call that enters with its directory only: do_mkdir, do_mknod,         *)
(* do_rmdir.                                                               *)
(***************************************************************************)
LEMMA EnterDirStep ==
  ASSUME IInv, NEW p, Caller(p), NEW s, Base(p, s), NEW call, NEW dir \in Dir, NEW name,
         EnterOK([call |-> call, dir |-> dir, name |-> name, vn |-> NULL, fd |-> NULL, old |-> NULL]),
         Enter(p, vref(s, dir), call, dir, name, NULL, NULL, NULL), UNCHANGED onlyFs
  PROVE  IInv'
<1>1. dir \in Inode /\ Fs(s)
  BY DEF Inode, Base
<1> DEFINE t == vref(s, dir)
<1>2. Fs(t) /\ t.ent = s.ent /\ \A v \in Inode : t.rc[v] = s.rc[v] + One(dir, v)
  BY <1>1, RefFacts
<1>3. Enter(p, t, call, dir, name, NULL, NULL, NULL)
  OBVIOUS
<1> HIDE DEF t
<1>4. \A v \in Inode : s.rc[v] \in Int /\ One(dir, v) \in Int /\ One(NULL, v) = 0
  BY <1>1, BUseTypes DEF Fs
<1>5. \A v \in Inode : t.rc[v] = s.rc[v] + One(dir, v) + One(NULL, v)
  BY <1>2, <1>4
<1> QED BY <1>2, <1>3, <1>5, EnterStep

(***************************************************************************)
(* A call that enters with its directory and a vnode: do_unlink, do_link,  *)
(* do_rename.                                                              *)
(***************************************************************************)
LEMMA EnterVnStep ==
  ASSUME IInv, NEW p, Caller(p), NEW s, Base(p, s), NEW call, NEW dir \in Dir, NEW vn \in Inode, NEW name, NEW old,
         NEW x \in Inode, NEW y \in Inode, (x = dir /\ y = vn) \/ (x = vn /\ y = dir),
         EnterOK([call |-> call, dir |-> dir, name |-> name, vn |-> vn, fd |-> NULL, old |-> old]),
         Enter(p, vref(vref(s, x), y), call, dir, name, vn, NULL, old), UNCHANGED onlyFs
  PROVE  IInv'
<1>1. dir \in Inode /\ Fs(s)
  BY DEF Inode, Base
<1> DEFINE s1 == vref(s, x)
           t == vref(s1, y)
<1>2. Fs(s1) /\ s1.ent = s.ent /\ \A v \in Inode : s1.rc[v] = s.rc[v] + One(x, v)
  BY <1>1, RefFacts
<1>3. Enter(p, t, call, dir, name, vn, NULL, old)
  OBVIOUS
<1> HIDE DEF s1
<1>4. Fs(t) /\ t.ent = s1.ent /\ \A v \in Inode : t.rc[v] = s1.rc[v] + One(y, v)
  BY <1>2, RefFacts
<1> HIDE DEF t
<1>5. \A v \in Inode : s.rc[v] \in Int /\ One(dir, v) \in Int /\ One(vn, v) \in Int
  BY <1>1, BUseTypes DEF Fs
<1>6. \A v \in Inode : t.rc[v] = s.rc[v] + One(dir, v) + One(vn, v)
  BY <1>2, <1>4, <1>5
<1>7. t.ent = s.ent
  BY <1>2, <1>4
<1> QED BY <1>3, <1>4, <1>6, <1>7, EnterStep

(* A process that makes a call, and one whose call returns. *)
LEMMA CallingFacts ==
  ASSUME IInv, NEW p, NEW call, Calling(p, call)
  PROVE  /\ Caller(p) /\ Base(p, fs) /\ p \in Proc /\ p \in alive /\ p_cwd[p] \in Dir
         /\ system = "up" /\ blocked[p] = NULL /\ Fs(fs)
<1>1. p \in alive /\ blocked[p] = NULL /\ system = "up" /\ p \in Proc
  BY DEF Calling, IInv, FilesTypeOK
<1>2. Fs(fs) /\ Tree(fs) /\ fs.rc = vn_refcount
  BY FsFacts
<1>3. \A v \in Inode : vn_refcount[v] \in Int /\ BUse(NULL, v) = 0
  BY BUseTypes DEF IInv, FilesTypeOK
<1>4. \A v \in Inode : fs.rc[v] = vn_refcount[v] - BUse(blocked[p], v)
  BY <1>1, <1>2, <1>3
<1> QED BY <1>1, <1>2, <1>4, InUse DEF Caller, Base

(***************************************************************************)
(* A process that returns from a call on a path holds its directory and    *)
(* its vnode, and the file system without them is a base.                  *)
(***************************************************************************)
LEMMA ReturningFacts ==
  ASSUME IInv, NEW p \in Proc, NEW calls, Returning(p, calls),
         calls \subseteq {"do_mkdir", "do_mknod", "do_rmdir", "do_unlink", "do_link", "do_rename"}
  PROVE  /\ Caller(p) /\ EnterOK(blocked[p]) /\ blocked[p] \in InDirectory /\ blocked[p].call \in calls
         /\ p_cwd[p] \in Dir /\ blocked[p].dir \in Dir /\ vn_refcount[blocked[p].dir] # 0
         /\ \A v \in Inode : BUse(blocked[p], v) = One(blocked[p].dir, v) + One(blocked[p].vn, v)
<1> DEFINE b == blocked[p]
<1>1. b # NULL /\ b.call \in calls /\ system = "up" /\ p \in alive
  BY InUse DEF Returning
<1>2. PathCall(b) /\ b.call # "do_open"
  BY <1>1 DEF PathCall, FileCall
<1>3. b \in InDirectory /\ vn_refcount[b.dir] >= 1 /\ p_cwd[p] \in Dir
  BY <1>1, <1>2, InUse
<1>4. b.dir \in Dir /\ b.dir \in Inode
  BY <1>3 DEF InDirectory, Inode
<1>5. vn_refcount[b.dir] # 0
  BY <1>3, <1>4 DEF IInv, FilesTypeOK
<1>6. InPathCall(p)
  BY <1>2 DEF InPathCall, InFileCall, PathCall, FileCall
<1>7. EnterOK(b)
  BY <1>2, <1>3, <1>6 DEF IInv, BlockedRelyOn, EnterOK
<1>8. \A v \in Inode : BUse(b, v) = One(b.dir, v) + One(b.vn, v)
  BY <1>3, BUseTypes
<1> QED BY <1>1, <1>2, <1>3, <1>4, <1>5, <1>7, <1>8 DEF Caller

(* What Enter blocks a process in is a call on a path. *)
LEMMA EnterRecord ==
  ASSUME NEW call \in {"do_mkdir", "do_mknod", "do_rmdir", "do_unlink", "do_link", "do_rename"},
         NEW dir \in Dir, NEW name \in Name \cup {""}, NEW vn \in Inode \cup {NULL}, NEW old \in LinkPath \cup {NULL},
         vn = NULL <=> call \in {"do_mkdir", "do_mknod", "do_rmdir"},
         call = "do_rmdir" => name # "..",
         call # "do_rmdir" => name \in Name,
         call \in {"do_link", "do_rename"} => vn \notin Dir,
         call = "do_rename" => old # NULL
  PROVE  EnterOK([call |-> call, dir |-> dir, name |-> name, vn |-> vn, fd |-> NULL, old |-> old])
<1> DEFINE b == [call |-> call, dir |-> dir, name |-> name, vn |-> vn, fd |-> NULL, old |-> old]
<1>1. b \in InDirectory
  BY DEF InDirectory
<1>2. b.call = call /\ b.name = name /\ b.vn = vn /\ b.old = old
  OBVIOUS
<1> HIDE DEF b
<1>3. EnterOK(b)
  BY <1>1, <1>2 DEF EnterOK
<1> QED BY <1>3 DEF b

(***************************************************************************)
(* do_mkdir and do_mknod: all their ways out give back what they took      *)
(* (vfs_syscall.c).                                                        *)
(***************************************************************************)
LEMMA MakeNodeStep ==
  ASSUME IInv, NEW p, NEW call \in {"do_mkdir", "do_mknod"}, MakeNode(p, call)
  PROVE  IInv'
<1>1. /\ Caller(p) /\ Base(p, fs) /\ p_cwd[p] \in Dir /\ Fs(fs)
      /\ UNCHANGED onlyFs
  BY CallingFacts DEF MakeNode
<1>2. PICK path \in Path : \E d \in {dir_namev(fs, p_cwd[p], path)} :
       LET name == BaseName(path) IN
       \/ d.ret # "OK" /\ Return(p, d.s)
       \/ d.ret = "OK" /\ name \in AtLimit /\ Return(p, vput(d.s, d.vn))
       \/ /\ d.ret = "OK" /\ name \notin AtLimit
          /\ \E r \in {lookup(d.s, d.vn, name)} :
               \/ r.ret = "OK" /\ Return(p, vput(vput(r.s, d.vn), r.vn))
               \/ r.ret # "OK" /\ Enter(p, r.s, call, d.vn, name, NULL, NULL, NULL)
  BY DEF MakeNode
<1> DEFINE d == dir_namev(fs, p_cwd[p], path)
<1>3. \/ d.ret # "OK" /\ d.s = fs
      \/ /\ d.ret = "OK" /\ d.vn \in Dir /\ d.s = vref(fs, d.vn) /\ vput(d.s, d.vn) = fs
         /\ BaseName(path) \in Name \cup {".", ""}
  BY <1>1, DirFound
<1>4. CASE d.ret # "OK"
  BY <1>1, <1>2, <1>3, <1>4, ReturnStep
<1>5. CASE d.ret = "OK" /\ BaseName(path) \in AtLimit
  BY <1>1, <1>2, <1>3, <1>5, ReturnStep
<1>6. CASE d.ret = "OK" /\ BaseName(path) \notin AtLimit
  <2> DEFINE r == lookup(d.s, d.vn, BaseName(path))
  <2>1. \/ r.ret = "OK" /\ Return(p, vput(vput(r.s, d.vn), r.vn))
        \/ r.ret # "OK" /\ Enter(p, r.s, call, d.vn, BaseName(path), NULL, NULL, NULL)
    BY <1>2, <1>6
  <2>2. \/ r.ret # "OK" /\ r.s = vref(fs, d.vn) /\ BaseName(path) \in Name
        \/ r.ret = "OK" /\ vput(vput(r.s, d.vn), r.vn) = fs
    <3> HIDE DEF d
    <3>1. r = lookup(vref(fs, d.vn), d.vn, BaseName(path)) /\ d.vn \in Dir /\ BaseName(path) \in Name \cup {".", ""}
      BY <1>3, <1>6
    <3> HIDE DEF r
    <3>2. LookedUp(r, fs, d.vn, BaseName(path))
      BY <1>1, <3>1, LookupFound
    <3> QED BY <3>2 DEF LookedUp
  <2> HIDE DEF r
  <2>3. CASE r.ret = "OK"
    BY <1>1, <2>1, <2>2, <2>3, ReturnStep
  <2>4. CASE r.ret # "OK"
    <3>1. EnterOK([call |-> call, dir |-> d.vn, name |-> BaseName(path), vn |-> NULL, fd |-> NULL, old |-> NULL])
      BY <1>3, <1>6, <2>2, <2>4 DEF EnterOK, InDirectory
    <3>2. Enter(p, vref(fs, d.vn), call, d.vn, BaseName(path), NULL, NULL, NULL) /\ d.vn \in Dir
      BY <1>3, <1>6, <2>1, <2>2, <2>4
    <3> QED BY <1>1, <3>1, <3>2, EnterDirStep
  <2> QED BY <2>3, <2>4
<1> QED BY <1>4, <1>5, <1>6

(* do_rmdir up to the file system. *)
LEMMA RmdirStep ==
  ASSUME IInv, NEW p, do_rmdir(p)
  PROVE  IInv'
<1>1. /\ Caller(p) /\ Base(p, fs) /\ p_cwd[p] \in Dir /\ Fs(fs)
      /\ UNCHANGED onlyFs
  BY CallingFacts DEF do_rmdir
<1>2. PICK path \in Path : \E d \in {dir_namev(fs, p_cwd[p], path)} :
       LET name == BaseName(path) IN
       \/ d.ret # "OK" /\ Return(p, d.s)
       \/ d.ret = "OK" /\ name \in AtLimit \cup {".", ".."} /\ Return(p, vput(d.s, d.vn))
       \/ /\ d.ret = "OK" /\ name \notin AtLimit \cup {".", ".."}
          /\ Enter(p, d.s, "do_rmdir", d.vn, name, NULL, NULL, NULL)
  BY DEF do_rmdir
<1> DEFINE d == dir_namev(fs, p_cwd[p], path)
<1>3. \/ d.ret # "OK" /\ d.s = fs
      \/ /\ d.ret = "OK" /\ d.vn \in Dir /\ d.s = vref(fs, d.vn) /\ vput(d.s, d.vn) = fs
         /\ BaseName(path) \in Name \cup {".", ""}
  BY <1>1, DirFound
<1>4. CASE d.ret # "OK"
  BY <1>1, <1>2, <1>3, <1>4, ReturnStep
<1>5. CASE d.ret = "OK" /\ BaseName(path) \in AtLimit \cup {".", ".."}
  BY <1>1, <1>2, <1>3, <1>5, ReturnStep
<1>6. CASE d.ret = "OK" /\ BaseName(path) \notin AtLimit \cup {".", ".."}
  <2>1. EnterOK([call |-> "do_rmdir", dir |-> d.vn, name |-> BaseName(path), vn |-> NULL, fd |-> NULL, old |-> NULL])
    BY <1>3, <1>6 DEF EnterOK, InDirectory
  <2>2. Enter(p, vref(fs, d.vn), "do_rmdir", d.vn, BaseName(path), NULL, NULL, NULL) /\ d.vn \in Dir
    BY <1>2, <1>3, <1>6
  <2> QED BY <1>1, <2>1, <2>2, EnterDirStep
<1> QED BY <1>4, <1>5, <1>6

(***************************************************************************)
(* do_unlink up to the file system, from any base: do_rename goes on with  *)
(* it.                                                                     *)
(***************************************************************************)
LEMMA UnlinkStep ==
  ASSUME IInv, NEW p, Caller(p), p_cwd[p] \in Dir, NEW s, Base(p, s), NEW path \in Path,
         Unlink(p, s, path), UNCHANGED onlyFs
  PROVE  IInv'
<1>1. Fs(s)
  BY DEF Base
<1>2. PICK d \in {dir_namev(s, p_cwd[p], path)} :
    LET name == BaseName(path) IN
    \/ d.ret # "OK" /\ Return(p, d.s)
    \/ d.ret = "OK" /\ name \in AtLimit /\ Return(p, vput(d.s, d.vn))
    \/ /\ d.ret = "OK" /\ name \notin AtLimit
       /\ \E r \in {lookup(d.s, d.vn, name)} :
            \/ r.ret # "OK" /\ Return(p, vput(r.s, d.vn))
            \/ r.ret = "OK" /\ r.vn \in Dir /\ Return(p, vput(vput(r.s, d.vn), r.vn))
            \/ /\ r.ret = "OK" /\ r.vn \notin Dir
               /\ Enter(p, r.s, "do_unlink", d.vn, name, r.vn, NULL, NULL)
  BY DEF Unlink
<1>3. \/ d.ret # "OK" /\ d.s = s
      \/ /\ d.ret = "OK" /\ d.vn \in Dir /\ d.s = vref(s, d.vn) /\ vput(d.s, d.vn) = s
         /\ BaseName(path) \in Name \cup {".", ""}
  <2>1. d = dir_namev(s, p_cwd[p], path)
    OBVIOUS
  <2> QED BY <1>1, <2>1, DirFound
<1>4. CASE d.ret # "OK"
  BY <1>2, <1>3, <1>4, ReturnStep
<1>5. CASE d.ret = "OK" /\ BaseName(path) \in AtLimit
  BY <1>2, <1>3, <1>5, ReturnStep
<1>6. CASE d.ret = "OK" /\ BaseName(path) \notin AtLimit
  <2> DEFINE r == lookup(d.s, d.vn, BaseName(path))
  <2>1. \/ r.ret # "OK" /\ Return(p, vput(r.s, d.vn))
        \/ r.ret = "OK" /\ r.vn \in Dir /\ Return(p, vput(vput(r.s, d.vn), r.vn))
        \/ /\ r.ret = "OK" /\ r.vn \notin Dir
           /\ Enter(p, r.s, "do_unlink", d.vn, BaseName(path), r.vn, NULL, NULL)
    BY <1>2, <1>6
  <2>2. \/ r.ret # "OK" /\ r.s = vref(s, d.vn)
        \/ /\ r.ret = "OK" /\ r.vn \in Inode /\ vput(vput(r.s, d.vn), r.vn) = s
           /\ r.s = vref(vref(s, d.vn), r.vn)
           /\ r.vn \notin Dir => BaseName(path) \in Name
    <3>1. r = lookup(vref(s, d.vn), d.vn, BaseName(path)) /\ d.vn \in Dir /\ BaseName(path) \in Name \cup {".", ""}
      BY <1>3, <1>6
    <3> HIDE DEF r
    <3>2. LookedUp(r, s, d.vn, BaseName(path))
      BY <1>1, <3>1, LookupFound
    <3> QED BY <3>2 DEF LookedUp
  <2> HIDE DEF r
  <2>3. CASE r.ret # "OK"
    BY <1>3, <1>6, <2>1, <2>2, <2>3, ReturnStep
  <2>4. CASE r.ret = "OK" /\ r.vn \in Dir
    BY <2>1, <2>2, <2>4, ReturnStep
  <2>5. CASE r.ret = "OK" /\ r.vn \notin Dir
    <3>1. EnterOK([call |-> "do_unlink", dir |-> d.vn, name |-> BaseName(path), vn |-> r.vn, fd |-> NULL, old |-> NULL])
      <4>1. r.vn # NULL /\ r.vn \in Inode /\ BaseName(path) \in Name /\ d.vn \in Dir
        BY <1>3, <1>6, <2>2, <2>5, NamevAssumption
      <4>2. \A dir \in Dir, name \in Name, vn \in Inode : vn # NULL =>
              EnterOK([call |-> "do_unlink", dir |-> dir, name |-> name, vn |-> vn, fd |-> NULL, old |-> NULL])
        BY EnterRecord
      <4> QED BY <4>1, <4>2
    <3>2. Enter(p, vref(vref(s, d.vn), r.vn), "do_unlink", d.vn, BaseName(path), r.vn, NULL, NULL) /\ d.vn \in Dir
          /\ r.vn \in Inode
      BY <1>3, <1>6, <2>1, <2>2, <2>5
    <3>3. d.vn \in Inode
      BY <3>2 DEF Inode
    <3> QED BY <3>1, <3>2, <3>3, EnterVnStep
  <2> QED BY <2>3, <2>4, <2>5
<1> QED BY <1>4, <1>5, <1>6
(* The references of a call are given back after the file system's function. *)
LEMMA BaseAfter ==
  ASSUME IInv, NEW p, NEW dir \in Dir, NEW vn \in Inode \cup {NULL},
         \A v \in Inode : BUse(blocked[p], v) = One(dir, v) + One(vn, v),
         NEW t, Fs(t), Tree(t), t.rc = vn_refcount
  PROVE  /\ vn = NULL => Base(p, vput(t, dir))
         /\ vn \in Inode => Base(p, vput(vput(t, dir), vn)) /\ Base(p, vput(vput(t, vn), dir))
<1>1. dir \in Inode /\ \A v \in Inode : vn_refcount[v] \in Int /\ One(dir, v) \in Int /\ One(vn, v) \in Int
  BY BUseTypes DEF IInv, FilesTypeOK, Inode
<1>2. ASSUME NEW x \in Inode
      PROVE  /\ Fs(vput(t, x)) /\ Tree(vput(t, x)) /\ vput(t, x).ent = t.ent
             /\ \A v \in Inode : vput(t, x).rc[v] = vn_refcount[v] - One(x, v)
  <2>1. /\ Fs(vput(t, x)) /\ vput(t, x).ent = t.ent
        /\ \A v \in Inode : vput(t, x).rc[v] = t.rc[v] - One(x, v)
    BY RefFacts
  <2>2. Tree(vput(t, x))
    BY <2>1, TreeEnt
  <2> QED BY <2>1, <2>2
<1>3. vn = NULL => Base(p, vput(t, dir))
  <2> HAVE vn = NULL
  <2>1. \A v \in Inode : One(vn, v) = 0
    BY BUseTypes
  <2>2. \A v \in Inode : vput(t, dir).rc[v] = vn_refcount[v] - BUse(blocked[p], v)
    BY <1>1, <1>2, <2>1
  <2> QED BY <1>1, <1>2, <2>2 DEF Base
<1>4. ASSUME NEW x \in Inode, NEW y \in Inode, (x = dir /\ y = vn) \/ (x = vn /\ y = dir)
      PROVE  Base(p, vput(vput(t, x), y))
  <2> DEFINE s == vput(t, x)
             u == vput(s, y)
  <2>1. Fs(s) /\ Tree(s) /\ \A v \in Inode : s.rc[v] = vn_refcount[v] - One(x, v)
    BY <1>2
  <2> HIDE DEF s
  <2>2. Fs(u) /\ u.ent = s.ent /\ \A v \in Inode : u.rc[v] = s.rc[v] - One(y, v)
    BY <2>1, RefFacts
  <2> HIDE DEF u
  <2>3. Tree(u)
    BY <2>1, <2>2, TreeEnt
  <2>4. \A v \in Inode : u.rc[v] = vn_refcount[v] - BUse(blocked[p], v)
    BY <1>1, <1>4, <2>1, <2>2
  <2>5. Base(p, u)
    BY <2>2, <2>3, <2>4 DEF Base
  <2> QED BY <2>5 DEF u, s
<1> QED BY <1>1, <1>3, <1>4

(* mkdir and mknod return: the new inode joins the tree. *)
LEMMA MakeNodeReturnsStep ==
  ASSUME IInv, NEW p \in Proc, MakeNodeReturns(p)
  PROVE  IInv'
<1> DEFINE b == blocked[p]
           K == IF b.call = "do_mkdir" THEN Dir ELSE Chr
           r == fs_make(fs, b.dir, b.name, K)
<1>1. Returning(p, {"do_mkdir", "do_mknod"}) /\ Return(p, vput(r.s, b.dir)) /\ UNCHANGED onlyFs
  BY DEF MakeNodeReturns
<1>2. /\ Caller(p) /\ EnterOK(b) /\ b \in InDirectory /\ b.call \in {"do_mkdir", "do_mknod"}
      /\ b.dir \in Dir /\ vn_refcount[b.dir] # 0
      /\ \A v \in Inode : BUse(b, v) = One(b.dir, v) + One(b.vn, v)
  BY <1>1, ReturningFacts
<1>3. b.vn = NULL /\ b.name \in Name
  BY <1>2 DEF EnterOK
<1>4. Fs(fs) /\ Tree(fs) /\ FreeEmpty(fs) /\ fs.rc = vn_refcount
  BY FsFacts
<1>5. Fs(r.s) /\ Tree(r.s) /\ r.s.rc = vn_refcount
  <2>1. K \in {Dir, Reg, Chr} /\ fs.rc[b.dir] # 0
    BY <1>2, <1>4
  <2> HIDE DEF K
  <2> QED BY <1>2, <1>3, <1>4, <2>1, MakeTree
<1> HIDE DEF r
<1>6. Base(p, vput(r.s, b.dir))
  BY <1>2, <1>3, <1>5, BaseAfter
<1> QED BY <1>1, <1>2, <1>6, ReturnStep

(* rmdir returns: the directory was empty and leaves the tree. *)
LEMMA RmdirReturnsStep ==
  ASSUME IInv, NEW p \in Proc, do_rmdir_returns(p)
  PROVE  IInv'
<1> DEFINE b == blocked[p]
           t == fs_rmdir(fs, b.dir, b.name)
<1>1. Returning(p, {"do_rmdir"}) /\ Return(p, vput(t, b.dir)) /\ UNCHANGED onlyFs
  BY DEF do_rmdir_returns
<1>2. /\ Caller(p) /\ EnterOK(b) /\ b.call \in {"do_rmdir"} /\ b.dir \in Dir
      /\ \A v \in Inode : BUse(b, v) = One(b.dir, v) + One(b.vn, v)
  BY <1>1, ReturningFacts
<1>3. b.vn = NULL /\ b.name # ".."
  BY <1>2 DEF EnterOK
<1>4. Fs(fs) /\ Tree(fs) /\ fs.rc = vn_refcount
  BY FsFacts
<1>5. Fs(t) /\ Tree(t) /\ t.rc = vn_refcount
  BY <1>2, <1>3, <1>4, RmdirTree
<1> HIDE DEF t
<1>6. Base(p, vput(t, b.dir))
  BY <1>2, <1>3, <1>5, BaseAfter
<1> QED BY <1>1, <1>2, <1>6, ReturnStep

(* unlink returns: the name did not belong to a directory. *)
LEMMA UnlinkReturnsStep ==
  ASSUME IInv, NEW p \in Proc, do_unlink_returns(p)
  PROVE  IInv'
<1> DEFINE b == blocked[p]
           t == fs_unlink(fs, b.dir, b.name)
<1>1. Returning(p, {"do_unlink"}) /\ Return(p, vput(vput(t, b.dir), b.vn)) /\ UNCHANGED onlyFs
  BY DEF do_unlink_returns
<1>2. /\ Caller(p) /\ EnterOK(b) /\ b \in InDirectory /\ b.call \in {"do_unlink"} /\ b.dir \in Dir
      /\ \A v \in Inode : BUse(b, v) = One(b.dir, v) + One(b.vn, v)
  BY <1>1, ReturningFacts
<1>3. b.vn \in Inode /\ b.name \in Name
  BY <1>2 DEF EnterOK, InDirectory
<1>4. Fs(fs) /\ Tree(fs) /\ fs.rc = vn_refcount
  BY FsFacts
<1>5. Fs(t) /\ Tree(t) /\ t.rc = vn_refcount
  BY <1>2, <1>3, <1>4, UnlinkTree
<1> HIDE DEF t
<1>6. Base(p, vput(vput(t, b.dir), b.vn))
  BY <1>2, <1>3, <1>5, BaseAfter
<1> QED BY <1>1, <1>2, <1>6, ReturnStep

(***************************************************************************)
(* link returns: what was linked is no directory; do_rename goes on to     *)
(* unlink.                                                                 *)
(***************************************************************************)
LEMMA LinkReturnsStep ==
  ASSUME IInv, NEW p \in Proc, do_link_returns(p)
  PROVE  IInv'
<1> DEFINE b == blocked[p]
           m == fs_link(fs, b.vn, b.dir, b.name)
           r == Putting(Putting(m, b.vn), b.dir)
<1>1. /\ Returning(p, {"do_link", "do_rename"}) /\ UNCHANGED onlyFs
      /\ \/ Return(p, r.s)
         \/ b.call = "do_rename" /\ Unlink(p, r.s, b.old)
  BY DEF do_link_returns
<1>2. /\ Caller(p) /\ EnterOK(b) /\ b \in InDirectory /\ b.call \in {"do_link", "do_rename"} /\ b.dir \in Dir
      /\ p_cwd[p] \in Dir
      /\ \A v \in Inode : BUse(b, v) = One(b.dir, v) + One(b.vn, v)
  BY <1>1, ReturningFacts
<1>3. b.vn \in Inode \ Dir /\ b.vn \in Inode /\ b.name \in Name
  BY <1>2 DEF EnterOK, InDirectory
<1>4. Fs(fs) /\ Tree(fs) /\ fs.rc = vn_refcount
  BY FsFacts
<1>5. Fs(m.s) /\ Tree(m.s) /\ m.s.rc = vn_refcount /\ m = [ret |-> m.ret, vn |-> m.vn, s |-> m.s]
  BY <1>2, <1>3, <1>4, LinkTree
<1>6. r.s = vput(vput(m.s, b.vn), b.dir)
  <2> HIDE DEF m, b
  <2> QED BY <1>5 DEF Putting
<1> HIDE DEF m, r
<1>7. Base(p, r.s)
  <2>1. Base(p, vput(vput(m.s, b.vn), b.dir))
    BY <1>2, <1>3, <1>5, BaseAfter
  <2> QED BY <1>6, <2>1
<1>8. CASE Return(p, r.s)
  BY <1>1, <1>2, <1>7, <1>8, ReturnStep
<1>9. CASE b.call = "do_rename" /\ Unlink(p, r.s, b.old)
  <2>1. b.old \in Path
    <3>1. LinkPath \subseteq Path
      BY FilesAssumption
    <3>2. b.old \in LinkPath
      BY <1>2, <1>9 DEF EnterOK, InDirectory
    <3> QED BY <3>1, <3>2
  <2> QED BY <1>1, <1>2, <1>7, <1>9, <2>1, UnlinkStep
<1> QED BY <1>1, <1>8, <1>9

(* do_stat gives back what open_namev found. *)
LEMMA StatStep ==
  ASSUME IInv, NEW p, do_stat(p)
  PROVE  IInv'
<1>1. /\ Caller(p) /\ Base(p, fs) /\ p_cwd[p] \in Dir /\ Fs(fs)
      /\ UNCHANGED onlyFs
  BY CallingFacts DEF do_stat
<1>2. PICK path \in Path : \E r \in {open_namev(fs, p_cwd[p], path)} :
       Return(p, IF r.ret = "OK" THEN vput(r.s, r.vn) ELSE r.s)
  BY DEF do_stat
<1> DEFINE r == open_namev(fs, p_cwd[p], path)
<1>3. (IF r.ret = "OK" THEN vput(r.s, r.vn) ELSE r.s) = fs
  BY <1>1, OpenFound
<1>4. Return(p, fs)
  BY <1>2, <1>3
<1> QED BY <1>1, <1>4, ReturnStep

(***************************************************************************)
(* do_open on a path that does not exist or a vnode that may not be opened *)
(* so.                                                                     *)
(***************************************************************************)
LEMMA OpenFailsStep ==
  ASSUME IInv, NEW p, do_open_fails(p)
  PROVE  IInv'
<1>1. Caller(p) /\ Base(p, fs) /\ p_cwd[p] \in Dir /\ Fs(fs)
  BY CallingFacts DEF do_open_fails
<1>2. UNCHANGED onlyFs
  BY DEF do_open_fails, onlyFs
<1>3. PICK path \in Path, flags \in Flags : \E r \in {open_namev(fs, p_cwd[p], path)} :
       \/ /\ r.ret # "OK"
          /\ ~(flags.creat /\ Creates(p, path))
          /\ Return(p, r.s)
       \/ r.ret = "OK" /\ Refused(r.vn, flags) /\ Return(p, vput(r.s, r.vn))
  BY DEF do_open_fails
<1> DEFINE r == open_namev(fs, p_cwd[p], path)
<1>4. (r.ret # "OK" /\ r.s = fs) \/ (r.ret = "OK" /\ vput(r.s, r.vn) = fs)
  BY <1>1, OpenFound
<1>5. Return(p, fs)
  BY <1>3, <1>4
<1> QED BY <1>1, <1>2, <1>5, ReturnStep

(* The counts of references are integers. *)
LEMMA IntCounts ==
  ASSUME IInv
  PROVE  \A v \in Inode : vn_refcount[v] \in Int
  BY DEF IInv, FilesTypeOK

(* One reference to v is leaked. *)
LEMMA LeakStep ==
  ASSUME IInv, NEW v \in Inode, Leak(v)
  PROVE  /\ leaked' \in [Inode -> Nat]
         /\ \A w \in Inode : leaked'[w] = leaked[w] + One(v, w) /\ leaked[w] \in Int
<1>1. leaked \in [Inode -> Nat]
  BY DEF IInv, FilesTypeOK
<1> QED BY <1>1 DEF Leak, One

(***************************************************************************)
(* The second half of do_link, from a vnode v that is referenced once more *)
(* than in fs. If the name exists its directory is leaked.                 *)
(***************************************************************************)
LEMMA LinkInStep ==
  ASSUME IInv, NEW p, Caller(p), Base(p, fs), NEW call \in {"do_link", "do_rename"}, NEW from \in LinkPath,
         NEW vn \in Inode \ Dir, NEW d, d.ret = "OK", d.vn \in Dir, d.s = vref(vref(fs, vn), d.vn),
         NEW name, name \in Name \cup {".", ""}, LinkIn(p, call, from, vn, d, name), UNCHANGED onlyFs
  PROVE  IInv'
<1> DEFINE s == vref(fs, vn)
           dir == d.vn
           e == lookup(vref(s, dir), dir, name)
<1>1. /\ vn \in Inode /\ dir \in Inode /\ vn # NULL /\ Fs(fs) /\ fs.rc = vn_refcount
  BY NamevAssumption, FsFacts DEF Inode
<1>2. Fs(s) /\ s.ent = fs.ent
  BY <1>1, RefFacts
<1>3. \/ /\ e.ret = "OK" /\ Leak(dir)
         /\ SettleFs(vput(vput(e.s, e.vn), vn), vn_len) /\ blocked' = [blocked EXCEPT ![p] = NULL]
      \/ /\ e.ret # "OK"
         /\ Enter(p, e.s, call, dir, name, vn, NULL, IF call = "do_rename" THEN from ELSE NULL)
  BY DEF LinkIn
<1>4. \/ e.ret # "OK" /\ e.s = vref(s, dir) /\ name \in Name
      \/ e.ret = "OK" /\ e.vn \in Inode /\ e.s = vref(vref(s, dir), e.vn)
  <2>1. dir \in Dir /\ name \in Name \cup {".", ""}
    OBVIOUS
  <2> HIDE DEF s, dir
  <2>2. e = lookup(vref(s, dir), dir, name)
    OBVIOUS
  <2> HIDE DEF e
  <2>3. LookedUp(e, s, dir, name)
    BY <1>2, <2>1, <2>2, LookupFound
  <2> QED BY <2>3 DEF LookedUp
<1> HIDE DEF e
<1>5. CASE e.ret # "OK"
  <2> DEFINE old == IF call = "do_rename" THEN from ELSE NULL
  <2>1. old \in LinkPath \cup {NULL} /\ (call = "do_rename" => old # NULL)
    BY NullAssumption
  <2>2. Enter(p, vref(vref(fs, vn), dir), call, dir, name, vn, NULL, old) /\ name \in Name
    BY <1>3, <1>4, <1>5
  <2> HIDE DEF old
  <2>3. EnterOK([call |-> call, dir |-> dir, name |-> name, vn |-> vn, fd |-> NULL, old |-> old])
    <3>1. dir \in Dir /\ name \in Name \cup {""} /\ name \in Name /\ vn \in Inode \cup {NULL} /\ vn # NULL /\ vn \notin Dir
      BY <1>1, <2>2
    <3> HIDE DEF dir
    <3> QED BY <2>1, <3>1, EnterRecord
  <2> QED BY <1>1, <2>2, <2>3, EnterVnStep
<1>6. CASE e.ret = "OK"
  <2> DEFINE s1 == vref(s, dir)
             s2 == vref(s1, e.vn)
             s3 == vput(s2, e.vn)
             s4 == vput(s3, vn)
  <2>1. /\ e.vn \in Inode /\ e.s = s2 /\ Leak(dir)
        /\ SettleFs(s4, vn_len) /\ blocked' = [blocked EXCEPT ![p] = NULL]
    BY <1>3, <1>4, <1>6
  <2>2. Fs(s1) /\ s1.ent = s.ent /\ \A v \in Inode : s1.rc[v] = s.rc[v] + One(dir, v)
    BY <1>1, <1>2, RefFacts
  <2>3. s3 = s1
    <3> HIDE DEF s1
    <3> QED BY <2>1, <2>2, RefPut
  <2>4. \A v \in Inode : s.rc[v] = fs.rc[v] + One(vn, v)
    BY <1>1, RefFacts
  <2> HIDE DEF s1, s3
  <2>5. Fs(s4) /\ s4.ent = s1.ent /\ \A v \in Inode : s4.rc[v] = s1.rc[v] - One(vn, v)
    BY <1>1, <2>2, <2>3, RefFacts
  <2> HIDE DEF s4, s
  <2> HIDE DEF dir
  <2>6. \A v \in Inode : One(vn, v) \in Int /\ One(dir, v) \in {0, 1} /\ vn_refcount[v] \in Int
    <3>1. \A v \in Inode : vn_refcount[v] \in Int
      BY ONLY IInv, IntCounts
    <3>2. \A v : One(vn, v) \in {0, 1} /\ One(dir, v) \in {0, 1}
      BY BUseTypes
    <3> QED BY ONLY <3>1, <3>2
  <2>7. \A v \in Inode : s4.rc[v] = vn_refcount[v] + One(dir, v)
    BY ONLY <1>1, <2>2, <2>4, <2>5, <2>6
  <2>8. \A v \in Inode : BUse(blocked[p], v) = 0
    <3>1. \A v \in Inode : vn_refcount[v] = vn_refcount[v] - BUse(blocked[p], v)
      BY <1>1 DEF Base
    <3>2. \A v \in Inode : BUse(blocked[p], v) \in Nat
      BY BUseTypes
    <3> QED BY ONLY <2>6, <3>1, <3>2
  <2>10. /\ leaked' \in [Inode -> Nat]
         /\ \A v \in Inode : leaked'[v] = leaked[v] + One(dir, v) /\ leaked[v] \in Int
    BY <1>1, <2>1, LeakStep
  <2>9. \A v \in Inode : s4.rc[v] - vn_refcount[v] = BUse(NULL, v) - BUse(blocked[p], v) + leaked'[v] - leaked[v]
    <3>1. \A v : BUse(NULL, v) = 0
      BY BUseTypes
    <3> QED BY ONLY <2>6, <2>7, <2>8, <2>10, <3>1
  <2>11. Tree(s4)
    <3>1. s4.ent = fs.ent
      BY <1>2, <2>2, <2>5
    <3> QED BY <3>1, FsFacts, TreeEnt
  <2>12. CallOK(NULL) /\ SettleFs(s4, vn_len) /\ blocked' = [blocked EXCEPT ![p] = NULL]
    BY <2>1 DEF CallOK
  <2> QED BY <2>5, <2>9, <2>10, <2>11, <2>12, PathStep DEF Caller
<1> QED BY <1>5, <1>6

(* do_link and do_rename up to the file system. *)
LEMMA LinkStep ==
  ASSUME IInv, NEW p, NEW call \in {"do_link", "do_rename"}, Calling(p, call),
         NEW from \in LinkPath, NEW to \in LinkPath, Link(p, call, from, to), UNCHANGED onlyFs
  PROVE  IInv'
<1>1. Caller(p) /\ Base(p, fs) /\ p_cwd[p] \in Dir /\ Fs(fs)
  BY CallingFacts
<1>2. from \in Path /\ to \in Path
  BY FilesAssumption
<1> DEFINE r == open_namev(fs, p_cwd[p], from)
           d == dir_namev(r.s, p_cwd[p], to)
<1>3. \/ r.ret # "OK" /\ Return(p, r.s)
      \/ r.ret = "OK" /\ ~MayLink(r.vn) /\ Return(p, vput(r.s, r.vn))
      \/ /\ r.ret = "OK" /\ MayLink(r.vn)
         /\ \/ d.ret # "OK" /\ Return(p, vput(d.s, r.vn))
            \/ d.ret = "OK" /\ LinkIn(p, call, from, r.vn, d, BaseName(to))
  BY DEF Link
<1>4. \/ r.ret # "OK" /\ r.s = fs
      \/ r.ret = "OK" /\ r.vn \in Inode /\ r.s = vref(fs, r.vn) /\ vput(r.s, r.vn) = fs
  BY <1>1, <1>2, OpenFound
<1> HIDE DEF r
<1>5. r.ret = "OK" => Fs(r.s)
  BY <1>1, <1>4, RefFacts
<1>6. r.ret = "OK" =>
      \/ d.ret # "OK" /\ d.s = r.s
      \/ /\ d.ret = "OK" /\ d.vn \in Dir /\ d.s = vref(r.s, d.vn)
         /\ BaseName(to) \in Name \cup {".", ""}
  BY <1>1, <1>2, <1>5, DirFound
<1> HIDE DEF d
<1>7. CASE Return(p, fs)
  BY <1>1, <1>7, ReturnStep
<1>8. CASE /\ r.ret = "OK" /\ MayLink(r.vn)
           /\ d.ret = "OK" /\ LinkIn(p, call, from, r.vn, d, BaseName(to))
  <2>1. r.vn \in Inode \ Dir /\ d.vn \in Dir /\ d.s = vref(vref(fs, r.vn), d.vn) /\ BaseName(to) \in Name \cup {".", ""}
    BY <1>4, <1>6, <1>8 DEF MayLink
  <2> QED BY <1>1, <1>8, <2>1, LinkInStep
<1> QED BY <1>3, <1>4, <1>6, <1>7, <1>8
----------------------------------------------------------------------------
(***************************************************************************)
(* fput: files lose as many references as users.                           *)
(***************************************************************************)
LEMMA UsesNat ==
  ASSUME alive' \subseteq Proc
  PROVE  \A f : /\ FileUses(f)' \in Nat
                /\ \A p \in alive', fd \in FD : p_files'[p][fd] = f => FileUses(f)' >= 1
                /\ \A p \in Proc : FileCall(blocked'[p]) /\ blocked'[p].file = f => FileUses(f)' >= 1
<1> TAKE f
<1>1. FdCount(alive', p_files', f) \in Nat /\ CallCount(blocked', f) \in Nat
  BY CountTypes
<1>2. FileUses(f)' = FdCount(alive', p_files', f) + CallCount(blocked', f)
  BY UsesAreCounts
<1>3. \A p \in alive', fd \in FD : p_files'[p][fd] = f => FdCount(alive', p_files', f) >= 1
  <2> TAKE p \in alive', fd \in FD
  <2>1. FdCount(alive', p_files', p_files'[p][fd]) >= 1
    BY Counted
  <2> QED BY <2>1
<1>4. \A p \in Proc : FileCall(blocked'[p]) /\ blocked'[p].file = f => CallCount(blocked', f) >= 1
  BY Counted
<1> QED BY <1>1, <1>2, <1>3, <1>4

(* FilesAccounted of one file_t. *)
Accounted(f) ==
  /\ \/ f_refcount[f] = FileUses(f)
     \/ "do_open_invalid" \in Calls /\ f_refcount[f] = 1 /\ FileUses(f) = 0 /\ f_vnode[f] = NULL
  /\ f_refcount[f] = 0 => f_vnode[f] = NULL

(***************************************************************************)
(* fput keeps the files accounted for when it drops as many references as  *)
(* there are fewer uses; a file still used keeps its vnode, and each vnode *)
(* loses a reference for each file that is closed.                         *)
(***************************************************************************)
LEMMA FputStep ==
  ASSUME IInv, NEW drop \in [File -> Int], NEW pos \in [File -> 0..MaxPos], fput(drop, pos), alive' \subseteq Proc,
         \A f \in File : FileUses(f)' = FileUses(f) - drop[f] /\ (drop[f] # 0 => FileUses(f) >= 1)
  PROVE  /\ f_refcount' \in [File -> Nat] /\ f_vnode' \in [File -> Inode \cup {NULL}]
         /\ f_mode' \in [File -> SUBSET {"READ", "WRITE", "APPEND"}] /\ f_pos' \in [File -> 0..MaxPos]
         /\ \A f \in File : /\ Accounted(f)'
                            /\ FileUses(f)' >= 1 => f_vnode'[f] = f_vnode[f]
                            /\ drop[f] = 0 => f_vnode'[f] = f_vnode[f] /\ f_refcount'[f] = f_refcount[f]
         /\ Fs(FputVnodes(fs, drop)) /\ Tree(FputVnodes(fs, drop))
         /\ \A v \in Inode : FputVnodes(fs, drop).rc[v]
                             = vn_refcount[v] + VnodeCount(f_vnode', v) - VnodeCount(f_vnode, v)
<1> DEFINE C == Closed(drop)
<1>1. /\ f_refcount \in [File -> Nat] /\ f_vnode \in [File -> Inode \cup {NULL}]
      /\ f_mode \in [File -> SUBSET {"READ", "WRITE", "APPEND"}]
      /\ vn_refcount \in [Inode -> Nat] /\ alive \subseteq Proc
  BY DEF IInv, FilesTypeOK
<1>2. /\ f_refcount' = [f \in File |-> f_refcount[f] - drop[f]]
      /\ f_vnode' = [f \in File |-> IF f \in C THEN NULL ELSE f_vnode[f]]
      /\ f_mode' = [f \in File |-> IF f \in C THEN {} ELSE f_mode[f]]
      /\ f_pos' = [f \in File |-> IF f \in C THEN 0 ELSE pos[f]]
  BY DEF fput
<1>3. /\ C \subseteq File
      /\ \A f \in File : f \in C <=> f_refcount[f] > 0 /\ f_refcount[f] = drop[f]
  BY DEF Closed
<1> HIDE DEF C
<1>4. \A f : FileUses(f) \in Nat /\ FileUses(f)' \in Nat
  BY InUse, UsesNat
<1>5. \A f \in File : Accounted(f)
  BY DEF IInv, FilesAccounted, Accounted
<1>6. ASSUME NEW f \in File
      PROVE  /\ f_refcount'[f] \in Nat /\ Accounted(f)'
             /\ FileUses(f)' >= 1 => f_vnode'[f] = f_vnode[f]
             /\ drop[f] = 0 => f_vnode'[f] = f_vnode[f] /\ f_refcount'[f] = f_refcount[f]
  <2>1. /\ f_refcount'[f] = f_refcount[f] - drop[f]
        /\ f_vnode'[f] = IF f \in C THEN NULL ELSE f_vnode[f]
        /\ f \in C <=> f_refcount[f] > 0 /\ f_refcount[f] = drop[f]
        /\ f_refcount[f] \in Nat /\ drop[f] \in Int
        /\ FileUses(f)' = FileUses(f) - drop[f] /\ (drop[f] # 0 => FileUses(f) >= 1)
        /\ FileUses(f) \in Nat /\ FileUses(f)' \in Nat
    BY <1>1, <1>2, <1>3, <1>4
  <2>2. CASE drop[f] = 0
    <3>1. f \notin C /\ f_refcount'[f] = f_refcount[f] /\ f_vnode'[f] = f_vnode[f] /\ FileUses(f)' = FileUses(f)
      BY <2>1, <2>2
    <3> QED BY <1>5, <2>1, <3>1 DEF Accounted
  <2>3. CASE drop[f] # 0
    <3>1. f_refcount[f] = FileUses(f)
      <4>1. FileUses(f) # 0
        BY <2>1, <2>3
      <4> QED BY <1>5, <4>1 DEF Accounted
    <3>2. f_refcount'[f] = FileUses(f)' /\ (f \in C <=> FileUses(f)' = 0)
      BY <2>1, <2>3, <3>1
    <3> QED BY <2>1, <2>3, <3>2 DEF Accounted
  <2> QED BY <2>2, <2>3
<1>7. 0 \in 0..MaxPos
  <2>1. MaxPos \in Nat
    BY FilesAssumption
  <2> QED BY <2>1
<1>8. /\ f_refcount' \in [File -> Nat] /\ f_vnode' \in [File -> Inode \cup {NULL}]
      /\ f_mode' \in [File -> SUBSET {"READ", "WRITE", "APPEND"}] /\ f_pos' \in [File -> 0..MaxPos]
  <2>1. f_refcount' \in [File -> Nat]
    BY <1>2, <1>6
  <2>2. f_vnode' \in [File -> Inode \cup {NULL}]
    BY <1>1, <1>2
  <2>3. f_mode' \in [File -> SUBSET {"READ", "WRITE", "APPEND"}]
    BY <1>1, <1>2
  <2>4. f_pos' \in [File -> 0..MaxPos]
    BY <1>2, <1>7
  <2> QED BY <2>1, <2>2, <2>3, <2>4
<1>9. \A v \in Inode : /\ ClosedCount(C, f_vnode, v) \in Nat
                       /\ VnodeCount(f_vnode', v) = VnodeCount(f_vnode, v) - ClosedCount(C, f_vnode, v)
                       /\ VnodeCount(f_vnode, v) \in Nat
  <2> TAKE v \in Inode
  <2>1. v # NULL
    BY NamevAssumption
  <2>2. C \in SUBSET File /\ \A f \in File : f_vnode'[f] = IF f \in C THEN NULL ELSE f_vnode[f]
    BY <1>2, <1>3
  <2>3. VnodeCount(f_vnode, v) \in Nat
    BY <1>1, CountTypes
  <2>4. /\ ClosedCount(C, f_vnode, v) \in Nat
        /\ VnodeCount(f_vnode', v) = VnodeCount(f_vnode, v) - ClosedCount(C, f_vnode, v)
    BY ONLY <2>1, <2>2, ClosedCounts
  <2> QED BY ONLY <2>3, <2>4
<1> DEFINE t == FputVnodes(fs, drop)
           c == [v \in Inode |-> ClosedCount(C, f_vnode, v)]
<1>10. Fs(fs) /\ Tree(fs) /\ fs.rc = vn_refcount
  BY FsFacts
<1>11. t = [fs EXCEPT !.rc = [v \in Inode |-> fs.rc[v] - c[v]]]
  BY <1>10 DEF FputVnodes, Fs, C, ClosedCount
<1>12. \A v \in Inode : c[v] \in Nat /\ VnodeCount(f_vnode', v) = VnodeCount(f_vnode, v) - c[v] /\ VnodeCount(f_vnode, v) \in Nat
  BY <1>9
<1> HIDE DEF c, t
<1>13. Fs(t) /\ t.ent = fs.ent /\ \A v \in Inode : t.rc[v] = vn_refcount[v] - c[v]
  BY <1>10, <1>11, <1>12 DEF Fs
<1>14. Tree(t)
  BY <1>10, <1>13, TreeEnt
<1>15. \A v \in Inode : t.rc[v] = vn_refcount[v] + VnodeCount(f_vnode', v) - VnodeCount(f_vnode, v)
  <2>1. \A v \in Inode : vn_refcount[v] \in Int
    BY <1>1
  <2> QED BY <1>12, <1>13, <2>1
<1> QED BY <1>6, <1>8, <1>13, <1>14, <1>15 DEF t

(* The invariant after fput in a call on a descriptor or on a file.         *)
Dropped(drop, pos, len) ==
  /\ drop \in [File -> Int] /\ pos \in [File -> 0..MaxPos] /\ len \in [Inode -> 0..MaxPos]
  /\ fput(drop, pos) /\ Settle(FputVnodes(fs, drop), len)
  /\ \A f \in File : FileUses(f)' = FileUses(f) - drop[f]
  /\ \A f \in File : drop[f] # 0 => FileUses(f) >= 1 /\ f_vnode[f] # NULL

(***************************************************************************)
(* p is in no call on a path any more, and its descriptors hold the files  *)
(* they held or others that have vnodes.                                   *)
(***************************************************************************)
Released(p) ==
  /\ system = "up" /\ system' \in {"up", "assert"} /\ p \in alive /\ alive' = alive /\ p_cwd' = p_cwd
  /\ blocked' = [blocked EXCEPT ![p] = NULL] /\ ~PathCall(blocked[p])
  /\ p_files' \in [Proc -> [FD -> File \cup {NULL}]]
  /\ \A q \in Proc \ {p} : p_files'[q] = p_files[q]
  /\ \A fd \in FD : p_files'[p][fd] # NULL =>
           p_files'[p][fd] = p_files[p][fd] \/ f_vnode[p_files'[p][fd]] # NULL

(* Such a step preserves the invariant. *)
LEMMA FputInv ==
  ASSUME IInv, NEW p, NEW drop, NEW pos, NEW len, Dropped(drop, pos, len), Released(p)
  PROVE  IInv'
<1> SUFFICES ASSUME system = "up", p \in alive,
         drop \in [File -> Int], pos \in [File -> 0..MaxPos], len \in [Inode -> 0..MaxPos],
         fput(drop, pos), Settle(FputVnodes(fs, drop), len),
         blocked' = [blocked EXCEPT ![p] = NULL], ~PathCall(blocked[p]),
         alive' = alive, p_cwd' = p_cwd, system' \in {"up", "assert"},
         p_files' \in [Proc -> [FD -> File \cup {NULL}]],
         \A q \in Proc \ {p} : p_files'[q] = p_files[q],
         \A fd \in FD : p_files'[p][fd] # NULL =>
           p_files'[p][fd] = p_files[p][fd] \/ f_vnode[p_files'[p][fd]] # NULL,
         \A f \in File : FileUses(f)' = FileUses(f) - drop[f],
         \A f \in File : drop[f] # 0 => FileUses(f) >= 1 /\ f_vnode[f] # NULL
  PROVE  IInv'
  BY DEF Dropped, Released
<1>1. p \in Proc /\ alive \subseteq Proc /\ blocked \in [Proc -> InFile \cup InDirectory \cup {NULL}]
  BY DEF IInv, FilesTypeOK
<1>2. blocked'[p] = NULL /\ \A q \in Proc \ {p} : blocked'[q] = blocked[q]
  BY <1>1
<1>3. blocked' \in [Proc -> InFile \cup InDirectory \cup {NULL}]
  BY <1>1
<1> DEFINE t == FputVnodes(fs, drop)
<1>4. /\ f_refcount' \in [File -> Nat] /\ f_vnode' \in [File -> Inode \cup {NULL}]
      /\ f_mode' \in [File -> SUBSET {"READ", "WRITE", "APPEND"}] /\ f_pos' \in [File -> 0..MaxPos]
      /\ \A f \in File : /\ Accounted(f)'
                         /\ FileUses(f)' >= 1 => f_vnode'[f] = f_vnode[f]
                         /\ drop[f] = 0 => f_vnode'[f] = f_vnode[f] /\ f_refcount'[f] = f_refcount[f]
      /\ Fs(t) /\ Tree(t)
      /\ \A v \in Inode : t.rc[v] = vn_refcount[v] + VnodeCount(f_vnode', v) - VnodeCount(f_vnode, v)
  BY <1>1, FputStep
<1> HIDE DEF t
<1>5. /\ vn_refcount' = t.rc /\ vn_refcount' \in [Inode -> Int]
      /\ dirents' \in [Dir -> [Name -> Inode \cup {NULL}]] /\ vn_len' \in [Inode -> 0..MaxPos]
      /\ DirsOK'
  BY <1>4, SettleStep DEF t, Settle
<1>6. \A v : VnodeUses(v)' = VnodeUses(v) + VnodeCount(f_vnode', v) - VnodeCount(f_vnode, v)
             /\ VnodeCount(f_vnode', v) \in Nat /\ VnodeCount(f_vnode, v) \in Nat /\ VnodeUses(v) \in Nat
  <2> TAKE v
  <2>1. /\ DirCount(blocked', v) = DirCount(blocked, v) + DirUse(blocked'[p], v) - DirUse(blocked[p], v)
        /\ VnCount(blocked', v) = VnCount(blocked, v) + VnUse(blocked'[p], v) - VnUse(blocked[p], v)
    BY ONLY <1>1, <1>2, BlockedCounts
  <2>2. /\ CwdCount(alive, p_cwd, v) \in Nat /\ VnodeCount(f_vnode, v) \in Nat /\ VnodeCount(f_vnode', v) \in Nat
        /\ DirCount(blocked, v) \in Nat /\ VnCount(blocked, v) \in Nat /\ RootCount(system, v) \in Nat
    BY <1>1, CountTypes
  <2>3. DirUse(blocked'[p], v) = 0 /\ DirUse(blocked[p], v) = 0 /\ VnUse(blocked'[p], v) = 0 /\ VnUse(blocked[p], v) = 0
    BY <1>2 DEF DirUse, VnUse, If, PathCall
  <2>4. RootCount(system', v) = RootCount(system, v)
    BY DEF RootCount
  <2>5. /\ VnodeUses(v) = RootCount(system, v) + CwdCount(alive, p_cwd, v) + VnodeCount(f_vnode, v)
                           + DirCount(blocked, v) + VnCount(blocked, v)
        /\ VnodeUses(v)' = RootCount(system', v) + CwdCount(alive', p_cwd', v) + VnodeCount(f_vnode', v)
                           + DirCount(blocked', v) + VnCount(blocked', v)
    BY UsesAreCounts
  <2> QED BY <2>1, <2>2, <2>3, <2>4, <2>5
<1>7. RefsExact' /\ \A v \in Inode : vn_refcount'[v] \in Nat
  <2>1. \A v \in Inode : vn_refcount'[v] \in Int /\ vn_refcount[v] \in Int /\ vn_refcount'[v] = t.rc[v]
    BY <1>5, IntCounts
  <2>2. \A v \in Inode : vn_refcount'[v] - vn_refcount[v] = VnodeUses(v)' - VnodeUses(v)
    BY <1>4, <1>6, <2>1
  <2> QED BY <1>1, <2>1, <2>2, RefsSame DEF Settle
<1>8. FilesTypeOK'
  <2>1. vn_refcount' \in [Inode -> Nat] /\ leaked' \in [Inode -> Nat]
    BY <1>5, <1>7 DEF Settle, IInv, FilesTypeOK
  <2> QED BY <2>1, <1>3, <1>4, <1>5 DEF IInv, FilesTypeOK
<1>9. HoldersAlive'
  <2>1. \A q \in Proc : IF q \in alive THEN p_cwd[q] \in Dir
                        ELSE p_files[q] = NoFiles /\ blocked[q] = NULL
    BY DEF IInv, HoldersAlive
  <2>2. \A q \in Proc : IF q \in alive' THEN p_cwd'[q] \in Dir
                        ELSE p_files'[q] = NoFiles /\ blocked'[q] = NULL
    BY <1>2, <2>1
  <2> QED BY <2>2 DEF HoldersAlive, NoFiles
<1>10. FilesAccounted'
  <2>1. ASSUME NEW q \in alive, NEW fd \in FD, p_files'[q][fd] # NULL, f_vnode'[p_files'[q][fd]] = NULL
        PROVE  blocked'[q] # NULL /\ blocked'[q].call = "do_open" /\ blocked'[q].fd = fd
    <3>0. PICK f : f = p_files'[q][fd]
      OBVIOUS
    <3>1. q \in Proc /\ f \in File
      BY <1>1, <2>1, <3>0
    <3>2. f_vnode[f] = NULL
      <4>1. FileUses(f)' >= 1
        BY <1>1, <3>0, UsesNat
      <4> QED BY <1>4, <2>1, <3>0, <3>1, <4>1
    <3>3. p_files[q][fd] = f
      <4>1. CASE q = p
        BY <2>1, <3>0, <3>2, <4>1
      <4>2. CASE q # p
        BY <3>0, <3>1, <4>2
      <4> QED BY <4>1, <4>2
    <3>4. blocked[q] # NULL /\ blocked[q].call = "do_open" /\ blocked[q].fd = fd
      BY <2>1, <3>0, <3>2, <3>3 DEF IInv, FilesAccounted
    <3>5. q # p
      BY <3>4 DEF PathCall, FileCall
    <3> QED BY <1>2, <3>1, <3>4, <3>5
  <2>2. \A f \in File : Accounted(f)'
    BY <1>4
  <2> QED BY <2>1, <2>2 DEF FilesAccounted, Accounted
<1>11. BlockedRelyOn'
  <2>1. ASSUME NEW q \in Proc, q # p, FileCall(blocked[q])
        PROVE  f_vnode'[blocked[q].file] # NULL
    <3>0. PICK f : f = blocked[q].file
      OBVIOUS
    <3>1. blocked'[q] = blocked[q]
      BY <1>2, <2>1
    <3>2. FileUses(f)' >= 1
      BY <1>1, <2>1, <3>0, <3>1, UsesNat
    <3>3. f \in File /\ f_vnode[f] \in Inode
      BY <2>1, <3>0, InUse
    <3>4. f_vnode[f] # NULL
      BY <3>3, NamevAssumption
    <3> QED BY <1>4, <3>0, <3>2, <3>3, <3>4
  <2>2. ASSUME NEW q \in Proc, q # p, PathCall(blocked[q]), blocked[q].call = "do_open"
        PROVE  LET f == p_files[q][blocked[q].fd]
               IN  p_files'[q] = p_files[q] /\ f_vnode'[f] = NULL /\ f_refcount'[f] = 1
    <3> DEFINE f == p_files[q][blocked[q].fd]
    <3>1. InPathCall(q)
      BY <2>2 DEF InPathCall, InFileCall, PathCall, FileCall
    <3>2. blocked[q].fd # NULL /\ f # NULL /\ f_vnode[f] = NULL /\ f_refcount[f] = 1
      BY <2>2, <3>1 DEF IInv, BlockedRelyOn
    <3>3. blocked[q] \in InDirectory
      BY <2>2, InUse
    <3>4. blocked[q].fd \in FD
      BY <3>2, <3>3 DEF InDirectory
    <3>5. f \in File
      BY <3>2, <3>4 DEF IInv, FilesTypeOK
    <3>6. drop[f] = 0
      BY <3>2, <3>5
    <3> QED BY <1>4, <2>2, <3>2, <3>5, <3>6
  <2>3. ASSUME NEW q \in Proc
        PROVE  /\ InFileCall(q)' => q # p /\ FileCall(blocked[q])
               /\ InPathCall(q)' => q # p /\ PathCall(blocked[q])
               /\ q # p => blocked'[q] = blocked[q]
    BY <1>2 DEF InFileCall, InPathCall, FileCall, PathCall
  <2>4. ASSUME NEW q \in Proc, PathCall(blocked[q])
        PROVE  InPathCall(q)
    BY <2>4 DEF InPathCall, InFileCall, PathCall, FileCall
  <2>5. ASSUME NEW q \in Proc, InFileCall(q)'
        PROVE  (f_vnode[blocked[q].file] # NULL)'
    BY <2>1, <2>3, <2>5
  <2>6. ASSUME NEW q \in Proc, InPathCall(q)'
        PROVE  LET b == blocked'[q] IN
         /\ (b.vn = NULL) = (b.call \in {"do_open", "do_mkdir", "do_mknod", "do_rmdir"})
         /\ b.call = "do_rmdir" => b.name # ".."
         /\ b.call # "do_rmdir" => b.name \in Name
         /\ b.call \in {"do_link", "do_rename"} => b.vn \notin Dir
         /\ b.call = "do_rename" => b.old # NULL
         /\ b.call = "do_open" => b.fd # NULL /\ p_files[q][b.fd] # NULL
    BY <2>3, <2>4, <2>6 DEF IInv, BlockedRelyOn
  <2>7. ASSUME NEW q \in Proc, InPathCall(q)', blocked'[q].call = "do_open"
        PROVE  LET f == p_files'[q][blocked'[q].fd]
               IN  f # NULL /\ f_vnode'[f] = NULL /\ f_refcount'[f] = 1
    BY <2>2, <2>3, <2>6, <2>7
  <2> QED BY <2>5, <2>6, <2>7 DEF BlockedRelyOn
<1>12. ShutdownFailsAfterLeaks'
  BY DEF ShutdownFailsAfterLeaks
<1> QED BY <1>5, <1>7, <1>8, <1>9, <1>10, <1>11, <1>12 DEF IInv
(* The descriptors of a process that is not blocked in do_open. *)
LEMMA OwnFile ==
  ASSUME IInv, NEW p \in alive, blocked[p] = NULL, NEW fd \in FD, p_files[p][fd] # NULL
  PROVE  /\ p_files[p][fd] \in File /\ f_vnode[p_files[p][fd]] \in Inode /\ f_vnode[p_files[p][fd]] # NULL
         /\ f_refcount[p_files[p][fd]] = FileUses(p_files[p][fd]) /\ FileUses(p_files[p][fd]) >= 1
<1>1. fd \in FD \ EmptyFds(p)
  BY DEF EmptyFds
<1>2. /\ p_files[p][fd] \in File
      /\ f_refcount[p_files[p][fd]] = FileUses(p_files[p][fd]) /\ FileUses(p_files[p][fd]) >= 1
  BY <1>1, InUse
<1>3. f_vnode[p_files[p][fd]] # NULL
  BY DEF IInv, FilesAccounted
<1>4. f_vnode[p_files[p][fd]] \in Inode \cup {NULL}
  BY <1>2 DEF IInv, FilesTypeOK
<1> QED BY <1>2, <1>3, <1>4

(* What one descriptor and one call do to the users of files. *)
OneSlot(p, fd) ==
  /\ alive \subseteq Proc /\ alive' = alive /\ p \in alive /\ fd \in FD
  /\ \A q \in alive, g \in FD : q # p \/ g # fd => p_files'[q][g] = p_files[q][g]
  /\ \A q \in Proc \ {p} : blocked'[q] = blocked[q]

(***************************************************************************)
(* How the uses of a file change with a descriptor fd and the call of p.   *)
(***************************************************************************)
LEMMA FileUsesStep ==
  ASSUME NEW p, NEW fd, OneSlot(p, fd)
  PROVE  \A f : FileUses(f)' = FileUses(f) + If(p_files'[p][fd] = f) - If(p_files[p][fd] = f)
                                + CallUse(blocked'[p], f) - CallUse(blocked[p], f)
<1> SUFFICES ASSUME alive \subseteq Proc, alive' = alive, p \in alive, fd \in FD,
         \A q \in alive, g \in FD : q # p \/ g # fd => p_files'[q][g] = p_files[q][g],
         \A q \in Proc \ {p} : blocked'[q] = blocked[q]
  PROVE  \A f : FileUses(f)' = FileUses(f) + If(p_files'[p][fd] = f) - If(p_files[p][fd] = f)
                                + CallUse(blocked'[p], f) - CallUse(blocked[p], f)
  BY DEF OneSlot
<1> TAKE f
<1>1. FdCount(alive, p_files', f) = FdCount(alive, p_files, f) + If(p_files'[p][fd] = f) - If(p_files[p][fd] = f)
  BY FdCounts
<1>2. CallCount(blocked', f) = CallCount(blocked, f) + CallUse(blocked'[p], f) - CallUse(blocked[p], f)
  <2>1. p \in Proc /\ \A q \in Proc \ {p} : blocked'[q] = blocked[q]
    OBVIOUS
  <2> QED BY ONLY <2>1, BlockedCounts
<1>3. FdCount(alive, p_files, f) \in Nat /\ CallCount(blocked, f) \in Nat
  BY CountTypes
<1>4. FileUses(f) = FdCount(alive, p_files, f) + CallCount(blocked, f) /\ FileUses(f)' = FdCount(alive, p_files', f) + CallCount(blocked', f)
  BY UsesAreCounts
<1>5. /\ CallUse(blocked'[p], f) \in {0, 1} /\ CallUse(blocked[p], f) \in {0, 1}
      /\ If(p_files'[p][fd] = f) \in {0, 1} /\ If(p_files[p][fd] = f) \in {0, 1}
  BY UseTypes DEF If
<1> QED BY <1>1, <1>2, <1>3, <1>4, <1>5

(* do_close gives back one reference and clears the descriptor. *)
LEMMA CloseStep ==
  ASSUME IInv, NEW p \in Proc, do_close(p)
  PROVE  IInv'
<1>1. /\ p \in Proc /\ p \in alive /\ system = "up" /\ blocked[p] = NULL
      /\ alive' = alive /\ p_cwd' = p_cwd /\ system' = system
  BY CallingFacts DEF do_close
<1>2. PICK fd \in FD \ EmptyFds(p) :
       /\ p_files' = [p_files EXCEPT ![p][fd] = NULL]
       /\ fput(Once(p_files[p][fd]), f_pos)
       /\ Return(p, FputVnodes(fs, Once(p_files[p][fd])))
  BY DEF do_close
<1> DEFINE g == p_files[p][fd]
           drop == Once(g)
<1>3. fd \in FD /\ g # NULL
  BY DEF EmptyFds
<1>4. g \in File /\ f_vnode[g] # NULL /\ FileUses(g) >= 1
  BY <1>1, <1>3, OwnFile
<1>5. /\ p_files \in [Proc -> [FD -> File \cup {NULL}]] /\ alive \subseteq Proc
      /\ blocked \in [Proc -> InFile \cup InDirectory \cup {NULL}]
      /\ f_pos \in [File -> 0..MaxPos] /\ vn_len \in [Inode -> 0..MaxPos]
  BY DEF IInv, FilesTypeOK
<1>6. Settle(FputVnodes(fs, drop), vn_len) /\ blocked' = [blocked EXCEPT ![p] = NULL] /\ fput(drop, f_pos)
  BY <1>2 DEF Return
<1>7. /\ p_files' \in [Proc -> [FD -> File \cup {NULL}]] /\ p_files'[p][fd] = NULL
      /\ \A q \in Proc \ {p} : p_files'[q] = p_files[q]
      /\ \A h \in FD : h # fd => p_files'[p][h] = p_files[p][h]
  BY <1>1, <1>2, <1>3, <1>5
<1>8. drop \in [File -> Int] /\ \A f \in File : drop[f] = If(g = f)
  BY DEF Once, If
<1>9. \A f \in File : FileUses(f)' = FileUses(f) - drop[f]
  <2> TAKE f \in File
  <2>1. FileUses(f)' = FileUses(f) + If(p_files'[p][fd] = f) - If(p_files[p][fd] = f)
                        + CallUse(blocked'[p], f) - CallUse(blocked[p], f)
    <3>1. OneSlot(p, fd)
      BY <1>1, <1>3, <1>5, <1>6, <1>7 DEF OneSlot
    <3> QED BY <3>1, FileUsesStep
  <2>2. CallUse(blocked'[p], f) = 0 /\ CallUse(blocked[p], f) = 0
    BY <1>1, <1>5, <1>6, UseTypes
  <2>3. If(p_files'[p][fd] = f) = 0
    <3>1. NULL # f
      BY FilesAssumption
    <3> QED BY <1>7, <3>1 DEF If
  <2>4. FileUses(f) \in Nat /\ If(g = f) \in {0, 1}
    BY InUse DEF If
  <2> HIDE DEF g, drop
  <2> QED BY <1>8, <2>1, <2>2, <2>3, <2>4 DEF g
<1>10. \A f \in File : drop[f] # 0 => FileUses(f) >= 1 /\ f_vnode[f] # NULL
  BY <1>4, <1>8 DEF If
<1>11. ~PathCall(blocked[p])
  BY <1>1 DEF PathCall
<1>12. \A h \in FD : p_files'[p][h] # NULL =>
           p_files'[p][h] = p_files[p][h] \/ f_vnode[p_files'[p][h]] # NULL
  BY <1>7
<1>13. system' \in {"up", "assert"}
  BY <1>1
<1> HIDE DEF drop, g
<1>14. PICK pos \in [File -> 0..MaxPos], len \in [Inode -> 0..MaxPos] : pos = f_pos /\ len = vn_len
  BY <1>5
<1>15. Settle(FputVnodes(fs, drop), len) /\ blocked' = [blocked EXCEPT ![p] = NULL] /\ fput(drop, pos)
  BY <1>6, <1>14 DEF Settle, SettleFs, fput
<1>16. Dropped(drop, pos, len)
  BY <1>8, <1>9, <1>10, <1>15 DEF Dropped
<1>17. Released(p)
  BY <1>1, <1>7, <1>11, <1>12, <1>13, <1>15 DEF Released
<1> QED BY <1>16, <1>17, FputInv

(***************************************************************************)
(* do_dup2: the file of the new descriptor loses a reference and the old   *)
(* one gets it, also when they are the same.                               *)
(***************************************************************************)
LEMMA Dup2Step ==
  ASSUME IInv, NEW p \in Proc, do_dup2(p)
  PROVE  IInv'
<1>1. /\ p \in Proc /\ p \in alive /\ system = "up" /\ blocked[p] = NULL
      /\ alive' = alive /\ p_cwd' = p_cwd /\ system' = system
  BY CallingFacts DEF do_dup2
<1>2. PICK ofd \in FD \ EmptyFds(p), fd \in FD :
       LET old  == p_files[p][ofd]
           drop == [f \in File |-> (IF f = p_files[p][fd] THEN 1 ELSE 0)
                                   - (IF f = old THEN 1 ELSE 0)]
       IN  /\ ofd # fd
           /\ p_files' = [p_files EXCEPT ![p][fd] = old]
           /\ fput(drop, f_pos)
           /\ Return(p, FputVnodes(fs, drop))
  BY DEF do_dup2
<1> DEFINE old == p_files[p][ofd]
           new == p_files[p][fd]
           drop == [f \in File |-> (IF f = new THEN 1 ELSE 0) - (IF f = old THEN 1 ELSE 0)]
<1>3. ofd \in FD /\ old # NULL
  BY DEF EmptyFds
<1>4. old \in File /\ f_vnode[old] # NULL /\ FileUses(old) >= 1
  BY <1>1, <1>3, OwnFile
<1>5. /\ p_files \in [Proc -> [FD -> File \cup {NULL}]] /\ alive \subseteq Proc
      /\ blocked \in [Proc -> InFile \cup InDirectory \cup {NULL}]
      /\ f_pos \in [File -> 0..MaxPos] /\ vn_len \in [Inode -> 0..MaxPos]
  BY DEF IInv, FilesTypeOK
<1>6. new \in File => f_vnode[new] # NULL /\ FileUses(new) >= 1
  <2>1. NULL \notin File
    BY FilesAssumption
  <2> QED BY <1>1, <2>1, OwnFile
<1>7. /\ Settle(FputVnodes(fs, drop), vn_len) /\ blocked' = [blocked EXCEPT ![p] = NULL] /\ fput(drop, f_pos)
      /\ p_files' = [p_files EXCEPT ![p][fd] = old]
  BY <1>2 DEF Return
<1>8. /\ p_files' \in [Proc -> [FD -> File \cup {NULL}]] /\ p_files'[p][fd] = old
      /\ \A q \in Proc \ {p} : p_files'[q] = p_files[q]
      /\ \A h \in FD : h # fd => p_files'[p][h] = p_files[p][h]
  <2> HIDE DEF old, drop
  <2> QED BY <1>1, <1>4, <1>5, <1>7
<1>9. drop \in [File -> Int] /\ \A f \in File : drop[f] = If(new = f) - If(old = f)
  <2> HIDE DEF new, old
  <2> QED BY DEF If
<1> HIDE DEF drop
<1>10. \A f \in File : FileUses(f)' = FileUses(f) - drop[f]
  <2> TAKE f \in File
  <2>1. FileUses(f)' = FileUses(f) + If(p_files'[p][fd] = f) - If(p_files[p][fd] = f)
                        + CallUse(blocked'[p], f) - CallUse(blocked[p], f)
    <3>1. OneSlot(p, fd)
      BY <1>1, <1>5, <1>7, <1>8 DEF OneSlot
    <3> QED BY <3>1, FileUsesStep
  <2>2. CallUse(blocked'[p], f) = 0 /\ CallUse(blocked[p], f) = 0
    BY <1>1, <1>5, <1>7, UseTypes
  <2>4. FileUses(f) \in Nat /\ If(new = f) \in {0, 1} /\ If(old = f) \in {0, 1}
    BY InUse DEF If
  <2>5. If(p_files'[p][fd] = f) = If(old = f) /\ If(p_files[p][fd] = f) = If(new = f)
    BY <1>8
  <2> HIDE DEF old, new
  <2> QED BY <1>9, <2>1, <2>2, <2>4, <2>5
<1>11. \A f \in File : drop[f] # 0 => FileUses(f) >= 1 /\ f_vnode[f] # NULL
  <2> TAKE f \in File
  <2> HAVE drop[f] # 0
  <2> HIDE DEF old, new
  <2>1. f = new \/ f = old
    BY <1>9 DEF If
  <2> QED BY <1>4, <1>6, <2>1
<1>12. ~PathCall(blocked[p])
  BY <1>1 DEF PathCall
<1>13. \A h \in FD : p_files'[p][h] # NULL =>
           p_files'[p][h] = p_files[p][h] \/ f_vnode[p_files'[p][h]] # NULL
  BY <1>4, <1>8
<1>14. system' \in {"up", "assert"}
  BY <1>1
<1> HIDE DEF old, new
<1>15. PICK pos \in [File -> 0..MaxPos], len \in [Inode -> 0..MaxPos] : pos = f_pos /\ len = vn_len
  BY <1>5
<1>16. Settle(FputVnodes(fs, drop), len) /\ blocked' = [blocked EXCEPT ![p] = NULL] /\ fput(drop, pos)
  BY <1>7, <1>15 DEF Settle, SettleFs, fput
<1>17. Dropped(drop, pos, len)
  BY <1>9, <1>10, <1>11, <1>16 DEF Dropped
<1>18. Released(p)
  BY <1>1, <1>8, <1>12, <1>13, <1>14, <1>16 DEF Released
<1> QED BY <1>17, <1>18, FputInv

(* The end of a call on a file gives back the reference of fget. *)
LEMMA LeaveStep ==
  ASSUME IInv, NEW p \in Proc, system = "up", FileCall(blocked[p]),
         NEW pos \in [File -> 0..MaxPos], NEW len \in [Inode -> 0..MaxPos], Leave(p, pos, len),
         system' \in {"up", "assert"}
  PROVE  IInv'
<1>1. p \in alive /\ alive' = alive /\ p_cwd' = p_cwd /\ p_files' = p_files
  BY InUse DEF Leave, FileCall
<1> DEFINE g == blocked[p].file
           drop == Once(g)
<1>2. g \in File /\ f_vnode[g] \in Inode /\ FileUses(g) >= 1
  BY InUse
<1>3. /\ p_files \in [Proc -> [FD -> File \cup {NULL}]] /\ alive \subseteq Proc
      /\ blocked \in [Proc -> InFile \cup InDirectory \cup {NULL}]
  BY DEF IInv, FilesTypeOK
<1>4. Settle(FputVnodes(fs, drop), len) /\ blocked' = [blocked EXCEPT ![p] = NULL] /\ fput(drop, pos)
  BY DEF Leave
<1>5. drop \in [File -> Int] /\ \A f \in File : drop[f] = If(g = f)
  <2> HIDE DEF g
  <2> QED BY DEF Once, If
<1> HIDE DEF drop
<1>6. \A f \in File : FileUses(f)' = FileUses(f) - drop[f]
  <2> TAKE f \in File
  <2>0. 0 \in FD
    <3>1. NFILES \in Nat /\ NFILES # 0
      BY FilesAssumption
    <3> QED BY <3>1 DEF FD
  <2>1. FileUses(f)' = FileUses(f) + If(p_files'[p][0] = f) - If(p_files[p][0] = f)
                        + CallUse(blocked'[p], f) - CallUse(blocked[p], f)
    <3>1. OneSlot(p, 0)
      BY <1>1, <1>3, <1>4, <2>0 DEF OneSlot
    <3> QED BY <3>1, FileUsesStep
  <2>2. CallUse(blocked'[p], f) = 0
    BY <1>3, <1>4, UseTypes
  <2>3. CallUse(blocked[p], f) = If(g = f)
    BY DEF CallUse, If
  <2>4. FileUses(f) \in Nat /\ If(g = f) \in {0, 1} /\ If(p_files[p][0] = f) \in {0, 1}
    BY InUse DEF If
  <2>5. If(p_files'[p][0] = f) = If(p_files[p][0] = f)
    BY <1>1
  <2> HIDE DEF g
  <2> QED BY <1>5, <2>1, <2>2, <2>3, <2>4, <2>5
<1>7. \A f \in File : drop[f] # 0 => FileUses(f) >= 1 /\ f_vnode[f] # NULL
  <2>1. f_vnode[g] # NULL
    BY <1>2, NamevAssumption
  <2> HIDE DEF g
  <2> QED BY <1>2, <1>5, <2>1 DEF If
<1>8. ~PathCall(blocked[p])
  BY DEF PathCall
<1>9. /\ p_files' \in [Proc -> [FD -> File \cup {NULL}]] /\ (\A q \in Proc \ {p} : p_files'[q] = p_files[q])
      /\ \A h \in FD : p_files'[p][h] # NULL =>
           p_files'[p][h] = p_files[p][h] \/ f_vnode[p_files'[p][h]] # NULL
  BY <1>1, <1>3
<1> HIDE DEF g
<1>10. Dropped(drop, pos, len)
  BY <1>4, <1>5, <1>6, <1>7 DEF Dropped
<1>11. Released(p)
  BY <1>1, <1>4, <1>8, <1>9 DEF Released
<1> QED BY <1>10, <1>11, FputInv
----------------------------------------------------------------------------
(***************************************************************************)
(* The other calls on files.                                               *)
(***************************************************************************)
Rely(b, pf) ==
  /\ FileCall(b) => f_vnode[b.file] # NULL
  /\ PathCall(b) =>
         /\ (b.vn = NULL) = (b.call \in {"do_open", "do_mkdir", "do_mknod", "do_rmdir"})
         /\ b.call = "do_rmdir" => b.name # ".."
         /\ b.call # "do_rmdir" => b.name \in Name
         /\ b.call \in {"do_link", "do_rename"} => b.vn \notin Dir
         /\ b.call = "do_rename" => b.old # NULL
         /\ b.call = "do_open" => /\ b.fd # NULL
                                  /\ pf[b.fd] # NULL
                                  /\ f_vnode[pf[b.fd]] = NULL
                                  /\ f_refcount[pf[b.fd]] = 1

(***************************************************************************)
(* BlockedRelyOn is Rely of each process, in this state and in the next.   *)
(***************************************************************************)
LEMMA RelyOn ==
  /\ BlockedRelyOn <=> \A p \in Proc : Rely(blocked[p], p_files[p])
  /\ BlockedRelyOn' <=> \A p \in Proc : Rely(blocked[p], p_files[p])'
<1>1. \A p \in Proc : /\ InFileCall(p) <=> FileCall(blocked[p])
                      /\ InPathCall(p) <=> PathCall(blocked[p])
  BY DEF InFileCall, InPathCall, FileCall, PathCall
<1>2. BlockedRelyOn <=> \A p \in Proc : Rely(blocked[p], p_files[p])
  BY <1>1 DEF BlockedRelyOn, Rely
<1>3. \A p \in Proc : /\ InFileCall(p)' <=> FileCall(blocked'[p])
                      /\ InPathCall(p)' <=> PathCall(blocked'[p])
  BY DEF InFileCall, InPathCall, FileCall, PathCall
<1>4. BlockedRelyOn' <=> \A p \in Proc : Rely(blocked[p], p_files[p])'
  BY <1>3 DEF BlockedRelyOn, Rely
<1> QED BY <1>2, <1>4

(* The types of the variables about files, and about vnodes. *)
FileTypes ==
  /\ p_files \in [Proc -> [FD -> File \cup {NULL}]]
  /\ f_refcount \in [File -> Nat] /\ f_vnode \in [File -> Inode \cup {NULL}]
  /\ f_mode \in [File -> SUBSET {"READ", "WRITE", "APPEND"}] /\ f_pos \in [File -> 0..MaxPos]
  /\ blocked \in [Proc -> InFile \cup InDirectory \cup {NULL}]

VnodeTypes ==
  /\ vn_refcount \in [Inode -> Int] /\ dirents \in [Dir -> [Name -> Inode \cup {NULL}]]
  /\ vn_len \in [Inode -> 0..MaxPos]

(* A step of p that concerns a file: what the other processes rely on stays.   *)
FileStep(p) ==
  /\ p \in alive /\ alive' = alive /\ p_cwd' = p_cwd /\ system = "up" /\ system' = "up"
  /\ FileTypes' /\ VnodeTypes' /\ DirsOK' /\ leaked' = leaked
  /\ \A v \in Inode : vn_refcount'[v] - vn_refcount[v] = VnodeUses(v)' - VnodeUses(v)
  /\ \A f \in File : Accounted(f)'
  /\ \A q \in Proc \ {p} : p_files'[q] = p_files[q] /\ blocked'[q] = blocked[q]
  /\ \A fd \in FD : p_files'[p][fd] # NULL /\ f_vnode'[p_files'[p][fd]] = NULL
       => blocked'[p] # NULL /\ blocked'[p].call = "do_open" /\ blocked'[p].fd = fd
  /\ \A f \in File : FileUses(f)' >= 1 /\ f_vnode[f] # NULL => f_vnode'[f] # NULL
  /\ \A q \in Proc \ {p} : PathCall(blocked[q]) /\ blocked[q].call = "do_open"
       => f_vnode'[p_files[q][blocked[q].fd]] = NULL /\ f_refcount'[p_files[q][blocked[q].fd]] = 1
  /\ Rely(blocked[p], p_files[p])'

(* Such a step preserves the invariant. *)
LEMMA FileInv ==
  ASSUME IInv, NEW p, FileStep(p)
  PROVE  IInv'
<1>1. alive \subseteq Proc /\ p \in Proc
  BY DEF IInv, FilesTypeOK, FileStep
<1>2. /\ p \in alive /\ alive' = alive /\ p_cwd' = p_cwd /\ system = "up" /\ system' = "up"
      /\ \A q \in Proc \ {p} : p_files'[q] = p_files[q] /\ blocked'[q] = blocked[q]
  BY DEF FileStep
<1>3. RefsExact' /\ \A v \in Inode : vn_refcount'[v] \in Nat
  <2>1. \A v \in Inode : vn_refcount'[v] \in Int
    BY DEF FileStep, VnodeTypes
  <2>2. \A v \in Inode : vn_refcount'[v] - vn_refcount[v] = VnodeUses(v)' - VnodeUses(v)
    BY DEF FileStep
  <2>3. leaked' = leaked
    BY DEF FileStep
  <2> QED BY <1>1, <1>2, <2>1, <2>2, <2>3, RefsSame
<1>4. FilesTypeOK'
  <2>1. vn_refcount' \in [Inode -> Nat]
    <3>1. vn_refcount' \in [Inode -> Int]
      BY DEF FileStep, VnodeTypes
    <3> QED BY <1>3, <3>1
  <2>2. /\ alive' \subseteq Proc /\ p_cwd' \in [Proc -> Dir \cup {NULL}] /\ system' \in {"up", "assert", "failed", "halted"}
        /\ leaked' \in [Inode -> Nat]
    BY <1>1, <1>2 DEF IInv, FilesTypeOK, FileStep
  <2> QED BY <2>1, <2>2 DEF FilesTypeOK, FileStep, FileTypes, VnodeTypes
<1>5. HoldersAlive'
  <2>1. \A q \in Proc : IF q \in alive THEN p_cwd[q] \in Dir
                        ELSE p_files[q] = NoFiles /\ blocked[q] = NULL
    BY DEF IInv, HoldersAlive
  <2>2. \A q \in Proc : IF q \in alive' THEN p_cwd'[q] \in Dir
                        ELSE p_files'[q] = NoFiles /\ blocked'[q] = NULL
    BY <1>2, <2>1
  <2> QED BY <2>2 DEF HoldersAlive, NoFiles
<1>6. FilesAccounted'
  <2>1. ASSUME NEW q \in alive, NEW fd \in FD, p_files'[q][fd] # NULL, f_vnode'[p_files'[q][fd]] = NULL
        PROVE  blocked'[q] # NULL /\ blocked'[q].call = "do_open" /\ blocked'[q].fd = fd
    <3>1. CASE q = p
      BY <2>1, <3>1 DEF FileStep
    <3>2. CASE q # p
      <4>0. PICK f : f = p_files'[q][fd]
        OBVIOUS
      <4>1. q \in Proc /\ f \in File /\ p_files[q][fd] = f /\ blocked'[q] = blocked[q]
        <5>1. q \in Proc
          BY <1>1
        <5>2. p_files'[q] = p_files[q] /\ blocked'[q] = blocked[q]
          BY <1>2, <3>2, <5>1
        <5>3. p_files[q][fd] \in File \cup {NULL}
          BY <5>1 DEF IInv, FilesTypeOK
        <5> QED BY <2>1, <4>0, <5>1, <5>2, <5>3
      <4>2. f_vnode[f] = NULL
        <5>1. FileUses(f)' >= 1
          BY <1>1, <1>2, <4>0, UsesNat
        <5>2. f_vnode[f] # NULL => f_vnode'[f] # NULL
          BY <4>1, <5>1 DEF FileStep
        <5> QED BY <2>1, <4>0, <5>2
      <4>3. blocked[q] # NULL /\ blocked[q].call = "do_open" /\ blocked[q].fd = fd
        BY <2>1, <4>0, <4>1, <4>2 DEF IInv, FilesAccounted
      <4> QED BY <4>1, <4>3
    <3> QED BY <3>1, <3>2
  <2>2. \A f \in File : Accounted(f)'
    BY DEF FileStep
  <2> QED BY <1>2, <2>1, <2>2 DEF FilesAccounted, Accounted
<1>7. BlockedRelyOn'
  <2>1. ASSUME NEW q \in Proc
        PROVE  Rely(blocked[q], p_files[q])'
    <3>1. CASE q = p
      BY <3>1 DEF FileStep
    <3>2. CASE q # p
      <4>1. Rely(blocked[q], p_files[q])
        BY RelyOn DEF IInv
      <4>2. p_files'[q] = p_files[q] /\ blocked'[q] = blocked[q]
        BY <1>2, <3>2
      <4>3. FileCall(blocked[q]) => f_vnode'[blocked[q].file] # NULL
        <5> HAVE FileCall(blocked[q])
        <5>0. PICK f : f = blocked[q].file
          OBVIOUS
        <5>1. FileUses(f)' >= 1
          BY <1>1, <1>2, <4>2, <5>0, UsesNat
        <5>2. f \in File /\ f_vnode[f] # NULL
          BY <5>0, InUse, NamevAssumption
        <5>3. f_vnode'[f] # NULL
          BY <5>1, <5>2 DEF FileStep
        <5> QED BY <5>0, <5>3
      <4>4. PathCall(blocked[q]) /\ blocked[q].call = "do_open" =>
              f_vnode'[p_files[q][blocked[q].fd]] = NULL /\ f_refcount'[p_files[q][blocked[q].fd]] = 1
        BY <3>2 DEF FileStep
      <4> QED BY <4>1, <4>2, <4>3, <4>4 DEF Rely
    <3> QED BY <3>1, <3>2
  <2> QED BY <2>1, RelyOn
<1>8. ShutdownFailsAfterLeaks'
  BY <1>2 DEF ShutdownFailsAfterLeaks
<1>9. DirsOK'
  BY DEF FileStep
<1> QED BY <1>3, <1>4, <1>5, <1>6, <1>7, <1>8, <1>9 DEF IInv

(* A vnode is used as before but for a new vnode of one file and a new call of *)
(* one process.                                                                *)
VnodeStep(p) ==
  /\ alive \subseteq Proc /\ alive' = alive /\ p_cwd' = p_cwd /\ system = "up" /\ system' = "up"
  /\ p \in Proc /\ \A q \in Proc \ {p} : blocked'[q] = blocked[q]

(***************************************************************************)
(* The uses of a vnode change with the vnodes of files and with what p is  *)
(* blocked in.                                                             *)
(***************************************************************************)
LEMMA VnodeUsesStep ==
  ASSUME NEW p, VnodeStep(p)
  PROVE  \A v : /\ VnodeUses(v)' = VnodeUses(v) + VnodeCount(f_vnode', v) - VnodeCount(f_vnode, v)
                                    + BUse(blocked'[p], v) - BUse(blocked[p], v)
                /\ VnodeUses(v) \in Nat
                /\ VnodeCount(f_vnode', v) \in Nat /\ VnodeCount(f_vnode, v) \in Nat
                /\ BUse(blocked'[p], v) \in Nat /\ BUse(blocked[p], v) \in Nat
<1> TAKE v
<1>1. alive \subseteq Proc /\ alive' = alive /\ p_cwd' = p_cwd /\ system' = system
      /\ p \in Proc /\ \A q \in Proc \ {p} : blocked'[q] = blocked[q]
  BY DEF VnodeStep
<1>2. /\ DirCount(blocked', v) = DirCount(blocked, v) + DirUse(blocked'[p], v) - DirUse(blocked[p], v)
      /\ VnCount(blocked', v) = VnCount(blocked, v) + VnUse(blocked'[p], v) - VnUse(blocked[p], v)
  BY ONLY <1>1, BlockedCounts
<1>3. /\ CwdCount(alive, p_cwd, v) \in Nat /\ VnodeCount(f_vnode, v) \in Nat /\ VnodeCount(f_vnode', v) \in Nat
      /\ DirCount(blocked, v) \in Nat /\ VnCount(blocked, v) \in Nat /\ RootCount(system, v) \in Nat
  BY <1>1, CountTypes
<1>4. /\ DirUse(blocked'[p], v) \in {0, 1} /\ DirUse(blocked[p], v) \in {0, 1}
      /\ VnUse(blocked'[p], v) \in {0, 1} /\ VnUse(blocked[p], v) \in {0, 1}
  BY UseTypes
<1>5. /\ VnodeUses(v) = RootCount(system, v) + CwdCount(alive, p_cwd, v) + VnodeCount(f_vnode, v)
                           + DirCount(blocked, v) + VnCount(blocked, v)
      /\ VnodeUses(v)' = RootCount(system, v) + CwdCount(alive, p_cwd, v) + VnodeCount(f_vnode', v)
                           + DirCount(blocked', v) + VnCount(blocked', v)
  BY <1>1, UsesAreCounts
<1>6. /\ VnodeUses(v) \in Nat
      /\ BUse(blocked'[p], v) = DirUse(blocked'[p], v) + VnUse(blocked'[p], v)
      /\ BUse(blocked[p], v) = DirUse(blocked[p], v) + VnUse(blocked[p], v)
  BY <1>3, <1>5 DEF BUse
<1>7. BUse(blocked'[p], v) \in Nat /\ BUse(blocked[p], v) \in Nat
  BY BUseTypes
<1>8. VnodeUses(v)' = VnodeUses(v) + VnodeCount(f_vnode', v) - VnodeCount(f_vnode, v)
                                    + BUse(blocked'[p], v) - BUse(blocked[p], v)
  BY <1>2, <1>3, <1>4, <1>5, <1>6
<1> QED BY <1>3, <1>6, <1>7, <1>8
----------------------------------------------------------------------------
(* The file system does not change. *)
LEMMA SameFs ==
  ASSUME IInv, UNCHANGED fsVars
  PROVE  VnodeTypes' /\ DirsOK'
<1>1. vn_refcount' = vn_refcount /\ dirents' = dirents /\ vn_len' = vn_len
  BY DEF fsVars
<1>2. VnodeTypes'
  <2>1. vn_refcount \in [Inode -> Int]
    BY DEF IInv, FilesTypeOK
  <2> QED BY <1>1, <2>1 DEF IInv, FilesTypeOK, VnodeTypes
<1>3. fs' = fs
  BY <1>1 DEF fs
<1>4. Tree(fs)'
  <2>1. Tree(fs)
    BY FsFacts
  <2> QED BY <1>3, <2>1 DEF Tree, Linked
<1>5. FreeDirsEmpty'
  <2>1. FreeDirsEmpty
    BY DEF IInv, DirsOK
  <2> QED BY <1>1, <1>3, <2>1 DEF FreeDirsEmpty, FreeInodes, Linked
<1> QED BY <1>2, <1>4, <1>5 DEF DirsOK

(* A file_t is used n times more, n times referenced more, and what else
 there is of files stays. *)
More(g, n, f) == IF f = g THEN n ELSE 0

(* p uses g n times more, in a descriptor or in a call on it. *)
MoreUsed(p, g, n) ==
  /\ p \in alive /\ blocked[p] = NULL /\ system = "up" /\ system' = "up"
  /\ UNCHANGED <<alive, p_cwd, fsVars, f_vnode>>
  /\ FileTypes' /\ n \in {0, 1}
  /\ g \in File /\ f_vnode[g] \in Inode /\ f_refcount[g] = FileUses(g) /\ FileUses(g) >= 1
  /\ \A f \in File : /\ f_refcount'[f] = f_refcount[f] + More(g, n, f)
                     /\ FileUses(f)' = FileUses(f) + More(g, n, f)
  /\ \A q \in Proc \ {p} : p_files'[q] = p_files[q] /\ blocked'[q] = blocked[q]
  /\ \A fd \in FD : p_files'[p][fd] # NULL => f_vnode[p_files'[p][fd]] # NULL
  /\ ~PathCall(blocked'[p])
  /\ FileCall(blocked'[p]) => blocked'[p].file = g

(* Such a step preserves the invariant. *)
LEMMA MoreStep ==
  ASSUME IInv, NEW p, NEW g, NEW n, MoreUsed(p, g, n)
  PROVE  IInv'
<1> SUFFICES ASSUME p \in alive, blocked[p] = NULL, system = "up", system' = "up",
         UNCHANGED <<alive, p_cwd, fsVars, f_vnode>>,
         FileTypes', n \in {0, 1},
         g \in File, f_vnode[g] \in Inode, f_refcount[g] = FileUses(g), FileUses(g) >= 1,
         \A f \in File : /\ f_refcount'[f] = f_refcount[f] + More(g, n, f)
                         /\ FileUses(f)' = FileUses(f) + More(g, n, f),
         \A q \in Proc \ {p} : p_files'[q] = p_files[q] /\ blocked'[q] = blocked[q],
         \A fd \in FD : p_files'[p][fd] # NULL => f_vnode[p_files'[p][fd]] # NULL,
         ~PathCall(blocked'[p]),
         FileCall(blocked'[p]) => blocked'[p].file = g
  PROVE  IInv'
  BY DEF MoreUsed
<1>1. alive \subseteq Proc /\ p \in Proc /\ f_refcount \in [File -> Nat]
  BY DEF IInv, FilesTypeOK
<1>2. VnodeTypes' /\ DirsOK'
  BY SameFs
<1>3. \A v \in Inode : vn_refcount'[v] - vn_refcount[v] = VnodeUses(v)' - VnodeUses(v)
  <2> TAKE v \in Inode
  <2>1. VnodeStep(p)
    BY <1>1 DEF VnodeStep
  <2>2. BUse(blocked'[p], v) = 0 /\ BUse(blocked[p], v) = 0
    <3>1. ASSUME NEW b, ~PathCall(b)
          PROVE  BUse(b, v) = 0
      BY <3>1 DEF BUse, DirUse, VnUse, If
    <3> QED BY <3>1 DEF PathCall
  <2>3. /\ VnodeUses(v)' = VnodeUses(v) + VnodeCount(f_vnode', v) - VnodeCount(f_vnode, v)
                                    + BUse(blocked'[p], v) - BUse(blocked[p], v)
        /\ VnodeUses(v) \in Nat
        /\ VnodeCount(f_vnode', v) \in Nat /\ VnodeCount(f_vnode, v) \in Nat
    BY <2>1, VnodeUsesStep
  <2>4. VnodeCount(f_vnode', v) = VnodeCount(f_vnode, v) /\ vn_refcount'[v] = vn_refcount[v] /\ vn_refcount[v] \in Int
    BY IntCounts DEF fsVars
  <2> QED BY <2>2, <2>3, <2>4
<1>4. \A f \in File : Accounted(f)'
  <2> TAKE f \in File
  <2>1. Accounted(f)
    BY DEF IInv, FilesAccounted, Accounted
  <2>2. /\ f_refcount'[f] = f_refcount[f] + More(g, n, f)
        /\ FileUses(f)' = FileUses(f) + More(g, n, f)
        /\ FileUses(f) \in Nat /\ f_refcount[f] \in Nat /\ f_vnode'[f] = f_vnode[f]
    BY <1>1, InUse
  <2>3. CASE f = g
    <3>1. f_refcount'[f] = FileUses(f)' /\ f_refcount'[f] # 0
      BY <2>2, <2>3 DEF More
    <3> QED BY <3>1 DEF Accounted
  <2>4. CASE f # g
    <3>1. f_refcount'[f] = f_refcount[f] /\ FileUses(f)' = FileUses(f)
      BY <2>2, <2>4 DEF More
    <3> QED BY <2>1, <2>2, <3>1 DEF Accounted
  <2> QED BY <2>3, <2>4
<1>5. \A q \in Proc \ {p} : PathCall(blocked[q]) /\ blocked[q].call = "do_open"
       => f_vnode'[p_files[q][blocked[q].fd]] = NULL /\ f_refcount'[p_files[q][blocked[q].fd]] = 1
  <2> TAKE q \in Proc \ {p}
  <2> HAVE PathCall(blocked[q]) /\ blocked[q].call = "do_open"
  <2>1. Rely(blocked[q], p_files[q])
    BY RelyOn DEF IInv
  <2>2. PICK f : f = p_files[q][blocked[q].fd]
    OBVIOUS
  <2>3. f # NULL /\ f_vnode[f] = NULL /\ f_refcount[f] = 1 /\ blocked[q].fd # NULL
    BY <2>1, <2>2 DEF Rely
  <2>4. f \in File
    <3>1. blocked[q].fd \in FD
      BY <2>3, InUse DEF InDirectory
    <3> QED BY <2>2, <2>3, <3>1 DEF IInv, FilesTypeOK
  <2>5. f # g
    BY <2>3, NamevAssumption
  <2>6. f_refcount'[f] = 1 /\ f_vnode'[f] = NULL
    BY <2>3, <2>4, <2>5 DEF More
  <2> QED BY <2>2, <2>6
<1>6. Rely(blocked[p], p_files[p])'
  BY NamevAssumption DEF Rely
<1>7. FileStep(p)
  BY <1>2, <1>3, <1>4, <1>5, <1>6 DEF FileStep, fsVars
<1> QED BY <1>7, FileInv

(* get_empty_fd finds an empty descriptor if there is one. *)
LEMMA EmptyFd ==
  ASSUME NEW p, EmptyFds(p) # {}
  PROVE  get_empty_fd(p) \in FD /\ p_files[p][get_empty_fd(p)] = NULL
<1>1. EmptyFds(p) \subseteq FD /\ FD \subseteq Nat
  <2>1. NFILES \in Nat
    BY FilesAssumption
  <2> QED BY <2>1 DEF EmptyFds, FD
<1>2. PICK x \in EmptyFds(p) : \A g \in EmptyFds(p) : x <= g
  BY <1>1, LeastNumber
<1>3. get_empty_fd(p) \in EmptyFds(p)
  BY <1>2 DEF get_empty_fd
<1> QED BY <1>1, <1>3 DEF EmptyFds

(* do_dup gives the file a reference for its new descriptor. *)
LEMMA DupStep ==
  ASSUME IInv, NEW p \in Proc, do_dup(p)
  PROVE  IInv'
<1>1. /\ p \in alive /\ system = "up" /\ blocked[p] = NULL
      /\ UNCHANGED <<alive, p_cwd, system, f_vnode, f_mode, f_pos, fsVars, blocked>>
      /\ EmptyFds(p) # {}
  BY CallingFacts DEF do_dup
<1>2. PICK fd \in FD \ EmptyFds(p) :
       /\ p_files' = [p_files EXCEPT ![p][get_empty_fd(p)] = p_files[p][fd]]
       /\ f_refcount' = [f_refcount EXCEPT ![p_files[p][fd]] = @ + 1]
  BY DEF do_dup
<1> DEFINE g == p_files[p][fd]
           e == get_empty_fd(p)
<1>3. e \in FD /\ p_files[p][e] = NULL
  BY <1>1, EmptyFd
<1>4. /\ fd \in FD /\ g # NULL /\ g \in File /\ f_vnode[g] \in Inode /\ f_vnode[g] # NULL
      /\ f_refcount[g] = FileUses(g) /\ FileUses(g) >= 1
  BY <1>1, OwnFile DEF EmptyFds
<1>5. /\ p_files \in [Proc -> [FD -> File \cup {NULL}]] /\ alive \subseteq Proc
      /\ f_refcount \in [File -> Nat] /\ blocked \in [Proc -> InFile \cup InDirectory \cup {NULL}]
  BY DEF IInv, FilesTypeOK
<1>6. p_files' = [p_files EXCEPT ![p][e] = g] /\ f_refcount' = [f_refcount EXCEPT ![g] = @ + 1]
  BY <1>2
<1> HIDE DEF g, e
<1>7. /\ p_files' \in [Proc -> [FD -> File \cup {NULL}]] /\ p_files'[p][e] = g
      /\ \A q \in Proc \ {p} : p_files'[q] = p_files[q]
      /\ \A h \in FD : h # e => p_files'[p][h] = p_files[p][h]
  BY <1>3, <1>4, <1>5, <1>6
<1>8. f_refcount' \in [File -> Nat] /\ \A f \in File : f_refcount'[f] = f_refcount[f] + More(g, 1, f)
  BY <1>4, <1>5, <1>6 DEF More
<1>9. \A f \in File : FileUses(f)' = FileUses(f) + More(g, 1, f)
  <2> TAKE f \in File
  <2>1. OneSlot(p, e)
    BY <1>1, <1>3, <1>5, <1>7 DEF OneSlot
  <2>2. FileUses(f)' = FileUses(f) + If(p_files'[p][e] = f) - If(p_files[p][e] = f)
                        + CallUse(blocked'[p], f) - CallUse(blocked[p], f)
    BY <2>1, FileUsesStep
  <2>3. CallUse(blocked'[p], f) = 0 /\ CallUse(blocked[p], f) = 0
    BY <1>1, UseTypes
  <2>4. If(p_files'[p][e] = f) = More(g, 1, f) /\ If(p_files[p][e] = f) = 0 /\ FileUses(f) \in Nat /\ More(g, 1, f) \in Nat
    <3>1. NULL \notin File
      BY FilesAssumption
    <3> QED BY <1>3, <1>7, <3>1, InUse DEF If, More
  <2> QED BY <2>2, <2>3, <2>4
<1>10. \A h \in FD : p_files'[p][h] # NULL => f_vnode[p_files'[p][h]] # NULL
  <2> TAKE h \in FD
  <2> HAVE p_files'[p][h] # NULL
  <2>1. CASE h = e
    BY <1>4, <1>7, <2>1
  <2>2. CASE h # e
    BY <1>1, <1>7, <2>2, OwnFile
  <2> QED BY <2>1, <2>2
<1>11. FileTypes'
  BY <1>1, <1>5, <1>7, <1>8 DEF FileTypes, IInv, FilesTypeOK
<1>12. ~PathCall(blocked'[p]) /\ ~FileCall(blocked'[p]) /\ system' = "up"
  BY <1>1 DEF PathCall, FileCall
<1>13. MoreUsed(p, g, 1)
  BY <1>1, <1>4, <1>7, <1>8, <1>9, <1>10, <1>11, <1>12 DEF MoreUsed
<1> QED BY <1>13, MoreStep

(* do_lseek moves a position. *)
LEMMA SeekStep ==
  ASSUME IInv, NEW p \in Proc, do_lseek(p)
  PROVE  IInv'
<1>1. /\ p \in alive /\ system = "up" /\ blocked[p] = NULL
      /\ UNCHANGED <<alive, p_files, p_cwd, system, f_vnode, f_mode, f_refcount, fsVars, blocked>>
  BY CallingFacts DEF do_lseek
<1>2. PICK fd \in FD \ EmptyFds(p), to \in 0..MaxPos : f_pos' = [f_pos EXCEPT ![p_files[p][fd]] = to]
  BY DEF do_lseek
<1> DEFINE g == p_files[p][fd]
<1>3. /\ fd \in FD /\ g # NULL /\ g \in File /\ f_vnode[g] \in Inode
      /\ f_refcount[g] = FileUses(g) /\ FileUses(g) >= 1
  BY <1>1, OwnFile DEF EmptyFds
<1>4. f_pos' = [f_pos EXCEPT ![g] = to]
  BY <1>2
<1> HIDE DEF g
<1>5. FileTypes'
  BY <1>1, <1>4 DEF FileTypes, IInv, FilesTypeOK
<1>6. \A f \in File : /\ f_refcount'[f] = f_refcount[f] + More(g, 0, f)
                      /\ FileUses(f)' = FileUses(f) + More(g, 0, f)
  <2> TAKE f \in File
  <2>1. FileUses(f)' = FileUses(f)
    BY <1>1, UsesAreCounts
  <2> QED BY <1>1, <2>1, InUse DEF More, IInv, FilesTypeOK
<1>7. ~PathCall(blocked'[p]) /\ ~FileCall(blocked'[p]) /\ system' = "up"
  BY <1>1 DEF PathCall, FileCall
<1>8. \A h \in FD : p_files'[p][h] # NULL => f_vnode[p_files'[p][h]] # NULL
  BY <1>1, OwnFile
<1>9. MoreUsed(p, g, 0)
  BY <1>1, <1>3, <1>5, <1>6, <1>7, <1>8 DEF MoreUsed
<1> QED BY <1>9, MoreStep

(* A call on a file takes the reference of fget, *)
LEMMA EnterFileStep ==
  ASSUME IInv, NEW p \in alive, system = "up", blocked[p] = NULL,
         NEW call \in {"do_read", "do_write", "do_getdent"},
         NEW fd \in FD \ EmptyFds(p), NEW pos \in 0..MaxPos, EnterFile(p, call, p_files[p][fd], pos)
  PROVE  IInv'
<1> DEFINE g == p_files[p][fd]
<1>1. /\ fd \in FD /\ g # NULL /\ g \in File /\ f_vnode[g] \in Inode
      /\ f_refcount[g] = FileUses(g) /\ FileUses(g) >= 1
  BY OwnFile DEF EmptyFds
<1>2. /\ p_files \in [Proc -> [FD -> File \cup {NULL}]] /\ alive \subseteq Proc
      /\ f_refcount \in [File -> Nat] /\ blocked \in [Proc -> InFile \cup InDirectory \cup {NULL}]
      /\ f_pos \in [File -> 0..MaxPos] /\ p \in Proc
  BY DEF IInv, FilesTypeOK
<1>3. /\ f_refcount' = [f_refcount EXCEPT ![g] = @ + 1]
      /\ f_pos' = [f_pos EXCEPT ![g] = pos]
      /\ blocked' = [blocked EXCEPT ![p] = [call |-> call, file |-> g, pos |-> pos]]
      /\ UNCHANGED <<alive, p_files, p_cwd, f_vnode, f_mode, fsVars, system>>
  BY DEF EnterFile
<1> DEFINE b == [call |-> call, file |-> g, pos |-> pos]
<1>4. b \in InFile /\ b.file = g
  BY <1>1 DEF InFile
<1>5. blocked'[p] = b /\ blocked' \in [Proc -> InFile \cup InDirectory \cup {NULL}]
      /\ \A q \in Proc \ {p} : blocked'[q] = blocked[q]
  BY <1>2, <1>3, <1>4
<1> HIDE DEF g, b
<1>6. FileTypes'
  BY <1>1, <1>2, <1>3, <1>5 DEF FileTypes, IInv, FilesTypeOK
<1>7. FileCall(b) /\ ~PathCall(b)
  BY <1>4, CallShapes DEF PathCall
<1>8. \A f \in File : /\ f_refcount'[f] = f_refcount[f] + More(g, 1, f)
                      /\ FileUses(f)' = FileUses(f) + More(g, 1, f)
  <2> TAKE f \in File
  <2>1. FileUses(f)' = FileUses(f) + CallUse(b, f)
    <3>1. p \in Proc /\ \A q \in Proc \ {p} : blocked'[q] = blocked[q]
      BY <1>2, <1>5
    <3>2. CallCount(blocked', f) = CallCount(blocked, f) + CallUse(blocked'[p], f) - CallUse(blocked[p], f)
      BY ONLY <3>1, BlockedCounts
    <3>3. CallUse(blocked[p], f) = 0 /\ blocked'[p] = b /\ CallUse(b, f) \in {0, 1}
      BY <1>5, UseTypes
    <3>4. /\ FileUses(f) = FdCount(alive, p_files, f) + CallCount(blocked, f)
          /\ FileUses(f)' = FdCount(alive, p_files, f) + CallCount(blocked', f)
      BY <1>3, UsesAreCounts
    <3>5. FdCount(alive, p_files, f) \in Nat /\ CallCount(blocked, f) \in Nat
      BY <1>2, CountTypes
    <3> QED BY <3>2, <3>3, <3>4, <3>5
  <2>2. CallUse(b, f) = More(g, 1, f)
    BY <1>4, <1>7 DEF CallUse, If, More
  <2>3. f_refcount'[f] = f_refcount[f] + More(g, 1, f)
    BY <1>1, <1>2, <1>3 DEF More
  <2> QED BY <2>1, <2>2, <2>3
<1>9. \A h \in FD : p_files'[p][h] # NULL => f_vnode[p_files'[p][h]] # NULL
  BY <1>3, OwnFile
<1>10. MoreUsed(p, g, 1)
  BY <1>1, <1>3, <1>4, <1>5, <1>6, <1>7, <1>8, <1>9 DEF MoreUsed
<1> QED BY <1>10, MoreStep

(* as do_read, do_getdent and do_write do. *)
LEMMA EnterFilesStep ==
  ASSUME IInv, NEW p \in Proc, do_read(p) \/ do_getdent(p) \/ do_write(p)
  PROVE  IInv'
<1>1. \A f \in File : f_pos[f] \in 0..MaxPos
  BY DEF IInv, FilesTypeOK
<1>2. \A v \in Inode : vn_len[v] \in 0..MaxPos
  BY DEF IInv, FilesTypeOK
<1>3. ASSUME NEW fd \in FD \ EmptyFds(p), p \in alive, blocked[p] = NULL
      PROVE  p_files[p][fd] \in File /\ f_vnode[p_files[p][fd]] \in Inode
  <2>1. fd \in FD /\ p_files[p][fd] # NULL
    BY DEF EmptyFds
  <2> QED BY <1>3, <2>1, OwnFile
<1>4. CASE do_read(p)
  <2>1. p \in alive /\ blocked[p] = NULL /\ system = "up"
    BY <1>4, CallingFacts DEF do_read
  <2>2. PICK fd \in FD \ EmptyFds(p) : EnterFile(p, "do_read", p_files[p][fd], f_pos[p_files[p][fd]])
    BY <1>4 DEF do_read
  <2>3. f_pos[p_files[p][fd]] \in 0..MaxPos
    BY <1>1, <1>3, <2>1
  <2> QED BY <2>1, <2>2, <2>3, EnterFileStep
<1>5. CASE do_getdent(p)
  <2>1. p \in alive /\ blocked[p] = NULL /\ system = "up"
    BY <1>5, CallingFacts DEF do_getdent
  <2>2. PICK fd \in FD \ EmptyFds(p) : EnterFile(p, "do_getdent", p_files[p][fd], f_pos[p_files[p][fd]])
    BY <1>5 DEF do_getdent
  <2>3. f_pos[p_files[p][fd]] \in 0..MaxPos
    BY <1>1, <1>3, <2>1
  <2> QED BY <2>1, <2>2, <2>3, EnterFileStep
<1>6. CASE do_write(p)
  <2>1. p \in alive /\ blocked[p] = NULL /\ system = "up"
    BY <1>6, CallingFacts DEF do_write
  <2>2. PICK fd \in FD \ EmptyFds(p) :
          EnterFile(p, "do_write", p_files[p][fd],
                    IF "APPEND" \in f_mode[p_files[p][fd]] THEN vn_len[f_vnode[p_files[p][fd]]] ELSE f_pos[p_files[p][fd]])
    BY <1>6 DEF do_write
  <2>3. (IF "APPEND" \in f_mode[p_files[p][fd]] THEN vn_len[f_vnode[p_files[p][fd]]] ELSE f_pos[p_files[p][fd]]) \in 0..MaxPos
    BY <1>1, <1>2, <1>3, <2>1
  <2> QED BY <2>1, <2>2, <2>3, EnterFileStep
<1> QED BY <1>4, <1>5, <1>6

(* The three ways back from a file. *)
LEMMA FileReturns ==
  ASSUME IInv, NEW p \in Proc, do_read_returns(p) \/ do_write_returns(p) \/ do_write_fails(p)
  PROVE  IInv'
<1>1. system = "up" /\ FileCall(blocked[p])
  BY DEF do_read_returns, do_write_returns, do_write_fails, Returning, FileCall
<1> DEFINE g == blocked[p].file
<1>2. g \in File /\ f_vnode[g] \in Inode /\ blocked[p].pos \in 0..MaxPos
  BY <1>1, InUse
<1>3. f_pos \in [File -> 0..MaxPos] /\ vn_len \in [Inode -> 0..MaxPos] /\ MaxPos \in Nat
  BY FilesAssumption DEF IInv, FilesTypeOK
<1>4. CASE do_read_returns(p)
  <2>1. PICK n \in 0..1 : f_pos[g] + n <= MaxPos /\ Leave(p, [f_pos EXCEPT ![g] = @ + n], vn_len)
    BY <1>4 DEF do_read_returns
  <2>2. system' = "up"
    BY <1>1, <1>4 DEF do_read_returns
  <2> HIDE DEF g
  <2>3. [f_pos EXCEPT ![g] = @ + n] \in [File -> 0..MaxPos]
    BY <1>2, <1>3, <2>1
  <2> QED BY <1>1, <1>3, <2>1, <2>2, <2>3, LeaveStep
<1>5. CASE do_write_returns(p)
  <2>1. PICK n \in 0..1 :
       LET v   == f_vnode[g]
           end == blocked[p].pos + n
           len == IF v \in Reg /\ end > vn_len[v] THEN [vn_len EXCEPT ![v] = end] ELSE vn_len
       IN  /\ f_pos[g] + n <= MaxPos
           /\ end <= MaxPos
           /\ system' = IF v \in Reg /\ f_pos[g] > len[v] THEN "assert" ELSE system
           /\ Leave(p, [f_pos EXCEPT ![g] = @ + n], len)
    BY <1>5 DEF do_write_returns
  <2> DEFINE v == f_vnode[g]
             end == blocked[p].pos + n
             len == IF v \in Reg /\ end > vn_len[v] THEN [vn_len EXCEPT ![v] = end] ELSE vn_len
  <2>2. /\ f_pos[g] + n <= MaxPos /\ end <= MaxPos /\ system' \in {"up", "assert"}
        /\ Leave(p, [f_pos EXCEPT ![g] = @ + n], len)
    BY <1>1, <2>1
  <2>3. end \in 0..MaxPos
    BY <1>2, <1>3, <2>2
  <2> HIDE DEF g, end
  <2>4. [f_pos EXCEPT ![g] = @ + n] \in [File -> 0..MaxPos]
    BY <1>2, <1>3, <2>2
  <2>5. len \in [Inode -> 0..MaxPos]
    BY <1>2, <1>3, <2>3
  <2> HIDE DEF len
  <2> QED BY <1>1, <2>2, <2>4, <2>5, LeaveStep
<1>6. CASE do_write_fails(p)
  BY <1>1, <1>3, <1>6, LeaveStep DEF do_write_fails
<1> QED BY <1>4, <1>5, <1>6
----------------------------------------------------------------------------
(* The file_t that a blocked do_open creates a vnode for. *)
LEMMA OpenFile ==
  ASSUME IInv, NEW q \in Proc, PathCall(blocked[q]), blocked[q].call = "do_open"
  PROVE  \E f \in File : /\ f = p_files[q][blocked[q].fd] /\ blocked[q].fd \in FD /\ q \in alive
                         /\ f_vnode[f] = NULL /\ f_refcount[f] = 1 /\ FileUses(f) = 1
<1>1. Rely(blocked[q], p_files[q]) /\ blocked[q] \in InDirectory /\ q \in alive
  BY RelyOn, InUse DEF IInv, PathCall
<1>2. blocked[q].fd \in FD
  BY <1>1 DEF Rely, InDirectory
<1>3. PICK f : f = p_files[q][blocked[q].fd]
  OBVIOUS
<1>4. f # NULL /\ f_vnode[f] = NULL /\ f_refcount[f] = 1
  BY <1>1, <1>3 DEF Rely
<1>5. f \in File
  BY <1>2, <1>3, <1>4 DEF IInv, FilesTypeOK
<1>6. FileUses(f) = 1
  <2>1. blocked[q].fd \in FD \ EmptyFds(q)
    BY <1>2, <1>3, <1>4 DEF EmptyFds
  <2> QED BY <1>1, <1>3, <1>4, <2>1, InUse
<1> QED BY <1>1, <1>2, <1>3, <1>4, <1>5, <1>6

(* It is in no other descriptor. *)
LEMMA OnlyOpen ==
  ASSUME IInv, NEW p \in alive, NEW fd \in FD, NEW f \in File, p_files[p][fd] = f, FileUses(f) = 1,
         NEW q \in alive, NEW g \in FD, p_files[q][g] = f
  PROVE  q = p /\ g = fd
<1> SUFFICES ASSUME ~(q = p /\ g = fd) PROVE FALSE
  OBVIOUS
<1>1. alive \subseteq Proc /\ p_files \in [Proc -> [FD -> File \cup {NULL}]] /\ NULL \notin File
  BY FilesAssumption DEF IInv, FilesTypeOK
<1> DEFINE pg == [p_files EXCEPT ![p][fd] = NULL]
<1>2. /\ pg[p][fd] = NULL /\ pg[q][g] = f
      /\ \A r \in alive, h \in FD : r # p \/ h # fd => pg[r][h] = p_files[r][h]
  BY <1>1
<1> HIDE DEF pg
<1>3. FdCount(alive, pg, f) = FdCount(alive, p_files, f) + If(pg[p][fd] = f) - If(p_files[p][fd] = f)
  BY <1>1, <1>2, FdCounts
<1>4. If(pg[p][fd] = f) = 0 /\ If(p_files[p][fd] = f) = 1
  BY <1>1, <1>2 DEF If
<1>5. FdCount(alive, pg, f) >= 1
  <2>1. FdCount(alive, pg, pg[q][g]) >= 1
    BY <1>1, Counted
  <2> QED BY <1>2, <2>1
<1>6. FdCount(alive, p_files, f) \in Nat /\ CallCount(blocked, f) \in Nat /\ FdCount(alive, pg, f) \in Nat
  BY <1>1, CountTypes
<1>7. FdCount(alive, p_files, f) + CallCount(blocked, f) = 1
  BY UsesAreCounts
<1> QED BY <1>3, <1>4, <1>5, <1>6, <1>7

(***************************************************************************)
(* do_open.                                                                *)
(***************************************************************************)
Opened(p, f, v, b) ==
  /\ p \in alive /\ system = "up" /\ system' = "up" /\ blocked[p] = NULL /\ EmptyFds(p) # {}
  /\ UNCHANGED <<alive, p_cwd>>
  /\ f \in File /\ v \in Inode \cup {NULL} /\ \E flags \in Flags : NewFile(p, f, flags, v)
  /\ blocked' = [blocked EXCEPT ![p] = b]
  /\ \/ b = NULL /\ v # NULL
     \/ /\ v = NULL /\ b \in InDirectory /\ b.call = "do_open" /\ b.vn = NULL
        /\ b.name \in Name /\ b.fd = get_empty_fd(p)

(* do_open with a free file_t: with the vnode v, or blocked in create. *)
LEMMA OpenStep ==
  ASSUME IInv, NEW p, NEW f, NEW v, NEW b, Opened(p, f, v, b),
         NEW s, Fs(s), Tree(s), Settle(s, vn_len),
         \A w \in Inode : s.rc[w] = vn_refcount[w] + One(v, w) + BUse(b, w)
  PROVE  IInv'
<1>1. /\ p \in alive /\ system = "up" /\ system' = "up" /\ blocked[p] = NULL /\ EmptyFds(p) # {}
      /\ alive' = alive /\ p_cwd' = p_cwd
      /\ f \in File /\ v \in Inode \cup {NULL}
      /\ blocked' = [blocked EXCEPT ![p] = b]
  BY DEF Opened
<1>2. PICK flags \in Flags : NewFile(p, f, flags, v)
  BY DEF Opened
<1>3. \/ b = NULL /\ v # NULL
      \/ /\ v = NULL /\ b \in InDirectory /\ b.call = "do_open" /\ b.vn = NULL
         /\ b.name \in Name /\ b.fd = get_empty_fd(p)
  BY DEF Opened
<1> DEFINE e == get_empty_fd(p)
<1>4. e \in FD /\ p_files[p][e] = NULL
  BY <1>1, EmptyFd
<1>5. /\ f_refcount[f] = 0
      /\ p_files' = [p_files EXCEPT ![p][e] = f]
      /\ f_refcount' = [f_refcount EXCEPT ![f] = 1]
      /\ f_mode' = [f_mode EXCEPT ![f] = OpenMode(flags)]
      /\ f_vnode' = [f_vnode EXCEPT ![f] = v]
      /\ f_pos' = f_pos
  BY <1>2 DEF NewFile
<1>6. b.fd = e \/ b = NULL
  BY <1>3
<1> HIDE DEF e
<1>7. /\ p_files \in [Proc -> [FD -> File \cup {NULL}]] /\ alive \subseteq Proc
      /\ f_refcount \in [File -> Nat] /\ f_vnode \in [File -> Inode \cup {NULL}]
      /\ f_mode \in [File -> SUBSET {"READ", "WRITE", "APPEND"}] /\ f_pos \in [File -> 0..MaxPos]
      /\ blocked \in [Proc -> InFile \cup InDirectory \cup {NULL}]
      /\ NULL \notin File /\ NULL \notin Inode /\ NULL \notin FD
  BY FilesAssumption, NamevAssumption, NullAssumption DEF IInv, FilesTypeOK
<1>8. FileUses(f) = 0 /\ f_vnode[f] = NULL
  BY <1>1, <1>5, InUse
<1>9. /\ p_files' \in [Proc -> [FD -> File \cup {NULL}]] /\ p_files'[p][e] = f
      /\ \A q \in Proc \ {p} : p_files'[q] = p_files[q]
      /\ \A h \in FD : h # e => p_files'[p][h] = p_files[p][h]
  BY <1>1, <1>4, <1>5, <1>7
<1>10. /\ blocked'[p] = b /\ (\A q \in Proc \ {p} : blocked'[q] = blocked[q])
       /\ blocked' \in [Proc -> InFile \cup InDirectory \cup {NULL}]
  BY <1>1, <1>3, <1>7
<1>11. FileTypes'
  <2>1. OpenMode(flags) \in SUBSET {"READ", "WRITE", "APPEND"}
    BY DEF OpenMode
  <2>2. f_refcount' \in [File -> Nat] /\ f_vnode' \in [File -> Inode \cup {NULL}] /\ f_pos' \in [File -> 0..MaxPos]
    BY <1>1, <1>5, <1>7
  <2>3. f_mode' \in [File -> SUBSET {"READ", "WRITE", "APPEND"}]
    BY <1>1, <1>5, <1>7, <2>1
  <2> QED BY <1>9, <1>10, <2>2, <2>3 DEF FileTypes
<1>12. VnodeTypes' /\ DirsOK' /\ vn_refcount' = s.rc
  <2>1. PICK len \in [Inode -> 0..MaxPos] : len = vn_len
    BY DEF IInv, FilesTypeOK
  <2>2. SettleFs(s, len)
    BY <2>1 DEF Settle, SettleFs
  <2> QED BY <2>2, SettleStep DEF VnodeTypes
<1>13. \A w \in Inode : vn_refcount'[w] - vn_refcount[w] = VnodeUses(w)' - VnodeUses(w)
  <2> TAKE w \in Inode
  <2>1. VnodeStep(p)
    BY <1>1, <1>7, <1>10 DEF VnodeStep
  <2>2. BUse(blocked'[p], w) = BUse(b, w) /\ BUse(blocked[p], w) = 0 /\ BUse(b, w) \in Nat
    BY <1>1, <1>10, BUseTypes
  <2>3. /\ VnodeUses(w)' = VnodeUses(w) + VnodeCount(f_vnode', w) - VnodeCount(f_vnode, w)
                                    + BUse(blocked'[p], w) - BUse(blocked[p], w)
        /\ VnodeUses(w) \in Nat
        /\ VnodeCount(f_vnode', w) \in Nat /\ VnodeCount(f_vnode, w) \in Nat
    BY <2>1, VnodeUsesStep
  <2>4. VnodeCount(f_vnode', w) = VnodeCount(f_vnode, w) + If(f_vnode'[f] = w) - If(f_vnode[f] = w)
    <3>1. f \in File /\ \A h \in File \ {f} : f_vnode'[h] = f_vnode[h]
      BY <1>1, <1>5, <1>7
    <3> QED BY ONLY <3>1, VnodeCounts
  <2>5. If(f_vnode'[f] = w) = One(v, w) /\ If(f_vnode[f] = w) = 0 /\ One(v, w) \in {0, 1}
    BY <1>1, <1>5, <1>7, <1>8 DEF If, One
  <2>6. vn_refcount'[w] = vn_refcount[w] + One(v, w) + BUse(b, w) /\ vn_refcount[w] \in Int
    BY <1>12, IntCounts
  <2> QED BY <2>2, <2>3, <2>4, <2>5, <2>6
<1>14. \A h \in File : FileUses(h)' = FileUses(h) + If(f = h) /\ FileUses(h) \in Nat
  <2> TAKE h \in File
  <2>1. OneSlot(p, e)
    BY <1>1, <1>4, <1>7, <1>9, <1>10 DEF OneSlot
  <2>2. FileUses(h)' = FileUses(h) + If(p_files'[p][e] = h) - If(p_files[p][e] = h)
                        + CallUse(blocked'[p], h) - CallUse(blocked[p], h)
    BY <2>1, FileUsesStep
  <2>3. CallUse(blocked[p], h) = 0 /\ CallUse(b, h) = 0
    <3>1. b # NULL => ~FileCall(b)
      BY <1>3 DEF FileCall
    <3> QED BY <1>1, <3>1, UseTypes DEF CallUse, If
  <2>4. If(p_files'[p][e] = h) = If(f = h) /\ If(p_files[p][e] = h) = 0 /\ If(f = h) \in {0, 1}
    BY <1>4, <1>7, <1>9 DEF If
  <2>5. FileUses(h) \in Nat
    BY InUse
  <2> QED BY <1>10, <2>2, <2>3, <2>4, <2>5
<1>15. \A h \in File : Accounted(h)'
  <2> TAKE h \in File
  <2>1. Accounted(h) /\ FileUses(h)' = FileUses(h) + If(f = h) /\ FileUses(h) \in Nat
    BY <1>14 DEF IInv, FilesAccounted, Accounted
  <2>2. CASE h = f
    <3>1. f_refcount'[h] = 1 /\ FileUses(h)' = 1
      BY <1>5, <1>7, <1>8, <2>1, <2>2 DEF If
    <3> QED BY <3>1 DEF Accounted
  <2>3. CASE h # f
    <3>1. f_refcount'[h] = f_refcount[h] /\ FileUses(h)' = FileUses(h) /\ f_vnode'[h] = f_vnode[h]
      BY <1>5, <1>7, <2>1, <2>3 DEF If
    <3> QED BY <2>1, <3>1 DEF Accounted
  <2> QED BY <2>2, <2>3
<1>16. \A h \in FD : p_files'[p][h] # NULL /\ f_vnode'[p_files'[p][h]] = NULL
         => blocked'[p] # NULL /\ blocked'[p].call = "do_open" /\ blocked'[p].fd = h
  <2> TAKE h \in FD
  <2> HAVE p_files'[p][h] # NULL /\ f_vnode'[p_files'[p][h]] = NULL
  <2>1. CASE h = e
    <3>1. v = NULL
      BY <1>1, <1>5, <1>7, <1>9, <2>1
    <3>2. b # NULL
      BY <1>3, <3>1, NullAssumption
    <3> QED BY <1>3, <1>6, <1>10, <2>1, <3>1, <3>2
  <2>2. CASE h # e
    <3>1. PICK x : x = p_files[p][h]
      OBVIOUS
    <3>2. p_files'[p][h] = x /\ x # NULL
      BY <1>9, <2>2, <3>1
    <3>3. x \in File /\ f_vnode[x] # NULL
      BY <1>1, <3>1, <3>2, OwnFile
    <3>4. x # f
      BY <1>8, <3>3
    <3>5. f_vnode'[x] = f_vnode[x]
      BY <1>5, <1>7, <3>3, <3>4
    <3> QED BY <3>2, <3>3, <3>5
  <2> QED BY <2>1, <2>2
<1>17. \A h \in File : FileUses(h)' >= 1 /\ f_vnode[h] # NULL => f_vnode'[h] # NULL
  BY <1>5, <1>7, <1>8
<1>18. \A q \in Proc \ {p} : PathCall(blocked[q]) /\ blocked[q].call = "do_open"
       => f_vnode'[p_files[q][blocked[q].fd]] = NULL /\ f_refcount'[p_files[q][blocked[q].fd]] = 1
  <2> TAKE q \in Proc \ {p}
  <2> HAVE PathCall(blocked[q]) /\ blocked[q].call = "do_open"
  <2>1. PICK x \in File : x = p_files[q][blocked[q].fd] /\ f_vnode[x] = NULL /\ f_refcount[x] = 1
    BY OpenFile
  <2>2. x # f
    BY <1>5, <2>1
  <2>3. f_vnode'[x] = NULL /\ f_refcount'[x] = 1
    BY <1>5, <1>7, <2>1, <2>2
  <2> QED BY <2>1, <2>3
<1>19. Rely(blocked[p], p_files[p])'
  <2>1. CASE b = NULL
    BY <1>10, <2>1 DEF Rely, FileCall, PathCall
  <2>2. CASE b # NULL
    <3>1. /\ v = NULL /\ b \in InDirectory /\ b.call = "do_open" /\ b.vn = NULL
          /\ b.name \in Name /\ b.fd = e
      BY <1>3, <1>6, <2>2
    <3>2. /\ b.fd # NULL /\ p_files'[p][b.fd] = f /\ f # NULL /\ f_vnode'[f] = NULL /\ f_refcount'[f] = 1
      BY <1>1, <1>4, <1>5, <1>7, <1>9, <3>1
    <3>3. ~FileCall(b)
      BY <3>1 DEF FileCall
    <3> QED BY <1>10, <3>1, <3>2, <3>3 DEF Rely
  <2> QED BY <2>1, <2>2
<1>20. FileStep(p)
  BY <1>1, <1>9, <1>10, <1>11, <1>12, <1>13, <1>15, <1>16, <1>17, <1>18, <1>19 DEF FileStep, Settle
<1> QED BY <1>20, FileInv

(***************************************************************************)
(* do_open of a path that exists: the vnode keeps the reference of         *)
(* open_namev.                                                             *)
(***************************************************************************)
LEMMA OpenExistsStep ==
  ASSUME IInv, NEW p \in Proc, do_open(p)
  PROVE  IInv'
<1>1. /\ p \in alive /\ system = "up" /\ blocked[p] = NULL /\ p_cwd[p] \in Dir /\ Fs(fs) /\ EmptyFds(p) # {}
      /\ UNCHANGED <<alive, p_cwd, system>>
  BY CallingFacts DEF do_open
<1>2. PICK path \in Path : \E r \in {open_namev(fs, p_cwd[p], path)} :
       /\ r.ret = "OK"
       /\ \E f \in File, flags \in Flags : ~Refused(r.vn, flags) /\ NewFile(p, f, flags, r.vn)
       /\ Return(p, r.s)
  BY DEF do_open
<1> DEFINE r == open_namev(fs, p_cwd[p], path)
<1>3. r.ret = "OK" /\ Return(p, r.s) /\ \E f \in File, flags \in Flags : NewFile(p, f, flags, r.vn)
  BY <1>2
<1>4. r.vn \in Inode /\ r.s = vref(fs, r.vn)
  BY <1>1, <1>3, OpenFound
<1> HIDE DEF r
<1>5. PICK v \in Inode, f \in File : v = r.vn /\ \E flags \in Flags : NewFile(p, f, flags, v)
  BY <1>3, <1>4
<1>6. v # NULL
  BY NamevAssumption
<1>7. Opened(p, f, v, NULL) /\ Settle(vref(fs, v), vn_len)
  BY <1>1, <1>3, <1>4, <1>5, <1>6 DEF Opened, Return
<1> DEFINE s == vref(fs, v)
<1>8. Fs(s) /\ s.ent = fs.ent /\ \A w \in Inode : s.rc[w] = fs.rc[w] + One(v, w)
  BY <1>1, RefFacts
<1>9. Settle(s, vn_len)
  BY <1>7
<1> HIDE DEF s
<1>10. Tree(s)
  BY <1>8, FsFacts, TreeEnt
<1>11. \A w \in Inode : s.rc[w] = vn_refcount[w] + One(v, w) + BUse(NULL, w)
  <2> TAKE w \in Inode
  <2>1. fs.rc = vn_refcount /\ vn_refcount[w] \in Int /\ One(v, w) \in {0, 1} /\ BUse(NULL, w) = 0
    BY FsFacts, IntCounts, BUseTypes
  <2> QED BY <1>8, <2>1
<1> QED BY <1>7, <1>8, <1>9, <1>10, <1>11, OpenStep

(***************************************************************************)
(* do_open of a path to be created: the directory is held during create.   *)
(***************************************************************************)
LEMMA OpenCreateStep ==
  ASSUME IInv, NEW p \in Proc, do_open_create(p)
  PROVE  IInv'
<1>1. /\ p \in alive /\ system = "up" /\ blocked[p] = NULL /\ p_cwd[p] \in Dir /\ Fs(fs) /\ EmptyFds(p) # {}
      /\ UNCHANGED <<alive, p_cwd, system>>
  BY CallingFacts DEF do_open_create
<1>2. PICK f \in File, path \in Path, flags \in Flags :
       /\ Creates(p, path)
       /\ NewFile(p, f, flags, NULL)
       /\ \E d \in {dir_namev(fs, p_cwd[p], path)} :
            Enter(p, d.s, "do_open", d.vn, OpenName(path, d.vn), NULL, get_empty_fd(p), NULL)
  BY DEF do_open_create
<1> DEFINE d == dir_namev(fs, p_cwd[p], path)
           name == OpenName(path, d.vn)
<1>3. d.ret = "OK" /\ OpenIn(d, path).ret = "ENOENT"
  BY <1>2 DEF Creates
<1>4. d.vn \in Dir /\ d.s = vref(fs, d.vn) /\ BaseName(path) \in Name \cup {".", ""}
  BY <1>1, <1>3, DirFound
<1>5. Enter(p, d.s, "do_open", d.vn, name, NULL, get_empty_fd(p), NULL)
  BY <1>2
<1> HIDE DEF d
<1>6. name \in Name
  <2>1. name \in Name \cup {".", ""}
    BY <1>4 DEF OpenName
  <2>2. ASSUME name \in {".", ""} PROVE FALSE
    <3>1. lookup(d.s, d.vn, name) = Result("OK", d.vn, vref(d.s, d.vn))
      BY <1>4, <2>2 DEF lookup
    <3>2. OpenIn(d, path) = Putting(Result("OK", d.vn, vref(d.s, d.vn)), d.vn)
      BY <1>3, <3>1 DEF OpenIn
    <3>3. OpenIn(d, path).ret = "OK"
      BY <3>2 DEF Putting, Result
    <3> QED BY <1>3, <3>3
  <2> QED BY <2>1, <2>2
<1> HIDE DEF name
<1> DEFINE e == get_empty_fd(p)
           b == [call |-> "do_open", dir |-> d.vn, name |-> name, vn |-> NULL, fd |-> e, old |-> NULL]
           s == vref(fs, d.vn)
<1>7. e \in FD
  BY <1>1, EmptyFd
<1>8. b \in InDirectory
  BY <1>4, <1>6, <1>7 DEF InDirectory
<1>9. b.call = "do_open" /\ b.vn = NULL /\ b.name = name /\ b.fd = get_empty_fd(p) /\ b.dir = d.vn
  OBVIOUS
<1>10. Settle(s, vn_len) /\ blocked' = [blocked EXCEPT ![p] = b]
  BY <1>4, <1>5 DEF Enter
<1> HIDE DEF b, e
<1>11. Opened(p, f, NULL, b)
  BY <1>1, <1>2, <1>6, <1>8, <1>9, <1>10 DEF Opened
<1>12. d.vn \in Inode
  BY <1>4 DEF Inode
<1>13. Fs(s) /\ s.ent = fs.ent /\ \A w \in Inode : s.rc[w] = fs.rc[w] + One(d.vn, w)
  BY <1>1, <1>12, RefFacts
<1> HIDE DEF s
<1>14. Tree(s)
  BY <1>13, FsFacts, TreeEnt
<1>15. \A w \in Inode : s.rc[w] = vn_refcount[w] + One(NULL, w) + BUse(b, w)
  <2> TAKE w \in Inode
  <2>1. fs.rc = vn_refcount /\ vn_refcount[w] \in Int /\ One(d.vn, w) \in {0, 1} /\ One(NULL, w) = 0
    BY FsFacts, IntCounts, BUseTypes
  <2>2. BUse(b, w) = One(d.vn, w) + One(NULL, w)
    BY <1>8, <1>9, BUseTypes
  <2> QED BY <1>13, <2>1, <2>2
<1> QED BY <1>10, <1>11, <1>13, <1>14, <1>15, OpenStep

(* The file_t of do_open with invalid flags. *)
LEMMA OpenInvalidStep ==
  ASSUME IInv, NEW p \in Proc, do_open_invalid(p)
  PROVE  IInv'
<1>1. /\ p \in alive /\ system = "up" /\ blocked[p] = NULL /\ "do_open_invalid" \in Calls
      /\ UNCHANGED <<alive, p_files, p_cwd, f_vnode, f_mode, f_pos, fsVars, blocked, system>>
  BY CallingFacts DEF do_open_invalid, Calling
<1>2. PICK f \in File : f_refcount[f] = 0 /\ f_refcount' = [f_refcount EXCEPT ![f] = 1]
  BY DEF do_open_invalid
<1>3. alive \subseteq Proc /\ f_refcount \in [File -> Nat]
  BY DEF IInv, FilesTypeOK
<1>4. FileTypes'
  <2>1. f_refcount' \in [File -> Nat]
    BY <1>2, <1>3
  <2> QED BY <1>1, <2>1 DEF FileTypes, IInv, FilesTypeOK
<1>5. VnodeTypes' /\ DirsOK'
  BY <1>1, SameFs
<1>6. \A v \in Inode : vn_refcount'[v] - vn_refcount[v] = VnodeUses(v)' - VnodeUses(v)
  <2> TAKE v \in Inode
  <2>1. VnodeUses(v)' = VnodeUses(v)
    BY <1>1, UsesAreCounts
  <2>2. VnodeUses(v) \in Nat /\ vn_refcount[v] \in Int /\ vn_refcount'[v] = vn_refcount[v]
    BY <1>1, InUse, IntCounts DEF fsVars
  <2> QED BY <2>1, <2>2
<1>7. \A h \in File : FileUses(h)' = FileUses(h)
  BY <1>1, UsesAreCounts
<1>8. \A h \in File : Accounted(h)'
  <2> TAKE h \in File
  <2>1. Accounted(h) /\ FileUses(h)' = FileUses(h)
    BY <1>7 DEF IInv, FilesAccounted, Accounted
  <2>2. CASE h = f
    <3>1. f_refcount'[h] = 1 /\ FileUses(h) = 0 /\ f_vnode'[h] = NULL
      BY <1>1, <1>2, <1>3, <2>2, InUse
    <3> QED BY <1>1, <2>1, <3>1 DEF Accounted
  <2>3. CASE h # f
    <3>1. f_refcount'[h] = f_refcount[h] /\ f_vnode'[h] = f_vnode[h]
      BY <1>1, <1>2, <1>3, <2>3
    <3> QED BY <2>1, <3>1 DEF Accounted
  <2> QED BY <2>2, <2>3
<1>9. \A h \in FD : p_files'[p][h] # NULL /\ f_vnode'[p_files'[p][h]] = NULL
         => blocked'[p] # NULL /\ blocked'[p].call = "do_open" /\ blocked'[p].fd = h
  BY <1>1, OwnFile
<1>10. \A q \in Proc \ {p} : PathCall(blocked[q]) /\ blocked[q].call = "do_open"
       => f_vnode'[p_files[q][blocked[q].fd]] = NULL /\ f_refcount'[p_files[q][blocked[q].fd]] = 1
  <2> TAKE q \in Proc \ {p}
  <2> HAVE PathCall(blocked[q]) /\ blocked[q].call = "do_open"
  <2>1. PICK x \in File : x = p_files[q][blocked[q].fd] /\ f_vnode[x] = NULL /\ f_refcount[x] = 1
    BY OpenFile
  <2>2. f_vnode'[x] = NULL /\ f_refcount'[x] = 1
    BY <1>1, <1>2, <1>3, <2>1
  <2> QED BY <2>1, <2>2
<1>11. Rely(blocked[p], p_files[p])'
  BY <1>1 DEF Rely, FileCall, PathCall
<1>12. FileStep(p)
  BY <1>1, <1>4, <1>5, <1>6, <1>8, <1>9, <1>10, <1>11 DEF FileStep, fsVars
<1> QED BY <1>12, FileInv
----------------------------------------------------------------------------
(***************************************************************************)
(* create returns to do_open.                                              *)
(***************************************************************************)
Creating(p, f, b) ==
  /\ p \in alive /\ p \in Proc /\ system = "up" /\ system' = "up" /\ alive' = alive /\ p_cwd' = p_cwd
  /\ b = blocked[p] /\ PathCall(b) /\ b \in InDirectory /\ b.call = "do_open" /\ b.vn = NULL
  /\ b.dir \in Dir /\ b.name \in Name /\ b.fd \in FD
  /\ f \in File /\ f = p_files[p][b.fd] /\ f_vnode[f] = NULL /\ f_refcount[f] = 1 /\ FileUses(f) = 1
  /\ blocked' = [blocked EXCEPT ![p] = NULL]

(***************************************************************************)
(* The file_t of a blocked do_open is still in its descriptor and nobody   *)
(* else has it.                                                            *)
(***************************************************************************)
LEMMA CreatingFacts ==
  ASSUME IInv, NEW p \in Proc, do_open_created(p)
  PROVE  \E f \in File : \E b : Creating(p, f, b) /\ vn_refcount[b.dir] # 0
<1>1. /\ blocked[p] # NULL /\ blocked[p].call = "do_open" /\ system = "up" /\ PathCall(blocked[p])
      /\ alive' = alive /\ p_cwd' = p_cwd /\ system' = system
  BY DEF do_open_created, Returning, PathCall, FileCall
<1>2. PICK f \in File : /\ f = p_files[p][blocked[p].fd] /\ blocked[p].fd \in FD /\ p \in alive
                         /\ f_vnode[f] = NULL /\ f_refcount[f] = 1 /\ FileUses(f) = 1
  BY <1>1, OpenFile
<1>3. blocked[p] \in InDirectory /\ vn_refcount[blocked[p].dir] >= 1
  BY <1>1, InUse
<1>4. blocked[p].dir \in Dir /\ vn_refcount[blocked[p].dir] # 0
  <2>1. blocked[p].dir \in Dir
    BY <1>3 DEF InDirectory
  <2>2. vn_refcount[blocked[p].dir] \in Int
    BY <2>1, IntCounts DEF Inode
  <2> QED BY <1>3, <2>1, <2>2
<1>5. Rely(blocked[p], p_files[p])
  BY RelyOn DEF IInv
<1>6. blocked[p].vn = NULL /\ blocked[p].name \in Name
  BY <1>1, <1>5 DEF Rely
<1>7. blocked' = [blocked EXCEPT ![p] = NULL]
  BY DEF do_open_created, Return
<1>8. Creating(p, f, blocked[p])
  BY <1>1, <1>2, <1>3, <1>4, <1>6, <1>7 DEF Creating
<1> QED BY <1>4, <1>8

(* What the other processes rely on stays. *)
LEMMA OthersOpen ==
  ASSUME IInv, NEW p, NEW f, NEW b, Creating(p, f, b),
         \A h \in File \ {f} : f_refcount'[h] = f_refcount[h] /\ f_vnode'[h] = f_vnode[h]
  PROVE  \A q \in Proc \ {p} : PathCall(blocked[q]) /\ blocked[q].call = "do_open"
       => f_vnode'[p_files[q][blocked[q].fd]] = NULL /\ f_refcount'[p_files[q][blocked[q].fd]] = 1
<1> TAKE q \in Proc \ {p}
<1> HAVE PathCall(blocked[q]) /\ blocked[q].call = "do_open"
<1>1. PICK x \in File : /\ x = p_files[q][blocked[q].fd] /\ f_vnode[x] = NULL /\ f_refcount[x] = 1
                        /\ blocked[q].fd \in FD /\ q \in alive
  BY OpenFile
<1>2. x # f
  <2> SUFFICES ASSUME x = f PROVE FALSE
    OBVIOUS
  <2>1. p \in alive /\ b.fd \in FD /\ f \in File /\ f = p_files[p][b.fd] /\ FileUses(f) = 1
    BY DEF Creating
  <2>2. PICK fd \in FD, g \in FD : p_files[p][fd] = f /\ p_files[q][g] = f
    BY <1>1, <2>1
  <2>3. IInv /\ p \in alive /\ q \in alive /\ f \in File /\ FileUses(f) = 1
    BY <1>1, <2>1
  <2>4. q = p
    BY ONLY <2>2, <2>3, OnlyOpen
  <2> QED BY <2>4
<1>3. f_vnode'[x] = NULL /\ f_refcount'[x] = 1
  BY <1>1, <1>2
<1> QED BY <1>1, <1>3

(* The uses of vnodes and files after create: one file_t less, or with a vnode. *)
LEMMA CreatingUses ==
  ASSUME IInv, NEW p, NEW f, NEW b, Creating(p, f, b), \A h \in File \ {f} : f_vnode'[h] = f_vnode[h]
  PROVE  \A w \in Inode : /\ VnodeUses(w)' = VnodeUses(w) + If(f_vnode'[f] = w) - One(b.dir, w)
                          /\ VnodeUses(w) \in Nat /\ If(f_vnode'[f] = w) \in {0, 1} /\ One(b.dir, w) \in {0, 1}
<1> TAKE w \in Inode
<1>1. alive \subseteq Proc /\ blocked \in [Proc -> InFile \cup InDirectory \cup {NULL}] /\ NULL \notin Inode
  BY NamevAssumption DEF IInv, FilesTypeOK
<1>2. /\ p \in Proc /\ b = blocked[p] /\ blocked' = [blocked EXCEPT ![p] = NULL] /\ f \in File /\ f_vnode[f] = NULL
      /\ b \in InDirectory /\ b.vn = NULL
  BY DEF Creating
<1>3. blocked'[p] = NULL /\ \A q \in Proc \ {p} : blocked'[q] = blocked[q]
  BY <1>1, <1>2
<1>4. VnodeStep(p)
  BY <1>1, <1>2, <1>3 DEF VnodeStep, Creating
<1>5. /\ VnodeUses(w)' = VnodeUses(w) + VnodeCount(f_vnode', w) - VnodeCount(f_vnode, w)
                                  + BUse(blocked'[p], w) - BUse(blocked[p], w)
      /\ VnodeUses(w) \in Nat
      /\ VnodeCount(f_vnode', w) \in Nat /\ VnodeCount(f_vnode, w) \in Nat
  BY <1>4, VnodeUsesStep
<1>6. VnodeCount(f_vnode', w) = VnodeCount(f_vnode, w) + If(f_vnode'[f] = w) - If(f_vnode[f] = w)
  <2>1. f \in File /\ \A h \in File \ {f} : f_vnode'[h] = f_vnode[h]
    BY <1>2
  <2> QED BY ONLY <2>1, VnodeCounts
<1>7. If(f_vnode[f] = w) = 0 /\ If(f_vnode'[f] = w) \in {0, 1}
  BY <1>1, <1>2 DEF If
<1>8. BUse(blocked'[p], w) = 0 /\ BUse(blocked[p], w) = One(b.dir, w) /\ One(b.dir, w) \in {0, 1}
  <2>1. BUse(b, w) = One(b.dir, w) + One(NULL, w) /\ One(NULL, w) = 0 /\ One(b.dir, w) \in {0, 1}
    BY <1>2, BUseTypes
  <2>2. BUse(b, w) = One(b.dir, w)
    BY <2>1
  <2> QED BY <1>2, <1>3, <2>1, <2>2, BUseTypes
<1> QED BY <1>5, <1>6, <1>7, <1>8

(* create has succeeded: the file_t gets the vnode v. *)
Created(f, v) == f_vnode' = [f_vnode EXCEPT ![f] = v] /\ UNCHANGED <<p_files, f_refcount, f_mode, f_pos>>

(***************************************************************************)
(* The new vnode is referenced by the file, and the directory is let go    *)
(* of.                                                                     *)
(***************************************************************************)
LEMMA CreatedStep ==
  ASSUME IInv, NEW p, NEW f, NEW b, Creating(p, f, b), NEW v \in Inode, Created(f, v),
         NEW s, Fs(s), Tree(s), Settle(s, vn_len),
         \A w \in Inode : s.rc[w] = vn_refcount[w] + One(v, w) - One(b.dir, w)
  PROVE  IInv'
<1>1. /\ p \in alive /\ p \in Proc /\ system = "up" /\ system' = "up" /\ alive' = alive /\ p_cwd' = p_cwd
      /\ b = blocked[p] /\ PathCall(b) /\ b.fd \in FD /\ b.call = "do_open"
      /\ f \in File /\ f = p_files[p][b.fd] /\ f_vnode[f] = NULL /\ f_refcount[f] = 1 /\ FileUses(f) = 1
      /\ blocked' = [blocked EXCEPT ![p] = NULL]
  BY DEF Creating
<1>0. f_vnode' = [f_vnode EXCEPT ![f] = v] /\ UNCHANGED <<p_files, f_refcount, f_mode, f_pos>>
  BY DEF Created
<1>2. /\ p_files \in [Proc -> [FD -> File \cup {NULL}]] /\ alive \subseteq Proc
      /\ f_vnode \in [File -> Inode \cup {NULL}]
      /\ blocked \in [Proc -> InFile \cup InDirectory \cup {NULL}]
      /\ NULL \notin File /\ NULL \notin Inode
  BY FilesAssumption, NamevAssumption DEF IInv, FilesTypeOK
<1>3. /\ f_vnode' \in [File -> Inode \cup {NULL}] /\ f_vnode'[f] = v /\ v # NULL
      /\ \A h \in File \ {f} : f_vnode'[h] = f_vnode[h]
  BY <1>0, <1>1, <1>2
<1>4. /\ blocked'[p] = NULL /\ (\A q \in Proc \ {p} : blocked'[q] = blocked[q])
      /\ blocked' \in [Proc -> InFile \cup InDirectory \cup {NULL}]
  BY <1>1, <1>2
<1>5. FileTypes'
  BY <1>0, <1>3, <1>4 DEF FileTypes, IInv, FilesTypeOK
<1>6. VnodeTypes' /\ DirsOK' /\ vn_refcount' = s.rc
  <2>1. PICK len \in [Inode -> 0..MaxPos] : len = vn_len
    BY DEF IInv, FilesTypeOK
  <2>2. SettleFs(s, len)
    BY <2>1 DEF Settle, SettleFs
  <2> QED BY <2>2, SettleStep DEF VnodeTypes
<1>7. \A w \in Inode : vn_refcount'[w] - vn_refcount[w] = VnodeUses(w)' - VnodeUses(w)
  <2> TAKE w \in Inode
  <2>1. /\ VnodeUses(w)' = VnodeUses(w) + If(f_vnode'[f] = w) - One(b.dir, w)
        /\ VnodeUses(w) \in Nat /\ If(f_vnode'[f] = w) \in {0, 1} /\ One(b.dir, w) \in {0, 1}
    BY <1>3, CreatingUses
  <2>2. If(f_vnode'[f] = w) = One(v, w)
    BY <1>3 DEF If, One
  <2>3. vn_refcount'[w] = vn_refcount[w] + One(v, w) - One(b.dir, w) /\ vn_refcount[w] \in Int
    BY <1>6, IntCounts
  <2> QED BY <2>1, <2>2, <2>3
<1>8. \A h \in File : FileUses(h)' = FileUses(h)
  <2> TAKE h \in File
  <2>1. OneSlot(p, b.fd)
    BY <1>0, <1>1, <1>2, <1>4 DEF OneSlot
  <2>2. FileUses(h)' = FileUses(h) + If(p_files'[p][b.fd] = h) - If(p_files[p][b.fd] = h)
                        + CallUse(blocked'[p], h) - CallUse(blocked[p], h)
    BY <2>1, FileUsesStep
  <2>3. CallUse(blocked'[p], h) = 0 /\ CallUse(blocked[p], h) = 0
    BY <1>1, <1>4, UseTypes DEF CallUse, If, PathCall
  <2>4. If(p_files'[p][b.fd] = h) = If(p_files[p][b.fd] = h) /\ If(p_files[p][b.fd] = h) \in {0, 1} /\ FileUses(h) \in Nat
    BY <1>0, InUse DEF If
  <2> QED BY <2>2, <2>3, <2>4
<1>9. \A h \in File : Accounted(h)'
  <2> TAKE h \in File
  <2>1. Accounted(h) /\ FileUses(h)' = FileUses(h) /\ f_refcount'[h] = f_refcount[h]
    BY <1>0, <1>8 DEF IInv, FilesAccounted, Accounted
  <2>2. CASE h = f
    BY <1>1, <2>1, <2>2 DEF Accounted
  <2>3. CASE h # f
    <3>1. f_vnode'[h] = f_vnode[h]
      BY <1>3, <2>3
    <3> QED BY <2>1, <3>1 DEF Accounted
  <2> QED BY <2>2, <2>3
<1>10. \A h \in FD : p_files'[p][h] # NULL /\ f_vnode'[p_files'[p][h]] = NULL
         => blocked'[p] # NULL /\ blocked'[p].call = "do_open" /\ blocked'[p].fd = h
  <2> SUFFICES ASSUME NEW h \in FD, p_files[p][h] # NULL, f_vnode'[p_files[p][h]] = NULL
               PROVE  FALSE
    BY <1>0
  <2>1. PICK x \in File : x = p_files[p][h]
    BY <1>1, <1>2
  <2>2. x # f
    BY <1>3, <2>1
  <2>3. f_vnode[x] = NULL
    BY <1>3, <2>1, <2>2
  <2>4. blocked[p].fd = h
    BY <1>1, <2>1, <2>3 DEF IInv, FilesAccounted
  <2> QED BY <1>1, <2>1, <2>2, <2>4
<1>11. \A h \in File : FileUses(h)' >= 1 /\ f_vnode[h] # NULL => f_vnode'[h] # NULL
  BY <1>1, <1>3
<1>12. \A q \in Proc \ {p} : PathCall(blocked[q]) /\ blocked[q].call = "do_open"
       => f_vnode'[p_files[q][blocked[q].fd]] = NULL /\ f_refcount'[p_files[q][blocked[q].fd]] = 1
  BY <1>0, <1>3, OthersOpen
<1>13. Rely(blocked[p], p_files[p])'
  BY <1>4 DEF Rely, FileCall, PathCall
<1>14. FileStep(p)
  BY <1>0, <1>1, <1>4, <1>5, <1>6, <1>7, <1>9, <1>10, <1>11, <1>12, <1>13 DEF FileStep, Settle
<1> QED BY <1>14, FileInv

(***************************************************************************)
(* create has failed: the file_t is freed, the descriptor cleared and the  *)
(* directory let go of.                                                    *)
(***************************************************************************)
LEMMA NotCreatedStep ==
  ASSUME IInv, NEW p, NEW f, NEW b, Creating(p, f, b),
         fput(Once(f), f_pos), p_files' = [p_files EXCEPT ![p][b.fd] = NULL],
         NEW s, Fs(s), Tree(s), Settle(s, vn_len),
         \A w \in Inode : s.rc[w] = vn_refcount[w] - One(b.dir, w)
  PROVE  IInv'
<1>1. /\ p \in alive /\ p \in Proc /\ system = "up" /\ system' = "up" /\ alive' = alive /\ p_cwd' = p_cwd
      /\ b = blocked[p] /\ PathCall(b) /\ b.fd \in FD /\ b.call = "do_open"
      /\ f \in File /\ f = p_files[p][b.fd] /\ f_vnode[f] = NULL /\ f_refcount[f] = 1 /\ FileUses(f) = 1
      /\ blocked' = [blocked EXCEPT ![p] = NULL]
  BY DEF Creating
<1>2. /\ p_files \in [Proc -> [FD -> File \cup {NULL}]] /\ alive \subseteq Proc
      /\ f_vnode \in [File -> Inode \cup {NULL}]
      /\ blocked \in [Proc -> InFile \cup InDirectory \cup {NULL}]
      /\ NULL \notin File /\ NULL \notin Inode
  BY FilesAssumption, NamevAssumption DEF IInv, FilesTypeOK
<1>3. /\ p_files' \in [Proc -> [FD -> File \cup {NULL}]] /\ p_files'[p][b.fd] = NULL
      /\ \A q \in Proc \ {p} : p_files'[q] = p_files[q]
      /\ \A h \in FD : h # b.fd => p_files'[p][h] = p_files[p][h]
  BY <1>1, <1>2
<1>4. /\ blocked'[p] = NULL /\ (\A q \in Proc \ {p} : blocked'[q] = blocked[q])
      /\ blocked' \in [Proc -> InFile \cup InDirectory \cup {NULL}]
  BY <1>1, <1>2
<1> DEFINE drop == Once(f)
<1>5. drop \in [File -> Int] /\ \A h \in File : drop[h] = If(f = h)
  BY DEF Once, If
<1>6. fput(drop, f_pos)
  OBVIOUS
<1> HIDE DEF drop
<1>7. \A h \in File : FileUses(h)' = FileUses(h) - drop[h] /\ (drop[h] # 0 => FileUses(h) >= 1)
  <2> TAKE h \in File
  <2>1. OneSlot(p, b.fd)
    BY <1>1, <1>2, <1>3, <1>4 DEF OneSlot
  <2>2. FileUses(h)' = FileUses(h) + If(p_files'[p][b.fd] = h) - If(p_files[p][b.fd] = h)
                        + CallUse(blocked'[p], h) - CallUse(blocked[p], h)
    BY <2>1, FileUsesStep
  <2>3. CallUse(blocked'[p], h) = 0 /\ CallUse(blocked[p], h) = 0
    BY <1>1, <1>4, UseTypes DEF CallUse, If, PathCall
  <2>4. If(p_files'[p][b.fd] = h) = 0 /\ If(p_files[p][b.fd] = h) = If(f = h) /\ If(f = h) \in {0, 1} /\ FileUses(h) \in Nat
    BY <1>1, <1>2, <1>3, InUse DEF If
  <2>5. FileUses(h)' = FileUses(h) - drop[h]
    BY <1>5, <2>2, <2>3, <2>4
  <2>6. drop[h] # 0 => h = f
    BY <1>5 DEF If
  <2> QED BY <1>1, <2>5, <2>6
<1>8. PICK pos \in [File -> 0..MaxPos] : pos = f_pos
  BY DEF IInv, FilesTypeOK
<1>9. fput(drop, pos)
  BY <1>6, <1>8 DEF fput
<1>10. /\ f_refcount' \in [File -> Nat] /\ f_vnode' \in [File -> Inode \cup {NULL}]
       /\ f_mode' \in [File -> SUBSET {"READ", "WRITE", "APPEND"}] /\ f_pos' \in [File -> 0..MaxPos]
       /\ \A h \in File : /\ Accounted(h)'
                          /\ drop[h] = 0 => f_vnode'[h] = f_vnode[h] /\ f_refcount'[h] = f_refcount[h]
  BY <1>1, <1>2, <1>5, <1>7, <1>9, FputStep
<1>11. \A h \in File \ {f} : f_refcount'[h] = f_refcount[h] /\ f_vnode'[h] = f_vnode[h]
  BY <1>5, <1>10 DEF If
<1>12. f_vnode'[f] = NULL
  <2>1. f_vnode' = [h \in File |-> IF h \in Closed(drop) THEN NULL ELSE f_vnode[h]]
    BY <1>6 DEF fput
  <2> QED BY <1>1, <2>1
<1>13. FileTypes'
  BY <1>3, <1>4, <1>10 DEF FileTypes
<1>14. VnodeTypes' /\ DirsOK' /\ vn_refcount' = s.rc
  <2>1. PICK len \in [Inode -> 0..MaxPos] : len = vn_len
    BY DEF IInv, FilesTypeOK
  <2>2. SettleFs(s, len)
    BY <2>1 DEF Settle, SettleFs
  <2> QED BY <2>2, SettleStep DEF VnodeTypes
<1>15. \A w \in Inode : vn_refcount'[w] - vn_refcount[w] = VnodeUses(w)' - VnodeUses(w)
  <2> TAKE w \in Inode
  <2>1. /\ VnodeUses(w)' = VnodeUses(w) + If(f_vnode'[f] = w) - One(b.dir, w)
        /\ VnodeUses(w) \in Nat /\ One(b.dir, w) \in {0, 1}
    BY <1>11, CreatingUses
  <2>2. If(f_vnode'[f] = w) = 0
    BY <1>2, <1>12 DEF If
  <2>3. vn_refcount'[w] = vn_refcount[w] - One(b.dir, w) /\ vn_refcount[w] \in Int
    BY <1>14, IntCounts
  <2> QED BY <2>1, <2>2, <2>3
<1>16. \A h \in FD : p_files'[p][h] # NULL /\ f_vnode'[p_files'[p][h]] = NULL
         => blocked'[p] # NULL /\ blocked'[p].call = "do_open" /\ blocked'[p].fd = h
  <2> SUFFICES ASSUME NEW h \in FD, p_files'[p][h] # NULL, f_vnode'[p_files'[p][h]] = NULL
               PROVE  FALSE
    OBVIOUS
  <2>1. PICK x : x = p_files'[p][h]
    OBVIOUS
  <2>2. h # b.fd /\ p_files[p][h] = x /\ x # NULL
    BY <1>3, <2>1
  <2>3. x \in File
    BY <1>1, <1>2, <2>2
  <2>4. f_vnode[x] = NULL
    BY <1>1, <1>11, <2>1, <2>3
  <2>5. blocked[p].fd = h
    BY <1>1, <2>2, <2>4 DEF IInv, FilesAccounted
  <2> QED BY <1>1, <2>2, <2>5
<1>17. \A h \in File : FileUses(h)' >= 1 /\ f_vnode[h] # NULL => f_vnode'[h] # NULL
  BY <1>1, <1>11
<1>18. \A q \in Proc \ {p} : PathCall(blocked[q]) /\ blocked[q].call = "do_open"
       => f_vnode'[p_files[q][blocked[q].fd]] = NULL /\ f_refcount'[p_files[q][blocked[q].fd]] = 1
  BY <1>11, OthersOpen
<1>19. Rely(blocked[p], p_files[p])'
  BY <1>4 DEF Rely, FileCall, PathCall
<1>20. FileStep(p)
  BY <1>1, <1>3, <1>4, <1>10, <1>13, <1>14, <1>15, <1>16, <1>17, <1>18, <1>19 DEF FileStep, Settle
<1> QED BY <1>20, FileInv

(* Both ways out of create preserve the invariant. *)
LEMMA OpenCreatedStep ==
  ASSUME IInv, NEW p \in Proc, do_open_created(p)
  PROVE  IInv'
<1>1. PICK f, b : f \in File /\ Creating(p, f, b) /\ vn_refcount[b.dir] # 0
  BY CreatingFacts
<1>2. b = blocked[p] /\ b.dir \in Dir /\ b.dir \in Inode /\ b.name \in Name /\ f = p_files[p][b.fd]
  BY <1>1 DEF Creating, Inode
<1> DEFINE r == fs_make(fs, b.dir, b.name, Reg)
<1>3. \/ /\ r.ret = "OK"
         /\ f_vnode' = [f_vnode EXCEPT ![f] = r.vn]
         /\ Return(p, Putting(Referenced(r), b.dir).s)
         /\ UNCHANGED <<p_files, f_refcount, f_mode, f_pos>>
      \/ /\ r.ret # "OK"
         /\ fput(Once(f), f_pos)
         /\ p_files' = [p_files EXCEPT ![p][b.fd] = NULL]
         /\ Return(p, vput(r.s, b.dir))
  BY <1>2 DEF do_open_created
<1>4. /\ Fs(r.s) /\ Tree(r.s) /\ r.s.rc = vn_refcount
      /\ r = [ret |-> r.ret, vn |-> r.vn, s |-> r.s]
      /\ r.ret = "OK" => r.vn \in Inode
  <2>1. Fs(fs) /\ Tree(fs) /\ FreeEmpty(fs) /\ fs.rc = vn_refcount
    BY FsFacts
  <2>2. fs.rc[b.dir] # 0
    BY <1>1, <2>1
  <2> HIDE DEF r
  <2>3. /\ Fs(r.s) /\ Tree(r.s) /\ r.s.rc = fs.rc
        /\ r = [ret |-> r.ret, vn |-> r.vn, s |-> r.s]
        /\ r.ret = "OK" => r.vn \in Reg
    BY <1>2, <2>1, <2>2, MakeTree DEF r
  <2> QED BY <2>1, <2>3 DEF Inode
<1> HIDE DEF r
<1>5. CASE r.ret = "OK"
  <2>1. PICK v \in Inode : v = r.vn
    BY <1>4, <1>5
  <2> DEFINE s1 == vref(r.s, v)
             s == vput(s1, b.dir)
  <2>2. Putting(Referenced(r), b.dir).s = s
    BY <1>4, <2>1 DEF Putting, Referenced
  <2>3. Fs(s1) /\ s1.ent = r.s.ent /\ \A w \in Inode : s1.rc[w] = r.s.rc[w] + One(v, w)
    BY <1>4, RefFacts
  <2> HIDE DEF s1
  <2>4. Fs(s) /\ s.ent = s1.ent /\ \A w \in Inode : s.rc[w] = s1.rc[w] - One(b.dir, w)
    BY <1>2, <2>3, RefFacts
  <2> HIDE DEF s
  <2>5. Tree(s)
    BY <1>4, <2>3, <2>4, TreeEnt
  <2>6. \A w \in Inode : s.rc[w] = vn_refcount[w] + One(v, w) - One(b.dir, w)
    <3> TAKE w \in Inode
    <3>1. s.rc[w] = s1.rc[w] - One(b.dir, w) /\ s1.rc[w] = r.s.rc[w] + One(v, w) /\ r.s.rc[w] = vn_refcount[w]
      BY <1>4, <2>3, <2>4
    <3>2. vn_refcount[w] \in Int /\ One(v, w) \in {0, 1} /\ One(b.dir, w) \in {0, 1}
      BY IntCounts, BUseTypes
    <3> QED BY ONLY <3>1, <3>2
  <2>7. Created(f, v) /\ Settle(s, vn_len)
    BY <1>3, <1>5, <2>1, <2>2 DEF Return, Created
  <2>8. Creating(p, f, b) /\ v \in Inode
    BY <1>1
  <2> QED BY ONLY IInv, <2>4, <2>5, <2>6, <2>7, <2>8, CreatedStep
<1>6. CASE r.ret # "OK"
  <2> DEFINE s == vput(r.s, b.dir)
  <2>1. Fs(s) /\ s.ent = r.s.ent /\ \A w \in Inode : s.rc[w] = r.s.rc[w] - One(b.dir, w)
    BY <1>2, <1>4, RefFacts
  <2>2. fput(Once(f), f_pos) /\ p_files' = [p_files EXCEPT ![p][b.fd] = NULL] /\ Settle(s, vn_len)
    BY <1>3, <1>6 DEF Return
  <2> HIDE DEF s
  <2>3. Tree(s)
    BY <1>4, <2>1, TreeEnt
  <2>4. \A w \in Inode : s.rc[w] = vn_refcount[w] - One(b.dir, w)
    BY <1>4, <2>1
  <2>5. Creating(p, f, b)
    BY <1>1
  <2> QED BY ONLY IInv, <2>1, <2>2, <2>3, <2>4, <2>5, NotCreatedStep
<1> QED BY <1>5, <1>6
----------------------------------------------------------------------------
(***************************************************************************)
(* Working directories and processes.                                      *)
(***************************************************************************)
SameCalls(q) ==
  /\ q \in Proc /\ alive' \subseteq Proc /\ alive' \ {q} = alive \ {q} /\ blocked' = blocked /\ system' = system
  /\ \A r \in alive \ {q} : p_cwd'[r] = p_cwd[r]

(***************************************************************************)
(* The uses of a vnode then change with the working directory of q and the *)
(* vnodes of files.                                                        *)
(***************************************************************************)
LEMMA CwdUsesStep ==
  ASSUME IInv, NEW q, SameCalls(q)
  PROVE  \A w : /\ VnodeUses(w)' = VnodeUses(w) + If(q \in alive' /\ p_cwd'[q] = w) - If(q \in alive /\ p_cwd[q] = w)
                                    + VnodeCount(f_vnode', w) - VnodeCount(f_vnode, w)
                /\ VnodeUses(w) \in Nat /\ VnodeCount(f_vnode', w) \in Nat /\ VnodeCount(f_vnode, w) \in Nat
                /\ If(q \in alive' /\ p_cwd'[q] = w) \in {0, 1} /\ If(q \in alive /\ p_cwd[q] = w) \in {0, 1}
<1> TAKE w
<1>1. /\ alive \subseteq Proc /\ alive' \subseteq Proc /\ alive \ {q} = alive' \ {q}
      /\ \A r \in alive \ {q} : p_cwd'[r] = p_cwd[r]
  BY DEF SameCalls, IInv, FilesTypeOK
<1>2. CwdCount(alive', p_cwd', w) = CwdCount(alive, p_cwd, w) + If(q \in alive' /\ p_cwd'[q] = w) - If(q \in alive /\ p_cwd[q] = w)
  BY ONLY <1>1, CwdCounts
<1>3. /\ CwdCount(alive, p_cwd, w) \in Nat /\ VnodeCount(f_vnode, w) \in Nat /\ VnodeCount(f_vnode', w) \in Nat
      /\ DirCount(blocked, w) \in Nat /\ VnCount(blocked, w) \in Nat /\ RootCount(system, w) \in Nat
  BY <1>1, CountTypes
<1>4. If(q \in alive' /\ p_cwd'[q] = w) \in {0, 1} /\ If(q \in alive /\ p_cwd[q] = w) \in {0, 1}
  BY DEF If
<1>5. /\ VnodeUses(w) = RootCount(system, w) + CwdCount(alive, p_cwd, w) + VnodeCount(f_vnode, w)
                           + DirCount(blocked, w) + VnCount(blocked, w)
      /\ VnodeUses(w)' = RootCount(system, w) + CwdCount(alive', p_cwd', w) + VnodeCount(f_vnode', w)
                           + DirCount(blocked, w) + VnCount(blocked, w)
  BY UsesAreCounts DEF SameCalls
<1>6. VnodeUses(w) \in Nat
  BY <1>3, <1>5
<1>7. VnodeUses(w)' = VnodeUses(w) + If(q \in alive' /\ p_cwd'[q] = w) - If(q \in alive /\ p_cwd[q] = w)
                                    + VnodeCount(f_vnode', w) - VnodeCount(f_vnode, w)
  BY <1>2, <1>3, <1>4, <1>5
<1> QED BY <1>3, <1>4, <1>6, <1>7

(* The invariant of what a step has left of files, blocked calls and directories. *)
Settles(s) == Fs(s) /\ Tree(s) /\ SettleFs(s, vn_len)

(* The file system is then well-formed, and its counts are those of s. *)
LEMMA SettlesStep ==
  ASSUME IInv, NEW s, Settles(s)
  PROVE  VnodeTypes' /\ DirsOK' /\ vn_refcount' = s.rc
<1>1. PICK len \in [Inode -> 0..MaxPos] : len = vn_len
  BY DEF IInv, FilesTypeOK
<1>2. Fs(s) /\ Tree(s) /\ SettleFs(s, len)
  BY <1>1 DEF SettleFs, Settles
<1> QED BY <1>2, SettleStep DEF VnodeTypes

(* do_chdir *)
Moved(p, v) ==
  /\ p \in alive /\ system = "up" /\ blocked[p] = NULL /\ v \in Dir
  /\ p_cwd' = [p_cwd EXCEPT ![p] = v]
  /\ UNCHANGED <<alive, p_files, fileVars, system, leaked>>
  /\ blocked' = [blocked EXCEPT ![p] = NULL]

(* Such a step preserves the invariant. *)
LEMMA MovedStep ==
  ASSUME IInv, NEW p, NEW v, Moved(p, v), NEW s, Settles(s),
         \A w \in Inode : s.rc[w] = vn_refcount[w] + One(v, w) - One(p_cwd[p], w)
  PROVE  IInv'
<1>1. /\ p \in alive /\ system = "up" /\ blocked[p] = NULL /\ v \in Dir
      /\ p_cwd' = [p_cwd EXCEPT ![p] = v]
      /\ alive' = alive /\ p_files' = p_files /\ system' = system
      /\ f_refcount' = f_refcount /\ f_vnode' = f_vnode /\ f_mode' = f_mode /\ f_pos' = f_pos
      /\ blocked' = [blocked EXCEPT ![p] = NULL] /\ leaked' = leaked
  BY DEF Moved, fileVars
<1>2. p \in Proc /\ alive \subseteq Proc /\ p_cwd \in [Proc -> Dir \cup {NULL}] /\ blocked \in [Proc -> InFile \cup InDirectory \cup {NULL}]
  BY <1>1 DEF IInv, FilesTypeOK
<1>3. blocked' = blocked /\ p_cwd'[p] = v /\ (\A r \in Proc \ {p} : p_cwd'[r] = p_cwd[r]) /\ p_cwd' \in [Proc -> Dir \cup {NULL}]
  BY <1>1, <1>2
<1>4. VnodeTypes' /\ DirsOK' /\ vn_refcount' = s.rc
  BY SettlesStep
<1>5. RefsExact' /\ \A w \in Inode : vn_refcount'[w] \in Nat
  <2>1. SameCalls(p)
    BY <1>1, <1>2, <1>3 DEF SameCalls
  <2>2. ASSUME NEW w \in Inode
        PROVE  /\ vn_refcount'[w] \in Int
               /\ vn_refcount'[w] - vn_refcount[w] = VnodeUses(w)' - VnodeUses(w)
    <3>1. /\ VnodeUses(w)' = VnodeUses(w) + If(p \in alive' /\ p_cwd'[p] = w) - If(p \in alive /\ p_cwd[p] = w)
                                    + VnodeCount(f_vnode', w) - VnodeCount(f_vnode, w)
          /\ VnodeUses(w) \in Nat /\ VnodeCount(f_vnode', w) \in Nat /\ VnodeCount(f_vnode, w) \in Nat
      BY <2>1, CwdUsesStep
    <3>2. If(p \in alive' /\ p_cwd'[p] = w) = One(v, w) /\ If(p \in alive /\ p_cwd[p] = w) = One(p_cwd[p], w)
      BY <1>1, <1>3 DEF If, One
    <3>3. One(v, w) \in {0, 1} /\ One(p_cwd[p], w) \in {0, 1} /\ vn_refcount[w] \in Int
      BY BUseTypes, IntCounts
    <3>4. vn_refcount'[w] = vn_refcount[w] + One(v, w) - One(p_cwd[p], w) /\ f_vnode' = f_vnode
      BY <1>1, <1>4
    <3> QED BY <3>1, <3>2, <3>3, <3>4
  <2> QED BY <1>1, <1>2, <2>2, RefsSame
<1>6. FilesTypeOK'
  <2>1. vn_refcount' \in [Inode -> Nat] /\ leaked' \in [Inode -> Nat]
    BY <1>1, <1>4, <1>5 DEF VnodeTypes, IInv, FilesTypeOK
  <2> QED BY <1>1, <1>3, <1>4, <2>1 DEF FilesTypeOK, VnodeTypes, IInv
<1>7. HoldersAlive'
  <2>1. \A q \in Proc : IF q \in alive THEN p_cwd[q] \in Dir
                        ELSE p_files[q] = NoFiles /\ blocked[q] = NULL
    BY DEF IInv, HoldersAlive
  <2>2. \A q \in Proc : IF q \in alive' THEN p_cwd'[q] \in Dir
                        ELSE p_files'[q] = NoFiles /\ blocked'[q] = NULL
    BY <1>1, <1>2, <1>3, <2>1
  <2> QED BY <2>2 DEF HoldersAlive, NoFiles
<1>8. FilesAccounted'
  <2>1. \A h \in File : FileUses(h)' = FileUses(h)
    BY <1>1, <1>3, UsesAreCounts
  <2>2. \A h \in File : Accounted(h)'
    BY <1>1, <2>1 DEF IInv, FilesAccounted, Accounted
  <2> QED BY <1>1, <1>3, <2>2 DEF IInv, FilesAccounted, Accounted
<1>9. BlockedRelyOn'
  <2>1. \A q \in Proc : Rely(blocked[q], p_files[q])
    BY RelyOn DEF IInv
  <2>2. \A q \in Proc : Rely(blocked[q], p_files[q])'
    BY <1>1, <1>3, <2>1 DEF Rely
  <2> QED BY <2>2, RelyOn
<1>10. ShutdownFailsAfterLeaks'
  BY <1>1 DEF ShutdownFailsAfterLeaks
<1> QED BY <1>4, <1>5, <1>6, <1>7, <1>8, <1>9, <1>10 DEF IInv

(***************************************************************************)
(* do_chdir keeps the reference that lookup took and gives back the old    *)
(* one.                                                                    *)
(***************************************************************************)
LEMMA ChdirStep ==
  ASSUME IInv, NEW p \in Proc, do_chdir(p)
  PROVE  IInv'
<1>1. /\ Caller(p) /\ Base(p, fs) /\ p_cwd[p] \in Dir /\ Fs(fs) /\ p \in alive /\ system = "up" /\ blocked[p] = NULL
      /\ UNCHANGED <<alive, p_files, fileVars, system>>
  BY CallingFacts DEF do_chdir
<1>2. PICK path \in Path : \E d \in {dir_namev(fs, p_cwd[p], path)} :
       LET name == BaseName(path) IN
       \/ d.ret # "OK" /\ Return(p, d.s) /\ UNCHANGED p_cwd
       \/ d.ret = "OK" /\ name \in AtLimit /\ Return(p, vput(d.s, d.vn)) /\ UNCHANGED p_cwd
       \/ /\ d.ret = "OK" /\ name \notin AtLimit
          /\ \E r \in {lookup(d.s, d.vn, name)} :
               \/ r.ret # "OK" /\ Return(p, vput(r.s, d.vn)) /\ UNCHANGED p_cwd
               \/ /\ r.ret = "OK" /\ r.vn \notin Dir
                  /\ Return(p, vput(vput(r.s, d.vn), r.vn))
                  /\ UNCHANGED p_cwd
               \/ /\ r.ret = "OK" /\ r.vn \in Dir
                  /\ p_cwd' = [p_cwd EXCEPT ![p] = r.vn]
                  /\ Return(p, vput(vput(r.s, d.vn), p_cwd[p]))
  BY DEF do_chdir
<1> DEFINE d == dir_namev(fs, p_cwd[p], path)
           name == BaseName(path)
           r == lookup(d.s, d.vn, name)
<1>3. \/ d.ret # "OK" /\ d.s = fs
      \/ /\ d.ret = "OK" /\ d.vn \in Dir /\ d.s = vref(fs, d.vn) /\ vput(d.s, d.vn) = fs
         /\ BaseName(path) \in Name \cup {".", ""}
  BY <1>1, DirFound
<1>4. \/ d.ret # "OK" /\ Return(p, d.s) /\ UNCHANGED p_cwd
      \/ d.ret = "OK" /\ Return(p, vput(d.s, d.vn)) /\ UNCHANGED p_cwd
      \/ d.ret = "OK" /\ r.ret # "OK" /\ Return(p, vput(r.s, d.vn)) /\ UNCHANGED p_cwd
      \/ d.ret = "OK" /\ r.ret = "OK" /\ Return(p, vput(vput(r.s, d.vn), r.vn)) /\ UNCHANGED p_cwd
      \/ /\ d.ret = "OK" /\ r.ret = "OK" /\ r.vn \in Dir
         /\ p_cwd' = [p_cwd EXCEPT ![p] = r.vn]
         /\ Return(p, vput(vput(r.s, d.vn), p_cwd[p]))
  BY <1>2
<1>5. d.ret = "OK" => \/ r.ret # "OK" /\ vput(r.s, d.vn) = fs
                      \/ /\ r.ret = "OK" /\ r.vn \in Inode /\ vput(r.s, d.vn) = vref(fs, r.vn)
                         /\ vput(vput(r.s, d.vn), r.vn) = fs
  <2> SUFFICES ASSUME d.ret = "OK"
               PROVE  \/ r.ret # "OK" /\ vput(r.s, d.vn) = fs
                      \/ /\ r.ret = "OK" /\ r.vn \in Inode /\ vput(r.s, d.vn) = vref(fs, r.vn)
                         /\ vput(vput(r.s, d.vn), r.vn) = fs
    OBVIOUS
  <2> HIDE DEF d
  <2>1. r = lookup(vref(fs, d.vn), d.vn, name) /\ d.vn \in Dir /\ name \in Name \cup {".", ""}
    BY <1>3
  <2> HIDE DEF r, name
  <2>2. LookedUp(r, fs, d.vn, name)
    BY <1>1, <2>1, LookupFound
  <2>3. vput(vref(fs, d.vn), d.vn) = fs
    BY <1>3
  <2> QED BY <2>2, <2>3 DEF LookedUp
<1> HIDE DEF r, d, name
<1>6. CASE UNCHANGED p_cwd
  <2>1. UNCHANGED onlyFs
    BY <1>1, <1>6 DEF onlyFs
  <2>2. Return(p, fs) \/ (d.ret = "OK" /\ r.ret = "OK" /\ r.vn \in Dir /\ p_cwd' = [p_cwd EXCEPT ![p] = r.vn]
                           /\ Return(p, vput(vput(r.s, d.vn), p_cwd[p])))
    BY <1>3, <1>4, <1>5
  <2>3. CASE Return(p, fs)
    BY <1>1, <2>1, <2>3, ReturnStep
  <2>4. CASE /\ d.ret = "OK" /\ r.ret = "OK" /\ r.vn \in Dir /\ p_cwd' = [p_cwd EXCEPT ![p] = r.vn]
             /\ Return(p, vput(vput(r.s, d.vn), p_cwd[p]))
    <3>1. p_cwd[p] = r.vn
      <4>1. p_cwd \in [Proc -> Dir \cup {NULL}]
        BY DEF IInv, FilesTypeOK
      <4> QED BY <1>6, <2>4, <4>1
    <3>2. Return(p, fs)
      BY <1>5, <2>4, <3>1
    <3> QED BY <1>1, <2>1, <3>2, ReturnStep
  <2> QED BY <2>2, <2>3, <2>4
<1>7. CASE /\ d.ret = "OK" /\ r.ret = "OK" /\ r.vn \in Dir
           /\ p_cwd' = [p_cwd EXCEPT ![p] = r.vn]
           /\ Return(p, vput(vput(r.s, d.vn), p_cwd[p]))
  <2>1. PICK v \in Dir : v = r.vn
    BY <1>7
  <2> DEFINE c == p_cwd[p]
             s1 == vref(fs, v)
             s == vput(s1, c)
  <2>2. v \in Inode /\ c \in Inode
    BY <1>1 DEF Inode
  <2>3. Return(p, s)
    BY <1>5, <1>7, <2>1
  <2>4. Moved(p, v)
    BY <1>1, <1>7, <2>1, <2>3 DEF Moved, Return, Settle
  <2> HIDE DEF c
  <2>5. Fs(s1) /\ s1.ent = fs.ent /\ \A w \in Inode : s1.rc[w] = fs.rc[w] + One(v, w)
    BY <1>1, <2>2, RefFacts
  <2> HIDE DEF s1
  <2>6. Fs(s) /\ s.ent = s1.ent /\ \A w \in Inode : s.rc[w] = s1.rc[w] - One(c, w)
    BY <2>2, <2>5, RefFacts
  <2> HIDE DEF s
  <2>7. Tree(s)
    BY <2>5, <2>6, FsFacts, TreeEnt
  <2>8. Settles(s)
    BY <2>3, <2>6, <2>7 DEF Settles, Return, Settle
  <2>9. \A w \in Inode : s.rc[w] = vn_refcount[w] + One(v, w) - One(p_cwd[p], w)
    <3> TAKE w \in Inode
    <3>1. s.rc[w] = s1.rc[w] - One(c, w) /\ s1.rc[w] = fs.rc[w] + One(v, w) /\ fs.rc[w] = vn_refcount[w] /\ One(c, w) = One(p_cwd[p], w)
      BY <2>5, <2>6, FsFacts DEF c
    <3>2. vn_refcount[w] \in Int /\ One(v, w) \in {0, 1} /\ One(c, w) \in {0, 1}
      BY IntCounts, BUseTypes
    <3> QED BY ONLY <3>1, <3>2
  <2> QED BY ONLY IInv, <2>4, <2>8, <2>9, MovedStep
<1> QED BY <1>4, <1>6, <1>7
----------------------------------------------------------------------------
(***************************************************************************)
(* A new process q, with the files pf: none, or those of p.                *)
(***************************************************************************)
Slots(pf, f) == {fd \in FD : pf[fd] = f}

(* p creates q with the files pf. *)
NewProcess(p, q, pf) ==
  /\ p \in alive /\ system = "up" /\ system' = "up" /\ blocked[p] = NULL
  /\ q \in Proc \ alive /\ pf \in [FD -> File \cup {NULL}] /\ (pf = NoFiles \/ pf = p_files[p])
  /\ alive' = alive \cup {q} /\ p_cwd' = [p_cwd EXCEPT ![q] = p_cwd[p]]
  /\ p_files' = [p_files EXCEPT ![q] = pf]
  /\ \A f \in File : f_refcount'[f] = f_refcount[f] + Cardinality(Slots(pf, f))
  /\ f_refcount' \in [File -> Int]
  /\ UNCHANGED <<f_vnode, f_mode, f_pos, blocked>>

(***************************************************************************)
(* A file in a descriptor of p that is not blocked is referenced and has a *)
(* vnode.                                                                  *)
(***************************************************************************)
LEMMA SlotFacts ==
  ASSUME IInv, NEW p \in alive, blocked[p] = NULL,
         NEW pf \in [FD -> File \cup {NULL}], pf = NoFiles \/ pf = p_files[p], NEW f \in File
  PROVE  /\ Cardinality(Slots(pf, f)) \in Nat
         /\ Cardinality(Slots(pf, f)) # 0 =>
              f_refcount[f] = FileUses(f) /\ FileUses(f) >= 1 /\ f_vnode[f] # NULL
<1>1. IsFiniteSet(Slots(pf, f))
  BY FiniteConstants, FS_Subset DEF Slots
<1>2. Cardinality(Slots(pf, f)) \in Nat /\ (Cardinality(Slots(pf, f)) = 0 <=> Slots(pf, f) = {})
  BY <1>1, FS_EmptySet, FS_CardinalityType
<1>3. ASSUME Slots(pf, f) # {}
      PROVE  f_refcount[f] = FileUses(f) /\ FileUses(f) >= 1 /\ f_vnode[f] # NULL
  <2>1. PICK fd \in FD : pf[fd] = f
    BY <1>3 DEF Slots
  <2>2. NULL \notin File
    BY FilesAssumption
  <2>3. p_files[p][fd] = f
    BY <2>1, <2>2 DEF NoFiles
  <2>4. p_files[p][fd] # NULL
    BY <2>2, <2>3
  <2> QED BY <2>3, <2>4, OwnFile
<1> QED BY <1>2, <1>3

(***************************************************************************)
(* The new process preserves the invariant if its files and its working    *)
(* directory are referenced for it, the latter as often more as is leaked. *)
(***************************************************************************)
LEMMA NewProcessStep ==
  ASSUME IInv, NEW p, NEW q, NEW pf, NewProcess(p, q, pf), NEW s, Settles(s),
         leaked' \in [Inode -> Nat],
         \A w \in Inode : s.rc[w] - vn_refcount[w] = One(p_cwd[p], w) + leaked'[w] - leaked[w]
  PROVE  IInv'
<1>1. /\ p \in alive /\ system = "up" /\ system' = "up" /\ blocked[p] = NULL
      /\ q \in Proc \ alive /\ pf \in [FD -> File \cup {NULL}] /\ (pf = NoFiles \/ pf = p_files[p])
      /\ alive' = alive \cup {q} /\ p_cwd' = [p_cwd EXCEPT ![q] = p_cwd[p]]
      /\ p_files' = [p_files EXCEPT ![q] = pf]
      /\ f_refcount' \in [File -> Int]
      /\ f_vnode' = f_vnode /\ f_mode' = f_mode /\ f_pos' = f_pos /\ blocked' = blocked
  BY DEF NewProcess
<1>2. \A f \in File : f_refcount'[f] = f_refcount[f] + Cardinality(Slots(pf, f))
  BY DEF NewProcess
<1>3. /\ p \in Proc /\ alive \subseteq Proc /\ p_cwd \in [Proc -> Dir \cup {NULL}] /\ p_cwd[p] \in Dir
      /\ p_files \in [Proc -> [FD -> File \cup {NULL}]] /\ f_refcount \in [File -> Nat]
      /\ blocked[q] = NULL /\ NULL \notin File
  BY <1>1, InUse, FilesAssumption DEF IInv, FilesTypeOK, HoldersAlive
<1>4. /\ alive' \subseteq Proc /\ p_cwd' \in [Proc -> Dir \cup {NULL}] /\ p_cwd'[q] = p_cwd[p]
      /\ \A r \in Proc \ {q} : p_cwd'[r] = p_cwd[r] /\ p_files'[r] = p_files[r]
      /\ p_files' \in [Proc -> [FD -> File \cup {NULL}]] /\ p_files'[q] = pf
  BY <1>1, <1>3
<1> DEFINE n(f) == Cardinality(Slots(pf, f))
<1>5. \A f \in File : n(f) \in Nat /\ (n(f) # 0 => f_refcount[f] = FileUses(f) /\ FileUses(f) >= 1 /\ f_vnode[f] # NULL)
  BY <1>1, SlotFacts
<1>6. \A f \in File : f_refcount'[f] = f_refcount[f] + n(f)
  BY <1>2
<1>7. \A f \in File : FileUses(f)' = FileUses(f) + n(f)
  <2> TAKE f \in File
  <2>1. q \in Proc /\ alive \subseteq Proc /\ q \notin alive /\ \A r \in alive : p_files'[r] = p_files[r]
    BY <1>1, <1>3, <1>4
  <2>2. FdCount(alive \cup {q}, p_files', f) = FdCount(alive, p_files, f) + Cardinality({fd \in FD : p_files'[q][fd] = f})
    BY ONLY <2>1, FdsCounts
  <2>3. Cardinality({fd \in FD : p_files'[q][fd] = f}) = n(f)
    BY <1>4 DEF Slots
  <2>4. FileUses(f) = FdCount(alive, p_files, f) + CallCount(blocked, f)
        /\ FileUses(f)' = FdCount(alive', p_files', f) + CallCount(blocked', f)
    BY UsesAreCounts
  <2>5. FdCount(alive, p_files, f) \in Nat /\ CallCount(blocked, f) \in Nat /\ n(f) \in Nat
    BY <1>3, <1>5, CountTypes
  <2>6. alive' = alive \cup {q} /\ blocked' = blocked
    BY <1>1
  <2> HIDE DEF n
  <2> QED BY <2>2, <2>3, <2>4, <2>5, <2>6
<1> HIDE DEF n
<1>8. VnodeTypes' /\ DirsOK' /\ vn_refcount' = s.rc
  BY SettlesStep
<1>9. RefsExact' /\ \A w \in Inode : vn_refcount'[w] \in Nat
  <2>1. SameCalls(q)
    BY <1>1, <1>3, <1>4 DEF SameCalls
  <2>2. ASSUME NEW w \in Inode
        PROVE  /\ vn_refcount'[w] \in Int
               /\ vn_refcount'[w] - vn_refcount[w] = VnodeUses(w)' - VnodeUses(w) + leaked'[w] - leaked[w]
    <3>1. /\ VnodeUses(w)' = VnodeUses(w) + If(q \in alive' /\ p_cwd'[q] = w) - If(q \in alive /\ p_cwd[q] = w)
                                    + VnodeCount(f_vnode', w) - VnodeCount(f_vnode, w)
          /\ VnodeUses(w) \in Nat /\ VnodeCount(f_vnode', w) \in Nat /\ VnodeCount(f_vnode, w) \in Nat
      BY <2>1, CwdUsesStep
    <3>2. If(q \in alive' /\ p_cwd'[q] = w) = One(p_cwd[p], w) /\ If(q \in alive /\ p_cwd[q] = w) = 0
      BY <1>1, <1>4 DEF If, One
    <3>3. One(p_cwd[p], w) \in {0, 1} /\ vn_refcount[w] \in Int
      BY BUseTypes, IntCounts
    <3>4. /\ vn_refcount'[w] - vn_refcount[w] = One(p_cwd[p], w) + leaked'[w] - leaked[w]
          /\ leaked'[w] \in Int /\ leaked[w] \in Int
      BY <1>8 DEF IInv, FilesTypeOK
    <3>5. VnodeCount(f_vnode', w) = VnodeCount(f_vnode, w)
      BY <1>1
    <3>6. VnodeUses(w)' = VnodeUses(w) + One(p_cwd[p], w)
      BY <3>1, <3>2, <3>3, <3>5
    <3>7. vn_refcount'[w] \in Int
      BY <1>8 DEF VnodeTypes
    <3> QED BY ONLY <3>1, <3>3, <3>4, <3>6, <3>7
  <2> QED BY <1>4, <2>2, RefsStep
<1>10. FilesTypeOK'
  <2>1. vn_refcount' \in [Inode -> Nat]
    BY <1>8, <1>9 DEF VnodeTypes
  <2>2. f_refcount' \in [File -> Nat]
    <3>1. \A f \in File : f_refcount'[f] \in Nat
      BY <1>3, <1>5, <1>6
    <3> QED BY <1>1, <3>1
  <2> QED BY <1>1, <1>4, <1>8, <2>1, <2>2 DEF FilesTypeOK, VnodeTypes, IInv
<1>11. HoldersAlive'
  <2>1. \A r \in Proc : IF r \in alive THEN p_cwd[r] \in Dir
                        ELSE p_files[r] = NoFiles /\ blocked[r] = NULL
    BY DEF IInv, HoldersAlive
  <2>2. \A r \in Proc : IF r \in alive' THEN p_cwd'[r] \in Dir
                        ELSE p_files'[r] = NoFiles /\ blocked'[r] = NULL
    BY <1>1, <1>3, <1>4, <2>1
  <2> QED BY <2>2 DEF HoldersAlive, NoFiles
<1>12. FilesAccounted'
  <2>1. \A f \in File : Accounted(f)'
    <3> TAKE f \in File
    <3>1. Accounted(f) /\ FileUses(f) \in Nat
      BY InUse DEF IInv, FilesAccounted, Accounted
    <3>2. /\ f_refcount'[f] = f_refcount[f] + n(f) /\ FileUses(f)' = FileUses(f) + n(f) /\ n(f) \in Nat
          /\ n(f) # 0 => f_refcount[f] = FileUses(f) /\ FileUses(f) >= 1
          /\ f_refcount[f] \in Nat /\ f_vnode'[f] = f_vnode[f]
      BY <1>1, <1>3, <1>5, <1>6, <1>7
    <3>3. CASE n(f) = 0
      <4>1. f_refcount'[f] = f_refcount[f] /\ FileUses(f)' = FileUses(f)
        BY <3>1, <3>2, <3>3
      <4> QED BY <3>1, <3>2, <4>1 DEF Accounted
    <3>4. CASE n(f) # 0
      <4>1. f_refcount'[f] = FileUses(f)' /\ f_refcount'[f] # 0
        BY <3>1, <3>2, <3>4
      <4> QED BY <4>1 DEF Accounted
    <3> QED BY <3>3, <3>4
  <2>2. ASSUME NEW r \in alive', NEW fd \in FD, p_files'[r][fd] # NULL, f_vnode[p_files'[r][fd]] = NULL
        PROVE  blocked[r] # NULL /\ blocked[r].call = "do_open" /\ blocked[r].fd = fd
    <3>1. CASE r = q
      <4>1. pf[fd] # NULL /\ pf[fd] = p_files[p][fd] /\ f_vnode[pf[fd]] = NULL
        BY <1>1, <1>4, <2>2, <3>1 DEF NoFiles
      <4> QED BY <1>1, <4>1, OwnFile
    <3>2. CASE r # q
      <4>1. r \in alive /\ p_files'[r] = p_files[r]
        BY <1>1, <1>3, <1>4, <3>2
      <4> QED BY <2>2, <4>1 DEF IInv, FilesAccounted
    <3> QED BY <3>1, <3>2
  <2> QED BY <1>1, <2>1, <2>2 DEF FilesAccounted, Accounted
<1>13. BlockedRelyOn'
  <2>1. ASSUME NEW r \in Proc
        PROVE  Rely(blocked[r], p_files[r])'
    <3>1. CASE r = q
      BY <1>1, <1>3, <3>1 DEF Rely, FileCall, PathCall
    <3>2. CASE r # q
      <4>1. Rely(blocked[r], p_files[r])
        BY RelyOn DEF IInv
      <4>2. p_files'[r] = p_files[r] /\ blocked'[r] = blocked[r]
        BY <1>1, <1>4, <3>2
      <4>3. PathCall(blocked[r]) /\ blocked[r].call = "do_open" => f_refcount'[p_files[r][blocked[r].fd]] = 1
        <5> HAVE PathCall(blocked[r]) /\ blocked[r].call = "do_open"
        <5>1. PICK x \in File : x = p_files[r][blocked[r].fd] /\ f_vnode[x] = NULL /\ f_refcount[x] = 1
          BY OpenFile
        <5>2. n(x) = 0
          BY <1>5, <5>1
        <5>3. f_refcount'[x] = 1
          BY <1>6, <5>1, <5>2
        <5> QED BY <5>1, <5>3
      <4> QED BY <1>1, <4>1, <4>2, <4>3 DEF Rely
    <3> QED BY <3>1, <3>2
  <2> QED BY <2>1, RelyOn
<1>14. ShutdownFailsAfterLeaks'
  BY <1>1 DEF ShutdownFailsAfterLeaks
<1> QED BY <1>8, <1>9, <1>10, <1>11, <1>12, <1>13, <1>14 DEF IInv

(* proc_create references the working directory once. *)
LEMMA ProcCreateStep ==
  ASSUME IInv, NEW p \in Proc, proc_create(p)
  PROVE  IInv'
<1>1. /\ p \in alive /\ system = "up" /\ blocked[p] = NULL /\ p_cwd[p] \in Dir /\ Fs(fs)
      /\ f_refcount' = f_refcount
      /\ UNCHANGED <<p_files, f_vnode, f_mode, f_pos, blocked, system>>
  BY CallingFacts DEF proc_create, fileVars
<1>2. PICK q \in Proc \ alive : alive' = alive \cup {q} /\ p_cwd' = [p_cwd EXCEPT ![q] = p_cwd[p]]
  BY DEF proc_create
<1> DEFINE c == p_cwd[p]
           s == vref(fs, c)
<1>3. SettleFs(s, vn_len) /\ leaked' = leaked
  BY DEF proc_create, Settle
<1>4. c \in Inode
  BY <1>1 DEF Inode
<1>5. Fs(s) /\ s.ent = fs.ent /\ \A w \in Inode : s.rc[w] = fs.rc[w] + One(c, w)
  BY <1>1, <1>4, RefFacts
<1> HIDE DEF s
<1>6. Settles(s)
  BY <1>3, <1>5, FsFacts, TreeEnt DEF Settles
<1>7. \A w \in Inode : s.rc[w] - vn_refcount[w] = One(p_cwd[p], w) + leaked'[w] - leaked[w]
  <2> TAKE w \in Inode
  <2>1. s.rc[w] = vn_refcount[w] + One(p_cwd[p], w) /\ vn_refcount[w] \in Int /\ One(p_cwd[p], w) \in {0, 1}
    BY <1>5, FsFacts, IntCounts, BUseTypes
  <2>2. leaked'[w] = leaked[w] /\ leaked[w] \in Int
    BY <1>3 DEF IInv, FilesTypeOK
  <2> QED BY ONLY <2>1, <2>2
<1>12. leaked' \in [Inode -> Nat]
  BY <1>3 DEF IInv, FilesTypeOK
<1>8. p_files \in [Proc -> [FD -> File \cup {NULL}]] /\ f_refcount \in [File -> Nat] /\ NoFiles \in [FD -> File \cup {NULL}]
  BY DEF IInv, FilesTypeOK, NoFiles
<1>9. p_files' = [p_files EXCEPT ![q] = NoFiles]
  <2>1. p_files[q] = NoFiles
    BY DEF IInv, HoldersAlive
  <2> QED BY <1>1, <1>8, <2>1
<1>10. \A f \in File : f_refcount'[f] = f_refcount[f] + Cardinality(Slots(NoFiles, f))
  <2> TAKE f \in File
  <2>1. Slots(NoFiles, f) = {}
    BY FilesAssumption DEF Slots, NoFiles
  <2>2. Cardinality(Slots(NoFiles, f)) = 0
    BY <2>1, FS_EmptySet
  <2> QED BY <1>1, <1>8, <2>2
<1>11. NewProcess(p, q, NoFiles)
  <2>1. f_refcount' \in [File -> Int]
    BY <1>1, <1>8
  <2> QED BY <1>1, <1>2, <1>8, <1>9, <1>10, <2>1 DEF NewProcess
<1> QED BY ONLY IInv, <1>6, <1>7, <1>11, <1>12, NewProcessStep

(***************************************************************************)
(* do_fork references it twice, one of which is leaked, and each file once *)
(* for each descriptor.                                                    *)
(***************************************************************************)
LEMMA ForkStep ==
  ASSUME IInv, NEW p \in Proc, do_fork(p)
  PROVE  IInv'
<1>1. /\ p \in alive /\ system = "up" /\ blocked[p] = NULL /\ p_cwd[p] \in Dir /\ Fs(fs)
      /\ UNCHANGED <<f_vnode, f_mode, f_pos, blocked, system>>
  BY CallingFacts DEF do_fork, Calling
<1>2. PICK q \in Proc \ alive : /\ alive' = alive \cup {q} /\ p_cwd' = [p_cwd EXCEPT ![q] = p_cwd[p]]
                                /\ p_files' = [p_files EXCEPT ![q] = p_files[p]]
  BY DEF do_fork
<1> DEFINE c == p_cwd[p]
           s1 == vref(fs, c)
           s == vref(s1, c)
<1>3. SettleFs(s, vn_len) /\ Leak(c)
  BY DEF do_fork
<1>4. c \in Inode
  BY <1>1 DEF Inode
<1>5. Fs(s1) /\ s1.ent = fs.ent /\ \A w \in Inode : s1.rc[w] = fs.rc[w] + One(c, w)
  BY <1>1, <1>4, RefFacts
<1> HIDE DEF s1
<1>6. Fs(s) /\ s.ent = s1.ent /\ \A w \in Inode : s.rc[w] = s1.rc[w] + One(c, w)
  BY <1>4, <1>5, RefFacts
<1> HIDE DEF s
<1>7. Settles(s)
  BY <1>3, <1>5, <1>6, FsFacts, TreeEnt DEF Settles
<1>12. leaked' \in [Inode -> Nat] /\ \A w \in Inode : leaked'[w] = leaked[w] + One(c, w) /\ leaked[w] \in Int
  BY <1>3, <1>4, LeakStep
<1>8. \A w \in Inode : s.rc[w] - vn_refcount[w] = One(p_cwd[p], w) + leaked'[w] - leaked[w]
  <2> TAKE w \in Inode
  <2>1. /\ s.rc[w] = s1.rc[w] + One(p_cwd[p], w) /\ s1.rc[w] = vn_refcount[w] + One(p_cwd[p], w)
        /\ vn_refcount[w] \in Int /\ One(p_cwd[p], w) \in {0, 1}
    BY <1>5, <1>6, FsFacts, IntCounts, BUseTypes
  <2>2. leaked'[w] = leaked[w] + One(p_cwd[p], w) /\ leaked[w] \in Int
    BY <1>12
  <2> QED BY ONLY <2>1, <2>2
<1>9. p_files \in [Proc -> [FD -> File \cup {NULL}]] /\ f_refcount \in [File -> Nat]
  BY DEF IInv, FilesTypeOK
<1>10. f_refcount' = [f \in File |-> f_refcount[f] + Cardinality(Slots(p_files[p], f))]
  BY DEF do_fork, Held, Slots
<1>11. NewProcess(p, q, p_files[p])
  <2>1. p_files[p] \in [FD -> File \cup {NULL}]
    BY <1>9
  <2>2. \A f \in File : f_refcount'[f] = f_refcount[f] + Cardinality(Slots(p_files[p], f))
    BY <1>10
  <2>3. f_refcount' \in [File -> Int]
    <3>1. \A f \in File : Cardinality(Slots(p_files[p], f)) \in Nat
      BY <1>1, <2>1, SlotFacts
    <3> QED BY <1>9, <1>10, <3>1
  <2> QED BY <1>1, <1>2, <2>1, <2>2, <2>3 DEF NewProcess
<1> QED BY ONLY IInv, <1>7, <1>8, <1>11, <1>12, NewProcessStep
----------------------------------------------------------------------------
(***************************************************************************)
(* The end of a process, and of the system.                                *)
(***************************************************************************)
LEMMA ExitStep ==
  ASSUME IInv, NEW p \in Proc, do_exit(p)
  PROVE  IInv'
<1>1. /\ p \in alive /\ system = "up" /\ blocked[p] = NULL /\ p_cwd[p] \in Dir
      /\ alive' = alive \ {p} /\ blocked' = blocked /\ system' = system
  BY CallingFacts DEF do_exit
<1> DEFINE drop == Held(p)
           t == FputVnodes(fs, drop)
           c == p_cwd[p]
           s == vput(t, c)
<1>2. /\ fput(drop, f_pos) /\ SettleFs(s, vn_len) /\ leaked' = leaked
      /\ p_files' = [p_files EXCEPT ![p] = NoFiles] /\ p_cwd' = [p_cwd EXCEPT ![p] = NULL]
  BY DEF do_exit, proc_cleanup, Settle
<1>3. /\ alive \subseteq Proc /\ p_cwd \in [Proc -> Dir \cup {NULL}]
      /\ p_files \in [Proc -> [FD -> File \cup {NULL}]] /\ NoFiles \in [FD -> File \cup {NULL}]
      /\ NULL \notin File /\ c \in Inode /\ blocked \in [Proc -> InFile \cup InDirectory \cup {NULL}]
  BY <1>1, FilesAssumption DEF IInv, FilesTypeOK, Inode, NoFiles
<1>4. /\ alive' \subseteq Proc /\ p_cwd' \in [Proc -> Dir \cup {NULL}]
      /\ \A r \in Proc \ {p} : p_cwd'[r] = p_cwd[r] /\ p_files'[r] = p_files[r]
      /\ p_files' \in [Proc -> [FD -> File \cup {NULL}]] /\ p_files'[p] = NoFiles
  BY <1>1, <1>2, <1>3
<1>5. \A f \in File : drop[f] = Cardinality(Slots(p_files[p], f))
  BY DEF Held, Slots
<1>6. \A f \in File : drop[f] \in Nat /\ (drop[f] # 0 => FileUses(f) >= 1 /\ f_vnode[f] # NULL)
  <2>1. p_files[p] \in [FD -> File \cup {NULL}]
    BY <1>3
  <2> HIDE DEF drop
  <2> QED BY <1>1, <1>5, <2>1, SlotFacts
<1>7. drop \in [File -> Int]
  <2>1. drop = [f \in File |-> drop[f]]
    BY DEF Held
  <2> HIDE DEF drop
  <2> QED BY <1>6, <2>1
<1> HIDE DEF drop
<1>8. \A f \in File : FileUses(f)' = FileUses(f) - drop[f]
  <2> TAKE f \in File
  <2>1. p \in Proc /\ alive' \subseteq Proc /\ p \notin alive' /\ \A r \in alive' : p_files[r] = p_files'[r]
    BY <1>1, <1>3, <1>4
  <2>2. FdCount(alive' \cup {p}, p_files, f) = FdCount(alive', p_files', f) + Cardinality({fd \in FD : p_files[p][fd] = f})
    BY ONLY <2>1, FdsCounts
  <2>3. Cardinality({fd \in FD : p_files[p][fd] = f}) = drop[f]
    BY <1>5 DEF Slots
  <2>4. FileUses(f) = FdCount(alive, p_files, f) + CallCount(blocked, f)
        /\ FileUses(f)' = FdCount(alive', p_files', f) + CallCount(blocked', f)
    BY UsesAreCounts
  <2>5. FdCount(alive', p_files', f) \in Nat /\ CallCount(blocked, f) \in Nat /\ drop[f] \in Nat
    BY <1>4, <1>6, CountTypes
  <2>6. alive' \cup {p} = alive /\ blocked' = blocked
    BY <1>1
  <2>7. FdCount(alive, p_files, f) = FdCount(alive', p_files', f) + drop[f] /\ CallCount(blocked', f) = CallCount(blocked, f)
    BY <2>2, <2>3, <2>6
  <2> QED BY ONLY <2>4, <2>5, <2>7
<1>9. PICK pos \in [File -> 0..MaxPos] : pos = f_pos
  BY DEF IInv, FilesTypeOK
<1>10. fput(drop, pos)
  BY <1>2, <1>9 DEF fput
<1>11. \A f \in File : FileUses(f)' = FileUses(f) - drop[f] /\ (drop[f] # 0 => FileUses(f) >= 1)
  BY <1>6, <1>8
<1>12. /\ f_refcount' \in [File -> Nat] /\ f_vnode' \in [File -> Inode \cup {NULL}]
       /\ f_mode' \in [File -> SUBSET {"READ", "WRITE", "APPEND"}] /\ f_pos' \in [File -> 0..MaxPos]
       /\ \A f \in File : /\ Accounted(f)'
                          /\ FileUses(f)' >= 1 => f_vnode'[f] = f_vnode[f]
                          /\ drop[f] = 0 => f_vnode'[f] = f_vnode[f] /\ f_refcount'[f] = f_refcount[f]
       /\ Fs(t) /\ Tree(t)
       /\ \A v \in Inode : t.rc[v] = vn_refcount[v] + VnodeCount(f_vnode', v) - VnodeCount(f_vnode, v)
  BY <1>4, <1>7, <1>10, <1>11, FputStep
<1>22. /\ Fs(t) /\ Tree(t)
       /\ \A v \in Inode : t.rc[v] = vn_refcount[v] + VnodeCount(f_vnode', v) - VnodeCount(f_vnode, v)
  BY ONLY <1>12
<1> HIDE DEF t
<1>23. c \in Inode
  BY <1>3
<1> HIDE DEF c
<1>13. Fs(s) /\ s.ent = t.ent /\ \A w \in Inode : s.rc[w] = t.rc[w] - One(c, w)
  <2>1. Fs(t) /\ c \in Inode
    BY <1>22, <1>23
  <2> QED BY ONLY <2>1, RefFacts
<1> HIDE DEF s
<1>14. Settles(s)
  <2>1. Tree(s)
    <3>1. Tree(t) /\ s.ent = t.ent
      BY <1>13, <1>22
    <3> QED BY ONLY <3>1, TreeEnt
  <2> QED BY <1>2, <1>13, <2>1 DEF Settles
<1>15. VnodeTypes' /\ DirsOK' /\ vn_refcount' = s.rc
  BY <1>14, SettlesStep
<1>16. RefsExact' /\ \A w \in Inode : vn_refcount'[w] \in Nat
  <2>1. SameCalls(p)
    BY <1>1, <1>3, <1>4 DEF SameCalls
  <2>2. ASSUME NEW w \in Inode
        PROVE  /\ vn_refcount'[w] \in Int
               /\ vn_refcount'[w] - vn_refcount[w] = VnodeUses(w)' - VnodeUses(w)
    <3>1. /\ VnodeUses(w)' = VnodeUses(w) + If(p \in alive' /\ p_cwd'[p] = w) - If(p \in alive /\ p_cwd[p] = w)
                                    + VnodeCount(f_vnode', w) - VnodeCount(f_vnode, w)
          /\ VnodeUses(w) \in Nat /\ VnodeCount(f_vnode', w) \in Nat /\ VnodeCount(f_vnode, w) \in Nat
      BY <2>1, CwdUsesStep
    <3>2. If(p \in alive' /\ p_cwd'[p] = w) = 0 /\ If(p \in alive /\ p_cwd[p] = w) = One(c, w)
      BY <1>1 DEF If, One, c
    <3>3. One(c, w) \in {0, 1} /\ vn_refcount[w] \in Int
      BY BUseTypes, IntCounts
    <3>4. vn_refcount'[w] = t.rc[w] - One(c, w) /\ t.rc[w] = vn_refcount[w] + VnodeCount(f_vnode', w) - VnodeCount(f_vnode, w)
      <4>1. vn_refcount'[w] = s.rc[w]
        BY <1>15
      <4>2. s.rc[w] = t.rc[w] - One(c, w)
        BY <1>13
      <4>3. t.rc[w] = vn_refcount[w] + VnodeCount(f_vnode', w) - VnodeCount(f_vnode, w)
        BY <1>22
      <4> QED BY ONLY <4>1, <4>2, <4>3
    <3> QED BY ONLY <3>1, <3>2, <3>3, <3>4
  <2> QED BY <1>2, <1>4, <2>2, RefsSame
<1>17. FilesTypeOK'
  <2>1. vn_refcount' \in [Inode -> Nat] /\ leaked' \in [Inode -> Nat]
    BY <1>2, <1>15, <1>16 DEF VnodeTypes, IInv, FilesTypeOK
  <2> QED BY <1>1, <1>3, <1>4, <1>12, <1>15, <2>1 DEF FilesTypeOK, VnodeTypes
<1>18. HoldersAlive'
  <2>1. \A r \in Proc : IF r \in alive THEN p_cwd[r] \in Dir
                        ELSE p_files[r] = NoFiles /\ blocked[r] = NULL
    BY DEF IInv, HoldersAlive
  <2>2. \A r \in Proc : IF r \in alive' THEN p_cwd'[r] \in Dir
                        ELSE p_files'[r] = NoFiles /\ blocked'[r] = NULL
    BY <1>1, <1>3, <1>4, <2>1
  <2> QED BY <2>2 DEF HoldersAlive, NoFiles
<1>19. FilesAccounted'
  <2>1. ASSUME NEW r \in alive', NEW fd \in FD, p_files'[r][fd] # NULL, f_vnode'[p_files'[r][fd]] = NULL
        PROVE  blocked[r] # NULL /\ blocked[r].call = "do_open" /\ blocked[r].fd = fd
    <3>1. PICK x : x = p_files'[r][fd]
      OBVIOUS
    <3>2. r \in alive /\ r \in Proc /\ p_files[r][fd] = x /\ x \in File
      BY <1>1, <1>3, <1>4, <2>1, <3>1
    <3>3. FileUses(x)' >= 1
      BY <1>4, <3>1, UsesNat
    <3>4. f_vnode[x] = NULL
      BY <1>12, <2>1, <3>1, <3>2, <3>3
    <3> QED BY <2>1, <3>1, <3>2, <3>4 DEF IInv, FilesAccounted
  <2> QED BY <1>1, <1>12, <2>1 DEF FilesAccounted, Accounted
<1>20. BlockedRelyOn'
  <2>1. ASSUME NEW r \in Proc
        PROVE  Rely(blocked[r], p_files[r])'
    <3>1. CASE r = p
      BY <1>1, <3>1 DEF Rely, FileCall, PathCall
    <3>2. CASE r # p
      <4>1. Rely(blocked[r], p_files[r])
        BY RelyOn DEF IInv
      <4>2. p_files'[r] = p_files[r] /\ blocked'[r] = blocked[r]
        BY <1>1, <1>4, <3>2
      <4>3. FileCall(blocked[r]) => f_vnode'[blocked[r].file] # NULL
        <5> HAVE FileCall(blocked[r])
        <5>1. PICK x \in File : x = blocked[r].file /\ f_vnode[x] \in Inode
          BY InUse
        <5>2. FileUses(x)' >= 1
          BY <1>4, <4>2, <5>1, UsesNat
        <5>3. f_vnode'[x] # NULL
          BY <1>12, <5>1, <5>2, NamevAssumption
        <5> QED BY <5>1, <5>3
      <4>4. PathCall(blocked[r]) /\ blocked[r].call = "do_open" =>
              f_vnode'[p_files[r][blocked[r].fd]] = NULL /\ f_refcount'[p_files[r][blocked[r].fd]] = 1
        <5> HAVE PathCall(blocked[r]) /\ blocked[r].call = "do_open"
        <5>1. PICK x \in File : x = p_files[r][blocked[r].fd] /\ f_vnode[x] = NULL /\ f_refcount[x] = 1
          BY OpenFile
        <5>2. drop[x] = 0
          BY <1>6, <5>1
        <5>3. f_vnode'[x] = NULL /\ f_refcount'[x] = 1
          BY <1>12, <5>1, <5>2
        <5> QED BY <5>1, <5>3
      <4> QED BY <4>1, <4>2, <4>3, <4>4 DEF Rely
    <3> QED BY <3>1, <3>2
  <2> QED BY <2>1, RelyOn
<1>21. ShutdownFailsAfterLeaks'
  BY <1>1 DEF ShutdownFailsAfterLeaks
<1> QED BY <1>15, <1>16, <1>17, <1>18, <1>19, <1>20, <1>21 DEF IInv

(* Without processes nothing is used but the root. *)
LEMMA NothingUsed ==
  ASSUME IInv, alive = {}
  PROVE  /\ \A v \in Inode : VnodeUses(v) = RootCount(system, v)
         /\ \A p \in Proc : blocked[p] = NULL
<1>1. \A p \in Proc : blocked[p] = NULL
  BY DEF IInv, HoldersAlive
<1>2. \A v : CwdSet(alive, p_cwd, v) = {} /\ DirSet(blocked, v) = {} /\ VnSet(blocked, v) = {}
  BY <1>1 DEF CwdSet, DirSet, VnSet, PathCall
<1>3. \A f : FdSet(alive, p_files, f) = {} /\ CallSet(blocked, f) = {}
  BY <1>1 DEF FdSet, CallSet, FileCall
<1>4. \A f : FileUses(f) = 0
  <2> TAKE f
  <2>1. FdCount(alive, p_files, f) = 0 /\ CallCount(blocked, f) = 0
    BY <1>3, FS_EmptySet DEF FdCount, CallCount
  <2> QED BY <2>1, UsesAreCounts
<1>5. \A f \in File : f_vnode[f] = NULL
  BY <1>4 DEF IInv, FilesAccounted
<1>6. \A v \in Inode : VnodeSet(f_vnode, v) = {}
  BY <1>5, NamevAssumption DEF VnodeSet
<1>7. \A v \in Inode : VnodeUses(v) = RootCount(system, v)
  <2> TAKE v \in Inode
  <2>1. /\ CwdCount(alive, p_cwd, v) = 0 /\ DirCount(blocked, v) = 0 /\ VnCount(blocked, v) = 0
        /\ VnodeCount(f_vnode, v) = 0
    BY <1>2, <1>6, FS_EmptySet DEF CwdCount, DirCount, VnCount, VnodeCount
  <2>2. RootCount(system, v) \in Nat
    BY DEF RootCount
  <2>3. VnodeUses(v) = RootCount(system, v) + CwdCount(alive, p_cwd, v) + VnodeCount(f_vnode, v)
                           + DirCount(blocked, v) + VnCount(blocked, v)
    BY UsesAreCounts
  <2> QED BY <2>1, <2>2, <2>3
<1> QED BY <1>1, <1>7

(***************************************************************************)
(* The shutdown: idle gives back the root; with exact counts nothing else  *)
(* is referenced.                                                          *)
(***************************************************************************)
LEMMA ShutdownStep ==
  ASSUME IInv, idleproc_run_shutdown
  PROVE  IInv'
<1>1. /\ system = "up" /\ alive = {} /\ alive' = alive /\ p_files' = p_files /\ p_cwd' = p_cwd /\ blocked' = blocked
      /\ f_refcount' = f_refcount /\ f_vnode' = f_vnode /\ f_mode' = f_mode /\ f_pos' = f_pos
  BY DEF idleproc_run_shutdown, fileVars
<1> DEFINE s == vput(fs, root)
<1>2. SettleFs(s, vn_len) /\ leaked' = leaked /\ system' = IF vfs_is_in_use(s) THEN "failed" ELSE "halted"
  BY DEF idleproc_run_shutdown, Settle
<1>3. Fs(s) /\ s.ent = fs.ent /\ \A w \in Inode : s.rc[w] = fs.rc[w] - One(root, w)
  <2>1. Fs(fs) /\ root \in Inode
    BY FsFacts, NamevAssumption DEF Inode
  <2> QED BY ONLY <2>1, RefFacts
<1> HIDE DEF s
<1>4. Settles(s)
  BY <1>2, <1>3, FsFacts, TreeEnt DEF Settles
<1>5. VnodeTypes' /\ DirsOK' /\ vn_refcount' = s.rc
  BY <1>4, SettlesStep
<1>6. system' \in {"failed", "halted"}
  BY <1>2
<1>7. RefsExact' /\ \A w \in Inode : vn_refcount'[w] \in Nat
  <2>1. ASSUME NEW w \in Inode
        PROVE  /\ vn_refcount'[w] \in Int
               /\ vn_refcount'[w] - vn_refcount[w] = VnodeUses(w)' - VnodeUses(w)
    <3>1. /\ VnodeUses(w) = RootCount(system, w) + CwdCount(alive, p_cwd, w) + VnodeCount(f_vnode, w)
                           + DirCount(blocked, w) + VnCount(blocked, w)
          /\ VnodeUses(w)' = RootCount(system', w) + CwdCount(alive, p_cwd, w) + VnodeCount(f_vnode, w)
                           + DirCount(blocked, w) + VnCount(blocked, w)
      BY <1>1, UsesAreCounts
    <3>2. /\ CwdCount(alive, p_cwd, w) \in Nat /\ VnodeCount(f_vnode, w) \in Nat
          /\ DirCount(blocked, w) \in Nat /\ VnCount(blocked, w) \in Nat
      BY <1>1, CountTypes
    <3>3. RootCount(system, w) = 2 * One(root, w) /\ RootCount(system', w) = One(root, w) /\ One(root, w) \in {0, 1}
      BY <1>1, <1>6 DEF RootCount, One
    <3>4. vn_refcount'[w] = vn_refcount[w] - One(root, w) /\ vn_refcount[w] \in Int
      BY <1>3, <1>5, FsFacts, IntCounts
    <3> QED BY ONLY <3>1, <3>2, <3>3, <3>4
  <2>2. alive' \subseteq Proc
    BY <1>1
  <2> QED BY <1>2, <2>1, <2>2, RefsSame
<1>8. FilesTypeOK'
  <2>1. vn_refcount' \in [Inode -> Nat] /\ leaked' \in [Inode -> Nat]
    BY <1>2, <1>5, <1>7 DEF VnodeTypes, IInv, FilesTypeOK
  <2> QED BY <1>1, <1>5, <1>6, <2>1 DEF FilesTypeOK, VnodeTypes, IInv
<1>9. HoldersAlive'
  BY <1>1 DEF IInv, HoldersAlive, NoFiles
<1>10. FilesAccounted'
  <2>1. \A h \in File : FileUses(h)' = FileUses(h)
    BY <1>1, UsesAreCounts
  <2>2. \A h \in File : Accounted(h)'
    BY <1>1, <2>1 DEF IInv, FilesAccounted, Accounted
  <2> QED BY <1>1, <2>2 DEF FilesAccounted, Accounted
<1>11. BlockedRelyOn'
  <2>1. \A q \in Proc : blocked'[q] = NULL
    BY <1>1, NothingUsed
  <2> QED BY <2>1 DEF BlockedRelyOn, InFileCall, InPathCall
<1>12. ShutdownFailsAfterLeaks'
  <2>1. ASSUME NEW w \in Inode
        PROVE  s.rc[w] > (IF w = root THEN 1 ELSE 0) <=> leaked'[w] > 0
    <3>1. s.rc[w] = vn_refcount[w] - One(root, w)
      BY <1>3, FsFacts
    <3>2. vn_refcount[w] = (IF w = root THEN 2 ELSE 0) + leaked[w]
      BY <1>1, NothingUsed DEF IInv, RefsExact, RootCount
    <3>3. leaked'[w] = leaked[w] /\ leaked[w] \in Nat
      BY <1>2 DEF IInv, FilesTypeOK
    <3> QED BY <3>1, <3>2, <3>3 DEF One
  <2>2. vfs_is_in_use(s) <=> \E w \in Inode : leaked'[w] > 0
    BY <2>1 DEF vfs_is_in_use
  <2>3. \A w \in Inode : leaked'[w] \in Nat
    BY <1>2 DEF IInv, FilesTypeOK
  <2> QED BY <1>2, <2>2, <2>3 DEF ShutdownFailsAfterLeaks
<1> QED BY <1>5, <1>7, <1>8, <1>9, <1>10, <1>11, <1>12 DEF IInv
----------------------------------------------------------------------------
(***************************************************************************)
(* The initial states.                                                     *)
(***************************************************************************)
(* At the start every count is 0 but the root's.                           *)
LEMMA InitUses ==
  ASSUME FilesInit
  PROVE  /\ \A v \in Inode : vn_refcount[v] = VnodeUses(v)
         /\ \A f \in File : FileUses(f) = 0
<1>1. /\ alive = {first} /\ p_cwd[first] = root /\ first \in Proc /\ system = "up" /\ NULL \notin Inode /\ NULL \notin File
      /\ \A f \in File : f_vnode[f] = NULL
      /\ \A p \in Proc : blocked[p] = NULL /\ p_files[p] = NoFiles
      /\ \A v \in Inode : vn_refcount[v] = IF v = root THEN 3 ELSE 0
  BY FilesAssumption, NamevAssumption DEF FilesInit
<1>2. ASSUME NEW v \in Inode
      PROVE  vn_refcount[v] = VnodeUses(v)
  <2>1. CwdSet(alive, p_cwd, v) = IF v = root THEN {first} ELSE {}
    BY <1>1 DEF CwdSet
  <2>2. VnodeSet(f_vnode, v) = {} /\ DirSet(blocked, v) = {} /\ VnSet(blocked, v) = {}
    BY <1>1 DEF VnodeSet, DirSet, VnSet, PathCall
  <2>3. /\ CwdCount(alive, p_cwd, v) = IF v = root THEN 1 ELSE 0
        /\ VnodeCount(f_vnode, v) = 0 /\ DirCount(blocked, v) = 0 /\ VnCount(blocked, v) = 0
    BY <2>1, <2>2, FS_EmptySet, FS_Singleton DEF CwdCount, VnodeCount, DirCount, VnCount
  <2>4. RootCount(system, v) = IF v = root THEN 2 ELSE 0
    BY <1>1 DEF RootCount
  <2>5. VnodeUses(v) = RootCount(system, v) + CwdCount(alive, p_cwd, v) + VnodeCount(f_vnode, v)
                           + DirCount(blocked, v) + VnCount(blocked, v)
    BY UsesAreCounts
  <2> QED BY <1>1, <2>3, <2>4, <2>5
<1>3. ASSUME NEW f \in File
      PROVE  FileUses(f) = 0
  <2>1. FdSet(alive, p_files, f) = {} /\ CallSet(blocked, f) = {}
    <3>1. \A u \in alive \X FD : p_files[u[1]][u[2]] = NULL
      BY <1>1 DEF NoFiles
    <3> QED BY <1>1, <3>1 DEF FdSet, CallSet, FileCall
  <2>2. FdCount(alive, p_files, f) = 0 /\ CallCount(blocked, f) = 0
    BY <2>1, FS_EmptySet DEF FdCount, CallCount
  <2> QED BY <2>2, UsesAreCounts
<1> QED BY <1>2, <1>3

(* The invariant holds initially. *)
LEMMA InitInv == FilesInit => IInv
<1> SUFFICES ASSUME FilesInit PROVE IInv
  OBVIOUS
<1>0. root \in Dir /\ NULL \notin Inode /\ Dir \subseteq Inode /\ first \in Proc /\ MaxPos \in Nat /\ NULL \notin File
  BY NamevAssumption, FilesAssumption DEF Inode
<1>1. EmptyDir \in [Name -> Inode \cup {NULL}] /\ [EmptyDir EXCEPT ![".."] = root] \in [Name -> Inode \cup {NULL}]
  BY <1>0 DEF EmptyDir
<1>2. NoFiles \in [FD -> File \cup {NULL}]
  BY DEF NoFiles
<1>3. FilesTypeOK
  <2>1. /\ alive \subseteq Proc
        /\ p_files \in [Proc -> [FD -> File \cup {NULL}]]
        /\ p_cwd \in [Proc -> Dir \cup {NULL}]
    BY <1>0, <1>2 DEF FilesInit
  <2>2. /\ f_refcount \in [File -> Nat]
        /\ f_vnode \in [File -> Inode \cup {NULL}]
        /\ f_mode \in [File -> SUBSET {"READ", "WRITE", "APPEND"}]
        /\ f_pos \in [File -> 0..MaxPos]
    BY <1>0 DEF FilesInit
  <2>3. /\ vn_refcount \in [Inode -> Nat] /\ leaked \in [Inode -> Nat]
        /\ vn_len \in [Inode -> 0..MaxPos]
        /\ dirents \in [Dir -> [Name -> Inode \cup {NULL}]]
    BY <1>0, <1>1 DEF FilesInit
  <2>4. blocked \in [Proc -> InFile \cup InDirectory \cup {NULL}] /\ system \in {"up", "assert", "failed", "halted"}
    BY DEF FilesInit
  <2> QED BY <2>1, <2>2, <2>3, <2>4 DEF FilesTypeOK
<1>4. RefsExact
  <2>1. \A v \in Inode : vn_refcount[v] \in Nat /\ leaked[v] = 0
    BY <1>3 DEF FilesTypeOK, FilesInit
  <2> QED BY <2>1, InitUses DEF RefsExact
<1>5. \A d \in Dir : dirents[d] = IF d = root THEN [EmptyDir EXCEPT ![".."] = root] ELSE EmptyDir
  BY DEF FilesInit
<1>6. DirsOK
  <2>1. ASSUME NEW e \in Dir, NEW n \in Plain PROVE dirents[e][n] = NULL
    BY <1>5 DEF Plain, EmptyDir
  <2>2. Tree(fs)
    BY <1>0, <2>1 DEF Tree, fs
  <2>3. FreeDirsEmpty
    BY <1>5 DEF FreeDirsEmpty, FreeInodes, Linked
  <2> QED BY <2>2, <2>3 DEF DirsOK
<1>7. HoldersAlive
  BY <1>0 DEF FilesInit, HoldersAlive
<1>8. FilesAccounted
  <2>1. \A f \in File : f_refcount[f] = FileUses(f) /\ f_vnode[f] = NULL
    BY InitUses DEF FilesInit
  <2>2. \A p \in alive, fd \in FD : p_files[p][fd] = NULL
    BY <1>0 DEF FilesInit, NoFiles
  <2> QED BY <2>1, <2>2 DEF FilesAccounted
<1>9. BlockedRelyOn
  BY DEF FilesInit, BlockedRelyOn, InFileCall, InPathCall
<1>10. ShutdownFailsAfterLeaks
  BY DEF FilesInit, ShutdownFailsAfterLeaks
<1> QED BY <1>3, <1>4, <1>6, <1>7, <1>8, <1>9, <1>10 DEF IInv
----------------------------------------------------------------------------
(***************************************************************************)
(* The steps.                                                              *)
(***************************************************************************)
LEMMA NextStep ==
  ASSUME IInv, FilesNext
  PROVE  IInv'
<1>1. CASE idleproc_run_shutdown
  BY <1>1, ShutdownStep
<1>2. ASSUME NEW p \in Proc, do_open(p) \/ do_open_fails(p) \/ do_open_create(p) \/ do_open_created(p)
                             \/ do_open_invalid(p)
      PROVE  IInv'
  BY <1>2, OpenExistsStep, OpenFailsStep, OpenCreateStep, OpenCreatedStep, OpenInvalidStep
<1>3. ASSUME NEW p \in Proc, do_close(p) \/ do_dup(p) \/ do_dup2(p) \/ do_lseek(p)
      PROVE  IInv'
  BY <1>3, CloseStep, DupStep, Dup2Step, SeekStep
<1>4. ASSUME NEW p \in Proc, \/ do_read(p) \/ do_getdent(p) \/ do_write(p)
                             \/ do_read_returns(p) \/ do_write_returns(p) \/ do_write_fails(p)
      PROVE  IInv'
  BY <1>4, EnterFilesStep, FileReturns
<1>5. ASSUME NEW p \in Proc, do_mkdir(p) \/ do_mknod(p) \/ MakeNodeReturns(p)
      PROVE  IInv'
  BY <1>5, MakeNodeStep, MakeNodeReturnsStep DEF do_mkdir, do_mknod
<1>6. ASSUME NEW p \in Proc, do_rmdir(p) \/ do_rmdir_returns(p) \/ do_unlink_returns(p) \/ do_link_returns(p)
      PROVE  IInv'
  BY <1>6, RmdirStep, RmdirReturnsStep, UnlinkReturnsStep, LinkReturnsStep
<1>7. ASSUME NEW p \in Proc, do_unlink(p)
      PROVE  IInv'
  <2>1. Caller(p) /\ Base(p, fs) /\ p_cwd[p] \in Dir
    BY <1>7, CallingFacts DEF do_unlink
  <2>2. PICK path \in Path : Unlink(p, fs, path)
    BY <1>7 DEF do_unlink
  <2>3. UNCHANGED onlyFs
    BY <1>7 DEF do_unlink
  <2> QED BY <2>1, <2>2, <2>3, UnlinkStep
<1>8. ASSUME NEW p \in Proc, do_link(p) \/ do_rename(p)
      PROVE  IInv'
  <2>1. PICK call \in {"do_link", "do_rename"}, from \in LinkPath, to \in LinkPath :
          Calling(p, call) /\ Link(p, call, from, to) /\ UNCHANGED onlyFs
    BY <1>8 DEF do_link, do_rename
  <2> QED BY <2>1, LinkStep
<1>9. ASSUME NEW p \in Proc, do_chdir(p) \/ do_stat(p) \/ proc_create(p) \/ do_fork(p) \/ do_exit(p)
      PROVE  IInv'
  BY <1>9, ChdirStep, StatStep, ProcCreateStep, ForkStep, ExitStep
<1> QED
  <2>1. idleproc_run_shutdown \/ \E p \in Proc :
         \/ do_open(p) \/ do_open_fails(p) \/ do_open_create(p) \/ do_open_created(p) \/ do_open_invalid(p)
         \/ do_close(p) \/ do_dup(p) \/ do_dup2(p) \/ do_lseek(p)
         \/ do_read(p) \/ do_getdent(p) \/ do_write(p)
         \/ do_read_returns(p) \/ do_write_returns(p) \/ do_write_fails(p)
         \/ do_mkdir(p) \/ do_mknod(p) \/ MakeNodeReturns(p)
         \/ do_rmdir(p) \/ do_rmdir_returns(p)
         \/ do_unlink(p) \/ do_unlink_returns(p)
         \/ do_link(p) \/ do_rename(p) \/ do_link_returns(p)
         \/ do_chdir(p) \/ do_stat(p)
         \/ proc_create(p) \/ do_fork(p) \/ do_exit(p)
    BY DEF FilesNext
  <2> QED BY <1>1, <1>2, <1>3, <1>4, <1>5, <1>6, <1>7, <1>8, <1>9, <2>1

(* And so does a step that changes nothing. *)
LEMMA SameStep ==
  ASSUME IInv, UNCHANGED vars
  PROVE  IInv'
<1>1. /\ alive' = alive /\ p_files' = p_files /\ p_cwd' = p_cwd /\ blocked' = blocked /\ system' = system
      /\ f_refcount' = f_refcount /\ f_vnode' = f_vnode /\ f_mode' = f_mode /\ f_pos' = f_pos
      /\ vn_refcount' = vn_refcount /\ vn_len' = vn_len /\ dirents' = dirents /\ leaked' = leaked
  BY DEF vars, fileVars, fsVars
<1>2. (\A v : VnodeUses(v)' = VnodeUses(v)) /\ (\A f : FileUses(f)' = FileUses(f))
  BY <1>1, UsesAreCounts
<1>3. FilesTypeOK' /\ HoldersAlive' /\ BlockedRelyOn' /\ DirsOK'
  BY <1>1 DEF IInv, FilesTypeOK, HoldersAlive, BlockedRelyOn, InFileCall, InPathCall, DirsOK, Tree, FreeDirsEmpty,
              FreeInodes, Linked, fs
<1>4. RefsExact'
  BY <1>1, <1>2 DEF IInv, RefsExact
<1>5. FilesAccounted'
  BY <1>1, <1>2 DEF IInv, FilesAccounted
<1>6. ShutdownFailsAfterLeaks'
  BY <1>1 DEF IInv, ShutdownFailsAfterLeaks
<1> QED BY <1>3, <1>4, <1>5, <1>6 DEF IInv

(* So IInv is an invariant of FilesSpec. *)
LEMMA Invariance == FilesSpec => []IInv
<1>1. IInv /\ [FilesNext]_vars => IInv'
  BY NextStep, SameStep
<1> QED BY <1>1, InitInv, PTL DEF FilesSpec
----------------------------------------------------------------------------
(***************************************************************************)
(* The counts and the directories are right at every point where a call    *)
(* may block or return: every vnode has exactly the references its users   *)
(* account for, and one more for each do_fork in it (which references the  *)
(* working directory twice) and each do_link of a name it has; the         *)
(* directories form a tree, and blocked calls find what they rely on, for  *)
(* any processes, descriptors, inodes, names and paths (open.c,            *)
(* vfs_syscall.c, namev.c, proc.c, fork.c).                                *)
(***************************************************************************)
THEOREM FilesConsistent ==
  FilesSpec => []FilesInv
<1>1. IInv => FilesInv
  BY TreeForms DEF IInv, DirsOK, FilesInv
<1> QED BY <1>1, Invariance, PTL

(***************************************************************************)
(* When all processes have ended, vfs_shutdown finds a vnode in use, and   *)
(* idle panics (kmain.c), exactly if one of these two calls has leaked a   *)
(* reference: no other call leaves one behind, and no call gives a leaked  *)
(* one back.                                                               *)
(***************************************************************************)
THEOREM ShutdownFailsExactlyAfterLeaks ==
  FilesSpec => []ShutdownFailsAfterLeaks
<1>1. IInv => ShutdownFailsAfterLeaks
  BY DEF IInv
<1> QED BY <1>1, Invariance, PTL

(***************************************************************************)
(* A file_t has exactly one reference for each descriptor and each read or *)
(* write under way, unless do_open is called with invalid flags, for which *)
(* it forgets a file_t (fget, fref, fput).                                 *)
(***************************************************************************)
THEOREM FileCountsExact ==
  "do_open_invalid" \notin Calls => (FilesSpec => []FilesExact)
<1> SUFFICES ASSUME "do_open_invalid" \notin Calls PROVE FilesSpec => []FilesExact
  OBVIOUS
<1>1. IInv => FilesExact
  BY DEF IInv, FilesAccounted, FilesExact
<1> QED BY <1>1, Invariance, PTL

(***************************************************************************)
(* What is leaked is only ever too much: the counts are at least the uses, *)
(* and a file_t in use has its vnode, but for a do_open that is creating   *)
(* one.                                                                    *)
(***************************************************************************)
LEMMA InvReferenced ==
  ASSUME IInv
  PROVE  StillReferenced
<1>1. \A v \in Inode : vn_refcount[v] >= VnodeUses(v)
  <2> TAKE v \in Inode
  <2>1. /\ vn_refcount[v] = VnodeUses(v) + leaked[v] /\ leaked[v] \in Nat
    BY DEF IInv, FilesTypeOK, RefsExact
  <2> QED BY <2>1, InUse
<1>2. ASSUME NEW f \in File
      PROVE  f_refcount[f] >= FileUses(f)
  <2>1. f_refcount[f] \in Nat /\ (f_refcount[f] = FileUses(f) \/ (f_refcount[f] = 1 /\ FileUses(f) = 0))
    BY DEF IInv, FilesTypeOK, FilesAccounted
  <2> QED BY <2>1
<1>3. ASSUME NEW f \in File, FileUses(f) > 0, f_vnode[f] = NULL
      PROVE  \E p \in alive : InPathCall(p) /\ blocked[p].call = "do_open"
  <2>1. FileUses(f) = FdCount(alive, p_files, f) + CallCount(blocked, f)
    BY UsesAreCounts
  <2>2. FdSet(alive, p_files, f) # {} \/ CallSet(blocked, f) # {}
    <3> SUFFICES ASSUME FdSet(alive, p_files, f) = {}, CallSet(blocked, f) = {} PROVE FALSE
      OBVIOUS
    <3>1. FdCount(alive, p_files, f) = 0 /\ CallCount(blocked, f) = 0
      BY FS_EmptySet DEF FdCount, CallCount
    <3> QED BY <1>3, <2>1, <3>1
  <2>3. CallSet(blocked, f) = {}
    BY <1>3 DEF CallSet, FileCall, IInv, BlockedRelyOn, InFileCall
  <2>4. PICK u \in alive \X FD : p_files[u[1]][u[2]] = f
    BY <2>2, <2>3 DEF FdSet
  <2>5. PICK p \in alive, fd \in FD : p_files[p][fd] = f
    BY <2>4
  <2>6. f # NULL /\ p \in Proc
    BY FilesAssumption DEF IInv, FilesTypeOK
  <2>7. blocked[p] # NULL /\ blocked[p].call = "do_open"
    BY <1>3, <2>5, <2>6 DEF IInv, FilesAccounted
  <2> QED BY <2>7 DEF InPathCall, InFileCall
<1> QED BY <1>1, <1>2, <1>3 DEF StillReferenced

(***************************************************************************)
(* Whatever is called, and whatever is leaked, nothing that is in use is   *)
(* freed, also when another process closes or unlinks it meanwhile (fput,  *)
(* vput).                                                                  *)
(***************************************************************************)
THEOREM NothingFreedInUse ==
  FilesSpec => []StillReferenced
<1>1. IInv => StillReferenced
  BY InvReferenced
<1> QED BY <1>1, Invariance, PTL

(***************************************************************************)
(* The working directory is a directory and the paths are split at         *)
(* slashes, so OpenNamevFacts applies.                                     *)
(***************************************************************************)
LEMMA InvPaths ==
  ASSUME IInv
  PROVE  OpenNamevCorrect
<1> SUFFICES ASSUME NEW p \in alive, NEW path \in Path
             PROVE  LET r == open_namev(fs, p_cwd[p], path)
                        v == Denotes(dirents, p_cwd[p], path)
                    IN  IF v = NULL THEN r.ret # "OK" /\ r.s = fs
                        ELSE r.ret = "OK" /\ r.vn = v /\ r.s = vref(fs, v)
  BY DEF OpenNamevCorrect
<1>1. PICK cwd \in Dir : cwd = p_cwd[p]
  BY InUse
<1>2. PathOK(path)
  BY FilesAssumption DEF PathOK
<1>3. Fs(fs) /\ fs.ent = dirents
  BY FsFacts
<1> DEFINE r == open_namev(fs, cwd, path)
           v == Denotes(fs.ent, cwd, path)
<1>4. (Found(r, fs, v) /\ v # NULL) \/ (Failed(r, fs) /\ v = NULL)
  BY <1>2, <1>3, OpenNamevFacts
<1> HIDE DEF r, v
<1>5. IF v = NULL THEN r.ret # "OK" /\ r.s = fs
      ELSE r.ret = "OK" /\ r.vn = v /\ r.s = vref(fs, v)
  BY <1>4 DEF Found, Failed
<1> QED BY <1>1, <1>3, <1>5 DEF r, v

(***************************************************************************)
(* open_namev finds what the path denotes, for paths of any length and in  *)
(* every directory the system can come to, and leaves exactly one new      *)
(* reference, to its result; when it fails it leaves none (namev.c).       *)
(***************************************************************************)
THEOREM PathsResolved ==
  FilesSpec => []OpenNamevCorrect
<1>1. IInv => OpenNamevCorrect
  BY InvPaths
<1> QED BY <1>1, Invariance, PTL

(* The only assertion that can fail is the one at the end of do_write. *)
LEMMA OnlyWriteAsserts ==
  ASSUME IInv, FilesNext, system' = "assert", system # "assert"
  PROVE  \E p \in Proc : do_write_returns(p)
<1>1. CASE idleproc_run_shutdown
  BY <1>1 DEF idleproc_run_shutdown
<1>2. CASE \E p \in Proc : \/ do_open(p) \/ do_open_fails(p) \/ do_open_create(p) \/ do_open_created(p)
                           \/ do_open_invalid(p) \/ do_close(p) \/ do_dup(p) \/ do_dup2(p) \/ do_lseek(p)
  BY <1>2 DEF do_open, do_open_fails, do_open_create, do_open_created, do_open_invalid, do_close, do_dup, do_dup2, do_lseek
<1>3. CASE \E p \in Proc : do_read(p) \/ do_getdent(p) \/ do_write(p) \/ do_read_returns(p) \/ do_write_fails(p)
  BY <1>3 DEF do_read, do_getdent, do_write, do_read_returns, do_write_fails, EnterFile
<1>4. CASE \E p \in Proc : \/ do_mkdir(p) \/ do_mknod(p) \/ MakeNodeReturns(p)
                           \/ do_rmdir(p) \/ do_rmdir_returns(p) \/ do_unlink(p) \/ do_unlink_returns(p)
                           \/ do_link(p) \/ do_rename(p) \/ do_link_returns(p)
  BY <1>4 DEF do_mkdir, do_mknod, MakeNode, MakeNodeReturns, do_rmdir, do_rmdir_returns, do_unlink, do_unlink_returns,
              do_link, do_rename, do_link_returns, onlyFs
<1>5. CASE \E p \in Proc : do_chdir(p) \/ do_stat(p) \/ proc_create(p) \/ do_fork(p) \/ do_exit(p)
  BY <1>5 DEF do_chdir, do_stat, proc_create, do_fork, do_exit, onlyFs
<1> QED
  <2>1. idleproc_run_shutdown \/ \E p \in Proc :
         \/ do_open(p) \/ do_open_fails(p) \/ do_open_create(p) \/ do_open_created(p) \/ do_open_invalid(p)
         \/ do_close(p) \/ do_dup(p) \/ do_dup2(p) \/ do_lseek(p)
         \/ do_read(p) \/ do_getdent(p) \/ do_write(p)
         \/ do_read_returns(p) \/ do_write_returns(p) \/ do_write_fails(p)
         \/ do_mkdir(p) \/ do_mknod(p) \/ MakeNodeReturns(p)
         \/ do_rmdir(p) \/ do_rmdir_returns(p)
         \/ do_unlink(p) \/ do_unlink_returns(p)
         \/ do_link(p) \/ do_rename(p) \/ do_link_returns(p)
         \/ do_chdir(p) \/ do_stat(p)
         \/ proc_create(p) \/ do_fork(p) \/ do_exit(p)
    BY DEF FilesNext
  <2> QED BY <1>1, <1>2, <1>3, <1>4, <1>5, <2>1

(***************************************************************************)
(* After the write the file reaches at least to where the write began, so  *)
(* f_pos beyond its end is not where the write began.                      *)
(***************************************************************************)
LEMMA AssertMoved ==
  ASSUME IInv, [FilesNext]_vars, system' = "assert", system # "assert"
  PROVE  \E p \in Proc : /\ blocked[p] # NULL /\ blocked[p].call = "do_write"
                         /\ blocked'[p] = NULL
                         /\ f_pos[blocked[p].file] # blocked[p].pos
<1>1. FilesNext
  BY DEF vars
<1>2. PICK p \in Proc : do_write_returns(p)
  BY <1>1, OnlyWriteAsserts
<1>3. blocked[p] # NULL /\ blocked[p].call = "do_write"
  BY <1>2 DEF do_write_returns, Returning
<1>4. /\ blocked \in [Proc -> InFile \cup InDirectory \cup {NULL}] /\ f_pos \in [File -> 0..MaxPos]
      /\ vn_len \in [Inode -> 0..MaxPos] /\ MaxPos \in Nat /\ f_vnode \in [File -> Inode \cup {NULL}]
  BY FilesAssumption DEF IInv, FilesTypeOK
<1>5. blocked[p] \in InFile
  BY <1>3, <1>4 DEF InDirectory
<1> DEFINE f == blocked[p].file
           v == f_vnode[f]
           pos == blocked[p].pos
<1>6. f \in File /\ pos \in 0..MaxPos
  BY <1>5 DEF InFile
<1>7. PICK n \in 0..1 :
       LET end == pos + n
           len == IF v \in Reg /\ end > vn_len[v] THEN [vn_len EXCEPT ![v] = end] ELSE vn_len
       IN  /\ system' = IF v \in Reg /\ f_pos[f] > len[v] THEN "assert" ELSE system
           /\ Leave(p, [f_pos EXCEPT ![f] = @ + n], len)
  BY <1>2 DEF do_write_returns
<1> DEFINE end == pos + n
           len == IF v \in Reg /\ end > vn_len[v] THEN [vn_len EXCEPT ![v] = end] ELSE vn_len
<1>8. v \in Reg /\ f_pos[f] > len[v] /\ Leave(p, [f_pos EXCEPT ![f] = @ + n], len)
  BY <1>7
<1>9. blocked'[p] = NULL
  BY <1>4, <1>8 DEF Leave
<1>10. len[v] >= pos
  <2>1. v \in Inode /\ vn_len[v] \in 0..MaxPos
    BY <1>4, <1>8 DEF Inode
  <2>2. CASE end > vn_len[v]
    BY <1>4, <1>6, <1>8, <2>1, <2>2
  <2>3. CASE ~(end > vn_len[v])
    BY <1>4, <1>6, <1>8, <2>1, <2>3
  <2> QED BY <2>2, <2>3
<1>11. f_pos[f] # pos
  <2>1. f_pos[f] \in 0..MaxPos
    BY <1>4, <1>6
  <2>2. f_pos[f] > len[v]
    BY <1>8
  <2> SUFFICES ASSUME f_pos[f] = pos PROVE FALSE
    OBVIOUS
  <2>3. len[v] \in Nat
    BY <1>4, <1>6, <1>8 DEF Inode
  <2> HIDE DEF len
  <2> QED BY <1>6, <1>10, <2>1, <2>2, <2>3
<1> QED BY <1>3, <1>9, <1>11

(***************************************************************************)
(* do_write's assertion on f_pos fails only if the position was moved      *)
(* while the write was blocked: by another process that shares the file_t, *)
(* or by another read or write.                                            *)
(***************************************************************************)
THEOREM OnlyMovedAsserts ==
  FilesSpec => AssertionOnlyIfMoved
<1>1. IInv /\ [FilesNext]_vars =>
        [system' = "assert" /\ system # "assert" =>
           \E p \in Proc : /\ blocked[p] # NULL /\ blocked[p].call = "do_write"
                           /\ blocked'[p] = NULL
                           /\ f_pos[blocked[p].file] # blocked[p].pos]_vars
  BY AssertMoved
<1> QED BY <1>1, Invariance, PTL DEF FilesSpec, AssertionOnlyIfMoved
=============================================================================
