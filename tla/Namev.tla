------------------------------- MODULE Namev -------------------------------
(***************************************************************************)
(* Path resolution (vm-submit/kernel/fs/namev.c): lookup, dir_namev and    *)
(* open_namev, with the vnode references they take and drop.               *)
(*                                                                         *)
(* The functions are operators on a record s of what they read and change: *)
(*   s.rc   the reference counts of the vnodes, by inode,                  *)
(*   s.ent  the directories: the inode of each name in each directory.     *)
(* They return the new record with their result.  A path is a record:      *)
(* abs (it begins with a slash) and the sequence of what stands between    *)
(* its slashes; "a/" has the components "a" and "".                        *)
(***************************************************************************)
EXTENDS Naturals, Sequences

CONSTANTS Dir, Reg, Chr, \* inodes: directories, regular files, character devices
          root,          \* the inode of vfs_root_vn
          Name,          \* names a directory entry may have, ".." and "/" included
          TooLong,       \* components longer than NAME_LEN
          NULL

Inode == Dir \cup Reg \cup Chr

(***************************************************************************)
(* "/" is in Name because the calls do pass it to the file system as the   *)
(* name of an entry.  "." and "" never reach the file system.              *)
(***************************************************************************)
ASSUME NamevAssumption ==
  /\ root \in Dir
  /\ Dir \cap Reg = {} /\ Dir \cap Chr = {} /\ Reg \cap Chr = {}
  /\ {"..", "/"} \subseteq Name
  /\ {".", ""} \cap Name = {}
  /\ TooLong \cap (Name \cup {".", ""}) = {}
  /\ NULL \notin Inode

vref(s, v) == [s EXCEPT !.rc[v] = @ + 1]

vput(s, v) == [s EXCEPT !.rc[v] = @ - 1]

(***************************************************************************)
(* The file system below, by what the calls expect of it.  An inode is     *)
(* free when no directory names it and no vnode of it is in use.  A name   *)
(* is not entered twice, a removed directory takes no new entries, and     *)
(* rmdir wants an empty directory.                                         *)
(***************************************************************************)
Linked(s, v) == v = root \/ \E d \in Dir, n \in Name \ {".."} : s.ent[d][n] = v

FreeInodes(s, K) == {v \in K : ~Linked(s, v) /\ s.rc[v] = 0}

Entry(s, dir, name) == IF name \in Name THEN s.ent[dir][name] ELSE NULL

SetEntry(s, dir, name, v) == [s EXCEPT !.ent[dir][name] = v]

EmptyDir == [n \in Name |-> NULL]

Result(ret, v, s) == [ret |-> ret, vn |-> v, s |-> s]

Error(ret, s) == Result(ret, NULL, s)

\* The result with its reference taken, and with a reference to v dropped.
Referenced(r) == [r EXCEPT !.s = vref(@, r.vn)]

Putting(r, v) == [r EXCEPT !.s = vput(@, v)]

fs_lookup(s, dir, name) ==
  IF Entry(s, dir, name) = NULL THEN Error("ENOENT", s)
  ELSE Referenced(Result("OK", Entry(s, dir, name), s))

\* The link operation: another name for v.
fs_link(s, v, dir, name) ==
  IF Entry(s, dir, name) # NULL THEN Error("EEXIST", s)
  ELSE IF ~Linked(s, dir) THEN Error("ENOENT", s)
  ELSE Result("OK", v, SetEntry(s, dir, name, v))

\* create, mkdir and mknod: a new inode of kind K.
fs_make(s, dir, name, K) ==
  IF FreeInodes(s, K) = {} THEN Error("ENOSPC", s)
  ELSE LET v == CHOOSE v \in FreeInodes(s, K) : TRUE
       IN  fs_link(IF v \in Dir THEN SetEntry(s, v, "..", dir) ELSE s, v, dir, name)

fs_unlink(s, dir, name) ==
  IF Entry(s, dir, name) \in Dir \cup {NULL} THEN s ELSE SetEntry(s, dir, name, NULL)

fs_rmdir(s, dir, name) ==
  LET v == Entry(s, dir, name)
  IN  IF v \in Dir /\ \A n \in Name \ {".."} : s.ent[v][n] = NULL
        THEN [SetEntry(s, dir, name, NULL) EXCEPT !.ent[v] = EmptyDir]
        ELSE s
-----------------------------------------------------------------------------
\* Mutant of lookup: the empty name after a trailing slash is not the directory.
LookupOnlyDot(s, dir, name) ==
  CASE dir \notin Dir               -> Error("ENOTDIR", s)
    [] dir \in Dir /\ name = "."    -> Result("OK", dir, vref(s, dir))
    [] OTHER                        -> fs_lookup(s, dir, name)

\* strncmp(".", name, len) is 0 for "." and, with length 0, for "".
lookup(s, dir, name) ==
  CASE dir \notin Dir                    -> Error("ENOTDIR", s)
    [] dir \in Dir /\ name \in {".", ""} -> Result("OK", dir, vref(s, dir))
    [] OTHER                             -> fs_lookup(s, dir, name)

\* Mutant of NextDirectory: keeps the reference to the directory left behind.
KeepDirectory(names, i, dir, r) ==
  IF i = Len(names) /\ r.ret = "OK" THEN Result("OK", dir, vput(r.s, r.vn))
  ELSE IF i = Len(names) /\ r.ret = "ENOENT" THEN Result("OK", dir, r.s)
  ELSE IF r.ret # "OK" THEN Error(r.ret, vput(r.s, dir))
  ELSE IF names[i + 1] \in TooLong THEN Error("ENAMETOOLONG", vput(vput(r.s, r.vn), dir))
  ELSE r

(***************************************************************************)
(* One turn of dir_namev's loop, after the lookup of the i-th component in *)
(* dir (tempVnode), which has a reference, returned r.  The last component *)
(* is looked up as well, and only dropped again; that it does not exist is *)
(* not an error.                                                           *)
(***************************************************************************)
NextDirectory(names, i, dir, r) ==
  IF i = Len(names) /\ r.ret = "OK" THEN Result("OK", dir, vput(r.s, r.vn))
  ELSE IF i = Len(names) /\ r.ret = "ENOENT" THEN Result("OK", dir, r.s)
  ELSE IF r.ret # "OK" THEN Error(r.ret, vput(r.s, dir))
  ELSE IF names[i + 1] \in TooLong THEN Error("ENAMETOOLONG", vput(vput(r.s, r.vn), dir))
  ELSE Putting(r, dir)

dir_namev_step(names, i, at) ==
  IF at.ret # "OK" THEN at
  ELSE NextDirectory(names, i, at.vn, lookup(at.s, at.vn, names[i]))

\* The parent directory, with a reference.  BaseName is the name that goes
\* with it: the whole path "/" for the root itself.
dir_namev(s, cwd, path) ==
  LET names == path.names
      start == IF path.abs THEN root ELSE cwd
      walk[i \in 0..Len(names)] ==
        IF i = 0 THEN Referenced(Result("OK", start, s))
        ELSE dir_namev_step(names, i, walk[i - 1])
  IN  IF names = <<>> /\ ~path.abs THEN Error("EINVAL", s)
      ELSE IF names # <<>> /\ Head(names) \in TooLong THEN Error("ENAMETOOLONG", s)
      ELSE walk[Len(names)]

BaseName(path) == IF path.names = <<>> THEN "/" ELSE path.names[Len(path.names)]

\* The name open_namev looks up in the directory that dir_namev returned.
OpenName(path, dir) == IF BaseName(path) = "/" /\ dir = root THEN "." ELSE BaseName(path)

\* The vnode of a path, with a reference, when O_CREAT is not given: from the
\* result d of dir_namev on.
OpenIn(d, path) ==
  IF d.ret # "OK" THEN d
  ELSE Putting(lookup(d.s, d.vn, OpenName(path, d.vn)), d.vn)

open_namev(s, cwd, path) == OpenIn(dir_namev(s, cwd, path), path)
-----------------------------------------------------------------------------
(***************************************************************************)
(* What a path means, without the mechanics: the inode reached from the    *)
(* start by following its components one by one, or NULL.                  *)
(***************************************************************************)
Follow(ent, v, name) ==
  CASE v \in Dir /\ name \in {".", ""} -> v
    [] v \in Dir /\ name \in Name      -> ent[v][name]
    [] OTHER                           -> NULL

Denotes(ent, cwd, path) ==
  LET reached[i \in 0..Len(path.names)] ==
        IF i = 0 THEN (IF path.abs THEN root ELSE cwd)
        ELSE Follow(ent, reached[i - 1], path.names[i])
  IN  IF path.names = <<>> /\ ~path.abs THEN NULL ELSE reached[Len(path.names)]
=============================================================================
