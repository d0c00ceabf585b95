------------------------------- MODULE Files -------------------------------
(***************************************************************************)
(* Open files (vm-submit/kernel/fs/open.c and vfs_syscall.c): descriptor   *)
(* tables, file_t objects and the references to vnodes that they, the      *)
(* working directories and the calls themselves hold; and what fork, exit  *)
(* and the shutdown do with them.                                          *)
(*                                                                         *)
(* The kernel is not preemptive, but a call may block in the function of   *)
(* the file system it ends in (read, write, readdir, create, mkdir, mknod, *)
(* rmdir, unlink, link: a disk, a terminal, the mutex of a vnode).  Such a *)
(* call is two steps: up to that function, with what it holds and what it  *)
(* has looked up in blocked[p], and from that function on.  Following a    *)
(* path is one step.  References are taken and dropped in the order of     *)
(* the code on every path out of a call (see Namev).                       *)
(*                                                                         *)
(* Not modelled: resident pages and mappings of a vnode, which hold        *)
(* references of their own, and path lengths beyond MAXPATHLEN.            *)
(***************************************************************************)
EXTENDS Namev, Integers, FiniteSets

CONSTANTS Proc,     \* processes with files
          first,    \* the one init creates
          File,     \* file_t objects
          NFILES,
          Path,     \* the paths that calls are made with
          LinkPath, \* those of do_link and do_rename, which take two
          AtLimit,  \* names of exactly NAME_LEN characters
          Driver,   \* the devices that have a driver
          Flags,    \* oflags of do_open: access, creat and append
          Calls,    \* the calls that are made
          MaxPos,   \* bound on file positions and lengths
          MaxRef    \* bound on the references to a vnode, where one is leaked

FD == 0..(NFILES - 1)

ASSUME FilesAssumption ==
  /\ first \in Proc
  /\ IsFiniteSet(Proc) /\ IsFiniteSet(File)
  /\ NFILES \in Nat \ {0}
  /\ Path \subseteq [abs : BOOLEAN, names : Seq((Name \ {"/"}) \cup {".", ""} \cup TooLong)]
  /\ LinkPath \subseteq Path
  /\ AtLimit \subseteq Name
  /\ Driver \subseteq Chr
  /\ Flags \subseteq [access : {"O_RDONLY", "O_WRONLY", "O_RDWR"}, creat : BOOLEAN, append : BOOLEAN]
  /\ NULL \notin File
  /\ MaxPos \in Nat

VARIABLES alive,      \* the processes that exist
          p_files, p_cwd,
          f_refcount, \* 0: the file_t is free
          f_vnode, f_mode, f_pos,
          vn_refcount, vn_len, dirents,
          leaked,     \* references to a vnode that were left behind for good
          blocked,    \* the call a process is blocked in, or NULL
          system      \* "up"; "assert" or "failed" after a panic; "halted"

fileVars == <<f_refcount, f_vnode, f_mode, f_pos>>

fsVars == <<vn_refcount, vn_len, dirents, leaked>>

vars == <<alive, p_files, p_cwd, fileVars, fsVars, blocked, system>>

\* In read, write or readdir of the file system, on a file that has been fget'd.
InFile == [call : {"do_read", "do_write", "do_getdent"}, file : File, pos : 0..MaxPos]

\* In a function on a name in a directory; the call holds dir and vn.  fd is
\* do_open's new descriptor, old the path that do_rename has still to unlink.
InDirectory ==
  [call : {"do_open", "do_mkdir", "do_mknod", "do_rmdir", "do_unlink", "do_link", "do_rename"},
   dir : Dir, name : Name \cup {""}, vn : Inode \cup {NULL}, fd : FD \cup {NULL}, old : LinkPath \cup {NULL}]

ASSUME NullAssumption == NULL \notin InFile \cup InDirectory \cup LinkPath \cup FD

\* The types of the state; counts are not negative, and f_pos not below 0.
FilesTypeOK ==
  /\ alive \subseteq Proc
  /\ p_files \in [Proc -> [FD -> File \cup {NULL}]]
  /\ p_cwd \in [Proc -> Dir \cup {NULL}]
  /\ f_refcount \in [File -> Nat]
  /\ f_vnode \in [File -> Inode \cup {NULL}]
  /\ f_mode \in [File -> SUBSET {"READ", "WRITE", "APPEND"}]
  /\ f_pos \in [File -> 0..MaxPos]
  /\ vn_refcount \in [Inode -> Nat]
  /\ vn_len \in [Inode -> 0..MaxPos]
  /\ leaked \in [Inode -> Nat]
  /\ dirents \in [Dir -> [Name -> Inode \cup {NULL}]]
  /\ blocked \in [Proc -> InFile \cup InDirectory \cup {NULL}]
  /\ system \in {"up", "assert", "failed", "halted"}

NoFiles == [fd \in FD |-> NULL]

\* The root is referenced by the file system and by idle and init, whose
\* working directory it is.
FilesInit ==
  /\ alive = {first}
  /\ p_files = [p \in Proc |-> NoFiles]
  /\ p_cwd = [p \in Proc |-> IF p = first THEN root ELSE NULL]
  /\ f_refcount = [f \in File |-> 0]
  /\ f_vnode = [f \in File |-> NULL]
  /\ f_mode = [f \in File |-> {}]
  /\ f_pos = [f \in File |-> 0]
  /\ vn_refcount = [v \in Inode |-> IF v = root THEN 3 ELSE 0]
  /\ vn_len = [v \in Inode |-> 0]
  /\ leaked = [v \in Inode |-> 0]
  /\ dirents = [d \in Dir |-> IF d = root THEN [EmptyDir EXCEPT ![".."] = root] ELSE EmptyDir]
  /\ blocked = [p \in Proc |-> NULL]
  /\ system = "up"
-----------------------------------------------------------------------------
fs == [rc |-> vn_refcount, ent |-> dirents]

\* A process that makes the call: it exists and is not blocked in another.
Calling(p, call) == system = "up" /\ call \in Calls /\ p \in alive /\ blocked[p] = NULL

\* A process whose call returns from the file system.
Returning(p, calls) == system = "up" /\ blocked[p] # NULL /\ blocked[p].call \in calls

\* The file system is in state s and the files have lengths len; what is
\* neither linked nor referenced any more is gone.
SettleFs(s, len) ==
  LET free == FreeInodes(s, Inode) IN
  /\ vn_refcount' = s.rc
  /\ dirents' = [d \in Dir |-> IF d \in free THEN EmptyDir ELSE s.ent[d]]
  /\ vn_len' = [v \in Inode |-> IF v \in free THEN 0 ELSE len[v]]

Settle(s, len) == SettleFs(s, len) /\ UNCHANGED leaked

\* A reference to v is not dropped, and nobody has it.
Leak(v) == leaked' = [leaked EXCEPT ![v] = @ + 1]

\* The end of a call.
Return(p, s) ==
  /\ Settle(s, vn_len)
  /\ blocked' = [blocked EXCEPT ![p] = NULL]

\* The call enters a function of the file system on a name in dir.
Enter(p, s, call, dir, name, vn, fd, old) ==
  /\ Settle(s, vn_len)
  /\ blocked' = [blocked EXCEPT ![p] = [call |-> call, dir |-> dir, name |-> name,
                                        vn |-> vn, fd |-> fd, old |-> old]]

\* fput, drop[f] times for each f: a file_t without references is freed and
\* lets go of its vnode.
Closed(drop) == {f \in File : f_refcount[f] > 0 /\ f_refcount[f] = drop[f]}

FputVnodes(s, drop) ==
  [s EXCEPT !.rc = [v \in Inode |-> @[v] - Cardinality({f \in Closed(drop) : f_vnode[f] = v})]]

fput(drop, pos) ==
  /\ f_refcount' = [f \in File |-> f_refcount[f] - drop[f]]
  /\ f_vnode' = [f \in File |-> IF f \in Closed(drop) THEN NULL ELSE f_vnode[f]]
  /\ f_mode' = [f \in File |-> IF f \in Closed(drop) THEN {} ELSE f_mode[f]]
  /\ f_pos' = [f \in File |-> IF f \in Closed(drop) THEN 0 ELSE pos[f]]

Once(f) == [g \in File |-> IF g = f THEN 1 ELSE 0]

Held(p) == [f \in File |-> Cardinality({fd \in FD : p_files[p][fd] = f})]
-----------------------------------------------------------------------------
(***************************************************************************)
(* do_open.  The file_t and its descriptor come before the path.           *)
(***************************************************************************)
EmptyFds(p) == {fd \in FD : p_files[p][fd] = NULL}

get_empty_fd(p) == CHOOSE fd \in EmptyFds(p) : \A g \in EmptyFds(p) : fd <= g

OpenMode(flags) ==
  (IF flags.access = "O_WRONLY" THEN {"WRITE"} ELSE {"READ"})
    \cup (IF flags.access = "O_RDWR" THEN {"WRITE"} ELSE {})
    \cup (IF flags.append THEN {"APPEND"} ELSE {})

\* A directory to be written, or a device nobody drives.
Refused(v, flags) == (v \in Dir /\ flags.access # "O_RDONLY") \/ v \in Chr \ Driver

\* open_namev with O_CREAT calls create: only the last component is missing.
Creates(p, path) ==
  \E d \in {dir_namev(fs, p_cwd[p], path)} :
    d.ret = "OK" /\ OpenIn(d, path).ret = "ENOENT"

NewFile(p, f, flags, v) ==
  /\ f_refcount[f] = 0
  /\ p_files' = [p_files EXCEPT ![p][get_empty_fd(p)] = f]
  /\ f_refcount' = [f_refcount EXCEPT ![f] = 1]
  /\ f_mode' = [f_mode EXCEPT ![f] = OpenMode(flags)]
  /\ f_vnode' = [f_vnode EXCEPT ![f] = v]
  /\ UNCHANGED f_pos

\* The path exists.
do_open(p) ==
  /\ Calling(p, "do_open")
  /\ EmptyFds(p) # {}
  /\ \E path \in Path : \E r \in {open_namev(fs, p_cwd[p], path)} :
       /\ r.ret = "OK"
       /\ \E f \in File, flags \in Flags : ~Refused(r.vn, flags) /\ NewFile(p, f, flags, r.vn)
       /\ Return(p, r.s)
  /\ UNCHANGED <<alive, p_cwd, system>>

\* The file_t is given back, the descriptor cleared, the vnode released.
do_open_fails(p) ==
  /\ Calling(p, "do_open")
  /\ EmptyFds(p) # {}
  /\ \E path \in Path, flags \in Flags : \E r \in {open_namev(fs, p_cwd[p], path)} :
       \/ /\ r.ret # "OK"
          /\ ~(flags.creat /\ Creates(p, path))
          /\ Return(p, r.s)
       \/ r.ret = "OK" /\ Refused(r.vn, flags) /\ Return(p, vput(r.s, r.vn))
  /\ UNCHANGED <<alive, p_files, p_cwd, fileVars, system>>

\* The path does not exist and O_CREAT is given: into create.
do_open_create(p) ==
  /\ Calling(p, "do_open")
  /\ EmptyFds(p) # {}
  /\ \E f \in File, path \in Path, flags \in Flags :
       /\ flags.creat /\ Creates(p, path)
       /\ NewFile(p, f, flags, NULL)
       /\ \E d \in {dir_namev(fs, p_cwd[p], path)} :
            Enter(p, d.s, "do_open", d.vn, OpenName(path, d.vn), NULL, get_empty_fd(p), NULL)
  /\ UNCHANGED <<alive, p_cwd, system>>

\* create has returned the new vnode, or an error.
do_open_created(p) ==
  /\ Returning(p, {"do_open"})
  /\ LET b == blocked[p]
         f == p_files[p][b.fd]
     IN  \E r \in {fs_make(fs, b.dir, b.name, Reg)} :
         \/ /\ r.ret = "OK"
            /\ f_vnode' = [f_vnode EXCEPT ![f] = r.vn]
            /\ Return(p, Putting(Referenced(r), b.dir).s)
            /\ UNCHANGED <<p_files, f_refcount, f_mode, f_pos>>
         \/ /\ r.ret # "OK"
            /\ fput(Once(f), f_pos)
            /\ p_files' = [p_files EXCEPT ![p][b.fd] = NULL]
            /\ Return(p, vput(r.s, b.dir))
  /\ UNCHANGED <<alive, p_cwd, system>>

\* O_WRONLY and O_RDWR together: -EINVAL, after fget(-1) and without an fput.
do_open_invalid(p) ==
  /\ Calling(p, "do_open_invalid")
  /\ EmptyFds(p) # {}
  /\ \E f \in File : /\ f_refcount[f] = 0
                     /\ f_refcount' = [f_refcount EXCEPT ![f] = 1]
  /\ UNCHANGED <<alive, p_files, p_cwd, f_vnode, f_mode, f_pos, fsVars, blocked, system>>
-----------------------------------------------------------------------------
(***************************************************************************)
(* Calls on descriptors.                                                   *)
(***************************************************************************)
do_close(p) ==
  /\ Calling(p, "do_close")
  /\ \E fd \in FD \ EmptyFds(p) :
       LET drop == Once(p_files[p][fd]) IN
       /\ p_files' = [p_files EXCEPT ![p][fd] = NULL]
       /\ fput(drop, f_pos)
       /\ Return(p, FputVnodes(fs, drop))
  /\ UNCHANGED <<alive, p_cwd, system>>

\* The loop that counts used descriptors tests the same one every time, so it
\* finds NFILES of them and never refuses; get_empty_fd does.
do_dup(p) ==
  /\ Calling(p, "do_dup")
  /\ EmptyFds(p) # {}
  /\ \E fd \in FD \ EmptyFds(p) :
       /\ p_files' = [p_files EXCEPT ![p][get_empty_fd(p)] = p_files[p][fd]]
       /\ f_refcount' = [f_refcount EXCEPT ![p_files[p][fd]] = @ + 1]
  /\ UNCHANGED <<alive, p_cwd, f_vnode, f_mode, f_pos, fsVars, blocked, system>>

\* The old file gets its new reference first, then nfd is closed if in use:
\* also if both are the same file_t, whose count must not touch 0.
do_dup2(p) ==
  /\ Calling(p, "do_dup2")
  /\ \E ofd \in FD \ EmptyFds(p), nfd \in FD :
       LET old  == p_files[p][ofd]
           drop == [f \in File |-> (IF f = p_files[p][nfd] THEN 1 ELSE 0)
                                   - (IF f = old THEN 1 ELSE 0)]
       IN  /\ ofd # nfd
           /\ p_files' = [p_files EXCEPT ![p][nfd] = old]
           /\ fput(drop, f_pos)
           /\ Return(p, FputVnodes(fs, drop))
  /\ UNCHANGED <<alive, p_cwd, system>>

do_lseek(p) ==
  /\ Calling(p, "do_lseek")
  /\ \E fd \in FD \ EmptyFds(p), offset \in -1..1 :
       LET f == p_files[p][fd] IN
       \E base \in {0, f_pos[f], vn_len[f_vnode[f]]} : \* SEEK_SET, SEEK_CUR, SEEK_END
         /\ base + offset \in 0..MaxPos
         /\ f_pos' = [f_pos EXCEPT ![f] = base + offset]
  /\ UNCHANGED <<alive, p_files, p_cwd, f_refcount, f_vnode, f_mode, fsVars, blocked, system>>
-----------------------------------------------------------------------------
(***************************************************************************)
(* Reading and writing: up to the file system's function, and from its     *)
(* return on.  The file is referenced (fget) in between.                   *)
(***************************************************************************)
EnterFile(p, call, f, pos) ==
  /\ f_refcount' = [f_refcount EXCEPT ![f] = @ + 1]
  /\ f_pos' = [f_pos EXCEPT ![f] = pos]
  /\ blocked' = [blocked EXCEPT ![p] = [call |-> call, file |-> f, pos |-> pos]]
  /\ UNCHANGED <<alive, p_files, p_cwd, f_vnode, f_mode, fsVars, system>>

do_read(p) ==
  /\ Calling(p, "do_read")
  /\ \E fd \in FD \ EmptyFds(p) :
       LET f == p_files[p][fd] IN
       /\ "READ" \in f_mode[f]
       /\ f_vnode[f] \notin Dir
       /\ EnterFile(p, "do_read", f, f_pos[f])

do_getdent(p) ==
  /\ Calling(p, "do_getdent")
  /\ \E fd \in FD \ EmptyFds(p) :
       LET f == p_files[p][fd] IN
       f_vnode[f] \in Dir /\ EnterFile(p, "do_getdent", f, f_pos[f])

\* With FMODE_APPEND, do_lseek to the end first.
do_write(p) ==
  /\ Calling(p, "do_write")
  /\ \E fd \in FD \ EmptyFds(p) :
       LET f == p_files[p][fd] IN
       /\ "WRITE" \in f_mode[f]
       /\ EnterFile(p, "do_write", f,
                    IF "APPEND" \in f_mode[f] THEN vn_len[f_vnode[f]] ELSE f_pos[f])

\* Mutant of Leave: the file is not released.
LeaveWithoutFput(p, pos, len) ==
  /\ f_pos' = pos
  /\ vn_len' = len
  /\ blocked' = [blocked EXCEPT ![p] = NULL]
  /\ UNCHANGED <<alive, p_files, p_cwd, f_refcount, f_vnode, f_mode, vn_refcount, dirents, leaked>>

Leave(p, pos, len) ==
  LET drop == Once(blocked[p].file) IN
  /\ fput(drop, pos)
  /\ Settle(FputVnodes(fs, drop), len)
  /\ blocked' = [blocked EXCEPT ![p] = NULL]
  /\ UNCHANGED <<alive, p_files, p_cwd>>

\* The file system has read n bytes from blocked[p].pos, or one entry; with
\* n = 0 it has read nothing or failed.
do_read_returns(p) ==
  /\ Returning(p, {"do_read", "do_getdent"})
  /\ \E n \in 0..1 :
       LET f == blocked[p].file IN
       /\ f_vnode[f] \in Reg => blocked[p].pos + n <= vn_len[f_vnode[f]] \/ n = 0
       /\ f_pos[f] + n <= MaxPos
       /\ Leave(p, [f_pos EXCEPT ![f] = @ + n], vn_len)
  /\ UNCHANGED system

\* Mutant of do_write_returns: f_pos is compared with the length before the write.
WriteComparesOldLength(p) ==
  /\ Returning(p, {"do_write"})
  /\ \E n \in 0..1 :
       LET f   == blocked[p].file
           v   == f_vnode[f]
           end == blocked[p].pos + n
           len == IF v \in Reg /\ end > vn_len[v] THEN [vn_len EXCEPT ![v] = end] ELSE vn_len
       IN  /\ f_pos[f] + n <= MaxPos
           /\ end <= MaxPos
           /\ system' = IF v \in Reg /\ f_pos[f] > vn_len[v] THEN "assert" ELSE system
           /\ Leave(p, [f_pos EXCEPT ![f] = @ + n], len)

\* The file system has written n bytes at blocked[p].pos, and the file reaches
\* at least to their end; do_write asserts that f_pos, which it has not advanced
\* yet, is within the file.
do_write_returns(p) ==
  /\ Returning(p, {"do_write"})
  /\ \E n \in 0..1 :
       LET f   == blocked[p].file
           v   == f_vnode[f]
           end == blocked[p].pos + n
           len == IF v \in Reg /\ end > vn_len[v] THEN [vn_len EXCEPT ![v] = end] ELSE vn_len
       IN  /\ f_pos[f] + n <= MaxPos
           /\ end <= MaxPos
           /\ system' = IF v \in Reg /\ f_pos[f] > len[v] THEN "assert" ELSE system
           /\ Leave(p, [f_pos EXCEPT ![f] = @ + n], len)

do_write_fails(p) ==
  /\ Returning(p, {"do_write"})
  /\ Leave(p, f_pos, vn_len)
  /\ UNCHANGED system
-----------------------------------------------------------------------------
(***************************************************************************)
(* Calls on paths.                                                         *)
(***************************************************************************)
onlyFs == <<alive, p_files, p_cwd, fileVars, system>>

\* do_mkdir and do_mknod, up to the file system's function.
MakeNode(p, call) ==
  /\ Calling(p, call)
  /\ \E path \in Path : \E d \in {dir_namev(fs, p_cwd[p], path)} :
       LET name == BaseName(path) IN
       \/ d.ret # "OK" /\ Return(p, d.s)
       \/ d.ret = "OK" /\ name \in AtLimit /\ Return(p, vput(d.s, d.vn))
       \/ /\ d.ret = "OK" /\ name \notin AtLimit
          /\ \E r \in {lookup(d.s, d.vn, name)} :
               \/ r.ret = "OK" /\ Return(p, vput(vput(r.s, d.vn), r.vn))
               \/ r.ret # "OK" /\ Enter(p, r.s, call, d.vn, name, NULL, NULL, NULL)
  /\ UNCHANGED onlyFs

do_mkdir(p) == MakeNode(p, "do_mkdir")

do_mknod(p) == MakeNode(p, "do_mknod")

MakeNodeReturns(p) ==
  /\ Returning(p, {"do_mkdir", "do_mknod"})
  /\ LET b == blocked[p]
         K == IF b.call = "do_mkdir" THEN Dir ELSE Chr
     IN  Return(p, vput(fs_make(fs, b.dir, b.name, K).s, b.dir))
  /\ UNCHANGED onlyFs

\* "." and ".." are refused here, the rest is up to the file system.
do_rmdir(p) ==
  /\ Calling(p, "do_rmdir")
  /\ \E path \in Path : \E d \in {dir_namev(fs, p_cwd[p], path)} :
       LET name == BaseName(path) IN
       \/ d.ret # "OK" /\ Return(p, d.s)
       \/ d.ret = "OK" /\ name \in AtLimit \cup {".", ".."} /\ Return(p, vput(d.s, d.vn))
       \/ /\ d.ret = "OK" /\ name \notin AtLimit \cup {".", ".."}
          /\ Enter(p, d.s, "do_rmdir", d.vn, name, NULL, NULL, NULL)
  /\ UNCHANGED onlyFs

do_rmdir_returns(p) ==
  /\ Returning(p, {"do_rmdir"})
  /\ LET b == blocked[p] IN Return(p, vput(fs_rmdir(fs, b.dir, b.name), b.dir))
  /\ UNCHANGED onlyFs

\* do_unlink from the state s of the file system, up to its unlink.
Unlink(p, s, path) ==
  \E d \in {dir_namev(s, p_cwd[p], path)} :
    LET name == BaseName(path) IN
    \/ d.ret # "OK" /\ Return(p, d.s)
    \/ d.ret = "OK" /\ name \in AtLimit /\ Return(p, vput(d.s, d.vn))
    \/ /\ d.ret = "OK" /\ name \notin AtLimit
       /\ \E r \in {lookup(d.s, d.vn, name)} :
            \/ r.ret # "OK" /\ Return(p, vput(r.s, d.vn))
            \/ r.ret = "OK" /\ r.vn \in Dir /\ Return(p, vput(vput(r.s, d.vn), r.vn))
            \/ /\ r.ret = "OK" /\ r.vn \notin Dir
               /\ Enter(p, r.s, "do_unlink", d.vn, name, r.vn, NULL, NULL)

do_unlink(p) ==
  /\ Calling(p, "do_unlink")
  /\ \E path \in Path : Unlink(p, fs, path)
  /\ UNCHANGED onlyFs

do_unlink_returns(p) ==
  /\ Returning(p, {"do_unlink"})
  /\ LET b == blocked[p]
     IN  Return(p, vput(vput(fs_unlink(fs, b.dir, b.name), b.dir), b.vn))
  /\ UNCHANGED onlyFs

\* The second half of do_link: to link v as name in the directory of d.  If the
\* name exists already, that directory is not released.
LinkIn(p, call, from, v, d, name) ==
  \E e \in {lookup(d.s, d.vn, name)} :
    \/ /\ e.ret = "OK"
       /\ "do_link_exists" \in Calls
       /\ e.s.rc[d.vn] <= MaxRef
       /\ SettleFs(vput(vput(e.s, e.vn), v), vn_len)
       /\ Leak(d.vn)
       /\ blocked' = [blocked EXCEPT ![p] = NULL]
    \/ /\ e.ret # "OK"
       /\ Enter(p, e.s, call, d.vn, name, v, NULL, IF call = "do_rename" THEN from ELSE NULL)

MayLink(v) == v \notin Dir

\* do_link, up to the file system's link.
Link(p, call, from, to) ==
  \E r \in {open_namev(fs, p_cwd[p], from)} :
    \/ r.ret # "OK" /\ Return(p, r.s)
    \/ r.ret = "OK" /\ ~MayLink(r.vn) /\ Return(p, vput(r.s, r.vn))
    \/ /\ r.ret = "OK" /\ MayLink(r.vn)
       /\ \E d \in {dir_namev(r.s, p_cwd[p], to)} :
            \/ d.ret # "OK" /\ Return(p, vput(d.s, r.vn))
            \/ d.ret = "OK" /\ LinkIn(p, call, from, r.vn, d, BaseName(to))

do_link(p) ==
  /\ Calling(p, "do_link")
  /\ \E from, to \in LinkPath : Link(p, "do_link", from, to)
  /\ UNCHANGED onlyFs

do_rename(p) ==
  /\ Calling(p, "do_rename")
  /\ \E oldname, newname \in LinkPath : Link(p, "do_rename", oldname, newname)
  /\ UNCHANGED onlyFs

\* After a link, do_rename goes on to unlink the old name.
do_link_returns(p) ==
  /\ Returning(p, {"do_link", "do_rename"})
  /\ LET b == blocked[p] IN
     \E r \in {Putting(Putting(fs_link(fs, b.vn, b.dir, b.name), b.vn), b.dir)} :
       \/ (b.call = "do_link" \/ r.ret # "OK") /\ Return(p, r.s)
       \/ b.call = "do_rename" /\ r.ret = "OK" /\ Unlink(p, r.s, b.old)
  /\ UNCHANGED onlyFs

\* The new directory has the reference that lookup took.
do_chdir(p) ==
  /\ Calling(p, "do_chdir")
  /\ \E path \in Path : \E d \in {dir_namev(fs, p_cwd[p], path)} :
       LET name == BaseName(path) IN
       \/ d.ret # "OK" /\ Return(p, d.s) /\ UNCHANGED p_cwd
       \/ d.ret = "OK" /\ name \in AtLimit /\ Return(p, vput(d.s, d.vn)) /\ UNCHANGED p_cwd
       \/ /\ d.ret = "OK" /\ name \notin AtLimit
          /\ \E r \in {lookup(d.s, d.vn, name)} :
               \/ r.ret # "OK" /\ Return(p, vput(r.s, d.vn)) /\ UNCHANGED p_cwd
               \/ /\ r.ret = "OK" /\ r.vn \notin Dir
                  /\ Return(p, vput(vput(r.s, d.vn), r.vn))
                  /\ UNCHANGED p_cwd
               \/ /\ r.ret = "OK" /\ r.vn \in Dir
                  /\ p_cwd' = [p_cwd EXCEPT ![p] = r.vn]
                  /\ Return(p, vput(vput(r.s, d.vn), p_cwd[p]))
  /\ UNCHANGED <<alive, p_files, fileVars, system>>

do_stat(p) ==
  /\ Calling(p, "do_stat")
  /\ \E path \in Path : \E r \in {open_namev(fs, p_cwd[p], path)} :
       Return(p, IF r.ret = "OK" THEN vput(r.s, r.vn) ELSE r.s)
  /\ UNCHANGED onlyFs
-----------------------------------------------------------------------------
(***************************************************************************)
(* Processes.                                                              *)
(***************************************************************************)
\* A kernel process starts without files, in the directory of its parent.
proc_create(p) ==
  /\ Calling(p, "proc_create")
  /\ \E q \in Proc \ alive :
       /\ alive' = alive \cup {q}
       /\ p_cwd' = [p_cwd EXCEPT ![q] = p_cwd[p]]
  /\ Settle(vref(fs, p_cwd[p]), vn_len)
  /\ UNCHANGED <<p_files, fileVars, blocked, system>>

\* Mutant of do_fork: the files are copied without an fref.
ForkWithoutFref(p) ==
  /\ Calling(p, "do_fork")
  /\ vn_refcount[p_cwd[p]] + 2 <= MaxRef
  /\ \E q \in Proc \ alive :
       /\ alive' = alive \cup {q}
       /\ p_cwd' = [p_cwd EXCEPT ![q] = p_cwd[p]]
       /\ p_files' = [p_files EXCEPT ![q] = p_files[p]]
  /\ SettleFs(vref(vref(fs, p_cwd[p]), p_cwd[p]), vn_len)
  /\ Leak(p_cwd[p])
  /\ UNCHANGED <<fileVars, blocked, system>>

\* The child shares the files of its parent.  Its working directory gets a
\* reference from proc_create and another one at the end of do_fork, and will
\* drop one.
do_fork(p) ==
  /\ Calling(p, "do_fork")
  /\ vn_refcount[p_cwd[p]] + 2 <= MaxRef
  /\ \E q \in Proc \ alive :
       /\ alive' = alive \cup {q}
       /\ p_cwd' = [p_cwd EXCEPT ![q] = p_cwd[p]]
       /\ p_files' = [p_files EXCEPT ![q] = p_files[p]]
  /\ f_refcount' = [f \in File |-> f_refcount[f] + Held(p)[f]]
  /\ SettleFs(vref(vref(fs, p_cwd[p]), p_cwd[p]), vn_len)
  /\ Leak(p_cwd[p])
  /\ UNCHANGED <<f_vnode, f_mode, f_pos, blocked, system>>

\* Mutant of proc_cleanup: the working directory is not released.
CleanupKeepingCwd(p) ==
  /\ fput(Held(p), f_pos)
  /\ Settle(FputVnodes(fs, Held(p)), vn_len)
  /\ p_files' = [p_files EXCEPT ![p] = NoFiles]
  /\ p_cwd' = [p_cwd EXCEPT ![p] = NULL]

proc_cleanup(p) ==
  /\ fput(Held(p), f_pos)
  /\ Settle(vput(FputVnodes(fs, Held(p)), p_cwd[p]), vn_len)
  /\ p_files' = [p_files EXCEPT ![p] = NoFiles]
  /\ p_cwd' = [p_cwd EXCEPT ![p] = NULL]

do_exit(p) ==
  /\ Calling(p, "do_exit")
  /\ proc_cleanup(p)
  /\ alive' = alive \ {p}
  /\ UNCHANGED <<blocked, system>>

\* Whether a vnode other than the root is referenced, or the root by others
\* than the file system.
vfs_is_in_use(s) == \E v \in Inode : s.rc[v] > (IF v = root THEN 1 ELSE 0)

\* When init has ended, idle leaves the root and shuts the file system down.
idleproc_run_shutdown ==
  /\ system = "up"
  /\ alive = {}
  /\ LET s == vput(fs, root) IN
     /\ Settle(s, vn_len)
     /\ system' = IF vfs_is_in_use(s) THEN "failed" ELSE "halted"
  /\ UNCHANGED <<alive, p_files, p_cwd, fileVars, blocked>>

FilesNext ==
  \/ \E p \in Proc :
       \/ do_open(p) \/ do_open_fails(p) \/ do_open_create(p) \/ do_open_created(p)
       \/ do_open_invalid(p)
       \/ do_close(p) \/ do_dup(p) \/ do_dup2(p) \/ do_lseek(p)
       \/ do_read(p) \/ do_getdent(p) \/ do_write(p)
       \/ do_read_returns(p) \/ do_write_returns(p) \/ do_write_fails(p)
       \/ do_mkdir(p) \/ do_mknod(p) \/ MakeNodeReturns(p)
       \/ do_rmdir(p) \/ do_rmdir_returns(p)
       \/ do_unlink(p) \/ do_unlink_returns(p)
       \/ do_link(p) \/ do_rename(p) \/ do_link_returns(p)
       \/ do_chdir(p) \/ do_stat(p)
       \/ proc_create(p) \/ do_fork(p) \/ do_exit(p)
  \/ idleproc_run_shutdown

FilesSpec == FilesInit /\ [][FilesNext]_vars
-----------------------------------------------------------------------------
(***************************************************************************)
(* Who refers to what.                                                     *)
(***************************************************************************)
InFileCall(p) == blocked[p] # NULL /\ blocked[p].call \in {"do_read", "do_write", "do_getdent"}

InPathCall(p) == blocked[p] # NULL /\ ~InFileCall(p)

\* The file system and, until the shutdown, idle refer to the root.
RootRefs == IF system \in {"up", "assert"} THEN 2 ELSE 1

VnodeUses(v) ==
  (IF v = root THEN RootRefs ELSE 0)
    + Cardinality({p \in alive : p_cwd[p] = v})
    + Cardinality({f \in File : f_vnode[f] = v})
    + Cardinality({p \in Proc : InPathCall(p) /\ blocked[p].dir = v})
    + Cardinality({p \in Proc : InPathCall(p) /\ blocked[p].vn = v})

FileUses(f) ==
  Cardinality({u \in alive \X FD : p_files[u[1]][u[2]] = f})
    + Cardinality({p \in Proc : InFileCall(p) /\ blocked[p].file = f})

(***************************************************************************)
(* Properties.                                                             *)
(***************************************************************************)
\* A vnode has exactly the references that its users account for, on every
\* path out of every call and while calls are blocked, but for one more for
\* each fork in it and each link to a name it has already: none is missing, and
\* no other is left over that would keep the vnode (vref, vget and vput in
\* namev.c, vfs_syscall.c, open.c and proc.c).
RefsExact == \A v \in Inode : vn_refcount[v] = VnodeUses(v) + leaked[v]

\* A file_t has exactly one reference for each descriptor of each process and
\* for each read or write that is under way (fget, fref and fput).
FilesExact == \A f \in File : f_refcount[f] = FileUses(f)

\* Whatever is leaked, nothing that is in use is freed: no descriptor, working
\* directory or blocked call refers to a vnode or file_t that has gone, also
\* when the file has been closed or unlinked by another process meanwhile.
StillReferenced ==
  /\ \A v \in Inode : vn_refcount[v] >= VnodeUses(v)
  /\ \A f \in File : /\ f_refcount[f] >= FileUses(f)
                     /\ FileUses(f) > 0 /\ f_vnode[f] = NULL
                          => \E p \in alive : InPathCall(p) /\ blocked[p].call = "do_open"

\* open_namev finds what the path denotes, component by component, and nothing
\* else, and leaves exactly one new reference, to its result, whatever has
\* happened to the directories on the way (namev.c).
OpenNamevCorrect ==
  \A p \in alive, path \in Path :
    LET r == open_namev(fs, p_cwd[p], path)
        v == Denotes(dirents, p_cwd[p], path)
    IN  IF v = NULL THEN r.ret # "OK" /\ r.s = fs
        ELSE r.ret = "OK" /\ r.vn = v /\ r.s = vref(fs, v)

\* Directories are a tree whatever calls are interleaved: each has at most one
\* name, in a directory that exists, which is its ".." (do_link refuses
\* directories, do_rmdir "." and "..").
DirectoriesFormTree ==
  \A d \in Dir \ {root} :
    LET names == {u \in Dir \X (Name \ {".."}) : dirents[u[1]][u[2]] = d}
    IN  /\ Cardinality(names) <= 1
        /\ \A u \in names : dirents[d][".."] = u[1] /\ Linked(fs, u[1])

\* A directory that is gone has no entries, so that mkdir can use it again.
FreeDirsEmpty == \A d \in FreeInodes(fs, Dir) : dirents[d] = EmptyDir

\* Processes that exist have a working directory, the others no files.
HoldersAlive ==
  \A p \in Proc : IF p \in alive THEN p_cwd[p] \in Dir
                  ELSE p_files[p] = NoFiles /\ blocked[p] = NULL

\* A file_t is used as often as its count says, but for those do_open forgets
\* when the flags are invalid; it has a vnode unless it is free, forgotten, or
\* the one that a blocked do_open creates a vnode for.
FilesAccounted ==
  /\ \A f \in File :
       /\ \/ f_refcount[f] = FileUses(f)
          \/ "do_open_invalid" \in Calls /\ f_refcount[f] = 1 /\ FileUses(f) = 0 /\ f_vnode[f] = NULL
       /\ f_refcount[f] = 0 => f_vnode[f] = NULL
  /\ \A p \in alive, fd \in FD :
       p_files[p][fd] # NULL /\ f_vnode[p_files[p][fd]] = NULL
         => blocked[p] # NULL /\ blocked[p].call = "do_open" /\ blocked[p].fd = fd

\* What a blocked call relies on when the file system returns: the file has a
\* vnode still, the file_t of do_open is in its descriptor and nobody else has
\* it, and the names and vnodes are such as the call has checked them to be.
BlockedRelyOn ==
  \A p \in Proc :
    /\ InFileCall(p) => f_vnode[blocked[p].file] # NULL
    /\ InPathCall(p) =>
         LET b == blocked[p] IN
         /\ (b.vn = NULL) = (b.call \in {"do_open", "do_mkdir", "do_mknod", "do_rmdir"})
         /\ b.call = "do_rmdir" => b.name # ".."
         /\ b.call # "do_rmdir" => b.name \in Name
         /\ b.call \in {"do_link", "do_rename"} => b.vn \notin Dir
         /\ b.call = "do_rename" => b.old # NULL
         /\ b.call = "do_open" => /\ b.fd # NULL
                                  /\ p_files[p][b.fd] # NULL
                                  /\ f_vnode[p_files[p][b.fd]] = NULL
                                  /\ f_refcount[p_files[p][b.fd]] = 1

\* The counts and the directories are right at every point where a call may
\* block or return, whatever other calls did in between.
FilesInv ==
  /\ FilesTypeOK /\ RefsExact /\ DirectoriesFormTree /\ FreeDirsEmpty
  /\ HoldersAlive /\ FilesAccounted /\ BlockedRelyOn

\* When all processes have ended vfs_shutdown finds a vnode in use, and kmain.c
\* panics, if and only if there has been a fork or a link to an existing name:
\* no other call leaves anything behind, and those two always do.
ShutdownFailsAfterLeaks ==
  /\ system = "failed" => \E v \in Inode : leaked[v] > 0
  /\ system = "halted" => \A v \in Inode : leaked[v] = 0

\* do_write's assertion that f_pos is within the file fails only for a writer
\* whose file_t another process, or another read or write, has moved since the
\* writer called the file system: the position is shared after a fork and is
\* read again when the file system returns.
AssertionOnlyIfMoved ==
  [][system' = "assert" /\ system # "assert" =>
       \E p \in Proc : /\ blocked[p] # NULL /\ blocked[p].call = "do_write"
                       /\ blocked'[p] = NULL
                       /\ f_pos[blocked[p].file] # blocked[p].pos]_vars
=============================================================================
