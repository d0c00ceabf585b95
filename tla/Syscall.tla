------------------------------ MODULE Syscall -------------------------------
(***************************************************************************)
(* System calls between the trap and the functions that do the work        *)
(* (vm-submit: api/syscall.c, api/access.c): arguments and strings are     *)
(* copied in, buffers come from the kernel's memory, results are copied    *)
(* out, and every step may fail or block while other threads run.  What a  *)
(* do_ function does is left to the other modules: here it has its effect, *)
(* or it fails, without any effect or half way (HalfDone).                 *)
(***************************************************************************)
EXTENDS Integers, FiniteSets, Totals

CONSTANTS Threads,
          NBuffers,   \* bound: the buffers kmalloc has to give
          Calls,      \* the system calls made
          Nil

(* The calls by what their wrappers copy. *)
PlainCalls == {"close", "dup", "brk", "fork", "kshell"}
CopyCalls == {"dup2", "lseek", "munmap", "mmap"}
PathCalls == {"mkdir", "rmdir", "unlink", "chdir", "open"}
TwoPathCalls == {"link", "rename"}
OtherCalls == {"read", "write", "getdents", "waitpid", "stat", "uname", "debug", "execve"}

ASSUME SyscallAssumption ==
  /\ IsFiniteSet(Threads) /\ NBuffers \in Nat
  /\ Calls \subseteq PlainCalls \cup CopyCalls \cup PathCalls \cup TwoPathCalls \cup OtherCalls

NoError == "0"

(* EDO stands for whatever error a do_ function returns, ENOSYS included, and
   EOLD for any error an earlier call has left. *)
Errno == {"EFAULT", "ENOMEM", "EINVAL", "EDO"}

VARIABLES used,       \* the number of buffers allocated
          lost,       \* of these, those getdents has left behind
          th,         \* th[t]: the locals of the call t is in
          kt_errno,   \* kt_errno[t], NoError for 0
          cancelled,  \* the threads with kt_cancelled set
          wild        \* a buffer has been freed through a pointer never set

callVars == <<used, lost, th, kt_errno, cancelled, wild>>

(* own: the number of buffers the locals point to.  strs: the strings still to be copied
   in, vecs: the vectors.  err: the error stored by this call.  done: the do_
   function has had its effect, or half of it.  faulted: data could not be copied
   from or to the user, and the wrapper went on as if it had been. *)
InUser == [call |-> Nil, pc |-> "user", own |-> 0, strs |-> 0, vecs |-> 0,
           ret |-> Nil, err |-> NoError, done |-> FALSE, faulted |-> FALSE]

Strings(c) == IF c \in PathCalls \cup {"stat", "debug", "execve"} THEN 1
              ELSE IF c \in TwoPathCalls THEN 2 ELSE 0

(* Nothing is said of the kernel once it has freed at random. *)
AtPc(t, place) == th[t].pc = place /\ ~wild

(* The rest of the state when t only moves on within its call. *)
Goto(t, place) == th' = [th EXCEPT ![t].pc = place] /\ UNCHANGED <<used, lost, kt_errno, cancelled, wild>>

(* A copy to or from the user has failed, and t goes on without it. *)
GoOnWithout(t, place) ==
  /\ th' = [th EXCEPT ![t].faulted = TRUE, ![t].pc = place]
  /\ UNCHANGED <<used, lost, kt_errno, cancelled, wild>>

(* What follows the copying in of arguments, and of each string. *)
AfterStrings(t, strs) ==
  IF strs > 0 THEN "kmalloc" ELSE IF th[t].vecs > 0 THEN "vector" ELSE "do"

----------------------------------------------------------------------------
(* Entry, exit, and the ends of a call. *)

FirstPc(c) == IF c \in PlainCalls THEN "do" ELSE IF c = "uname" THEN "copyout" ELSE "args"

(* A cancelled thread exits; another is dispatched.  execve has up to two
   vectors, argv and envp. *)
syscall_handler(t) ==
  /\ AtPc(t, "user")
  /\ \/ t \in cancelled /\ th' = [th EXCEPT ![t].pc = "exited"]
     \/ /\ t \notin cancelled
        /\ \E c \in Calls : \E v \in IF c = "execve" THEN 0 .. 2 ELSE {0} :
             th' = [th EXCEPT ![t] = [InUser EXCEPT !.call = c, !.pc = FirstPc(c),
                                                    !.strs = Strings(c), !.vecs = v]]
  /\ UNCHANGED <<used, lost, kt_errno, cancelled, wild>>

(* The call is over: the thread exits if it was cancelled meanwhile, or takes
   its result to user mode, where kt_errno is an old one from then on. *)
syscall_returns(t) ==
  /\ AtPc(t, "return")
  /\ th' = [th EXCEPT ![t] = IF t \in cancelled THEN [InUser EXCEPT !.pc = "exited"] ELSE InUser]
  /\ kt_errno' = [kt_errno EXCEPT ![t] = IF @ = NoError THEN NoError ELSE "EOLD"]
  /\ UNCHANGED <<used, lost, cancelled, wild>>

(* The end of a wrapper: it frees the buffers in freed, sets kt_errno if e is
   an error, and returns. *)
\* Mutant of Return: the buffers are freed on success only.
ReturnKeeping(t, ret, e, freed, done) ==
  /\ used' = IF ret = "ok" THEN used - freed ELSE used
  /\ kt_errno' = IF e = NoError THEN kt_errno ELSE [kt_errno EXCEPT ![t] = e]
  /\ th' = [th EXCEPT ![t].pc = "return", ![t].own = 0, ![t].strs = 0, ![t].vecs = 0,
                      ![t].ret = ret, ![t].err = e, ![t].done = done]
  /\ UNCHANGED <<lost, cancelled, wild>>

Return(t, ret, e, freed, done) ==
  /\ used' = used - freed
  /\ kt_errno' = IF e = NoError THEN kt_errno ELSE [kt_errno EXCEPT ![t] = e]
  /\ th' = [th EXCEPT ![t].pc = "return", ![t].own = 0, ![t].strs = 0, ![t].vecs = 0,
                      ![t].ret = ret, ![t].err = e, ![t].done = done]
  /\ UNCHANGED <<lost, cancelled, wild>>

(* The calls that are done in syscall_dispatch: one that sets kt_errno, and one
   it does not know. *)
syscall_dispatch(t) ==
  /\ AtPc(t, "user") /\ t \notin cancelled
  /\ \/ kt_errno' = [kt_errno EXCEPT ![t] = NoError] /\ UNCHANGED <<used, lost, th, cancelled, wild>>
     \/ Return(t, "fail", "EDO", 0, FALSE)

(* kthread_cancel, by proc_kill of another process. *)
Cancel(t) ==
  /\ t \notin cancelled /\ th[t].pc # "exited" /\ ~wild
  /\ cancelled' = cancelled \cup {t}
  /\ UNCHANGED <<used, lost, th, kt_errno, wild>>

----------------------------------------------------------------------------
(* Copying in. *)

UsesBuffer(c) == c \in {"read", "write", "getdents"}

(* copy_from_user of the argument structure. *)
CopyArgs(t) ==
  /\ AtPc(t, "args")
  /\ \/ Goto(t, IF UsesBuffer(th[t].call) THEN "kmalloc" ELSE AfterStrings(t, th[t].strs))
     \/ Return(t, "fail", "EFAULT", 0, FALSE)

Available == NBuffers - used

(* kmalloc of n more buffers, which are then filled. *)
Allocate(t, n, place) ==
  /\ used' = used + n
  /\ th' = [th EXCEPT ![t].own = @ + n, ![t].pc = place]
  /\ UNCHANGED <<lost, kt_errno, cancelled, wild>>

(* What a wrapper does when user_strdup has failed with e: the strings copied
   before are freed, and the error becomes EINVAL, but in execve, which keeps
   it, and in debug, which goes on. *)
\* Mutant of StrdupError: execve leaves kt_errno to a call that did not set it.
StrdupErrorUnset(t, e) == IF th[t].call = "execve" THEN NoError ELSE "EINVAL"

StrdupError(t, e) == IF th[t].call = "execve" THEN e ELSE "EINVAL"

StrdupFails(t, e) ==
  IF th[t].call = "debug" THEN Return(t, "ok", e, th[t].own, FALSE)
  ELSE Return(t, "fail", StrdupError(t, e), th[t].own, FALSE)

(* kmalloc in user_strdup, and in read, write and getdents, the last two of
   which return 0 when there is no memory. *)
kmalloc(t) ==
  /\ AtPc(t, "kmalloc")
  /\ \/ Available > 0 /\ Allocate(t, 1, IF th[t].call \in {"read", "getdents"} THEN "do" ELSE "copyin")
     \/ /\ Available = 0 /\ UsesBuffer(th[t].call)
        /\ Return(t, IF th[t].call = "read" THEN "fail" ELSE "ok", "ENOMEM", 0, FALSE)
     \/ Available = 0 /\ ~UsesBuffer(th[t].call) /\ StrdupFails(t, "ENOMEM")

(* The string, or what is to be written, is copied.  sys_write does not look
   whether it could be: do_write then writes whatever is in the buffer. *)
copy_from_user(t) ==
  /\ AtPc(t, "copyin")
  /\ \/ th[t].call = "write" /\ (Goto(t, "do") \/ GoOnWithout(t, "do"))
     \/ /\ th[t].call # "write"
        /\ th' = [th EXCEPT ![t].strs = @ - 1, ![t].pc = AfterStrings(t, th[t].strs - 1)]
        /\ UNCHANGED <<used, lost, kt_errno, cancelled, wild>>
     \/ th[t].call # "write" /\ StrdupFails(t, "EFAULT")

(* user_vecdup: two arrays; the strings of the user's array are copied in, and
   one of the two arrays is freed.  A vector has one string here.  The failure
   of the first copy makes it free what the new, uninitialised, array holds:
   nothing, or a pointer of an earlier use. *)
user_vecdup(t) ==
  /\ AtPc(t, "vector")
  /\ \/ Available < 2 /\ Return(t, "fail", "ENOMEM", th[t].own, FALSE)
     \/ Available >= 2 /\ Allocate(t, 2, "array")

user_vecdup_array(t) ==
  /\ AtPc(t, "array")
  /\ \/ Goto(t, "vecstr")
     \/ Return(t, "fail", "EFAULT", th[t].own, FALSE)
     \/ wild' = TRUE /\ UNCHANGED <<used, lost, th, kt_errno, cancelled>>

(* The string of the vector, and the end of user_vecdup, which frees the array
   of the user's strings. *)
user_vecdup_string(t) ==
  /\ AtPc(t, "vecstr")
  /\ \/ Available = 0 /\ StrdupFails(t, "ENOMEM")
     \/ Available > 0 /\ Allocate(t, 1, "veccopy")

user_vecdup_returns(t) ==
  /\ AtPc(t, "veccopy")
  /\ \/ StrdupFails(t, "EFAULT")
     \/ /\ used' = used - 1
        /\ th' = [th EXCEPT ![t].own = @ - 1, ![t].vecs = @ - 1,
                            ![t].pc = IF th[t].vecs > 1 THEN "vector" ELSE "do"]
        /\ UNCHANGED <<lost, kt_errno, cancelled, wild>>

----------------------------------------------------------------------------
(* The do_ function and what follows. *)

HasResult(c) == c \in {"read", "getdents", "waitpid", "stat"}

(* A failing do_rename may have made the new link before, and a failing do_write
   have moved the position or written a part. *)
HalfDone(c) == c \in {"rename", "write"}

(* It has failed: the wrapper frees its buffers and reports the error, sys_read
   after it has copied out its buffer all the same.  sys_getdents returns from
   inside its loop, and keeps its buffer. *)
do_fails(t) ==
  /\ AtPc(t, "do") /\ th[t].call # "debug"
  /\ \/ /\ th[t].call = "read"
        /\ th' = [th EXCEPT ![t].pc = "copyout", ![t].err = "EDO"]
        /\ UNCHANGED <<used, lost, kt_errno, cancelled, wild>>
     \/ /\ th[t].call = "getdents"
        /\ lost' = lost + th[t].own
        /\ kt_errno' = [kt_errno EXCEPT ![t] = "EDO"]
        /\ th' = [th EXCEPT ![t].pc = "return", ![t].own = 0, ![t].ret = "fail", ![t].err = "EDO"]
        /\ UNCHANGED <<used, cancelled, wild>>
     \/ /\ th[t].call \notin {"read", "getdents"}
        /\ \E half \in {FALSE, HalfDone(th[t].call)} : Return(t, "fail", "EDO", th[t].own, half)

(* sys_execve stores the 0 of do_execve as its error. *)
execve_succeeds(t) ==
  /\ used' = used - th[t].own
  /\ kt_errno' = [kt_errno EXCEPT ![t] = NoError]
  /\ th' = [th EXCEPT ![t].pc = "return", ![t].own = 0, ![t].ret = "ok", ![t].done = TRUE]
  /\ UNCHANGED <<lost, cancelled, wild>>

do_succeeds(t) ==
  /\ AtPc(t, "do")
  /\ \/ /\ HasResult(th[t].call)
        /\ th' = [th EXCEPT ![t].pc = "copyout", ![t].done = TRUE]
        /\ UNCHANGED <<used, lost, kt_errno, cancelled, wild>>
     \/ /\ ~HasResult(th[t].call) /\ th[t].call # "execve"
        /\ Return(t, "ok", NoError, th[t].own, TRUE)
     \/ th[t].call = "execve" /\ execve_succeeds(t)

(* The result is copied out.  sys_read and sys_getdents do not look whether it
   could be, and go on as if it had been; a directory is read on until its end or
   the caller's count. *)
\* Mutant of CopyOutFails: the failure is not looked at in the other calls either.
CopyOutIgnored(t) == GoOnWithout(t, "copyout")

CopyOutFails(t) == Return(t, "fail", "EFAULT", th[t].own, th[t].done)

copy_to_user(t) ==
  /\ AtPc(t, "copyout")
  /\ \/ th[t].err = NoError /\ Return(t, "ok", NoError, th[t].own, TRUE)
     \/ th[t].err # NoError /\ Return(t, "fail", th[t].err, th[t].own, FALSE)
     \/ th[t].call = "getdents" /\ Goto(t, "do")
     \/ th[t].call \in {"read", "getdents"} /\ ~th[t].faulted /\ GoOnWithout(t, "copyout")
     \/ th[t].call \notin {"read", "getdents"} /\ CopyOutFails(t)

----------------------------------------------------------------------------
Init ==
  /\ used = 0 /\ lost = 0
  /\ th = [t \in Threads |-> InUser]
  /\ kt_errno = [t \in Threads |-> NoError]
  /\ cancelled = {}
  /\ wild = FALSE

Next ==
  \E t \in Threads :
    \/ syscall_handler(t) \/ syscall_dispatch(t) \/ syscall_returns(t) \/ Cancel(t)
    \/ CopyArgs(t) \/ kmalloc(t) \/ copy_from_user(t)
    \/ user_vecdup(t) \/ user_vecdup_array(t) \/ user_vecdup_string(t) \/ user_vecdup_returns(t)
    \/ do_fails(t) \/ do_succeeds(t) \/ copy_to_user(t)

Spec == Init /\ [][Next]_callVars

----------------------------------------------------------------------------
(* Properties. *)

(* The state keeps its type: never more buffers in use than kmalloc has given,
   nor fewer than none. *)
SyscallTypeOK ==
  /\ used \in 0 .. NBuffers /\ lost \in 0 .. NBuffers
  /\ th \in [Threads -> [call : Calls \cup {Nil},
                         pc : {"user", "args", "kmalloc", "copyin", "vector", "array", "vecstr", "veccopy",
                               "do", "copyout", "return", "exited"},
                         own : 0 .. NBuffers, strs : 0 .. 2, vecs : 0 .. 2,
                         ret : {"ok", "fail", Nil}, err : {NoError} \cup Errno, done : BOOLEAN,
                         faulted : BOOLEAN]]
  /\ kt_errno \in [Threads -> {NoError, "EOLD"} \cup Errno]
  /\ cancelled \subseteq Threads
  /\ wild \in BOOLEAN

(* Whatever fails, and whenever a thread is cancelled: a call uses its own
   buffers only, and frees every one of them before it returns or its thread
   exits, but for the buffer of a getdents that failed.  This is so as long as
   no uninitialised vector has been freed. *)
BuffersOwned == used = lost + Total([t \in Threads |-> th[t].own], Threads)

CopiesBlindly(c) == c \in {"read", "write", "getdents"}

(* At every point of a call its locals are what the rest of it relies on: buffers
   are there to be freed, strings and vectors left to be copied, and an error or
   an effect is only recorded where a result is on its way out. *)
LocalsMatchPc ==
  \A t \in Threads :
    /\ th[t].pc \in {"user", "args", "return", "exited"} => th[t].own = 0
    /\ th[t].pc = "kmalloc" => IF UsesBuffer(th[t].call) THEN th[t].own = 0 ELSE th[t].strs > 0
    /\ th[t].pc = "copyin" /\ th[t].call # "write" => th[t].strs > 0 /\ ~UsesBuffer(th[t].call)
    /\ th[t].pc \in {"vector", "array", "vecstr", "veccopy"} => th[t].vecs > 0
    /\ th[t].pc = "veccopy" => th[t].own > 0
    /\ th[t].err # NoError => \/ th[t].pc = "return"
                              \/ th[t].pc = "copyout" /\ th[t].call = "read"
    /\ th[t].done => \/ th[t].pc = "return"
                     \/ th[t].pc = "copyout" /\ HasResult(th[t].call)
                     \/ th[t].pc = "do" /\ th[t].call = "getdents"
    /\ th[t].faulted => CopiesBlindly(th[t].call)

(* The state keeps its type, no buffer is lost, freed twice or shared, and calls
   find the locals they rely on: inductive (see ThreadProofs). *)
SyscallInv == SyscallTypeOK /\ BuffersOwned /\ LocalsMatchPc

(* A call that returns -1 has stored its own error, not left that of an earlier
   one; only write and getdents without memory, and debug, store an error and
   return 0. *)
ErrnoReported ==
  \A t \in Threads : AtPc(t, "return") =>
    /\ th[t].ret = "fail" => th[t].err # NoError /\ kt_errno[t] = th[t].err
    /\ th[t].ret = "ok" /\ th[t].err # NoError => th[t].call \in {"write", "getdents", "debug"}

(* What the caller is told is what happened.  Success means that the call had its
   effect, on data that was really copied; only a read, a write or a getdents
   can succeed although a copy failed, and only a write or a getdents without
   memory, and debug, without having done anything.  Failure means that there
   was no effect; only the result of waitpid and stat can be lost in the copy,
   the end of a directory be unreadable, and a rename or a write end half way. *)
ResultTruthful ==
  \A t \in Threads : AtPc(t, "return") =>
    /\ th[t].ret = "ok" /\ th[t].faulted => CopiesBlindly(th[t].call)
    /\ th[t].ret = "ok" /\ ~th[t].done => th[t].err # NoError /\ th[t].call \in {"write", "getdents", "debug"}
    /\ th[t].ret = "fail" /\ th[t].done => \/ th[t].err = "EFAULT" /\ th[t].call \in {"waitpid", "stat"}
                                           \/ th[t].call = "getdents"
                                           \/ th[t].err = "EDO" /\ HalfDone(th[t].call)
=============================================================================
