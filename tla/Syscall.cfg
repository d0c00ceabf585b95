SPECIFICATION Spec
CONSTANTS
  Threads = {t1, t2}
  NBuffers = 6
  Calls = {"close", "lseek", "rename", "read", "write", "getdents",
           "waitpid", "stat", "uname", "debug", "execve"}
  Nil = Nil
CHECK_DEADLOCK FALSE
INVARIANTS
  SyscallInv
  ErrnoReported
  
