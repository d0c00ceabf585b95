SPECIFICATION FilesSpec
CONSTANTS
  NULL = NULL
  p1 = p1
  p2 = p2
  root = root
  reg1 = reg1
  f1 = f1
  f2 = f2
  Dir = {root}
  Reg = {reg1}
  Chr = {}
  Driver = {}
  Name = {"a", "..", "/"}
  AtLimit = {}
  TooLong = {"xxx"}
  Proc = {p1, p2}
  first = p1
  File = {f1, f2}
  NFILES = 2
  MaxPos = 1
  MaxRef = 5
  LinkPath <- OnePath
  Path <- RootPaths
  Flags <- ReadCreateAppend
  Calls = {"do_open", "do_close", "do_dup", "do_dup2", "do_lseek", "do_read", "do_getdent",
           "do_write", "do_unlink", "do_link", "do_link_exists", "do_fork", "proc_create", "do_exit"}
SYMMETRY FileSymmetry
CHECK_DEADLOCK FALSE
INVARIANTS
  FilesInv
  ShutdownFailsAfterLeaks
  FilesExact
  StillReferenced
PROPERTIES
  AssertionOnlyIfMoved
