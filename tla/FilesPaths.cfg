SPECIFICATION FilesSpec
CONSTANTS
  NULL = NULL
  p1 = p1
  p2 = p2
  root = root
  dir1 = dir1
  reg1 = reg1
  chr1 = chr1
  f1 = f1
  Dir = {root, dir1}
  Reg = {reg1}
  Chr = {chr1}
  Driver = {}
  Name = {"a", "b", "..", "/"}
  AtLimit = {"b"}
  TooLong = {"xxx"}
  Proc = {p1, p2}
  first = p1
  File = {f1}
  NFILES = 1
  MaxPos = 0
  MaxRef = 6
  LinkPath <- TwoPaths
  Path <- AllPaths
  Flags <- ReadCreate
  Calls = {"do_open", "do_open_invalid", "do_close", "do_mkdir", "do_mknod", "do_rmdir",
           "do_unlink", "do_link", "do_rename", "do_chdir", "do_stat", "proc_create",
           "do_exit"}
CHECK_DEADLOCK FALSE
INVARIANTS
  FilesInv
  OpenNamevCorrect
