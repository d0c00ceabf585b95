------------------------------ MODULE MCFiles ------------------------------
(***************************************************************************)
(* Model checking of Files.  file_t objects are interchangeable; inodes    *)
(* are not, for the file system chooses a free one.                        *)
(***************************************************************************)
EXTENDS Files, TLC

Abs(names) == [abs |-> TRUE, names |-> names]

Rel(names) == [abs |-> FALSE, names |-> names]

\* "/", "", "a", "/a/b", "a/", "a/..", "..", ".", "xxx", "a/xxx" where "xxx" is too long
AllPaths == {Abs(<<>>), Rel(<<>>), Rel(<<"a">>), Abs(<<"a", "b">>), Rel(<<"a", "">>),
             Rel(<<"a", "..">>), Rel(<<"..">>), Rel(<<".">>), Rel(<<"xxx">>), Rel(<<"a", "xxx">>)}

\* "a", "/a/b"
TwoPaths == {Rel(<<"a">>), Abs(<<"a", "b">>)}

\* "/", "/a"
RootPaths == {Abs(<<>>), Abs(<<"a">>)}

\* "/a"
OnePath == {Abs(<<"a">>)}

Oflags(access, creat, append) == [access |-> access, creat |-> creat, append |-> append]

ReadCreate == {Oflags("O_RDONLY", FALSE, FALSE), Oflags("O_RDWR", TRUE, FALSE)}

ReadCreateAppend == ReadCreate \cup {Oflags("O_WRONLY", FALSE, TRUE)}

FileSymmetry == Permutations(File)
=============================================================================
