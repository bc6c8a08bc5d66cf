------------------------------ MODULE FileTree ------------------------------
(***************************************************************************)
(* What a writable virtual file system promises its clients: a tree of     *)
(* directories and files addressed by path, nothing else.  There are no    *)
(* rows, positions or caches here.  Mk4Vfs is shown to implement it.       *)
(*                                                                         *)
(* The promise is the one the file system API document makes for the       *)
(* handler subcommands open, createdirectory, removedirectory and          *)
(* deletefile (8.x/tclvfs/doc/vfs-fsapi.man:136-260).                      *)
(***************************************************************************)
EXTENDS Sequences, SequencesExt, Functions

CONSTANTS Name,      \* the names a path component can have
          Data,      \* the contents a file can have
          Empty,     \* the contents of a file that was only created
          Handle,    \* the channels a client can hold
          MaxDepth   \* longest path a client uses

VARIABLES
  fs,       \* fs[p]: Dir, or the contents of the file p, for every path p that exists
  writing   \* writing[h]: the path channel h was opened on for writing, or <<>>

vars == <<fs, writing>>

Path == UNION {[1..n -> Name] : n \in 1..MaxDepth}
Dir == "directory"

\* The root, the empty path, exists always and is not in DOMAIN fs.
IsDir(p) == p = <<>> \/ (p \in DOMAIN fs /\ fs[p] = Dir)
Below(p) == {q \in DOMAIN fs : IsPrefix(p, q)}
Without(S) == Restrict(fs, DOMAIN fs \ S)
With(p, x) == [q \in DOMAIN fs \cup {p} |-> IF q = p THEN x ELSE fs[q]]

Init == fs = <<>> /\ writing = [h \in Handle |-> <<>>]

\* Opening for writing creates the file when it is missing.
Open(h, p) ==
  /\ writing[h] = <<>>
  /\ writing' = [writing EXCEPT ![h] = p]
  /\ \/ p \in DOMAIN fs /\ fs[p] # Dir /\ fs' = fs
     \/ p \notin DOMAIN fs /\ IsDir(Front(p)) /\ fs' = With(p, Empty)

\* Closing stores what was written, in the file the channel was opened on.
Close(h, x) ==
  /\ writing[h] # <<>>
  /\ writing' = [writing EXCEPT ![h] = <<>>]
  /\ writing[h] \in DOMAIN fs
  /\ fs' = With(writing[h], x)

CreateDirectory(p) ==
  /\ IsDir(Front(p))
  /\ fs' = With(p, Dir)

DeleteFile(p) ==
  /\ fs[p] # Dir
  /\ fs' = Without({p})

RemoveDirectory(p, recursive) ==
  /\ fs[p] = Dir
  /\ recursive \/ Below(p) = {p}
  /\ fs' = Without(Below(p))

\* Unmounting invalidates the channels; the tree is still there when it is
\* mounted again.
Remount == writing' = [h \in Handle |-> <<>>] /\ fs' = fs

Next ==
  \/ Remount
  \/ \E h \in Handle, p \in Path : Open(h, p)
  \/ \E h \in Handle, x \in Data : Close(h, x)
  \/ /\ UNCHANGED writing
     /\ \/ \E p \in Path \ DOMAIN fs : CreateDirectory(p)
        \/ \E p \in DOMAIN fs, r \in BOOLEAN : DeleteFile(p) \/ RemoveDirectory(p, r)

Spec == Init /\ [][Next]_vars
=============================================================================
