------------------------------ MODULE Mk4VfsTree ------------------------------
(***************************************************************************)
(* Mk4Vfs, with its rows, positions and caches, implements FileTree, which *)
(* knows paths only.  The tree is read off the rows without any cache.     *)
(***************************************************************************)
EXTENDS Mk4Vfs

\* What a tree has at the path of a directory is no contents.
ASSUME DirectoryAssumption == "directory" \notin Contents

\* The path of every live directory row, from the parents of the rows alone.
Live == {r \in DOMAIN dirs : dirs[r].parent # Deleted}
pathOf[r \in Live] ==
  IF r = Root THEN <<>> ELSE Append(pathOf[dirs[r].parent], dirs[r].name)

DirEntries(at) == {<<at[r], "directory">> : r \in DOMAIN at \ {Root}}
FileEntries(at) ==
  UNION {{<<Append(at[r], f.name), f.data>> : f \in ToSet(files[r])} : r \in DOMAIN at}

tree ==
  LET at == pathOf
      entries == DirEntries(at) \cup FileEntries(at)
  IN  [q \in {e[1] : e \in entries} |-> (CHOOSE e \in entries : e[1] = q)[2]]

writing == [h \in Handle |-> IF handle[h].mode = "w" THEN handle[h].path ELSE <<>>]

Tree == INSTANCE FileTree WITH fs <- tree

\* Every step of the driver is a step of the tree or none at all: a write
\* reaches the file that was opened, a deletion removes that subtree alone,
\* a lookup served by a cache finds what the tree has.
ImplementsTree == Tree!Spec
=============================================================================
