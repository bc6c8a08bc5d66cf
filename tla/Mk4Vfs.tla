-------------------------------- MODULE Mk4Vfs --------------------------------
(***************************************************************************)
(* The Metakit virtual file system driver, 8.x/tclvfs/library/mk4vfs.tcl:  *)
(* one mounted datafile, its two caches and the channels open on it.       *)
(*                                                                         *)
(* The datafile is a view of directories, one row each, which are never    *)
(* removed but only flagged as deleted; every directory row has a subview  *)
(* of files, whose rows are removed by position.  Every lookup goes        *)
(* through v::cache (a directory by parent row and name) and v::fcache     *)
(* (the names of a directory's files, in the order of their rows), and a   *)
(* channel keeps the position its file had when it was opened.             *)
(*                                                                         *)
(* Row r of the code is r + 1 here, so that a view is a sequence and 0     *)
(* stands for "no row".  File contents are opaque values: how they are     *)
(* compressed and committed is in Mk4File and Mk4Commit.  Modelled with    *)
(* the settings compress 1 and direct 0; under zstreamed 1 (files/boot.tcl *)
(* sets it for a Tcl before 8.6) all contents are read in place.           *)
(* Not modelled: opening a directory for writing, which succeeds and whose *)
(* do_close then fails; and the state readonly, in which Stat and the      *)
(* opening for reading are all that is left.                               *)
(***************************************************************************)
EXTENDS Integers, Sequences, FiniteSets, SequencesExt

CONSTANTS
  Name,              \* the names a path component can have
  GlobName,          \* those that, read as a glob pattern, do not match themselves
  CaseTwin,          \* pairs of different names that differ in case only
  Data,              \* what a writer can leave in a file
  Raw,               \* the contents read in place: those compression does not shrink
  Empty,             \* the contents of a row just appended
  Handle,            \* channels
  DeleteUnderHandle, \* may a client delete in a directory a channel is open in?
  FcacheLimit,       \* directories v::fcache holds, 10 in the code
  MaxDepth,          \* bound: components of a path
  MaxRow,            \* bound: directory rows ever appended
  MaxFile            \* bound: files in one directory

NoRow == 0
Root == 1
RootParent == -1
Deleted == -99

ASSUME NameAssumption ==
  /\ "" \notin Name /\ "<root>" \notin Name
  /\ GlobName \subseteq Name
  /\ CaseTwin \subseteq Name \X Name

ASSUME DataAssumption == Raw \subseteq Data \cup {Empty}

ASSUME BoundAssumption ==
  /\ DeleteUnderHandle \in BOOLEAN
  /\ FcacheLimit \in Nat \ {0} /\ MaxDepth \in Nat \ {0}
  /\ MaxRow \in Nat /\ MaxFile \in Nat

VARIABLES
  dirs,    \* the rows of $db.dirs: name and parent row
  files,   \* files[r]: the rows of $db.dirs!r.files: name and contents
  cache,   \* v::cache: directory row by parent row and name
  fcache,  \* v::fcache: the list of file names, by directory row
  handle   \* the open channels: position, and the path given to open (a ghost)

vars == <<dirs, files, cache, fcache, handle>>

Path == UNION {[1..n -> Name] : n \in 1..MaxDepth}
Contents == Data \cup {Empty}
Closed == [mode |-> "closed", dir |-> NoRow, idx |-> NoRow, path |-> <<>>]
NoEntries == [k \in {} |-> NoRow]

\* One invariant for the types.
TypeOK ==
  /\ dirs \in Seq([name : Name \cup {"", "<root>"}, parent : Int])
  /\ files \in Seq(Seq([name : Name \cup {""}, data : Contents]))
  /\ Len(dirs) \in 1..(MaxRow + 1) /\ Len(files) = Len(dirs)
  /\ DOMAIN cache \subseteq (DOMAIN dirs) \X Name
  /\ cache \in [DOMAIN cache -> DOMAIN dirs]
  /\ DOMAIN fcache \subseteq DOMAIN dirs
  /\ fcache \in [DOMAIN fcache -> Seq(Name \cup {""})]
  /\ handle \in [Handle -> [mode : {"closed", "r", "w"}, dir : Nat, idx : Nat,
                            path : Path \cup {<<>>}]]

-----------------------------------------------------------------------------
(* Lookups.                                                                *)

FirstIn(S) == IF S = {} THEN NoRow ELSE Min(S)

\* mk::select -count 1 parent $p name $n: a criterion without an option
\* compares strings without regard to case.
SameName(m, n) == m = n \/ <<m, n>> \in CaseTwin
Select(p, n) ==
  FirstIn({r \in DOMAIN dirs : dirs[r].parent = p /\ SameName(dirs[r].name, n)})

Lookup(p, n) == IF <<p, n>> \in DOMAIN cache THEN cache[<<p, n>>] ELSE Select(p, n)

NamesOf(d) == [i \in 1..Len(files[d]) |-> files[d][i].name]
Listed(d) == IF d \in DOMAIN fcache THEN fcache[d] ELSE NamesOf(d)
FileAt(d, n) == FirstIn({i \in 1..Len(Listed(d)) : Listed(d)[i] = n})

\* stat walks all components but the last through the directories: w[i] is
\* the row reached after i of them.  There is exactly one such walk.
Walks(path) ==
  {w \in [0..Len(path) - 1 -> 0..Len(dirs)] :
     /\ w[0] = Root
     /\ \A i \in 1..Len(path) - 1 : w[i] = Lookup(w[i - 1], path[i])}
Parent(path, w) == w[Len(path) - 1]

\* What stat takes the last component for, in the order it tries.
IsFile(p, n) ==
  p # NoRow /\ <<p, n>> \notin DOMAIN cache /\ FileAt(p, n) # NoRow
IsDir(p, n) == p # NoRow /\ ~IsFile(p, n) /\ Lookup(p, n) # NoRow
IsAbsent(p, n) == p # NoRow /\ ~IsFile(p, n) /\ Lookup(p, n) = NoRow

\* What stat leaves in v::cache: every directory found on the way.  (Without
\* the test of the last lookup, an entry of row "" would be left as well.)
Remember(K) == [k \in DOMAIN cache \cup K |-> Lookup(k[1], k[2])]
WalkKeys(path, w) ==
  {<<w[i - 1], path[i]>> : i \in {j \in 1..Len(path) - 1 : w[j] # NoRow}}
StatKeysUntested(path, w) ==
  WalkKeys(path, w) \cup {k \in {<<Parent(path, w), Last(path)>>} : k[1] # NoRow}
StatKeys(path, w) ==
  WalkKeys(path, w)
    \cup {k \in {<<Parent(path, w), Last(path)>>} : IsDir(k[1], k[2])}

\* What stat leaves in v::fcache: the names of the directory it looked for a
\* file in.  The array is shared by all mounts, so it may be full, and then
\* is emptied, whatever this mount has put in it.
Load(p, kept) ==
  [d \in kept \cup {p} |-> IF d = p THEN NamesOf(p) ELSE fcache[d]]
Kept == {S \in {{}, DOMAIN fcache} : Cardinality(S) < FcacheLimit}
StatFcaches(p, n) ==
  IF p # NoRow /\ <<p, n>> \notin DOMAIN cache /\ p \notin DOMAIN fcache
  THEN {Load(p, kept) : kept \in Kept}
  ELSE {fcache}

-----------------------------------------------------------------------------
(* The handler subcommands.  Each is given the walk of its path.           *)

Init ==
  /\ dirs = << [name |-> "<root>", parent |-> RootParent] >>
  /\ files = << <<>> >>
  /\ cache = NoEntries /\ fcache = NoEntries
  /\ handle = [h \in Handle |-> Closed]

\* stat, access, utime, matchindirectory, and the opening of a compressed
\* file for reading: only the caches change, also when the path is missing.
\* A failing open, mkdir or delete is no more than this either.
Stat(path, w) ==
  /\ cache' = Remember(StatKeys(path, w))
  /\ fcache' \in StatFcaches(Parent(path, w), Last(path))
  /\ UNCHANGED <<dirs, files, handle>>

\* open r of contents read in place: an mk::channel that reads the row at this
\* position for as long as it is open.
OpenRead(h, path, w) ==
  LET p == Parent(path, w)  n == Last(path)  i == FileAt(p, n) IN
  /\ handle[h] = Closed
  /\ IsFile(p, n) /\ i <= Len(files[p]) /\ files[p][i].data \in Raw
  /\ cache' = Remember(StatKeys(path, w))
  /\ fcache' \in StatFcaches(p, n)
  /\ handle' = [handle EXCEPT ![h] =
                  [mode |-> "r", dir |-> p, idx |-> i, path |-> path]]
  /\ UNCHANGED <<dirs, files>>

\* open a and open w of a file that exists: the text goes to a memchan, the
\* row is written by do_close.
OpenWrite(h, path, w) ==
  LET p == Parent(path, w)  n == Last(path) IN
  /\ handle[h] = Closed
  /\ IsFile(p, n)
  /\ cache' = Remember(StatKeys(path, w))
  /\ fcache' \in StatFcaches(p, n)
  /\ handle' = [handle EXCEPT ![h] =
                  [mode |-> "w", dir |-> p, idx |-> FileAt(p, n), path |-> path]]
  /\ UNCHANGED <<dirs, files>>

\* open a and open w of a new file append its row first, and its name to the
\* cached list.  (Without the latter, the list has one name less than rows.)
EnterMissing(f, d, n) == f
Enter(f, d, n) == [e \in DOMAIN f |-> IF e = d THEN Append(f[e], n) ELSE f[e]]

OpenCreate(h, path, w) ==
  LET p == Parent(path, w)  n == Last(path) IN
  /\ handle[h] = Closed
  /\ IsAbsent(p, n) /\ Len(files[p]) < MaxFile
  /\ files' = [files EXCEPT ![p] = Append(@, [name |-> n, data |-> Empty])]
  /\ cache' = Remember(StatKeys(path, w))
  /\ fcache' \in {Enter(f, p, n) : f \in StatFcaches(p, n)}
  /\ handle' = [handle EXCEPT ![h] =
                  [mode |-> "w", dir |-> p, idx |-> Len(files[p]) + 1, path |-> path]]
  /\ UNCHANGED dirs

\* mk::set of a row past the end of its view extends the view.
SetData(rows, i, x) ==
  [j \in 1..(IF i > Len(rows) THEN i ELSE Len(rows)) |->
     [name |-> IF j <= Len(rows) THEN rows[j].name ELSE "",
      data |-> IF j = i THEN x ELSE IF j <= Len(rows) THEN rows[j].data ELSE Empty]]

\* do_close, run when the channel is closed: the contents go to the position
\* kept since open.
DoClose(h, x) ==
  /\ handle[h].mode = "w"
  /\ files' = [files EXCEPT ![handle[h].dir] = SetData(@, handle[h].idx, x)]
  /\ handle' = [handle EXCEPT ![h] = Closed]
  /\ UNCHANGED <<dirs, cache, fcache>>

CloseRead(h) ==
  /\ handle[h].mode = "r"
  /\ handle' = [handle EXCEPT ![h] = Closed]
  /\ UNCHANGED <<dirs, files, cache, fcache>>

\* createdirectory: Tcl has just found with stat that the path is missing and
\* the directories above it are there (vfs-fsapi.man:139-142).
Mkdir(path, w) ==
  LET p == Parent(path, w)  n == Last(path) IN
  /\ IsAbsent(p, n) /\ WalkKeys(path, w) \subseteq DOMAIN cache
  /\ Len(dirs) < MaxRow
  /\ dirs' = Append(dirs, [name |-> n, parent |-> p])
  /\ files' = Append(files, <<>>)
  /\ fcache' \in StatFcaches(p, n)
  /\ UNCHANGED <<cache, handle>>

\* Clients that do not delete where a channel is open leave positions alone.
Undisturbed(D) ==
  DeleteUnderHandle \/ \A h \in Handle : handle[h].dir \notin D

\* delete of a file removes its row, and its entry of the cached list: all
\* later files move up by one.  (Without the latter, they move in one only.)
LeaveMissing(f, d, i) == f
Leave(f, d, i) == [e \in DOMAIN f |-> IF e = d THEN RemoveAt(f[e], i) ELSE f[e]]

DeleteFile(path, w) ==
  LET p == Parent(path, w)  n == Last(path)  i == FileAt(p, n) IN
  /\ IsFile(p, n) /\ i <= Len(files[p]) /\ Undisturbed({p})
  /\ files' = [files EXCEPT ![p] = RemoveAt(@, i)]
  /\ cache' = Remember(StatKeys(path, w))
  /\ fcache' \in {Leave(f, p, i) : f \in StatFcaches(p, n)}
  /\ UNCHANGED <<dirs, handle>>

Children(r) == {s \in DOMAIN dirs : dirs[s].parent = r}
SubtreeTop(r) == {r}   \* if the recursion were left out
Subtree(r) ==
  {s \in DOMAIN dirs :
     \A C \in SUBSET DOMAIN dirs :
       (r \in C /\ \A d \in C : Children(d) \subseteq C) => s \in C}

\* The cache entries that delete unsets, each by a glob pattern made of the
\* row's parent and the last component of the path it was deleted by.  (By
\* flagging only, without the recursion's own unset, one entry would go.)
UnsetTopKey(S, r, n) == {<<dirs[r].parent, n>>} \ (Int \X GlobName)
UnsetKeys(S, r, n) ==
  {k \in {<<dirs[s].parent, IF s = r THEN n ELSE dirs[s].name>> : s \in S} :
     k[2] \notin GlobName}

\* delete of a directory: the rows of the whole subtree are flagged, its
\* files dropped, its cache entries unset.  The deletion looks every entry of
\* the subtree up again, which may load and evict any of its name lists.
DeleteDir(path, w, recursive) ==
  LET p == Parent(path, w)  n == Last(path)  r == Lookup(p, n)  gone == Subtree(r)
      known == Remember(StatKeys(path, w) \cup
                        {<<dirs[s].parent, dirs[s].name>> : s \in gone \ {r}})
  IN
  /\ IsDir(p, n) /\ Undisturbed(gone)
  /\ recursive \/ (Children(r) = {} /\ files[r] = <<>>)
  /\ dirs' = [s \in DOMAIN dirs |->
                IF s \in gone THEN [name |-> "", parent |-> Deleted] ELSE dirs[s]]
  /\ files' = [s \in DOMAIN files |-> IF s \in gone THEN <<>> ELSE files[s]]
  /\ cache' = [k \in DOMAIN known \ UnsetKeys(gone, r, n) |-> known[k]]
  /\ \E D \in SUBSET (DOMAIN fcache \cup gone \cup {p}) :
       /\ Cardinality(D) <= FcacheLimit
       /\ fcache' = [d \in D |-> IF d \in gone THEN <<>> ELSE Listed(d)]
  /\ UNCHANGED handle

\* Another mount fills the shared array and stat empties it.
EvictFcache ==
  /\ fcache # NoEntries
  /\ fcache' = NoEntries
  /\ UNCHANGED <<dirs, files, cache, handle>>

\* Unmount, then Mount of the same datafile: a new db tag, so no cache entry
\* is left and closing an old channel finds no view to write to.
Remount ==
  /\ cache' = NoEntries /\ fcache' = NoEntries
  /\ handle' = [h \in Handle |-> Closed]
  /\ UNCHANGED <<dirs, files>>

Operation(path, w) ==
  \/ Stat(path, w)
  \/ Mkdir(path, w)
  \/ DeleteFile(path, w)
  \/ \E recursive \in BOOLEAN : DeleteDir(path, w, recursive)
  \/ \E h \in Handle : OpenRead(h, path, w)
  \/ \E h \in Handle : OpenWrite(h, path, w)
  \/ \E h \in Handle : OpenCreate(h, path, w)

Next ==
  \/ \E path \in Path : \E w \in Walks(path) : Operation(path, w)
  \/ \E h \in Handle, x \in Data : DoClose(h, x)
  \/ \E h \in Handle : CloseRead(h)
  \/ EvictFcache
  \/ Remount

Spec == Init /\ [][Next]_vars

-----------------------------------------------------------------------------
(* What must hold.                                                         *)

\* The directory cache never changes an answer: it gives the row the view
\* itself would give.  Names come and go through mkdir and delete, and an
\* entry left behind answers for a directory that is gone.
CacheTransparent ==
  \A k \in DOMAIN cache : cache[k] = Select(k[1], k[2])

\* The list of names of a directory is row for row the names of its files:
\* the index found in it is used as the position of the row.
FcacheAgrees == \A d \in DOMAIN fcache : fcache[d] = NamesOf(d)

\* A channel stands for the file it was opened on for as long as it is open.
HandleOnOwnFile ==
  \A h \in Handle : handle[h].mode # "closed" =>
    /\ handle[h].idx <= Len(files[handle[h].dir])
    /\ files[handle[h].dir][handle[h].idx].name = Last(handle[h].path)

\* Closing a channel stores its text in the file it was opened on: a file of
\* any other name keeps what it had.
CloseKeepsOtherFiles ==
  [][\A h \in Handle :
       (handle[h].mode = "w" /\ handle'[h].mode = "closed") =>
         \A d \in DOMAIN files : \A i \in DOMAIN files[d] :
           files[d][i].name = Last(handle[h].path) \/ files'[d][i] = files[d][i]]_vars

\* Closing a channel spares the other files at least while the file it was opened
\* on is still there.  (A client that deletes beside an open channel can have this
\* fail: positions move up.)
CloseSparesOthers ==
  [][\A h \in Handle :
       LET rows == files[handle[h].dir]  n == Last(handle[h].path) IN
       (/\ handle[h].mode = "w" /\ handle'[h].mode = "closed"
        /\ \E i \in DOMAIN rows : rows[i].name = n) =>
         \A i \in DOMAIN rows :
           rows[i].name = n \/ files'[handle[h].dir][i] = rows[i]]_vars

\* No two entries of a directory answer to the same name.
NamesUnique ==
  \A d \in DOMAIN dirs :
    /\ \A i, j \in DOMAIN files[d] : files[d][i].name = files[d][j].name => i = j
    /\ \A s, t \in Children(d) : dirs[s].name = dirs[t].name => s = t
    /\ \A s \in Children(d), i \in DOMAIN files[d] : dirs[s].name # files[d][i].name

\* Nothing is kept where no path leads: a deleted directory has no files
\* and no directory is below a deleted one.
NothingInDeleted ==
  \A d \in DOMAIN dirs : dirs[d].parent = Deleted => files[d] = <<>> /\ Children(d) = {}

\* However a delete runs, it takes one entry with all that is below it and nothing
\* else: the rows a step flags are one row and the rows below it, all of them; files
\* outside them stay; and no step, this one or another, renames or moves a directory
\* that it does not flag.
DeleteIsLocal ==
  [][LET gone == {r \in DOMAIN dirs : dirs[r].parent # Deleted /\ dirs'[r].parent = Deleted}
     IN /\ \A r \in DOMAIN dirs \ gone : dirs'[r] = dirs[r]
        /\ gone # {} =>
             /\ \A r \in gone : Children(r) \subseteq gone
             /\ \E top \in gone : \A r \in gone \ {top} : dirs[r].parent \in gone
             /\ \A r \in DOMAIN files \ gone : files'[r] = files[r]]_vars
=============================================================================
