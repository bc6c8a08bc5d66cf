------------------------------ MODULE Datafile ------------------------------
(***************************************************************************)
(* A Metakit datafile and the process that has it open                     *)
(* (src/8.x/mk/src/persist.cpp, viewx.cpp): how a commit finds room, in    *)
(* which order it writes and flushes, and what a process started after a   *)
(* crash finds.                                                            *)
(*                                                                         *)
(* The unit of length is 8 bytes, the size of a file mark.  Positions are  *)
(* relative to the start of the datafile, which may come after something   *)
(* else, as in a kit.  The walk is the description of all columns that a   *)
(* commit writes after them; it is one unit long.                          *)
(***************************************************************************)
EXTENDS Integers, Sequences, FiniteSets, FiniteSetsExt

CONSTANTS
    N,          \* number of columns, committed in this order
    MaxLen,     \* bound: length of a column
    Tag,        \* names for contents of columns
    Base,       \* lengths of what may come before the datafile
    MaxSize,    \* bound: length of the file
    MaxCommits, \* bound: commits that find something to write
    MaxLost,    \* bound: how many writes are lost when one fails
    Modes,      \* 1 commit, 2 extend
    Faults      \* the faults considered, of Fault

Fault == {"write",      \* a write or flush of a commit fails
          "crash"}      \* the process ends while a commit extends the file

ASSUME Assumption ==
    /\ N \in Nat \ {0} /\ MaxLen \in Nat /\ MaxSize \in Nat /\ MaxCommits \in Nat
    /\ MaxLost \in Nat
    /\ Base \subseteq 0 .. MaxSize /\ Modes \subseteq {1, 2} /\ Faults \subseteq Fault

Col == 1 .. N
Addr == 0 .. MaxSize

VARIABLES
    mode, base,
    file,       \* what is at each position, as of the last flush
    pending,    \* what was written since
    cols,       \* the columns in memory: data, pos (if clean), dirty
    rootWalk,   \* the walk last made or loaded, <<>> if none
    space,      \* mode 1: positions not free for allocation
    pc,         \* idle, or how far a commit has come: tail, write, seal, header
    plan,       \* what it has found: end, end0, locs, walk, next
    stable,     \* the data that were last committed
    told,       \* whether the last commit returned success and nothing changed since
    failed,     \* _failure: it did not
    trust,      \* what failed commits have left: all, file, none
    commits     \* how many commits have started to write, or found no room

vars == <<mode, base, file, pending, cols, rootWalk, space, pc, plan, stable, told, failed,
          trust, commits>>

(* Units of the file. *)
None == <<"none">>      \* beyond its end
Hole == <<"hole">>
Other == <<"other">>    \* what comes before the datafile
Header(off) == <<"head", off>>
Part(off) == <<"part", off>>
SkipTail(off) == <<"skip", off>>
CommitTail(pos) == <<"tail", pos>>
Walk(locs) == <<"walk", locs>>
Data(c, t, n) == [i \in 1 .. n |-> <<"data", c, t, i>>]

Size(f) == Cardinality({x \in Addr : f[x] # None})
end == Size(file) - base

\* f after the writes w, which may leave holes.
Put(f, w) == [x \in Addr |->
    IF x \in DOMAIN w THEN w[x]
    ELSE IF f[x] = None /\ \E y \in DOMAIN w : x < y THEN Hole
    ELSE f[x]]

NoWrites == [x \in {} |-> None]
Put1(f, pos, unit) == Put(f, [x \in {base + pos} |-> unit])
Only(w, S) == [x \in S |-> w[x]]
Over(w, v) == [x \in DOMAIN w \cup DOMAIN v |-> IF x \in DOMAIN w THEN w[x] ELSE v[x]]

Empty == [c \in Col |-> <<>>]
NoLocs == [c \in Col |-> [len |-> 0, pos |-> 0]]
NoPlan == [end |-> 0, end0 |-> 0, locs |-> NoLocs, walk |-> 0, next |-> {}]
Clean(data, pos) == [data |-> data, pos |-> pos, dirty |-> FALSE]
Value == [c \in Col |-> cols[c].data]

Init ==
    /\ mode \in Modes /\ base \in Base
    /\ file = [x \in Addr |-> IF x < base THEN Other ELSE None]
    /\ pending = NoWrites
    /\ cols = [c \in Col |-> Clean(<<>>, 0)] /\ rootWalk = <<>>
    /\ space = {}
    /\ pc = "idle" /\ plan = NoPlan
    /\ stable = Empty /\ told = FALSE /\ failed = FALSE /\ trust = "all" /\ commits = 0

-----------------------------------------------------------------------------
(* Reading.                                                                *)

\* The data at locs in the datafile of f that starts at b.
DataAt(f, b, locs) == [c \in Col |->
    [i \in 1 .. locs[c].len |-> f[b + locs[c].pos + i - 1]]]

\* Where the skip tail before n leads.
IsMark(f, n, kind) == n > 0 /\ f[n - 1][1] = kind
Skipped(f, n) == n - 1 - f[n - 1][2]

\* Whether a datafile ends at n: a commit tail, a skip tail, and where that leads
\* a header; and the data these lead to.
IsDatafile(f, n) ==
    /\ IsMark(f, n, "tail") /\ IsMark(f, n - 1, "skip")
    /\ Skipped(f, n - 1) >= 0 /\ IsMark(f, Skipped(f, n - 1) + 1, "head")
Start(f, n) == Skipped(f, n - 1)
WalkPos(f, n) == f[n - 1][2]
Root(f, n) ==
    LET w == f[Start(f, n) + WalkPos(f, n)] IN IF w[1] = "walk" THEN w[2] ELSE NoLocs
DataBefore(f, n) == DataAt(f, Start(f, n), Root(f, n))

\* The scan from the end of the file passes over what skip tails say.
EndOfData(f) ==
    LET Back[n \in 0 .. Size(f)] ==
            IF ~IsMark(f, n, "skip") THEN n
            ELSE IF Skipped(f, n) > 0 THEN Back[Skipped(f, n)]
            ELSE 0
    IN Back[Size(f)]

\* What a process that opens the file finds in it.
Loads(f) == IsDatafile(f, EndOfData(f))
Found(f) == IF Loads(f) THEN DataBefore(f, EndOfData(f)) ELSE Empty

Span(p, n) == p .. (p + n - 1)
Spans(locs) == UNION {Span(locs[c].pos, locs[c].len) : c \in Col}

\* As before 2006-08-01: the walk is not kept from being overwritten.
LoadAllButWalk(f, walk) ==
    LET n == EndOfData(f)
        locs == Root(f, n)
        data == DataBefore(f, n)
    IN IF Loads(f)
         THEN /\ base' = Start(f, n)
              /\ cols' = [c \in Col |-> Clean(data[c], locs[c].pos)]
              /\ rootWalk' = <<locs>>
              /\ space' = IF mode' = 1 THEN Spans(locs) ELSE {}
         ELSE /\ base' = Size(f)
              /\ cols' = [c \in Col |-> Clean(<<>>, 0)]
              /\ rootWalk' = walk
              /\ space' = {}

\* LoadAll, in a process whose columns are all gone and whose rootWalk is walk.
LoadAll(f, walk) ==
    LET n == EndOfData(f)
        locs == Root(f, n)
        data == DataBefore(f, n)
    IN IF Loads(f)
         THEN /\ base' = Start(f, n)
              /\ cols' = [c \in Col |-> Clean(data[c], locs[c].pos)]
              /\ rootWalk' = <<locs>>
              /\ space' = IF mode' = 1 THEN Spans(locs) \cup {WalkPos(f, n)} ELSE {}
         ELSE /\ base' = Size(f)
              /\ cols' = [c \in Col |-> Clean(<<>>, 0)]
              /\ rootWalk' = walk
              /\ space' = {}

-----------------------------------------------------------------------------
(* The program, which is not followed any further when the file cannot be  *)
(* relied on.                                                              *)

Idle == pc = "idle" /\ trust # "none"

Dirty == {c \in Col : cols[c].dirty}

\* It defines or changes a view, and so at least the column that describes it.
\* Bound: in a memory that is not what the file has no more than one is changed.
Change(c) ==
    /\ Idle /\ (trust = "file" => Dirty = {})
    /\ \E t \in Tag, n \in 1 .. MaxLen :
         /\ Data(c, t, n) # cols[c].data
         /\ cols' = [cols EXCEPT ![c] = [data |-> Data(c, t, n), pos |-> 0, dirty |-> TRUE]]
    /\ told' = FALSE
    /\ UNCHANGED <<mode, base, file, pending, rootWalk, space, pc, plan, stable, failed, trust,
                   commits>>

\* The columns in a walk, if there is one, take no room.
Blank(walk) == walk = <<>> \/ Spans(walk[1]) = {}

\* What is on disk is loaded again.  The walk stays that of the commit that failed
\* when there is no datafile.
Reload ==
    /\ ~failed
    /\ LoadAll(file, rootWalk)
    /\ stable' = Found(file)
    /\ trust' = IF Loads(file) \/ Blank(rootWalk) THEN "all" ELSE "file"

\* After a commit that failed LoadIt does not look at the file: memory is empty.
Forget ==
    /\ failed
    /\ cols' = [c \in Col |-> Clean(<<>>, 0)] /\ space' = {}
    /\ trust' = "file"
    /\ UNCHANGED <<base, rootWalk, stable>>

Rollback ==
    /\ Idle
    /\ UNCHANGED <<mode, file, pending, pc, plan, failed, commits>>
    /\ Reload \/ Forget
    /\ told' = FALSE

-----------------------------------------------------------------------------
(* Committing.                                                             *)

\* AllocationLimit: everything from here on is free.
LimitOf(taken) == Max(taken) + 1

\* The first position from which len positions are free.
Allocate(taken, len) == Min({p \in 1 .. LimitOf(taken) : Span(p, len) \cap taken = {}})

\* The positions that are reserved whatever the columns are: the header, the
\* marks at the end, and room for a mark after them.
Reserved == {0} \cup IF end > 0 THEN {end - 2, end - 1, end} ELSE {}

UnfreeForgotten == Reserved \cup IF mode = 2 THEN 0 .. end - 1 ELSE {}
UnfreeAsCommit == Reserved \cup space
Unfree == Reserved \cup IF mode = 2 THEN 0 .. end - 1 ELSE space

DirtySpans(locs) == UNION {Span(locs[c].pos, locs[c].len) : c \in Dirty}

\* The positions taken before column c, if dirty columns are at at.
TakenBefore(at, c) ==
    Unfree \cup UNION {Span(at[d], Len(cols[d].data)) : d \in Dirty \cap 1 .. c - 1}

\* CommitColumn of each column in turn, first pass: where they are to be.
Layout ==
    LET at[c \in Col] ==
            IF c \in Dirty THEN Allocate(TakenBefore(at, c), Len(cols[c].data))
            ELSE cols[c].pos
    IN [c \in Col |-> [len |-> Len(cols[c].data), pos |-> at[c]]]

\* Commit returns.
Returns(success) ==
    pc' = "idle" /\ plan' = NoPlan /\ told' = success /\ failed' = ~success

\* SaveIt up to where writing may start, which is followed no further when memory
\* is not what the file has.
Commit ==
    /\ Idle
    /\ LET locs == Layout
           taken == Unfree \cup DirtySpans(locs)
           walk == Allocate(taken, 1)
           next == Reserved \cup Spans(locs) \cup {walk}
                     \cup IF mode = 2 THEN Unfree ELSE {}
           limit == LimitOf(next)
           inPlace == end = limit - 1
           end0 == IF inPlace THEN end - 2 ELSE limit
       IN \/ \* The file would become too long.
             /\ base + end0 + 1 > MaxSize
             /\ commits < MaxCommits /\ commits' = commits + 1
             /\ space' = IF mode = 1 THEN taken \cup {walk} ELSE {}
             /\ rootWalk' = rootWalk /\ Returns(FALSE)
          \/ /\ base + end0 + 1 <= MaxSize
             /\ rootWalk' = <<locs>>
             /\ IF end = 0 /\ \A c \in Col : locs[c].len = 0
                  THEN space' = {} /\ Returns(TRUE) /\ commits' = commits
                  ELSE /\ space' = IF mode = 1 THEN taken \cup {walk} ELSE {}
                       /\ IF rootWalk = <<locs>>
                            THEN Returns(TRUE) /\ commits' = commits
                            ELSE /\ trust = "all"
                                 /\ commits < MaxCommits /\ commits' = commits + 1
                                 /\ pc' = IF inPlace THEN "write" ELSE "tail"
                                 /\ plan' = [end |-> end, end0 |-> end0, locs |-> locs,
                                             walk |-> walk,
                                             next |-> IF inPlace THEN next \ {end} ELSE next]
                                 /\ told' = FALSE /\ failed' = FALSE
    /\ UNCHANGED <<mode, base, file, pending, cols, stable, trust>>

InPlace == plan.end0 < plan.end

\* A new end marker is written and flushed before anything else.
ExtendFile ==
    /\ pc = "tail"
    /\ file' = Put1(file, plan.end0, SkipTail(plan.end0))
    /\ pc' = "write"
    /\ UNCHANGED <<mode, base, pending, cols, rootWalk, space, plan, stable, told, failed,
                   trust, commits>>

\* The failure of that write is not noticed.
ExtendFileUnchecked ==
    /\ pc = "tail" /\ "write" \in Faults
    /\ file' = file
    /\ Returns(TRUE)
    /\ UNCHANGED <<mode, base, pending, cols, rootWalk, space, stable, trust, commits>>

\* When it fails the room that was found is free again, so that the commit that is
\* tried next finds the same and takes it for saved.
ExtendFileFrees ==
    /\ pc = "tail" /\ "write" \in Faults
    /\ file' = file
    /\ space' = space \ (DirtySpans(plan.locs) \cup {plan.walk})
    /\ Returns(FALSE)
    /\ UNCHANGED <<mode, base, pending, cols, rootWalk, stable, trust, commits>>

\* It fails, and the marker has come to the file or not.  If not, a commit in commit
\* mode has changed nothing but where the next one will find room; in extend mode
\* that finds the same room and takes it for saved.
ExtendFileFails ==
    /\ pc = "tail" /\ "write" \in Faults
    /\ file' \in {file, Put1(file, plan.end0, SkipTail(plan.end0))}
    /\ trust' = IF mode = 1 /\ file' = file THEN "all" ELSE "file"
    /\ Returns(FALSE)
    /\ UNCHANGED <<mode, base, pending, cols, rootWalk, space, stable, commits>>

\* What the second pass writes.
Bridge ==
    IF InPlace THEN NoWrites
    ELSE [x \in {base + plan.end} |->
            (IF plan.end = 0 THEN Header(plan.end0 + 2) ELSE Part(plan.end0 + 2 - plan.end))]
Columns == [x \in {base + p : p \in DirtySpans(plan.locs)} |->
    LET c == CHOOSE c \in Dirty : x - base \in Span(plan.locs[c].pos, plan.locs[c].len)
    IN cols[c].data[x - base - plan.locs[c].pos + 1]]
WalkUnit == [x \in {base + plan.walk} |-> Walk(plan.locs)]

Writes == Over(Bridge, Over(Columns, WalkUnit))

\* SetLocation of the columns that are written, whether or not writing succeeds.
SetLocations ==
    cols' = [c \in Col |-> IF c \in Dirty THEN Clean(cols[c].data, plan.locs[c].pos)
                           ELSE cols[c]]

Write ==
    /\ pc = "write"
    /\ SetLocations
    /\ space' = IF mode = 1
                  THEN (IF InPlace THEN space \ {plan.end} ELSE space)
                         \cup {plan.end0, plan.end0 + 1}
                  ELSE {}
    /\ pending' = Writes
    /\ pc' = "seal"
    /\ UNCHANGED <<mode, base, file, rootWalk, plan, stable, told, failed, trust, commits>>

\* The writes of w that get to the file when one fails: those that come after it are
\* made, too.
Made(w) == {S \in SUBSET DOMAIN w : Cardinality(DOMAIN w \ S) <= MaxLost}

\* One of these fails.  The walk and the positions in memory are those of the commit
\* that has failed: the next one will take it for saved.
WriteFails ==
    /\ pc = "seal" /\ "write" \in Faults
    /\ \E S \in Made(pending) : file' = Put(file, Only(pending, S))
    /\ pending' = NoWrites
    /\ trust' = "file"
    /\ Returns(FALSE)
    /\ UNCHANGED <<mode, base, cols, rootWalk, space, stable, commits>>

\* The commit tail is written with the rest.
SealUnflushed ==
    /\ pc = "seal"
    /\ pending' = Over([x \in {base + plan.end0 + 1} |-> CommitTail(plan.walk)], pending)
    /\ file' = file
    /\ pc' = "header"
    /\ UNCHANGED <<mode, base, cols, rootWalk, space, plan, stable, told, failed, trust, commits>>

\* All of it is flushed, and then the commit tail is written.
Seal ==
    /\ pc = "seal"
    /\ file' = Put1(Put(file, pending), plan.end0 + 1, CommitTail(plan.walk))
    /\ pending' = NoWrites
    /\ pc' = "header"
    /\ UNCHANGED <<mode, base, cols, rootWalk, space, plan, stable, told, failed, trust, commits>>

Ending == [x \in {base + plan.end0 + 1} |-> CommitTail(plan.walk)]
Heading == IF mode = 1 \/ plan.end = 0 THEN [x \in {base} |-> Header(plan.end0 + 2)] ELSE NoWrites

\* The flush fails, or the write of the commit tail, and nobody looks: the rest is
\* written all the same.
SealFails ==
    /\ pc = "seal" /\ "write" \in Faults
    /\ LET writes == Over(Heading, Over(Ending, pending))
       IN \E S \in Made(writes) : file' = Put(file, Only(writes, S))
    /\ pending' = NoWrites
    /\ trust' = "none"
    /\ Returns(FALSE)
    /\ UNCHANGED <<mode, base, cols, rootWalk, space, stable, commits>>

\* The header is made to lead there, but not in extend mode.
Finish ==
    /\ pc = "header"
    /\ file' = IF mode = 1 \/ plan.end = 0 THEN Put1(file, 0, Header(plan.end0 + 2)) ELSE file
    /\ space' = IF mode = 1 THEN plan.next \cup {plan.end0, plan.end0 + 1} ELSE {}
    /\ stable' = Value
    /\ Returns(TRUE)
    /\ UNCHANGED <<mode, base, pending, cols, rootWalk, trust, commits>>

\* That fails, when all the rest is on file.
FinishFails ==
    /\ pc = "header" /\ "write" \in Faults
    /\ file' \in {file, Put(file, Heading)}
    /\ space' = IF mode = 1 THEN plan.next \cup {plan.end0, plan.end0 + 1} ELSE {}
    /\ stable' = Value
    /\ Returns(FALSE)
    /\ UNCHANGED <<mode, base, pending, cols, rootWalk, trust, commits>>

\* The process ends and another one opens the file.  What was not yet flushed
\* may have been written or not.
Restart ==
    /\ Idle \/ InPlace \/ (pc # "idle" /\ "crash" \in Faults)
    /\ mode' \in Modes
    /\ \E f \in {Put(file, Only(pending, S)) : S \in SUBSET DOMAIN pending} :
         file' = f /\ LoadAll(f, <<>>) /\ stable' = Found(f)
    /\ pending' = NoWrites /\ pc' = "idle" /\ plan' = NoPlan
    /\ told' = FALSE /\ failed' = FALSE /\ trust' = "all"
    /\ commits' = commits

Next ==
    \/ \E c \in Col : Change(c)
    \/ Rollback \/ Commit \/ ExtendFile \/ Write \/ Seal \/ Finish \/ Restart
    \/ ExtendFileFails \/ WriteFails \/ SealFails \/ FinishFails

Spec == Init /\ [][Next]_vars

-----------------------------------------------------------------------------
(* Properties.                                                             *)

Unit ==
    {None, Hole, Other} \cup {"head", "part", "skip", "tail"} \X Nat
      \cup {"data"} \X Col \X Tag \X (1 .. MaxLen)
      \cup {"walk"} \X [Col -> [len : 0 .. MaxLen, pos : Addr]]

\* The types; and nothing stays unflushed once the commit tail is being written
\* (DataCommit before mark2).
TypeOK ==
    /\ mode \in Modes /\ base \in Addr
    /\ file \in [Addr -> Unit]
    /\ DOMAIN pending \subseteq Addr /\ \A x \in DOMAIN pending : pending[x] \in Unit
    /\ \A c \in Col : /\ cols[c].data \in Seq(Unit) /\ Len(cols[c].data) <= MaxLen
                      /\ cols[c].pos \in Addr /\ cols[c].dirty \in BOOLEAN
    /\ space \subseteq Nat /\ IsFiniteSet(space)
    /\ pc \in {"idle", "tail", "write", "seal", "header"}
    /\ DOMAIN pending # {} => pc = "seal"
    /\ plan.end0 \in Addr /\ plan.walk \in Addr
    /\ told \in BOOLEAN /\ failed \in BOOLEAN /\ trust \in {"all", "file", "none"}

\* The file if the writes of S are the only ones that get to it.
After(S) == Put(file, Only(pending, S))
Now == After(DOMAIN pending)

\* What memory has of a column that is not dirty is what the file has at its
\* position, and stays so whatever other columns' commits write: columns are read
\* from the file when they are needed (c4_Column::_position).
ReadsBack == trust = "all" => \A c \in Col :
    ~cols[c].dirty => \A i \in DOMAIN cols[c].data :
        Now[base + cols[c].pos + i - 1] = cols[c].data[i]

Committing == IF pc = "header" THEN Value ELSE stable

\* A commit that extends the file has failed after its new end marker was written.
Cut == pc = "idle" /\ end > 0 /\ IsMark(file, base + end, "skip")

\* Stable storage, seen from the front: as long as the header leads to the end of
\* the file, or to what was its end before the commit at work, a complete datafile
\* ends there, with the data last committed, whichever of the unflushed writes have
\* been made.  Load (mk::file load) reads by the header.
HeaderCurrent ==
    file[base][1] = "head" /\ file[base][2] = IF pc = "idle" THEN end ELSE plan.end
HeaderLeads ==
    trust # "none" /\ ~Cut /\ HeaderCurrent => \A S \in SUBSET DOMAIN pending :
        LET n == base + file[base][2] IN
          IsDatafile(After(S), n) /\ DataBefore(After(S), n) \in {stable, Committing}

\* Stable storage, seen from the end: whenever the process ends, the one that opens
\* the file next (LoadIt, EndOfData) finds the data last committed.
Recovers == \A S \in SUBSET DOMAIN pending : Found(After(S)) = Committing

\* This holds when no commit is at work that extends the file, nor has one failed so,
\* also when others have failed and memory is not to be relied on.
RecoversInPlace ==
    (pc = "idle" \/ InPlace) /\ ~Cut /\ trust # "none" => Recovers

\* When a commit has returned success and nothing was changed since, the file has
\* what memory has (persist.cpp:916).  It may follow others that failed, for length,
\* in the first write or in the last ones, or that found nothing to do; and when one
\* has failed in between it holds again once what is on disk was loaded.
CommitTells == told /\ trust = "all" => pc = "idle" /\ Found(file) = Value

\* But it does not hold of the next commit after one that has failed in between.
SuccessIsTrue == told => pc = "idle" /\ Found(file) = Value

\* In extend mode a writer does not disturb readers (doc/tcl.html:183-187): what
\* another process has loaded, by the end that the file had then, stays there.
ReadersUndisturbed ==
    [][mode = 2 /\ mode' = 2 =>
         \A n \in 1 .. Size(file) : IsDatafile(file, n) =>
           IsDatafile(file', n) /\ DataBefore(file', n) = DataBefore(file, n)]_vars

\* What is on disk: what would be found there, or, while a commit extends the file,
\* what it replaces or has made.
Disk == IF pc = "idle" \/ InPlace THEN Found(file) ELSE Committing

\* The datafile is a stable store: commits, rollbacks and restarts do with the data
\* what a program expects of them, and failed commits no more than is said there.
Store == INSTANCE StableStore WITH Key <- Col, Nothing <- Empty, mem <- Value, disk <- Disk
ImplementsStore == Store!Spec
=============================================================================
