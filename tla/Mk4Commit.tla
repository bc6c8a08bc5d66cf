------------------------------ MODULE Mk4Commit ------------------------------
(***************************************************************************)
(* When the changes made through the Metakit driver reach the disk         *)
(* (8.x/tclvfs/library/mk4vfs.tcl: _mount, periodicCommit, setupCommits,   *)
(* _umount, state, and every handler that ends in setupCommits).           *)
(*                                                                         *)
(* The contents of the datafile are a version number: mem in memory, disk  *)
(* as of the last commit.  A db tag is the number v::seq gave it.  The     *)
(* event loop's timer queue is kept apart from the v::timer array, because *)
(* after and after cancel are what keep the two in step.  Commits may fail *)
(* (a full disk), the process may be killed at any time.                   *)
(*                                                                         *)
(* A failed mount leaves an open db behind that goes on to try to commit   *)
(* to the same file, whoever has mounted it since.                         *)
(***************************************************************************)
EXTENDS Integers

CONSTANTS MaxMount,   \* bound: mounts in one process
          MaxChange,  \* bound: versions of the contents
          MaxWriter   \* bound: files open for writing

ASSUME BoundAssumption ==
  MaxMount \in Nat \ {0} /\ MaxChange \in Nat /\ MaxWriter \in Nat

Db == 1..MaxMount
Option == {"rw", "readonly", "nocommit", "memory"}
State == {"readwrite", "translucent", "readonly"}   \* vfs::states

\* Version 0 is the file as it was first found: missing, empty or a datafile.
\* Spoiled stands for all that is no version: columns of two dbs mixed.
Spoiled == -1
Version == {Spoiled} \cup 0..MaxChange
Newer(v) == IF v = Spoiled THEN v ELSE v + 1

VARIABLES
  seq,      \* v::seq, the tag of the last mount
  mounted,  \* is that db mounted?
  opened,   \* the option its datafile was opened with
  mode,     \* v::mode of that db
  auto,     \* will Metakit commit when the datafile is closed?
  timer,    \* the keys of v::timer
  pending,  \* queued periodicCommit events, by db
  closed,   \* the tags that were unmounted (a ghost)
  writers,  \* channels open for writing
  left,     \* dbs left behind by a failed mount that have something to save
  mem,      \* version of the contents in memory
  disk      \* version last committed

vars == <<seq, mounted, opened, mode, auto, timer, pending, closed, writers, left, mem, disk>>

TypeOK ==
  /\ seq \in 0..MaxMount /\ mounted \in BOOLEAN
  /\ mounted => seq \in Db /\ mode \in State
  /\ opened \in Option \cup {"none"} /\ mode \in State \cup {"none"}
  /\ auto \in BOOLEAN
  /\ timer \subseteq 1..seq /\ closed \subseteq 1..seq
  /\ pending \in [Db -> Nat]
  /\ writers \in 0..MaxWriter
  /\ left \subseteq 1..seq
  /\ mem \in Version /\ disk \in Version

Init ==
  /\ seq = 0 /\ mounted = FALSE /\ opened = "none" /\ mode = "none" /\ auto = FALSE
  /\ timer = {} /\ pending = [d \in Db |-> 0] /\ closed = {}
  /\ writers = 0 /\ left = {} /\ mem = 0 /\ disk = 0

\* Metakit refuses to commit a file opened read-only and an in-memory one.
CanCommit == opened \in {"rw", "nocommit"}

\* What a commit of the mounted db can make of the file: of one that another db has
\* written over, anything.
Saved(v) == IF v = Spoiled THEN {disk, Spoiled} ELSE {v}

\* periodicCommit queues the next event before it commits.
Arm(d) ==
  /\ timer' = timer \cup {d}
  /\ pending' = [pending EXCEPT ![d] = @ + 1]

\* The test of setupCommits.  (Without its second half, every change of a
\* readwrite db queues one more event.)
NeedsTimerAlways(m) == m = "readwrite"
NeedsTimer(m) == m = "readwrite" /\ seq \notin timer

\* setupCommits, once a handler made its change: a readwrite db without a
\* timer gets one, is committed, and will be committed when closed - unless
\* the commit fails, which ends the handler with an error.
SetupCommits ==
  IF NeedsTimer(mode')
  THEN /\ Arm(seq)
       /\ \/ CanCommit /\ disk' \in Saved(mem') /\ auto' = TRUE
          \/ disk' = disk /\ auto' = auto
  ELSE UNCHANGED <<timer, pending, disk, auto>>

-----------------------------------------------------------------------------

\* The mode of a new mount: an element of a list, "" when the list is short.
StartModeShort(opt) ==
  CASE opt \in {"rw", "memory"} -> "translucent"
    [] opt = "readonly" -> "readwrite"
    [] opt = "nocommit" -> ""
StartMode(opt) == IF opt \in {"rw", "memory"} THEN "translucent" ELSE "readwrite"

\* Which mounts start their timer: those without an option.  (The wrong one
\* of the two modes would be easily compared with.)
ArmsReadonly(opt) == opt = "readonly"
ArmsAtOnce(opt) == opt = "rw"

\* vfs::mk4::Mount.  The first commit of a plain mount is part of it.
Mount(opt) ==
  /\ ~mounted /\ seq < MaxMount
  /\ seq' = seq + 1 /\ mounted' = TRUE /\ opened' = opt
  /\ mode' = StartMode(opt)
  /\ auto' = (opt = "rw")
  /\ IF ArmsAtOnce(opt) THEN Arm(seq + 1) ELSE UNCHANGED <<timer, pending>>
  /\ mem' = IF opt = "memory" THEN 0 ELSE disk
  /\ UNCHANGED <<closed, writers, left, disk>>

\* The same when that commit fails: _mount ends with an error, the db stays
\* open and its timer queued, but no file system is mounted on it.  If the file
\* had no root row, init has appended one, and that is still to be saved.
MountFails ==
  /\ ~mounted /\ seq < MaxMount
  /\ seq' = seq + 1
  /\ Arm(seq + 1)
  /\ left' = left \/ (disk = 0 /\ left' = left \cup {seq + 1})
  /\ UNCHANGED <<mounted, opened, mode, auto, closed, writers, mem, disk>>

\* open w or a; a new file gets its row at once.
OpenWrite ==
  /\ mounted /\ mode # "readonly" /\ writers < MaxWriter
  /\ writers' = writers + 1
  /\ mem' \in {mem, Newer(mem)} \cap Version
  /\ UNCHANGED <<seq, mounted, opened, mode, auto, timer, pending, closed, left, disk>>

\* do_close stores the text; it does not look at the mode.
DoClose ==
  /\ mounted /\ writers > 0 /\ mem < MaxChange
  /\ writers' = writers - 1
  /\ mem' = Newer(mem) /\ mode' = mode
  /\ SetupCommits
  /\ UNCHANGED <<seq, mounted, opened, closed, left>>

\* mkdir and delete.
Change ==
  /\ mounted /\ mode # "readonly" /\ mem < MaxChange
  /\ mem' = Newer(mem) /\ mode' = mode
  /\ SetupCommits
  /\ UNCHANGED <<seq, mounted, opened, closed, writers, left>>

\* utime changes the row and nothing else.
Utime ==
  /\ mounted /\ mem < MaxChange
  /\ mem' = Newer(mem)
  /\ UNCHANGED <<seq, mounted, opened, mode, auto, timer, pending, closed, writers, left, disk>>

\* vfs::attributes $mountpoint -state $val
SetState(val) ==
  /\ mounted
  /\ mode' = val /\ mem' = mem
  /\ SetupCommits
  /\ UNCHANGED <<seq, mounted, opened, closed, writers, left>>

\* A queued periodicCommit runs: it queues the next one and commits.
Fire(d) ==
  /\ d \in Db /\ pending[d] > 0
  /\ timer' = timer \cup {d}
  /\ UNCHANGED <<seq, mounted, opened, mode, auto, pending, closed, writers>>

TimerCommit(d) ==
  /\ Fire(d)
  /\ mounted /\ d = seq /\ CanCommit
  /\ disk' \in Saved(mem)
  /\ UNCHANGED <<left, mem>>

\* A db left behind commits after all.  It knows of nothing but its root row, takes
\* room where it believes that none is taken, and its file has an empty tree from
\* then on.  A db that has the file mounted by now has its columns overwritten.
LeftCommits(d) ==
  /\ Fire(d)
  /\ d \in left /\ left' = left \ {d}
  /\ disk' = 0
  /\ mem' = IF ~mounted THEN 0 ELSE IF opened = "memory" THEN mem ELSE Spoiled

TimerFails(d) == Fire(d) /\ UNCHANGED <<left, mem, disk>>

\* after cancel of the event v::timer has.
CancelsNone(d) == pending
Cancelled(d) == [pending EXCEPT ![d] = IF d \in timer THEN @ - 1 ELSE @]

\* _umount: the timer is cancelled, the db forgotten; closing the datafile
\* commits it if it is set up so, and ignores a failure.
Umount ==
  /\ mounted
  /\ pending' = Cancelled(seq)
  /\ timer' = timer \ {seq}
  /\ disk' \in {disk} \cup {v \in Saved(mem) : auto /\ CanCommit}
  /\ mem' = disk'
  /\ mounted' = FALSE /\ opened' = "none" /\ mode' = "none" /\ auto' = FALSE
  /\ closed' = closed \cup {seq} /\ writers' = 0
  /\ UNCHANGED <<seq, left>>

\* The process is killed; a new one starts with no mounts.
Crash ==
  /\ seq' = 0 /\ mounted' = FALSE /\ opened' = "none" /\ mode' = "none" /\ auto' = FALSE
  /\ timer' = {} /\ pending' = [d \in Db |-> 0] /\ closed' = {}
  /\ writers' = 0 /\ left' = {} /\ mem' = disk
  /\ UNCHANGED disk

Next ==
  \/ \E opt \in Option : Mount(opt)
  \/ MountFails
  \/ OpenWrite
  \/ DoClose
  \/ Change
  \/ Utime
  \/ \E val \in State : SetState(val)
  \/ \E d \in Db : TimerCommit(d)
  \/ \E d \in Db : LeftCommits(d)
  \/ \E d \in Db : TimerFails(d)
  \/ Umount
  \/ Crash

Spec == Init /\ [][Next]_vars

\* The event loop gets round to a queued event, and commits do not fail for
\* ever.
FairSpec == Spec /\ WF_vars(\E d \in Db : TimerCommit(d))

-----------------------------------------------------------------------------

\* However mounts, state changes, failures and firings mix, a db has as many
\* queued events as v::timer says: one or none.  With two, each of them would
\* queue its successor and only one could be cancelled.
OneTimerPerDb == \A d \in Db : pending[d] = IF d \in timer THEN 1 ELSE 0

\* Nothing is queued for a db that was unmounted: its event would fail and
\* queue itself again for ever.
ClosedIsQuiet == \A d \in closed : pending[d] = 0

\* A db mounted without options always has its timer and will be committed
\* when closed, whatever state it is put in.
PlainMountIsArmed == (mounted /\ opened = "rw") => (seq \in timer /\ auto)

=============================================================================
