---------------------------- MODULE StableStore ----------------------------
(***************************************************************************)
(* What Metakit gives a program that keeps data in a datafile              *)
(* (src/8.x/mk/doc/tcl.html, the comments of persist.cpp): what is on disk *)
(* changes only as a whole, and only to what memory has; a commit that     *)
(* says that it succeeded has done so; and whoever takes changes back or   *)
(* opens the datafile again gets what is on disk.                          *)
(*                                                                         *)
(* And what it does not give: a commit that fails may leave a memory that  *)
(* later commits take for saved, until what is on disk is loaded again,    *)
(* and may take all data from the disk, or leave a file that cannot be     *)
(* relied on; and changes that are taken back right after a commit has     *)
(* failed leave an empty memory.                                           *)
(***************************************************************************)
EXTENDS Naturals

CONSTANTS
    Key,            \* names for the parts of the data
    Nothing         \* no data

VARIABLES
    mem,            \* the data in memory
    disk,           \* what would be found on disk
    told,           \* whether the last commit reported success and nothing changed since
    failed,         \* whether it reported a failure
    trust           \* what can be relied on: all, file, none

vars == <<mem, disk, told, failed, trust>>

Init == mem = disk /\ told = FALSE /\ failed = FALSE /\ trust = "all"

\* The program changes one part.
Change(k) ==
    /\ mem' = [mem EXCEPT ![k] = mem'[k]]
    /\ told' = FALSE
    /\ UNCHANGED <<disk, failed, trust>>

\* A commit is done, and reports success or does so later, or a failure after all.
Commit ==
    /\ trust = "all"
    /\ disk' = mem
    /\ told' \in BOOLEAN /\ failed' \in BOOLEAN /\ ~(told' /\ failed')
    /\ UNCHANGED <<mem, trust>>

\* A commit begins, or fails and changes nothing.
Begin == told' = FALSE /\ failed' = FALSE /\ UNCHANGED <<mem, disk, trust>>
Fail == told' = FALSE /\ failed' = TRUE /\ UNCHANGED <<mem, disk, trust>>

\* A commit fails in between.
Break ==
    /\ trust = "all"
    /\ told' = FALSE /\ failed' = TRUE /\ mem' = mem
    /\ \/ trust' = "file" /\ disk' \in {disk, Nothing}
       \/ trust' = "none"

\* A commit after that: it does nothing, whatever it reports.
Pretend ==
    /\ trust = "file"
    /\ told' \in BOOLEAN /\ failed' = ~told'
    /\ UNCHANGED <<mem, disk, trust>>

\* A rollback, or another process that opens the datafile.
Reopen ==
    /\ trust # "none"
    /\ mem' = disk
    /\ told' = FALSE /\ failed' = FALSE /\ trust' = "all"
    /\ disk' = disk

\* A rollback when the last commit has failed, or when nothing is left on disk.
Forget ==
    /\ failed \/ (trust = "file" /\ disk = Nothing)
    /\ mem' = Nothing
    /\ told' = FALSE /\ trust' = "file"
    /\ UNCHANGED <<disk, failed>>

Next ==
    \/ \E k \in Key : Change(k)
    \/ Commit \/ Begin \/ Fail \/ Break \/ Pretend \/ Reopen \/ Forget

Spec == Init /\ [][Next]_vars
=============================================================================
