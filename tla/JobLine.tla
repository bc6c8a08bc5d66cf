------------------------------ MODULE JobLine ------------------------------
(***************************************************************************)
(* What a thread pool promises of the jobs posted to it                    *)
(* (src/8.x/thread/doc/tpool.man): they wait in one line and are started   *)
(* in its order, each at most once; a job that has not been started may be *)
(* cancelled, one that has been started is finished; a result is kept      *)
(* until it is collected; and the pool goes away only when nothing runs.   *)
(***************************************************************************)
EXTENDS Naturals, Sequences, SequencesExt

CONSTANT MaxJobs                    \* bound: jobs ever posted

Job == 1 .. MaxJobs

VARIABLES
    posted,     \* number of jobs posted; a job is its number
    line,       \* the jobs that wait, the next to be started first
    running,    \* the jobs being run
    results,    \* the jobs whose results are kept
    shut        \* whether the pool is gone

vars == <<posted, line, running, results, shut>>

Init == posted = 0 /\ line = <<>> /\ running = {} /\ results = {} /\ shut = FALSE

Post ==
    /\ ~shut /\ posted < MaxJobs
    /\ posted' = posted + 1
    /\ line' = Append(line, posted + 1)
    /\ UNCHANGED <<running, results, shut>>

\* A worker gives up the jobs of old, at most one, and takes those of new.
Started(new) ==
    \/ new = {} /\ line' = line
    \/ line # <<>> /\ new = {Head(line)} /\ line' = Tail(line)

Work(old, new) ==
    /\ Started(new)
    /\ running' = (running \ old) \cup new
    /\ results' \in {results, results \cup old}
    /\ UNCHANGED <<posted, shut>>

Turn == \E old \in SUBSET running, new \in SUBSET Job :
    (\A i, j \in old : i = j) /\ Work(old, new)

Cancel == \E i \in DOMAIN line :
    /\ line' = RemoveAt(line, i)
    /\ UNCHANGED <<posted, running, results, shut>>

Collect == \E j \in results :
    /\ results' = results \ {j}
    /\ UNCHANGED <<posted, line, running, shut>>

Discard ==
    /\ running = {}
    /\ ~shut /\ shut' = TRUE
    /\ line' = <<>> /\ results' = {}
    /\ UNCHANGED <<posted, running>>

Next == Post \/ Turn \/ Cancel \/ Collect \/ Discard

Spec == Init /\ [][Next]_vars

\* Jobs wait in the order of the posts, behind every job that was started.
InOrder ==
    /\ \A i, j \in DOMAIN line : i < j => line[i] < line[j]
    /\ \A i \in DOMAIN line : line[i] <= posted /\ \A j \in running \cup results : j < line[i]

\* A job goes from the line to where it is run and then to the results, and
\* never back; what was cancelled or discarded is never run, what was collected
\* has no second result, and only what was run has any.
Onward == [][\A j \in 1 .. posted :
    /\ j \notin Range(line) => j \notin Range(line')
    /\ j \notin Range(line) \cup running => j \notin running'
    /\ j \notin running \cup results => j \notin results']_vars
=============================================================================
