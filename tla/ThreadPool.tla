----------------------------- MODULE ThreadPool -----------------------------
(***************************************************************************)
(* A thread pool of the thread extension                                   *)
(* (src/8.x/thread/generic/threadPoolCmd.c): the threads that use it, its  *)
(* workers, the queue of jobs, and the list of threads that wait.          *)
(*                                                                         *)
(* What the code does between locking and unlocking the pool's mutex is    *)
(* one step; a thread that waits gives up the mutex, in its event loop     *)
(* until it is sent a stop event (a client), or on the pool's condition    *)
(* until it is notified (a worker).                                        *)
(***************************************************************************)
EXTENDS Naturals, Sequences, FiniteSets, SequencesExt

CONSTANTS
    Client,     \* threads that use the pool
    Worker,     \* names for worker threads
    MaxJobs,    \* bound: jobs ever posted
    Options     \* the settings of pools to consider:
                \*   min, max  numbers of workers
                \*   uses      what it is exposed to, of Uses

Uses == {"idletime",    \* -idletime is not 0
         "failures",    \* starting a worker may fail
         "commands",    \* jobs use tpool commands themselves
         "cancel",      \* jobs are cancelled
         "malformed",   \* something that is no number is given as a job to cancel
         "suspend",     \* the pool is suspended
         "sharing"}     \* clients wait for, cancel and collect each other's jobs

ASSUME OptionsAssumption ==
    /\ Options \subseteq [min : Nat, max : Nat, uses : SUBSET Uses]
    /\ \A o \in Options : o.max >= 1 /\ o.min <= o.max
ASSUME ClientAssumption == IsFiniteSet(Client)
ASSUME WorkerAssumption == IsFiniteSet(Worker)
ASSUME MaxJobsAssumption == MaxJobs \in Nat

Job == 1 .. MaxJobs

VARIABLES
    opts,           \* the pool's settings
    pool,           \* none, failed (not all of its first workers could be started),
                    \* listed, down (being torn down, listMutex held), freed
    suspend, refCount,
    numWorkers, idleWorkers,
    owner,          \* who posted each job; a job is its number
    detached,       \* the jobs that are detached
    work,           \* jobs that wait, the next to be popped first
    done,           \* jobs in jobsDone
    waiters,        \* threads on the pool's list, the next to be popped first
    wpc,            \* what each worker does
    job,            \* the job a worker runs
    awake,          \* workers notified of the condition and not yet running
    tired,          \* workers that have waited for longer than -idletime
    pc,             \* what each client does
    target,         \* the job it waits for
    quiet,          \* clients that post a detached job
    stops           \* number of stop events in each client's event queue

poolVars == <<opts, pool, suspend, refCount>>
jobVars == <<owner, detached, work, done>>
workerVars == <<numWorkers, idleWorkers, wpc, job, awake, tired>>
clientVars == <<pc, target, quiet>>
waitVars == <<waiters, stops>>
vars == <<poolVars, jobVars, workerVars, clientVars, waitVars>>

Idle == {w \in Worker : wpc[w] \in {"idle", "paused"}}
Alive == {w \in Worker : wpc[w] # "none"}
Busy == {w \in Worker : wpc[w] = "run"}
TearDown == pool \in {"down", "freed"}
Waiting == {"post", "nowait", "wait", "release"}
posted == Len(owner)
Running == {job[w] : w \in Busy}

\* The list of waiters has become a ring, or a thread has left the pool's mutex
\* locked.
Broken == \E c \in Client : pc[c] \in {"broken", "holding"}

Init ==
    /\ opts \in Options
    /\ pool = "none" /\ suspend = FALSE /\ refCount = 0
    /\ numWorkers = 0 /\ idleWorkers = 0
    /\ owner = <<>> /\ detached = {} /\ work = <<>> /\ done = {}
    /\ waiters = <<>> /\ stops = [c \in Client |-> 0]
    /\ wpc = [w \in Worker |-> "none"] /\ job = [w \in Worker |-> 0]
    /\ awake = {} /\ tired = {}
    /\ pc = [c \in Client |-> "out"] /\ target = [c \in Client |-> 0] /\ quiet = {}

-----------------------------------------------------------------------------
(* Waiting and waking up.                                                  *)

\* Mutant: an event is taken that was never sent.
ServedAlways(c) == [stops EXCEPT ![c] = @ - 1]

\* A client that was waiting has served one stop event.
Served(c) == [stops EXCEPT ![c] = IF pc[c] \in Waiting THEN @ - 1 ELSE @]

\* PushWaiter, and the client's place in the command it waits in.  A thread
\* that is on the list already makes a ring of it: the model stops there.
PushWaiter(c, place) ==
    IF c \in Range(waiters)
      THEN pc' = [pc EXCEPT ![c] = "broken"] /\ UNCHANGED waitVars
      ELSE /\ pc' = [pc EXCEPT ![c] = place]
           /\ waiters' = Append(waiters, c)
           /\ stops' = Served(c)

\* Mutants: no event is queued; only one of the waiters is woken.
SignalledNone(n) == {}
SignalledFirst(n) == {1} \cap DOMAIN waiters

Signalled(n) == (1 .. n) \cap DOMAIN waiters

\* n calls of SignalWaiter: each pops a waiter, if any, and sends it a stop event.
SignalWaiter(n) ==
    /\ waiters' = SubSeq(waiters, n + 1, Len(waiters))
    /\ stops' = [c \in Client |->
         IF \E i \in Signalled(n) : waiters[i] = c THEN stops[c] + 1 ELSE stops[c]]

\* Mutant: the notification is forgotten.
NotifyNobody == awake' = awake

\* Tcl_ConditionNotify wakes every waiting thread.
Notify == awake' = Idle

-----------------------------------------------------------------------------
(* The workers.                                                            *)

\* A new thread has told its creator that it is there, and has yet to lock.
CreateWorker(w) ==
    /\ wpc[w] = "none"
    /\ wpc' = [wpc EXCEPT ![w] = "start"]
    /\ numWorkers' = numWorkers + 1
    /\ UNCHANGED <<idleWorkers, job, awake, tired>>

\* The inner loop of TpoolWorker, entered with n counted as idle apart from w:
\* w takes a job, or waits; waiting in a suspended pool has no time limit.
Seek(w, n) ==
    /\ awake' = awake \ {w} /\ tired' = tired \ {w}
    /\ IF suspend \/ work = <<>>
         THEN /\ wpc' = [wpc EXCEPT ![w] = IF suspend THEN "paused" ELSE "idle"]
              /\ idleWorkers' = n + 1
              /\ job' = [job EXCEPT ![w] = 0] /\ work' = work
         ELSE /\ wpc' = [wpc EXCEPT ![w] = "run"]
              /\ idleWorkers' = n
              /\ job' = [job EXCEPT ![w] = Head(work)]
              /\ work' = Tail(work)
    /\ UNCHANGED numWorkers

\* Mutant: the worker stays counted as idle.
DieUncounted(w, n) ==
    /\ wpc' = [wpc EXCEPT ![w] = "none"]
    /\ awake' = awake \ {w} /\ tired' = tired \ {w}
    /\ numWorkers' = numWorkers - 1 /\ idleWorkers' = idleWorkers
    /\ job' = [job EXCEPT ![w] = 0] /\ work' = work

\* The worker leaves the loop and ends.
Die(w, n) ==
    /\ wpc' = [wpc EXCEPT ![w] = "none"]
    /\ awake' = awake \ {w} /\ tired' = tired \ {w}
    /\ numWorkers' = numWorkers - 1 /\ idleWorkers' = n
    /\ job' = [job EXCEPT ![w] = 0] /\ work' = work

\* The head of the outer loop.
Turn(w, n) == IF TearDown THEN Die(w, n) ELSE Seek(w, n)

Start(w) ==
    /\ wpc[w] = "start"
    /\ Turn(w, idleWorkers) /\ SignalWaiter(1)
    /\ UNCHANGED <<poolVars, owner, detached, done, clientVars>>

\* A job that uses tpool commands needs the mutex of the list of pools.
Finish(w) ==
    /\ wpc[w] = "run"
    /\ "commands" \in opts.uses => pool # "down"
    /\ Turn(w, idleWorkers)
    /\ IF job[w] \in detached
         THEN done' = done /\ SignalWaiter(1)
         ELSE done' = done \cup {job[w]} /\ SignalWaiter(2)
    /\ UNCHANGED <<poolVars, owner, detached, clientVars>>

\* w returns from Tcl_ConditionWait, notified or not, and finds the pool suspended ...
SleepOn(w, tout) ==
    /\ suspend
    /\ wpc' = [wpc EXCEPT ![w] = "paused"]
    /\ awake' = awake \ {w}
    /\ tired' = IF tout THEN tired \cup {w} ELSE tired \ {w}
    /\ UNCHANGED <<numWorkers, idleWorkers, job, work, waitVars>>

\* Mutant: the minimum is not looked at.
SpareAlways == TRUE

Spare == TearDown \/ numWorkers > opts.min

\* ... or going down, or has waited for long enough ...
Retire(w, tout) ==
    /\ ~suspend /\ (TearDown \/ tout)
    /\ IF Spare THEN Die(w, idleWorkers - 1) ELSE Seek(w, idleWorkers - 1)
    /\ SignalWaiter(1)

\* ... or looks for a job.
LookAgain(w, tout) ==
    /\ ~suspend /\ ~TearDown /\ ~tout
    /\ Seek(w, idleWorkers - 1)
    /\ UNCHANGED waitVars

Tout(w) ==
    IF w \in tired THEN {TRUE}
    ELSE IF "idletime" \in opts.uses /\ wpc[w] = "idle" THEN BOOLEAN ELSE {FALSE}

Wake(w) ==
    /\ w \in Idle
    /\ \E tout \in Tout(w) : SleepOn(w, tout) \/ Retire(w, tout) \/ LookAgain(w, tout)
    /\ UNCHANGED <<poolVars, owner, detached, done, clientVars>>

-----------------------------------------------------------------------------
(* The commands.  A client uses the pool only between its tpool::preserve  *)
(* and its tpool::release.                                                 *)

Calls(c) == pool = "listed" /\ pc[c] = "ready"
Resumes(c, place) == pc[c] = place /\ stops[c] > 0

\* The command returns.
Returns(c, place) ==
    /\ pc' = [pc EXCEPT ![c] = place]
    /\ target' = [target EXCEPT ![c] = 0] /\ quiet' = quiet \ {c}
    /\ stops' = Served(c)

\* Bound: no more posts are begun than there are jobs.
Room == posted + Cardinality({c \in Client : pc[c] \in {"post", "nowait"}}) < MaxJobs

\* The jobs a client may ask for: its own that it has not collected or cancelled.
Knows(c, j) ==
    /\ j \notin detached
    /\ \/ "sharing" \in opts.uses
       \/ owner[j] = c /\ j \in Range(work) \cup Running \cup done

\* Mutant: the job is put where the next one is taken.
QueuedFirst == <<posted + 1>> \o work

Queued == Append(work, posted + 1)

PushWork(c, d) ==
    /\ owner' = Append(owner, c)
    /\ detached' = IF d THEN detached \cup {posted + 1} ELSE detached
    /\ work' = Queued
    /\ Notify
    /\ UNCHANGED <<done, numWorkers, idleWorkers, wpc, job, tired>>

\* The job is queued and the command returns.
Posted(c, d) ==
    /\ PushWork(c, d) /\ Returns(c, "ready")
    /\ UNCHANGED <<poolVars, waiters>>

\* CreateWorker fails, and the command: the caller stays on the list of waiters.
NotStarted(c) ==
    /\ "failures" \in opts.uses
    /\ PushWaiter(c, "ready")
    /\ quiet' = quiet \ {c}
    /\ UNCHANGED workerVars

\* The caller goes on the list, and waits for a worker it creates if it needs one.
AwaitWorker(c, d, place, create) ==
    /\ \/ create /\ NotStarted(c)
       \/ /\ PushWaiter(c, place)
          /\ quiet' = IF d THEN quiet \cup {c} ELSE quiet
          /\ IF create THEN \E w \in Worker : CreateWorker(w) ELSE UNCHANGED workerVars
    /\ UNCHANGED <<poolVars, jobVars, target>>

Post(c) ==
    \/ Calls(c) /\ Room /\ \E d \in BOOLEAN :
         IF idleWorkers = 0
           THEN AwaitWorker(c, d, "post", numWorkers < opts.max) ELSE Posted(c, d)
    \/ Resumes(c, "post") /\
         IF idleWorkers = 0
           THEN AwaitWorker(c, c \in quiet, "post", numWorkers < opts.max)
           ELSE Posted(c, c \in quiet)

PostNowait(c) ==
    \/ Calls(c) /\ Room /\ \E d \in BOOLEAN :
         IF numWorkers = 0 THEN AwaitWorker(c, d, "nowait", TRUE) ELSE Posted(c, d)
    \/ Resumes(c, "nowait") /\ Posted(c, c \in quiet)

Wait(c) ==
    /\ \E j \in 1 .. posted :
         /\ \/ Calls(c) /\ Knows(c, j)
            \/ Resumes(c, "wait") /\ target[c] = j
         /\ IF j \in done
              THEN Returns(c, "ready") /\ UNCHANGED waiters
              ELSE /\ PushWaiter(c, "wait")
                   /\ target' = [target EXCEPT ![c] = j] /\ quiet' = quiet
    /\ UNCHANGED <<poolVars, jobVars, workerVars>>

\* A job that has not been started is taken off the queue.  When what is to be a
\* job is no number the command fails and leaves the mutex locked, for good: the
\* model stops there.
Cancel(c) ==
    /\ Calls(c)
    /\ \/ /\ "cancel" \in opts.uses
          /\ \E i \in DOMAIN work : Knows(c, work[i]) /\ work' = RemoveAt(work, i)
          /\ pc' = pc
       \/ /\ "malformed" \in opts.uses
          /\ pc' = [pc EXCEPT ![c] = "holding"]
          /\ work' = work
    /\ UNCHANGED <<poolVars, owner, detached, done, workerVars, target, quiet, waitVars>>

Get(c) ==
    /\ Calls(c)
    /\ \E j \in done : Knows(c, j) /\ done' = done \ {j}
    /\ UNCHANGED <<poolVars, owner, detached, work, workerVars, clientVars, waitVars>>

TpoolSuspend(c) ==
    /\ Calls(c) /\ "suspend" \in opts.uses
    /\ suspend' = TRUE
    /\ UNCHANGED <<opts, pool, refCount, jobVars, workerVars, clientVars, waitVars>>

TpoolResume(c) ==
    /\ Calls(c) /\ suspend' = FALSE
    /\ Notify
    /\ UNCHANGED <<opts, pool, refCount, jobVars, numWorkers, idleWorkers, wpc, job, tired,
                   clientVars, waitVars>>

TpoolReserve(c) ==
    /\ pool = "listed" /\ pc[c] = "out"
    /\ refCount' = refCount + 1
    /\ pc' = [pc EXCEPT ![c] = "ready"]
    /\ UNCHANGED <<opts, pool, suspend, jobVars, workerVars, target, quiet, waitVars>>

\* Mutant: off by one.
SurvivorsBut1 == numWorkers' > 1

Survivors == numWorkers' > 0

\* The rest of TpoolRelease with the mutex locked: wait for workers, or free the pool.
Dismantle(c) ==
    /\ IF Survivors
         THEN /\ pool' = "down" /\ PushWaiter(c, "release")
              /\ Notify
              /\ UNCHANGED <<work, done, target, quiet>>
         ELSE /\ pool' = "freed"
              /\ Returns(c, "out")
              /\ work' = <<>> /\ done' = {} /\ waiters' = <<>>
              /\ UNCHANGED awake
    /\ UNCHANGED <<opts, suspend, owner, detached, idleWorkers, job, tired>>

\* Create has failed and is about to release the pool.
Abandons(c) == pool = "failed" /\ pc[c] = "create"

\* Mutant: off by one.
LastReferenceBut1 == refCount <= 2

LastReference == refCount <= 1

TpoolRelease(c) ==
    \/ /\ Calls(c) /\ ~LastReference
       /\ refCount' = refCount - 1
       /\ pc' = [pc EXCEPT ![c] = "out"]
       /\ UNCHANGED <<opts, pool, suspend, jobVars, workerVars, target, quiet, waitVars>>
    \/ /\ Calls(c) /\ LastReference
       /\ refCount' = 0
       /\ UNCHANGED <<numWorkers, wpc>> /\ Dismantle(c)
    \/ /\ Resumes(c, "release") \/ Abandons(c)
       /\ UNCHANGED <<refCount, numWorkers, wpc>> /\ Dismantle(c)

\* The first workers, all with the mutex held.  If one fails to start the mutex is
\* unlocked, so that those before it begin to work, and the pool is released next.
Create(c) ==
    /\ pool = "none"
    /\ \E W \in SUBSET Worker :
         /\ wpc' = [w \in Worker |-> IF w \in W THEN "start" ELSE "none"]
         /\ numWorkers' = Cardinality(W)
         /\ \/ Cardinality(W) = opts.min /\ pool' = "listed" /\ pc' = pc
            \/ /\ "failures" \in opts.uses /\ Cardinality(W) < opts.min
               /\ pool' = "failed" /\ pc' = [pc EXCEPT ![c] = "create"]
    /\ UNCHANGED <<opts, suspend, refCount, jobVars, idleWorkers, job, awake, tired,
                   target, quiet, waitVars>>

\* A client that is not waiting serves a stop event that nobody expects any more.
RunStopEvent(c) ==
    /\ stops[c] > 0 /\ pc[c] \in {"ready", "out"}
    /\ stops' = [stops EXCEPT ![c] = @ - 1]
    /\ UNCHANGED <<poolVars, jobVars, workerVars, clientVars, waiters>>

ClientStep(c) ==
    \/ Create(c) \/ TpoolReserve(c) \/ TpoolRelease(c) \/ TpoolSuspend(c) \/ TpoolResume(c)
    \/ Post(c) \/ PostNowait(c) \/ Wait(c) \/ Cancel(c) \/ Get(c) \/ RunStopEvent(c)

Next ==
    /\ ~Broken
    /\ \/ \E w \in Worker : Start(w) \/ Finish(w) \/ Wake(w)
       \/ \E c \in Client : ClientStep(c)

\* Threads are scheduled, scripts end, and a thread that waits serves its events.
Fairness ==
    /\ \A w \in Worker : WF_vars(~Broken /\ Start(w)) /\ WF_vars(~Broken /\ Finish(w))
                         /\ WF_vars(~Broken /\ w \in awake /\ Wake(w))
    /\ \A c \in Client : WF_vars(~Broken /\ pc[c] \in Waiting
                                  /\ (Post(c) \/ PostNowait(c) \/ Wait(c) \/ TpoolRelease(c)))

Spec == Init /\ [][Next]_vars

FairSpec == Spec /\ Fairness

-----------------------------------------------------------------------------
(* Properties.                                                             *)

\* The values of the variables.
TypeOK ==
    /\ opts \in Options
    /\ pool \in {"none", "failed", "listed", "down", "freed"}
    /\ suspend \in BOOLEAN /\ refCount \in Nat
    /\ numWorkers \in Nat /\ idleWorkers \in Nat
    /\ owner \in Seq(Client) /\ posted <= MaxJobs
    /\ detached \subseteq Job /\ work \in Seq(Job) /\ done \subseteq Job
    /\ waiters \in Seq(Client) /\ stops \in [Client -> Nat]
    /\ wpc \in [Worker -> {"none", "start", "idle", "paused", "run"}]
    /\ job \in [Worker -> 0 .. MaxJobs]
    /\ awake \subseteq Worker /\ tired \subseteq Worker
    /\ pc \in [Client -> {"out", "create", "ready", "broken", "holding"} \cup Waiting]
    /\ target \in [Client -> 0 .. MaxJobs] /\ quiet \subseteq Client

\* The counters that tpool::post and TpoolWorker decide by say how many
\* threads there are and how many of them wait, through every way in and out
\* of the two loops of TpoolWorker.
CountersMatch ==
    numWorkers = Cardinality(Alive) /\ idleWorkers = Cardinality(Idle)

\* -maxworkers is never exceeded, however many threads post at once and however
\* often they try again, and -minworkers are kept until the pool is released.
WorkersInBounds ==
    numWorkers <= opts.max /\ (pool = "listed" => numWorkers >= opts.min)

\* A thread that has preserved the pool finds it there, and stays in its
\* commands on a pool that is not being torn down, whoever releases it meanwhile.
ReservedStaysUp ==
    \A c \in Client : pc[c] \in {"ready", "post", "nowait", "wait"} => pool = "listed"

\* When the pool has been freed no worker will lock its mutex and no thread is
\* in one of its commands.
FreedIsQuiet == pool = "freed" => Alive = {} /\ \A c \in Client : pc[c] = "out"

\* No lost wakeup: while jobs wait in a pool without an idle timer, some worker
\* is about to look for one.
NoJobStranded ==
    work # <<>> /\ ~suspend /\ ~TearDown /\ "idletime" \notin opts.uses =>
        \E w \in Worker : wpc[w] \in {"start", "run"} \/ w \in awake

\* Unless starting a worker fails, a waiting thread is on the list of waiters
\* or has one stop event to serve, never both and never neither, and a thread
\* that does not wait has left no trace.
WaitersListed ==
    "failures" \notin opts.uses => \A c \in Client :
        IF pc[c] \in Waiting
          THEN IF c \in Range(waiters) THEN stops[c] = 0 ELSE stops[c] = 1
          ELSE c \notin Range(waiters) /\ stops[c] = 0 /\ pc[c] # "broken"

\* The pool implements the line of jobs: they are started in the order of the posts,
\* none twice and none after it was cancelled, and a result is that of a job that ran.
JL == INSTANCE JobLine WITH line <- work, running <- Running, results <- done,
                           shut <- pool = "freed"
ImplementsJobLine == JL!Spec

\* The pool is exposed to nothing but these.
Only(uses) == opts.uses \subseteq uses

\* A waiting job is started, cancelled or, with the pool, discarded.
JobsRun == Only(Uses \ {"idletime", "failures", "malformed"}) => \A j \in Job :
    j \in Range(work) ~> j \notin Range(work) \/ suspend \/ TearDown

\* tpool::post returns, if two threads post and wait for their own jobs.
PostReturns == Only({"commands"}) => \A c \in Client :
    pc[c] \in {"post", "nowait"} ~> pc[c] \notin {"post", "nowait"}

\* tpool::wait returns when its job is done, for two threads.
WaitReturns == Only(Uses \ {"idletime", "failures", "malformed"}) => \A c \in Client, j \in Job :
    pc[c] = "wait" /\ target[c] = j /\ j \in done ~> pc[c] # "wait" \/ j \notin done

\* tpool::release returns, if the pool is not suspended and no job calls tpool commands.
ReleaseReturns == Only({"cancel"}) => \A c \in Client :
    pc[c] = "release" ~> pc[c] # "release"
=============================================================================
