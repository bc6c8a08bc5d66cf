-------------------------- MODULE ThreadPool_proofs --------------------------
(***************************************************************************)
(* The counters, bounds and references of a thread pool, the list of those *)
(* who wait and the wakeups of its workers, proved for any number of       *)
(* threads, workers and jobs and any settings.                             *)
(***************************************************************************)
EXTENDS ThreadPool, FiniteSetTheorems, SequenceTheorems, TLAPS

WorkerState == {"none", "start", "idle", "paused", "run"}
Place == {"out", "create", "ready", "broken", "holding"} \cup Waiting

\* The types by subject.
PoolTypes ==
    /\ opts \in Options /\ pool \in {"none", "failed", "listed", "down", "freed"}
    /\ suspend \in BOOLEAN /\ refCount \in Nat
JobTypes ==
    /\ owner \in Seq(Client) /\ detached \subseteq Job
    /\ work \in Seq(Job) /\ done \subseteq Job
WorkerTypes ==
    /\ numWorkers \in Nat /\ idleWorkers \in Nat
    /\ wpc \in [Worker -> WorkerState] /\ job \in [Worker -> 0 .. MaxJobs]
    /\ awake \subseteq Worker /\ tired \subseteq Worker
    /\ \A w \in Worker : wpc[w] = "run" => job[w] \in Job
WaitTypes == waiters \in Seq(Client) /\ stops \in [Client -> Nat]
ClientTypes ==
    /\ pc \in [Client -> Place] /\ target \in [Client -> 0 .. MaxJobs]
    /\ quiet \subseteq Client

Workers == WorkerTypes /\ CountersMatch

\* Whoever is in the middle of a post has room for its job.
Pending == {c \in Client : pc[c] \in {"post", "nowait"}}
PostsFit == posted + Cardinality(Pending) <= MaxJobs

\* Nothing happens to a pool before it is created.
NewIsQuiet == pool = "none" => Alive = {} /\ \A c \in Client : pc[c] = "out"

Types ==
    PoolTypes /\ JobTypes /\ Workers /\ WaitTypes /\ ClientTypes /\ PostsFit /\ NewIsQuiet

-----------------------------------------------------------------------------
(* Counting.                                                               *)

LEMMA CountFacts ==
  ASSUME NEW S, IsFiniteSet(S), NEW x
  PROVE  /\ Cardinality(S) \in Nat
         /\ IsFiniteSet(S \cup {x}) /\ IsFiniteSet(S \ {x})
         /\ Cardinality(S \cup {x}) = Cardinality(S \ {x}) + 1
         /\ Cardinality(S) = Cardinality(S \ {x}) + (IF x \in S THEN 1 ELSE 0)
         /\ Cardinality(S \ {x}) \in Nat
  <1>1. IsFiniteSet(S \ {x}) /\ IsFiniteSet(S \cup {x})
    BY FS_RemoveElement, FS_AddElement
  <1>2. Cardinality(S) \in Nat /\ Cardinality(S \ {x}) \in Nat
    BY <1>1, FS_CardinalityType
  <1>3. Cardinality(S \ {x}) = IF x \in S THEN Cardinality(S) - 1 ELSE Cardinality(S)
    BY FS_RemoveElement
  <1>4. Cardinality(S \cup {x}) = IF x \in S THEN Cardinality(S) ELSE Cardinality(S) + 1
    BY FS_AddElement
  <1> QED BY <1>1, <1>2, <1>3, <1>4

LEMMA WorkersFinite == IsFiniteSet(Alive) /\ IsFiniteSet(Idle)
  BY WorkerAssumption, FS_Subset DEF Alive, Idle

LEMMA PendingFinite == IsFiniteSet(Pending)
  BY ClientAssumption, FS_Subset DEF Pending

\* One worker goes from one state to another.
LEMMA GoesFacts ==
  ASSUME wpc \in [Worker -> WorkerState], NEW w \in Worker, NEW s \in WorkerState,
         wpc' = [wpc EXCEPT ![w] = s]
  PROVE  /\ wpc' \in [Worker -> WorkerState]
         /\ Cardinality(Alive') = Cardinality(Alive \ {w}) + (IF s = "none" THEN 0 ELSE 1)
         /\ Cardinality(Idle') =
              Cardinality(Idle \ {w}) + (IF s \in {"idle", "paused"} THEN 1 ELSE 0)
  <1>0. wpc' \in [Worker -> WorkerState]
    OBVIOUS
  <1>1. Alive' = IF s = "none" THEN Alive \ {w} ELSE Alive \cup {w}
    BY DEF Alive, WorkerState
  <1>2. Idle' = IF s \in {"idle", "paused"} THEN Idle \cup {w} ELSE Idle \ {w}
    BY DEF Idle, WorkerState
  <1>3. /\ Cardinality(Alive \cup {w}) = Cardinality(Alive \ {w}) + 1
        /\ Cardinality(Alive \ {w}) \in Nat
        /\ Cardinality(Idle \cup {w}) = Cardinality(Idle \ {w}) + 1
        /\ Cardinality(Idle \ {w}) \in Nat
    BY WorkersFinite, CountFacts
  <1>4. Cardinality(Alive') = Cardinality(Alive \ {w}) + (IF s = "none" THEN 0 ELSE 1)
    BY <1>1, <1>3
  <1>5. Cardinality(Idle') =
          Cardinality(Idle \ {w}) + (IF s \in {"idle", "paused"} THEN 1 ELSE 0)
    BY <1>2, <1>3
  <1> QED BY <1>0, <1>4, <1>5

\* Taking one worker out of the counts.
LEMMA WithoutOne ==
  ASSUME Workers, NEW w \in Worker
  PROVE  /\ Cardinality(Idle \ {w}) \in Nat /\ Cardinality(Alive \ {w}) \in Nat
         /\ idleWorkers = Cardinality(Idle \ {w}) + (IF w \in Idle THEN 1 ELSE 0)
         /\ numWorkers = Cardinality(Alive \ {w}) + (IF w \in Alive THEN 1 ELSE 0)
  BY WorkersFinite, CountFacts DEF Workers, CountersMatch

LEMMA IdleOthers ==
  ASSUME Workers, NEW w \in Worker
  PROVE  Cardinality(Idle \ {w}) = IF w \in Idle THEN idleWorkers - 1 ELSE idleWorkers
  <1>1. /\ Cardinality(Idle \ {w}) \in Nat
        /\ idleWorkers = Cardinality(Idle \ {w}) + (IF w \in Idle THEN 1 ELSE 0)
    BY WithoutOne
  <1> QED BY <1>1

LEMMA CreateWorkerKeeps ==
  ASSUME Workers, NEW w \in Worker, CreateWorker(w)
  PROVE  Workers' /\ numWorkers' = numWorkers + 1
  <1> USE DEF CreateWorker, Workers, WorkerTypes
  <1>0. w \notin Alive /\ w \notin Idle
    BY DEF Alive, Idle
  <1>1. wpc' = [wpc EXCEPT ![w] = "start"] /\ "start" \in WorkerState
    BY DEF WorkerState
  <1>2. /\ wpc' \in [Worker -> WorkerState]
        /\ Cardinality(Idle') = Cardinality(Idle \ {w}) + 0
        /\ Cardinality(Alive') = Cardinality(Alive \ {w}) + 1
    BY <1>1, GoesFacts
  <1>3. numWorkers' = Cardinality(Alive') /\ idleWorkers' = Cardinality(Idle')
    BY <1>0, <1>2, WithoutOne
  <1>4. \A v \in Worker : wpc'[v] = "run" => job'[v] \in Job
    OBVIOUS
  <1> QED BY <1>2, <1>3, <1>4 DEF CountersMatch

LEMMA DieKeeps ==
  ASSUME Workers, work \in Seq(Job), NEW w \in Alive, NEW n,
         n = Cardinality(Idle \ {w}), Die(w, n)
  PROVE  Workers' /\ work' \in Seq(Job)
  <1> USE DEF Die, Workers, WorkerTypes
  <1>0. w \in Worker
    BY DEF Alive
  <1>1. wpc' = [wpc EXCEPT ![w] = "none"] /\ "none" \in WorkerState
    BY DEF WorkerState
  <1>2. /\ wpc' \in [Worker -> WorkerState]
        /\ Cardinality(Idle') = Cardinality(Idle \ {w}) + 0
        /\ Cardinality(Alive') = Cardinality(Alive \ {w}) + 0
    BY <1>0, <1>1, GoesFacts
  <1>c. n \in Nat /\ numWorkers = Cardinality(Alive \ {w}) + 1
        /\ Cardinality(Alive \ {w}) \in Nat
    BY <1>0, WithoutOne
  <1>3. /\ Cardinality(Idle') = n /\ Cardinality(Alive') = numWorkers - 1
        /\ n \in Nat /\ numWorkers - 1 \in Nat
    BY <1>2, <1>c
  <1>4. 0 \in 0 .. MaxJobs
    BY MaxJobsAssumption
  <1>5. job' \in [Worker -> 0 .. MaxJobs]
    BY <1>4
  <1>6. \A v \in Worker : wpc'[v] = "run" => job'[v] \in Job
    BY <1>0
  <1> QED BY <1>2, <1>3, <1>5, <1>6 DEF CountersMatch

LEMMA SeekKeeps ==
  ASSUME Workers, work \in Seq(Job), NEW w \in Alive, NEW n,
         n = Cardinality(Idle \ {w}), Seek(w, n)
  PROVE  Workers' /\ work' \in Seq(Job)
  <1> USE DEF Seek, Workers, WorkerTypes
  <1>0. w \in Worker
    BY DEF Alive
  <1>c. n \in Nat /\ numWorkers = Cardinality(Alive \ {w}) + 1
    BY <1>0, WithoutOne
  <1>1. CASE suspend \/ work = <<>>
    <2> DEFINE s == IF suspend THEN "paused" ELSE "idle"
    <2>1. wpc' = [wpc EXCEPT ![w] = s] /\ s \in WorkerState /\ s \in {"idle", "paused"}
      BY <1>1 DEF WorkerState
    <2> HIDE DEF s
    <2>2. wpc' \in [Worker -> WorkerState] /\ s # "none"
      BY <2>1
    <2>3. Cardinality(Idle') = n + 1 /\ Cardinality(Alive') = Cardinality(Alive \ {w}) + 1
      BY <1>0, <2>1, <2>2, GoesFacts
    <2>4. job' \in [Worker -> 0 .. MaxJobs] /\ idleWorkers' = n + 1 /\ work' = work
      BY <1>1, MaxJobsAssumption
    <2>5. \A v \in Worker : wpc'[v] = "run" => job'[v] \in Job
      BY <1>0, <1>1, <2>1
    <2> QED BY <1>c, <2>2, <2>3, <2>4, <2>5 DEF CountersMatch
  <1>2. CASE ~(suspend \/ work = <<>>)
    <2>1. wpc' = [wpc EXCEPT ![w] = "run"] /\ "run" \in WorkerState
      BY <1>2 DEF WorkerState
    <2>2. wpc' \in [Worker -> WorkerState]
      BY <2>1
    <2>3. Cardinality(Idle') = n + 0 /\ Cardinality(Alive') = Cardinality(Alive \ {w}) + 1
      BY <1>0, <2>1, GoesFacts
    <2>4. Head(work) \in Job /\ Tail(work) \in Seq(Job)
      BY <1>2, HeadTailProperties
    <2>5. job' = [job EXCEPT ![w] = Head(work)] /\ idleWorkers' = n /\ work' = Tail(work)
      BY <1>2
    <2>7. Head(work) \in 0 .. MaxJobs
      BY <2>4, MaxJobsAssumption DEF Job
    <2>8. job' \in [Worker -> 0 .. MaxJobs]
      BY <2>5, <2>7
    <2>6. \A v \in Worker : wpc'[v] = "run" => job'[v] \in Job
      BY <1>0, <2>1, <2>4, <2>5
    <2> QED BY <1>c, <2>2, <2>3, <2>4, <2>5, <2>6, <2>8 DEF CountersMatch
  <1> QED BY <1>1, <1>2

LEMMA TurnKeeps ==
  ASSUME Workers, work \in Seq(Job), NEW w \in Alive, NEW n,
         n = Cardinality(Idle \ {w}), Turn(w, n)
  PROVE  Workers' /\ work' \in Seq(Job)
  BY DieKeeps, SeekKeeps DEF Turn

-----------------------------------------------------------------------------
(* Waiting and waking up.                                                  *)

LEMMA SignalKeeps ==
  ASSUME WaitTypes, NEW n \in Nat, SignalWaiter(n)
  PROVE  WaitTypes'
  <1> USE DEF WaitTypes, SignalWaiter
  <1>1. \A i \in n + 1 .. Len(waiters) : waiters[i] \in Client
    OBVIOUS
  <1>2. waiters' \in Seq(Client)
    BY <1>1, SubSeqProperties
  <1> QED BY <1>2

LEMMA PushKeeps ==
  ASSUME WaitTypes, pc \in [Client -> Place], NEW c \in Client, NEW p \in Place,
         pc[c] \in Waiting => stops[c] > 0, PushWaiter(c, p)
  PROVE  WaitTypes' /\ pc' \in [Client -> Place]
  <1> USE DEF WaitTypes
  <1>1. CASE c \in Range(waiters)
    <2>1. pc' = [pc EXCEPT ![c] = "broken"] /\ waiters' = waiters /\ stops' = stops
      BY <1>1 DEF PushWaiter, waitVars
    <2>2. "broken" \in Place
      BY DEF Place
    <2> QED BY <2>1, <2>2
  <1>2. CASE c \notin Range(waiters)
    <2>1. pc' = [pc EXCEPT ![c] = p] /\ waiters' = Append(waiters, c) /\ stops' = Served(c)
      BY <1>2 DEF PushWaiter
    <2>2. stops' \in [Client -> Nat]
      BY <2>1 DEF Served
    <2> QED BY <2>1, <2>2, AppendProperties
  <1> QED BY <1>1, <1>2

\* One client goes from one place to another.
LEMMA PendingMoves ==
  ASSUME pc \in [Client -> Place], NEW c \in Client, NEW p \in Place,
         pc' = [pc EXCEPT ![c] = p]
  PROVE  /\ Cardinality(Pending) \in Nat /\ Cardinality(Pending \ {c}) \in Nat
         /\ Cardinality(Pending) = Cardinality(Pending \ {c})
                                    + (IF pc[c] \in {"post", "nowait"} THEN 1 ELSE 0)
         /\ Cardinality(Pending') = Cardinality(Pending \ {c})
                                    + (IF p \in {"post", "nowait"} THEN 1 ELSE 0)
  <1>1. Pending' = IF p \in {"post", "nowait"} THEN Pending \cup {c} ELSE Pending \ {c}
    BY DEF Pending
  <1>2. c \in Pending <=> pc[c] \in {"post", "nowait"}
    BY DEF Pending
  <1>3. /\ Cardinality(Pending) \in Nat /\ Cardinality(Pending \ {c}) \in Nat
        /\ Cardinality(Pending \cup {c}) = Cardinality(Pending \ {c}) + 1
        /\ Cardinality(Pending)
             = Cardinality(Pending \ {c}) + (IF c \in Pending THEN 1 ELSE 0)
    BY PendingFinite, CountFacts
  <1>4. Cardinality(Pending') = Cardinality(Pending \ {c})
                                    + (IF p \in {"post", "nowait"} THEN 1 ELSE 0)
    BY <1>1, <1>3
  <1> QED BY <1>2, <1>3, <1>4

\* Leaving a post, or changing places outside of one, makes no post more.
LEMMA NoMorePending ==
  ASSUME PostsFit, owner \in Seq(Client), pc \in [Client -> Place],
         NEW c \in Client, NEW p \in Place \ {"post", "nowait"},
         pc' = [pc EXCEPT ![c] = p], owner' = owner
  PROVE  PostsFit'
  <1>0. p \in Place /\ p \notin {"post", "nowait"}
    OBVIOUS
  <1>3. /\ Cardinality(Pending) \in Nat /\ Cardinality(Pending \ {c}) \in Nat
        /\ Cardinality(Pending) = Cardinality(Pending \ {c})
                                    + (IF pc[c] \in {"post", "nowait"} THEN 1 ELSE 0)
        /\ Cardinality(Pending') = Cardinality(Pending \ {c})
                                    + (IF p \in {"post", "nowait"} THEN 1 ELSE 0)
    BY <1>0, PendingMoves
  <1>1. /\ Cardinality(Pending) \in Nat /\ Cardinality(Pending') \in Nat
        /\ Cardinality(Pending') <= Cardinality(Pending)
    BY <1>0, <1>3
  <1>2. posted' = posted /\ posted \in Nat
    BY DEF posted
  <1> QED BY <1>1, <1>2, MaxJobsAssumption DEF PostsFit

-----------------------------------------------------------------------------
(* The steps of the workers keep Types.                                    *)

LEMMA SameClients ==
  ASSUME Types, UNCHANGED <<poolVars, owner, detached, done, clientVars>>,
         Workers', work' \in Seq(Job), WaitTypes', pool # "none"
  PROVE  Types'
  <1> USE DEF poolVars, clientVars
  <1>1. PoolTypes' /\ ClientTypes' /\ NewIsQuiet'
    BY DEF Types, PoolTypes, ClientTypes, NewIsQuiet
  <1>2. JobTypes'
    BY DEF Types, JobTypes
  <1>3. PostsFit'
    BY DEF Types, PostsFit, Pending, posted
  <1> QED BY <1>1, <1>2, <1>3 DEF Types

LEMMA AliveInPool ==
  ASSUME Types, NEW w \in Alive
  PROVE  pool # "none"
  BY DEF Types, NewIsQuiet

LEMMA StartTypes ==
  ASSUME Types, NEW w \in Worker, Start(w)
  PROVE  Types'
  <1>0. w \in Alive /\ w \notin Idle
    BY DEF Start, Alive, Idle
  <1>1. Workers /\ work \in Seq(Job) /\ WaitTypes
    BY DEF Types, JobTypes
  <1>2. idleWorkers = Cardinality(Idle \ {w})
    BY <1>0, <1>1, IdleOthers
  <1>3. Workers' /\ work' \in Seq(Job)
    BY <1>0, <1>1, <1>2, TurnKeeps DEF Start
  <1>4. WaitTypes'
    BY <1>1, SignalKeeps DEF Start
  <1> QED BY <1>0, <1>3, <1>4, AliveInPool, SameClients DEF Start

LEMMA FinishTypes ==
  ASSUME Types, NEW w \in Worker, Finish(w)
  PROVE  Types'
  <1>0. w \in Alive /\ w \notin Idle
    BY DEF Finish, Alive, Idle
  <1>1. Workers /\ work \in Seq(Job) /\ WaitTypes /\ job[w] \in Job
    BY DEF Types, JobTypes, Workers, WorkerTypes, Finish
  <1>2. idleWorkers = Cardinality(Idle \ {w})
    BY <1>0, <1>1, IdleOthers
  <1>3. Workers' /\ work' \in Seq(Job)
    BY <1>0, <1>1, <1>2, TurnKeeps DEF Finish
  <1>4. WaitTypes'
    BY <1>1, SignalKeeps DEF Finish
  <1>5. pool # "none"
    BY <1>0, AliveInPool
  <1> USE DEF poolVars, clientVars
  <1>6. PoolTypes' /\ ClientTypes' /\ NewIsQuiet'
    BY <1>5 DEF Types, PoolTypes, ClientTypes, NewIsQuiet, Finish
  <1>7. JobTypes'
    BY <1>1, <1>3 DEF Types, JobTypes, Finish
  <1>8. PostsFit'
    BY DEF Types, PostsFit, Pending, posted, Finish
  <1> QED BY <1>3, <1>4, <1>6, <1>7, <1>8 DEF Types

LEMMA SleepOnKeeps ==
  ASSUME Workers, NEW w \in Idle, NEW tout \in BOOLEAN, SleepOn(w, tout)
  PROVE  Workers'
  <1> USE DEF SleepOn, Workers, WorkerTypes
  <1>0. w \in Worker /\ w \in Alive
    BY DEF Idle, Alive
  <1>1. wpc' = [wpc EXCEPT ![w] = "paused"] /\ "paused" \in WorkerState
    BY DEF WorkerState
  <1>2. /\ wpc' \in [Worker -> WorkerState]
        /\ Cardinality(Idle') = Cardinality(Idle \ {w}) + 1
        /\ Cardinality(Alive') = Cardinality(Alive \ {w}) + 1
    BY <1>0, <1>1, GoesFacts
  <1>3. numWorkers' = Cardinality(Alive') /\ idleWorkers' = Cardinality(Idle')
    BY <1>0, <1>2, WithoutOne
  <1>4. awake' \subseteq Worker /\ tired' \subseteq Worker
    BY <1>0
  <1>5. \A v \in Worker : wpc'[v] = "run" => job'[v] \in Job
    OBVIOUS
  <1> QED BY <1>2, <1>3, <1>4, <1>5 DEF CountersMatch

LEMMA WakeTypes ==
  ASSUME Types, NEW w \in Worker, Wake(w)
  PROVE  Types'
  <1>0. w \in Alive /\ w \in Idle
    BY DEF Wake, Alive, Idle
  <1>1. Workers /\ work \in Seq(Job) /\ WaitTypes
    BY DEF Types, JobTypes
  <1>2. idleWorkers - 1 = Cardinality(Idle \ {w})
    BY <1>0, <1>1, IdleOthers
  <1>3. PICK tout \in BOOLEAN : SleepOn(w, tout) \/ Retire(w, tout) \/ LookAgain(w, tout)
    BY DEF Wake, Tout
  <1>4. Workers' /\ work' \in Seq(Job) /\ WaitTypes'
    <2>1. CASE SleepOn(w, tout)
      BY <1>0, <1>1, <2>1, SleepOnKeeps DEF SleepOn, waitVars, WaitTypes
    <2>2. CASE Retire(w, tout)
      BY <1>0, <1>1, <1>2, <2>2, DieKeeps, SeekKeeps, SignalKeeps DEF Retire
    <2>3. CASE LookAgain(w, tout)
      BY <1>0, <1>1, <1>2, <2>3, SeekKeeps DEF LookAgain, waitVars, WaitTypes
    <2> QED BY <1>3, <2>1, <2>2, <2>3
  <1> QED BY <1>0, <1>4, AliveInPool, SameClients DEF Wake

-----------------------------------------------------------------------------
(* The steps of the clients keep Types.                                    *)

\* Calls and Resumes: the caller has been counted, and has an event if it waited.
LEMMA CallerFacts ==
  ASSUME Types, NEW c \in Client, NEW place, Calls(c) \/ Resumes(c, place)
  PROVE  (Resumes(c, place) => place = pc[c]) /\ (pc[c] \in Waiting => stops[c] > 0)
  BY DEF Calls, Resumes, Waiting

LEMMA NotNew ==
  ASSUME Types, NEW c \in Client, pc[c] # "out"
  PROVE  pool # "none"
  BY DEF Types, NewIsQuiet

LEMMA RoomFor ==
  ASSUME Types, NEW c \in Client, NEW p \in Place,
         pc[c] \in {"post", "nowait"} \/ Room, pc' = [pc EXCEPT ![c] = p]
  PROVE  /\ posted \in Nat /\ Cardinality(Pending') \in Nat
         /\ posted + Cardinality(Pending') <= MaxJobs
         /\ p \notin {"post", "nowait"} => posted + Cardinality(Pending') + 1 <= MaxJobs
  <1>1. pc \in [Client -> Place] /\ posted \in Nat /\ PostsFit
    BY DEF Types, ClientTypes, JobTypes, posted
  <1>2. /\ Cardinality(Pending) \in Nat /\ Cardinality(Pending \ {c}) \in Nat
        /\ Cardinality(Pending) = Cardinality(Pending \ {c})
                                   + (IF pc[c] \in {"post", "nowait"} THEN 1 ELSE 0)
        /\ Cardinality(Pending') = Cardinality(Pending \ {c})
                                   + (IF p \in {"post", "nowait"} THEN 1 ELSE 0)
    BY <1>1, PendingMoves
  <1>3. posted + Cardinality(Pending) <= MaxJobs
    BY <1>1 DEF PostsFit
  <1>4. Room => posted + Cardinality(Pending) < MaxJobs
    BY DEF Room, Pending
  <1>5. MaxJobs \in Nat
    BY MaxJobsAssumption
  <1>6. posted + Cardinality(Pending \ {c}) + 1 <= MaxJobs
    <2>1. CASE pc[c] \in {"post", "nowait"}
      BY <1>1, <1>2, <1>3, <1>5, <2>1
    <2>2. CASE ~(pc[c] \in {"post", "nowait"})
      BY <1>1, <1>2, <1>4, <1>5, <2>2
    <2> QED BY <2>1, <2>2
  <1> QED BY <1>1, <1>2, <1>5, <1>6

LEMMA PostedTypes ==
  ASSUME Types, NEW c \in Client, NEW d \in BOOLEAN, Posted(c, d),
         pool # "none", pc[c] \in {"post", "nowait"} \/ Room,
         pc[c] \in Waiting => stops[c] > 0
  PROVE  Types'
  <1> USE DEF Posted, Returns, PushWork, poolVars
  <1>1. PoolTypes' /\ NewIsQuiet'
    BY DEF Types, PoolTypes, NewIsQuiet
  <1>2. pc' = [pc EXCEPT ![c] = "ready"] /\ "ready" \in Place
    BY DEF Place
  <1>3. ClientTypes'
    <2>1. 0 \in 0 .. MaxJobs
      BY MaxJobsAssumption
    <2> QED BY <1>2, <2>1 DEF Types, ClientTypes
  <1>4. WaitTypes'
    BY DEF Types, WaitTypes, Served
  <1>5. posted \in Nat /\ posted + Cardinality(Pending') + 1 <= MaxJobs /\ Cardinality(Pending') \in Nat
    BY <1>2, RoomFor
  <1>6. posted + 1 \in Job
    BY <1>5, MaxJobsAssumption DEF Job
  <1>7. owner' \in Seq(Client) /\ posted' = posted + 1
    BY AppendProperties DEF Types, JobTypes, posted
  <1>8. work' \in Seq(Job)
    BY <1>6, AppendProperties DEF Types, JobTypes, Queued
  <1>9. JobTypes'
    BY <1>6, <1>7, <1>8 DEF Types, JobTypes
  <1>10. PostsFit'
    BY <1>5, <1>7, MaxJobsAssumption DEF PostsFit
  <1>11. Workers'
    BY DEF Types, Workers, WorkerTypes, CountersMatch, Alive, Idle, Notify
  <1> QED BY <1>1, <1>3, <1>4, <1>9, <1>10, <1>11 DEF Types

LEMMA AwaitTypes ==
  ASSUME Types, NEW c \in Client, NEW d \in BOOLEAN, NEW place \in {"post", "nowait"},
         NEW create \in BOOLEAN, AwaitWorker(c, d, place, create),
         pool # "none", pc[c] \in {"post", "nowait"} \/ Room,
         pc[c] \in Waiting => stops[c] > 0
  PROVE  Types'
  <1> USE DEF AwaitWorker, poolVars, jobVars
  <1>1. PoolTypes' /\ NewIsQuiet' /\ JobTypes'
    BY DEF Types, PoolTypes, NewIsQuiet, JobTypes
  <1>2. PICK p \in {"ready", place} : PushWaiter(c, p)
    BY DEF NotStarted
  <1>3. p \in Place /\ pc \in [Client -> Place] /\ WaitTypes
    BY DEF Place, Waiting, Types, ClientTypes
  <1>4. WaitTypes' /\ pc' \in [Client -> Place]
    BY <1>2, <1>3, PushKeeps
  <1>5. ClientTypes'
    BY <1>4 DEF Types, ClientTypes, NotStarted
  <1>6. PICK q \in Place : pc' = [pc EXCEPT ![c] = q]
    BY <1>2, <1>3 DEF PushWaiter, Place
  <1>7. posted' = posted /\ posted \in Nat /\ posted + Cardinality(Pending') <= MaxJobs
    BY <1>6, RoomFor DEF posted
  <1>8. PostsFit'
    BY <1>7 DEF PostsFit
  <1>9. Workers'
    <2>1. CASE UNCHANGED workerVars
      BY <2>1 DEF workerVars, Types, Workers, WorkerTypes, CountersMatch, Alive, Idle
    <2>2. CASE \E w \in Worker : CreateWorker(w)
      BY <2>2, CreateWorkerKeeps DEF Types
    <2> QED BY <2>1, <2>2 DEF NotStarted
  <1> QED BY <1>1, <1>4, <1>5, <1>8, <1>9 DEF Types

LEMMA PostTypes ==
  ASSUME Types, NEW c \in Client, Post(c)
  PROVE  Types'
  <1>1. CASE Calls(c)
    <2>1. pool # "none" /\ (pc[c] \in Waiting => stops[c] > 0)
      BY <1>1 DEF Calls, Waiting
    <2>2. Room /\ \E d \in BOOLEAN :
         IF idleWorkers = 0
           THEN AwaitWorker(c, d, "post", numWorkers < opts.max) ELSE Posted(c, d)
      BY <1>1 DEF Post, Calls, Resumes
    <2>3. PICK d \in BOOLEAN :
         IF idleWorkers = 0
           THEN AwaitWorker(c, d, "post", numWorkers < opts.max) ELSE Posted(c, d)
      BY <2>2
    <2>4. (numWorkers < opts.max) \in BOOLEAN
      OBVIOUS
    <2>5. CASE idleWorkers = 0
      <3>1. AwaitWorker(c, d, "post", numWorkers < opts.max)
        BY <2>3, <2>5
      <3> QED BY <2>1, <2>2, <2>4, <3>1, AwaitTypes, Zenon
    <2>6. CASE idleWorkers # 0
      BY <2>1, <2>2, <2>3, <2>6, PostedTypes
    <2> QED BY <2>5, <2>6
  <1>2. CASE Resumes(c, "post")
    <2>1. pool # "none" /\ pc[c] = "post" /\ stops[c] > 0
      BY <1>2, NotNew DEF Resumes
    <2>2. IF idleWorkers = 0
           THEN AwaitWorker(c, c \in quiet, "post", numWorkers < opts.max)
           ELSE Posted(c, c \in quiet)
      BY <1>2 DEF Post, Calls, Resumes
    <2>4. (numWorkers < opts.max) \in BOOLEAN /\ (c \in quiet) \in BOOLEAN
      OBVIOUS
    <2>5. CASE idleWorkers = 0
      <3>1. AwaitWorker(c, c \in quiet, "post", numWorkers < opts.max)
        BY <2>2, <2>5
      <3> QED BY <2>1, <2>4, <3>1, AwaitTypes, Zenon
    <2>6. CASE idleWorkers # 0
      <3>1. Posted(c, c \in quiet)
        BY <2>2, <2>6
      <3> QED BY <2>1, <2>4, <3>1, PostedTypes, Zenon
    <2> QED BY <2>5, <2>6
  <1> QED BY <1>1, <1>2 DEF Post

LEMMA PostNowaitTypes ==
  ASSUME Types, NEW c \in Client, PostNowait(c)
  PROVE  Types'
  <1>1. CASE Calls(c)
    <2>1. pool # "none" /\ (pc[c] \in Waiting => stops[c] > 0)
      BY <1>1 DEF Calls, Waiting
    <2>2. Room /\ \E d \in BOOLEAN :
         IF numWorkers = 0 THEN AwaitWorker(c, d, "nowait", TRUE) ELSE Posted(c, d)
      BY <1>1 DEF PostNowait, Calls, Resumes
    <2>3. PICK d \in BOOLEAN :
         IF numWorkers = 0 THEN AwaitWorker(c, d, "nowait", TRUE) ELSE Posted(c, d)
      BY <2>2
    <2>5. CASE numWorkers = 0
      <3>1. AwaitWorker(c, d, "nowait", TRUE)
        BY <2>3, <2>5
      <3> QED BY <2>1, <2>2, <3>1, AwaitTypes
    <2>6. CASE numWorkers # 0
      BY <2>1, <2>2, <2>3, <2>6, PostedTypes
    <2> QED BY <2>5, <2>6
  <1>2. CASE Resumes(c, "nowait")
    <2>1. pool # "none" /\ pc[c] = "nowait" /\ stops[c] > 0
      BY <1>2, NotNew DEF Resumes
    <2>2. Posted(c, c \in quiet) /\ (c \in quiet) \in BOOLEAN
      BY <1>2 DEF PostNowait, Calls, Resumes
    <2> QED BY <2>1, <2>2, PostedTypes, Zenon
  <1> QED BY <1>1, <1>2 DEF PostNowait

LEMMA WaitTypesHold ==
  ASSUME Types, NEW c \in Client, Wait(c)
  PROVE  Types'
  <1> USE DEF poolVars, jobVars, workerVars
  <1>1. PICK j \in 1 .. posted :
          /\ \/ Calls(c) /\ Knows(c, j)
             \/ Resumes(c, "wait") /\ target[c] = j
          /\ IF j \in done
               THEN Returns(c, "ready") /\ UNCHANGED waiters
               ELSE /\ PushWaiter(c, "wait")
                    /\ target' = [target EXCEPT ![c] = j] /\ quiet' = quiet
    BY DEF Wait
  <1>2. UNCHANGED <<poolVars, jobVars, workerVars>>
    BY DEF Wait
  <1>3. pc[c] # "out" /\ (pc[c] \in Waiting => stops[c] > 0)
    BY <1>1 DEF Calls, Resumes, Waiting
  <1>4. PoolTypes' /\ JobTypes' /\ Workers' /\ NewIsQuiet'
    BY <1>2, <1>3, NotNew DEF Types, PoolTypes, JobTypes, Workers, WorkerTypes, CountersMatch,
       Alive, Idle, NewIsQuiet
  <1>5. j \in 0 .. MaxJobs /\ 0 \in 0 .. MaxJobs
    <2>1. posted \in Nat /\ Cardinality(Pending) \in Nat /\ posted + Cardinality(Pending) <= MaxJobs
      BY PendingFinite, FS_CardinalityType DEF Types, JobTypes, PostsFit, posted
    <2> QED BY <1>1, <2>1, MaxJobsAssumption
  <1>6. PICK p \in Place \ {"post", "nowait"} : pc' = [pc EXCEPT ![c] = p]
    <2>1. {"ready", "wait", "broken"} \subseteq Place \ {"post", "nowait"}
      BY DEF Place, Waiting
    <2>2. CASE j \in done
      BY <1>1, <2>1, <2>2 DEF Returns
    <2>3. CASE j \notin done
      BY <1>1, <2>1, <2>3 DEF PushWaiter
    <2> QED BY <2>2, <2>3
  <1>7. PostsFit'
    BY <1>2, <1>6, NoMorePending DEF Types, ClientTypes, JobTypes
  <1>8. WaitTypes'
    <2>1. CASE j \in done
      BY <1>1, <1>3, <2>1 DEF Types, WaitTypes, Returns, Served
    <2>2. CASE j \notin done
      <3>1. "wait" \in Place /\ WaitTypes /\ pc \in [Client -> Place]
        BY DEF Place, Waiting, Types, ClientTypes
      <3> QED BY <1>1, <1>3, <2>2, <3>1, PushKeeps
    <2> QED BY <2>1, <2>2
  <1>9. ClientTypes'
    <2>1. pc' \in [Client -> Place] /\ quiet' \subseteq Client
      BY <1>1, <1>6 DEF Types, ClientTypes, Returns
    <2>2. target' \in [Client -> 0 .. MaxJobs]
      BY <1>1, <1>5 DEF Types, ClientTypes, Returns
    <2> QED BY <2>1, <2>2 DEF ClientTypes
  <1> QED BY <1>4, <1>7, <1>8, <1>9 DEF Types

LEMMA CancelTypes ==
  ASSUME Types, NEW c \in Client, Cancel(c)
  PROVE  Types'
  <1> USE DEF poolVars, workerVars, waitVars
  <1>1. ASSUME NEW i \in DOMAIN work, work' = RemoveAt(work, i) PROVE work' \in Seq(Job)
    <2>1. work \in Seq(Job) /\ i \in 1 .. Len(work)
      BY <1>1 DEF Types, JobTypes
    <2>2. SubSeq(work, 1, i - 1) \in Seq(Job) /\ SubSeq(work, i + 1, Len(work)) \in Seq(Job)
      BY <2>1, SubSeqProperties
    <2> QED BY <1>1, <2>2, ConcatProperties DEF RemoveAt
  <1>2. work' \in Seq(Job)
    BY <1>1 DEF Cancel, Types, JobTypes
  <1>3. PICK p \in Place \ {"post", "nowait"} : pc' = pc \/ pc' = [pc EXCEPT ![c] = p]
    <2>1. "holding" \in Place \ {"post", "nowait"}
      BY DEF Place
    <2> QED BY <2>1 DEF Cancel
  <1>4. ClientTypes'
    BY <1>3 DEF Cancel, Types, ClientTypes
  <1>5. PoolTypes' /\ Workers' /\ NewIsQuiet' /\ WaitTypes'
    BY DEF Cancel, Calls, Types, PoolTypes, Workers, WorkerTypes, CountersMatch,
       Alive, Idle, NewIsQuiet, WaitTypes
  <1>6. JobTypes'
    BY <1>2 DEF Cancel, Types, JobTypes
  <1>7. PostsFit'
    <2>1. CASE pc' = pc
      BY <2>1 DEF Cancel, Types, PostsFit, Pending, posted
    <2>2. CASE pc' = [pc EXCEPT ![c] = p]
      BY <1>3, <2>2, NoMorePending DEF Cancel, Types, ClientTypes, JobTypes
    <2> QED BY <1>3, <2>1, <2>2
  <1> QED BY <1>4, <1>5, <1>6, <1>7 DEF Types

LEMMA GetTypes ==
  ASSUME Types, NEW c \in Client, Get(c)
  PROVE  Types'
  <1> USE DEF poolVars, workerVars, clientVars, waitVars, Get
  <1>1. PoolTypes' /\ Workers' /\ NewIsQuiet' /\ WaitTypes' /\ ClientTypes'
    BY DEF Types, PoolTypes, Workers, WorkerTypes, CountersMatch,
       Alive, Idle, NewIsQuiet, WaitTypes, ClientTypes
  <1>2. JobTypes' /\ PostsFit'
    BY DEF Types, JobTypes, PostsFit, Pending, posted
  <1> QED BY <1>1, <1>2 DEF Types

LEMMA SuspendTypes ==
  ASSUME Types, NEW c \in Client, TpoolSuspend(c) \/ TpoolResume(c)
  PROVE  Types'
  <1> USE DEF jobVars, workerVars, clientVars, waitVars, TpoolSuspend, TpoolResume
  <1>1. PoolTypes' /\ NewIsQuiet' /\ WaitTypes' /\ ClientTypes'
    BY DEF Types, PoolTypes, Alive, NewIsQuiet, WaitTypes, ClientTypes
  <1>2. JobTypes' /\ PostsFit'
    BY DEF Types, JobTypes, PostsFit, Pending, posted
  <1>3. Workers'
    BY DEF Types, Workers, WorkerTypes, CountersMatch, Alive, Idle, Notify
  <1> QED BY <1>1, <1>2, <1>3 DEF Types

LEMMA StopTypes ==
  ASSUME Types, NEW c \in Client, RunStopEvent(c)
  PROVE  Types'
  <1> USE DEF poolVars, jobVars, workerVars, clientVars, RunStopEvent
  <1>1. PoolTypes' /\ JobTypes' /\ PostsFit' /\ ClientTypes' /\ NewIsQuiet'
    BY DEF Types, PoolTypes, JobTypes, PostsFit, Pending, posted, ClientTypes, NewIsQuiet, Alive
  <1>2. Workers'
    BY DEF Types, Workers, WorkerTypes, CountersMatch, Alive, Idle
  <1>3. WaitTypes'
    BY DEF Types, WaitTypes
  <1> QED BY <1>1, <1>2, <1>3 DEF Types

LEMMA ReserveTypes ==
  ASSUME Types, NEW c \in Client, TpoolReserve(c)
  PROVE  Types'
  <1> USE DEF jobVars, workerVars, waitVars, TpoolReserve
  <1>1. PoolTypes' /\ NewIsQuiet'
    BY DEF Types, PoolTypes, NewIsQuiet
  <1>2. "ready" \in Place \ {"post", "nowait"}
    BY DEF Place
  <1>3. ClientTypes' /\ JobTypes' /\ WaitTypes'
    BY <1>2 DEF Types, ClientTypes, JobTypes, WaitTypes
  <1>4. PostsFit'
    BY <1>2, NoMorePending DEF Types, ClientTypes, JobTypes
  <1>5. Workers'
    BY DEF Types, Workers, WorkerTypes, CountersMatch, Alive, Idle
  <1> QED BY <1>1, <1>3, <1>4, <1>5 DEF Types

\* The part of Types that Dismantle touches.
LEMMA DismantleTypes ==
  ASSUME Types, NEW c \in Client, Dismantle(c), pc[c] \in Waiting => stops[c] > 0
  PROVE  /\ JobTypes' /\ WaitTypes' /\ ClientTypes' /\ PostsFit'
         /\ pool' \in {"down", "freed"} /\ opts' = opts /\ suspend' = suspend
         /\ idleWorkers' = idleWorkers /\ job' = job /\ tired' = tired
         /\ awake' \in {awake, Idle}
  <1>1. PICK p \in {"release", "broken", "out"} : pc' = [pc EXCEPT ![c] = p]
    BY DEF Dismantle, Survivors, PushWaiter, Returns
  <1>2. p \in Place \ {"post", "nowait"}
    BY DEF Place, Waiting
  <1>3. owner' = owner /\ detached' = detached
    BY DEF Dismantle
  <1>4. PostsFit'
    BY <1>1, <1>2, <1>3, NoMorePending DEF Types, ClientTypes, JobTypes
  <1>5. JobTypes'
    BY <1>3, EmptySeq DEF Dismantle, Types, JobTypes
  <1>6. WaitTypes'
    <2>1. "release" \in Place /\ WaitTypes /\ pc \in [Client -> Place]
      BY DEF Place, Waiting, Types, ClientTypes
    <2>2. CASE Survivors
      BY <2>1, <2>2, PushKeeps DEF Dismantle
    <2>3. CASE ~Survivors
      BY <2>3 DEF Dismantle, Types, WaitTypes, Returns, Served
    <2> QED BY <2>2, <2>3
  <1>7. ClientTypes'
    <2>1. 0 \in 0 .. MaxJobs
      BY MaxJobsAssumption
    <2>2. target' \in [Client -> 0 .. MaxJobs] /\ quiet' \subseteq Client
      BY <2>1 DEF Dismantle, Types, ClientTypes, Returns
    <2> QED BY <1>1, <1>2, <2>2 DEF Types, ClientTypes
  <1>8. /\ pool' \in {"down", "freed"} /\ opts' = opts /\ suspend' = suspend
        /\ idleWorkers' = idleWorkers /\ job' = job /\ tired' = tired
        /\ awake' \in {awake, Idle}
    BY DEF Dismantle, Notify
  <1> QED BY <1>4, <1>5, <1>6, <1>7, <1>8

LEMMA ReleaseTypes ==
  ASSUME Types, NEW c \in Client, TpoolRelease(c)
  PROVE  Types'
  <1>1. CASE /\ Calls(c) /\ ~LastReference
             /\ refCount' = refCount - 1
             /\ pc' = [pc EXCEPT ![c] = "out"]
             /\ UNCHANGED <<opts, pool, suspend, jobVars, workerVars, target, quiet, waitVars>>
    <2> USE <1>1 DEF jobVars, workerVars, waitVars
    <2>1. PoolTypes' /\ NewIsQuiet'
      BY DEF Types, PoolTypes, NewIsQuiet, LastReference, Calls
    <2>2. "out" \in Place \ {"post", "nowait"}
      BY DEF Place
    <2>3. ClientTypes' /\ JobTypes' /\ WaitTypes'
      BY <2>2 DEF Types, ClientTypes, JobTypes, WaitTypes
    <2>4. PostsFit'
      BY <2>2, NoMorePending DEF Types, ClientTypes, JobTypes
    <2>5. Workers'
      BY DEF Types, Workers, WorkerTypes, CountersMatch, Alive, Idle
    <2> QED BY <2>1, <2>3, <2>4, <2>5 DEF Types
  <1>2. CASE Dismantle(c) /\ refCount' \in {0, refCount} /\ UNCHANGED <<numWorkers, wpc>>
             /\ (pc[c] \in Waiting => stops[c] > 0)
    <2>1. /\ JobTypes' /\ WaitTypes' /\ ClientTypes' /\ PostsFit'
          /\ pool' \in {"down", "freed"} /\ opts' = opts /\ suspend' = suspend
          /\ idleWorkers' = idleWorkers /\ job' = job /\ tired' = tired
          /\ awake' \in {awake, Idle}
      BY <1>2, DismantleTypes
    <2>2. PoolTypes' /\ NewIsQuiet'
      BY <1>2, <2>1 DEF Types, PoolTypes, NewIsQuiet
    <2>3. Workers'
      BY <1>2, <2>1 DEF Types, Workers, WorkerTypes, CountersMatch, Alive, Idle
    <2> QED BY <2>1, <2>2, <2>3 DEF Types
  <1>3. pc[c] \in Waiting => stops[c] > 0
    BY DEF TpoolRelease, Calls, Resumes, Abandons, Waiting
  <1> QED BY <1>1, <1>2, <1>3 DEF TpoolRelease

LEMMA CreateTypes ==
  ASSUME Types, NEW c \in Client, Create(c)
  PROVE  Types'
  <1> USE DEF jobVars, waitVars
  <1>1. PICK W \in SUBSET Worker :
         /\ wpc' = [w \in Worker |-> IF w \in W THEN "start" ELSE "none"]
         /\ numWorkers' = Cardinality(W)
    BY DEF Create
  <1>2. Alive = {} /\ Idle = {}
    BY DEF Create, Types, NewIsQuiet, Alive, Idle
  <1>3. IsFiniteSet(W) /\ Cardinality(W) \in Nat /\ Cardinality({}) = 0
    BY WorkerAssumption, FS_Subset, FS_CardinalityType, FS_EmptySet
  <1>4. wpc' \in [Worker -> WorkerState] /\ Alive' = W /\ Idle' = {}
        /\ \A w \in Worker : wpc'[w] # "run"
    BY <1>1 DEF WorkerState, Alive, Idle
  <1>5. idleWorkers = 0
    BY <1>2, <1>3 DEF Types, Workers, CountersMatch
  <1>6. PICK p \in Place \ {"post", "nowait"} : pc' = pc \/ pc' = [pc EXCEPT ![c] = p]
    <2>1. "create" \in Place \ {"post", "nowait"}
      BY DEF Place
    <2> QED BY <2>1 DEF Create
  <1>7. ClientTypes' /\ JobTypes' /\ WaitTypes'
    BY <1>6 DEF Create, Types, ClientTypes, JobTypes, WaitTypes
  <1>8. PostsFit'
    <2>1. CASE pc' = pc
      BY <2>1 DEF Create, Types, PostsFit, Pending, posted
    <2>2. CASE pc' = [pc EXCEPT ![c] = p]
      BY <1>6, <2>2, NoMorePending DEF Create, Types, ClientTypes, JobTypes
    <2> QED BY <1>6, <2>1, <2>2
  <1>9. PoolTypes' /\ NewIsQuiet'
    BY DEF Create, Types, PoolTypes, NewIsQuiet
  <1>10. WorkerTypes'
    BY <1>1, <1>3, <1>4 DEF Create, Types, Workers, WorkerTypes
  <1>11. CountersMatch'
    BY <1>1, <1>3, <1>4, <1>5 DEF Create, CountersMatch
  <1> QED BY <1>7, <1>8, <1>9, <1>10, <1>11 DEF Types, Workers

-----------------------------------------------------------------------------
(* Types is an invariant.                                                  *)

LEMMA InitTypes == Init => Types
  <1> SUFFICES ASSUME Init PROVE Types
    OBVIOUS
  <1> USE DEF Init
  <1>1. Alive = {} /\ Idle = {} /\ Pending = {} /\ posted = 0
    BY DEF Alive, Idle, Pending, posted
  <1>2. Cardinality({}) = 0
    BY FS_EmptySet
  <1>3. PoolTypes /\ JobTypes /\ WaitTypes
    BY EmptySeq DEF PoolTypes, JobTypes, WaitTypes
  <1>4. 0 \in 0 .. MaxJobs
    BY MaxJobsAssumption
  <1>5. WorkerTypes
    BY <1>4 DEF WorkerTypes, WorkerState
  <1>6. ClientTypes
    BY <1>4 DEF ClientTypes, Place
  <1>7. CountersMatch
    BY <1>1, <1>2 DEF CountersMatch
  <1>8. PostsFit
    BY <1>1, <1>2, MaxJobsAssumption DEF PostsFit
  <1>9. NewIsQuiet
    BY <1>1 DEF NewIsQuiet
  <1> QED BY <1>3, <1>5, <1>6, <1>7, <1>8, <1>9 DEF Types, Workers

LEMMA NextTypes == Types /\ [Next]_vars => Types'
  <1> SUFFICES ASSUME Types, [Next]_vars PROVE Types'
    OBVIOUS
  <1>1. ASSUME NEW w \in Worker, Start(w) \/ Finish(w) \/ Wake(w) PROVE Types'
    BY <1>1, StartTypes, FinishTypes, WakeTypes
  <1>2. ASSUME NEW c \in Client, ClientStep(c) PROVE Types'
    BY <1>2, CreateTypes, ReserveTypes, ReleaseTypes, SuspendTypes, PostTypes,
       PostNowaitTypes, WaitTypesHold, CancelTypes, GetTypes, StopTypes DEF ClientStep
  <1>3. ASSUME UNCHANGED vars PROVE Types'
    <2> USE <1>3 DEF vars, poolVars, jobVars, workerVars, clientVars, waitVars
    <2>1. PoolTypes' /\ JobTypes' /\ WaitTypes' /\ ClientTypes' /\ PostsFit'
      BY DEF Types, PoolTypes, JobTypes, WaitTypes, ClientTypes, PostsFit, Pending, posted
    <2>2. Workers' /\ NewIsQuiet'
      BY DEF Types, Workers, WorkerTypes, CountersMatch, Alive, Idle, NewIsQuiet
    <2> QED BY <2>1, <2>2 DEF Types
  <1> QED BY <1>1, <1>2, <1>3 DEF Next

\* The variables keep their types, and no more jobs are posted than there is room
\* for: for any number of threads, workers and jobs and any settings of the pool.
THEOREM TypesHold == Spec => []TypeOK
<1>1. Types => TypeOK
  <2> SUFFICES ASSUME Types PROVE TypeOK
    OBVIOUS
  <2>1. posted <= MaxJobs
    <3>1. /\ posted \in Nat /\ Cardinality(Pending) \in Nat
          /\ posted + Cardinality(Pending) <= MaxJobs
      BY PendingFinite, FS_CardinalityType DEF Types, JobTypes, PostsFit, posted
    <3> QED BY <3>1, MaxJobsAssumption
  <2> QED BY <2>1 DEF Types, PoolTypes, JobTypes, Workers, WorkerTypes, WaitTypes,
       ClientTypes, TypeOK, WorkerState, Place
<1> QED BY InitTypes, NextTypes, <1>1, PTL DEF Spec

\* numWorkers and idleWorkers count the workers there are and those that wait, on
\* every way through the worker's loops, for any number of workers.
THEOREM CountersHold == Spec => []CountersMatch
<1>1. Types => CountersMatch
  BY DEF Types, Workers
<1> QED BY InitTypes, NextTypes, <1>1, PTL DEF Spec

-----------------------------------------------------------------------------
(* The number of workers.                                                  *)

LEMMA OptionFacts ==
  ASSUME Types
  PROVE  opts.min \in Nat /\ opts.max \in Nat /\ opts.max >= 1 /\ opts.min <= opts.max
         /\ numWorkers \in Nat
  BY OptionsAssumption DEF Types, PoolTypes, Workers, WorkerTypes

\* tpool::post and tpool::post -nowait: what becomes of the workers and the pool.
LEMMA PostEffect ==
  ASSUME Types, NEW c \in Client, Post(c) \/ PostNowait(c)
  PROVE  /\ UNCHANGED <<poolVars, done>>
         /\ \/ numWorkers' = numWorkers /\ wpc' = wpc
            \/ /\ numWorkers' = numWorkers + 1
               /\ numWorkers < opts.max \/ numWorkers = 0
  BY DEF Post, PostNowait, AwaitWorker, Posted, PushWork, NotStarted, CreateWorker,
     workerVars, jobVars, poolVars

LEMMA InitBounds == Init => WorkersInBounds
  BY OptionsAssumption DEF Init, WorkersInBounds

LEMMA TurnBounds ==
  ASSUME Types, WorkersInBounds, NEW w \in Worker, Start(w) \/ Finish(w) \/ Wake(w)
  PROVE  WorkersInBounds'
  <1>1. opts' = opts /\ pool' = pool
    BY DEF Start, Finish, Wake, poolVars
  <1>2. \/ numWorkers' = numWorkers
        \/ numWorkers' = numWorkers - 1 /\ (TearDown \/ numWorkers > opts.min)
    BY DEF Start, Finish, Wake, Turn, Die, Seek, SleepOn, Retire, LookAgain, Spare
  <1> QED BY <1>1, <1>2, OptionFacts DEF WorkersInBounds, TearDown

LEMMA NextBounds == Types /\ Types' /\ WorkersInBounds /\ [Next]_vars => WorkersInBounds'
  <1> SUFFICES ASSUME Types, Types', WorkersInBounds, [Next]_vars PROVE WorkersInBounds'
    OBVIOUS
  <1>1. ASSUME NEW w \in Worker, Start(w) \/ Finish(w) \/ Wake(w) PROVE WorkersInBounds'
    BY <1>1, TurnBounds
  <1>2. ASSUME numWorkers' = numWorkers, opts' = opts, pool' \in {pool, "failed", "down", "freed"}
        PROVE  WorkersInBounds'
    BY <1>2 DEF WorkersInBounds
  <1>3. ASSUME NEW c \in Client, ClientStep(c) PROVE WorkersInBounds'
    <2>1. CASE Post(c) \/ PostNowait(c)
      BY <2>1, PostEffect, OptionFacts DEF WorkersInBounds, poolVars
    <2>2. CASE Create(c)
      <3>1. PICK W \in SUBSET Worker :
              /\ numWorkers' = Cardinality(W) /\ opts' = opts
              /\ \/ Cardinality(W) = opts.min
                 \/ Cardinality(W) < opts.min /\ pool' = "failed"
        BY <2>2 DEF Create
      <3>2. Cardinality(W) \in Nat
        BY WorkerAssumption, FS_Subset, FS_CardinalityType
      <3> QED BY <3>1, <3>2, OptionFacts DEF WorkersInBounds
    <2>3. CASE TpoolRelease(c)
      BY <1>2, <2>3 DEF TpoolRelease, Dismantle, workerVars
    <2>4. CASE TpoolReserve(c) \/ TpoolSuspend(c) \/ TpoolResume(c)
      BY <1>2, <2>4 DEF TpoolReserve, TpoolSuspend, TpoolResume, workerVars
    <2>5. CASE Wait(c) \/ Cancel(c) \/ Get(c) \/ RunStopEvent(c)
      BY <1>2, <2>5 DEF Wait, Cancel, Get, RunStopEvent, workerVars, poolVars
    <2> QED BY <1>3, <2>1, <2>2, <2>3, <2>4, <2>5 DEF ClientStep
  <1>4. ASSUME UNCHANGED vars PROVE WorkersInBounds'
    BY <1>2, <1>4 DEF vars, poolVars, workerVars
  <1> QED BY <1>1, <1>3, <1>4 DEF Next

\* -maxworkers is an upper bound at all times and -minworkers a lower one until the
\* pool is released, for any number of threads that post at once.
THEOREM BoundsHold == Spec => []WorkersInBounds
  BY InitTypes, NextTypes, InitBounds, NextBounds, PTL DEF Spec

-----------------------------------------------------------------------------
(* References.                                                             *)

\* The clients that have preserved the pool.
Holders == {c \in Client : pc[c] \in {"ready", "post", "nowait", "wait", "broken", "holding"}}

\* refCount counts them until the pool is released for the last time; from then on
\* the one that released it is the only one left, until the pool is freed; and of a
\* pool that could not be created only the one that tried to knows.
References ==
    /\ pool = "listed" =>
         refCount = Cardinality(Holders) /\ \A c \in Client : pc[c] \notin {"release", "create"}
    /\ pool = "failed" => "failures" \in opts.uses /\ \E d \in Client : \A c \in Client :
         pc[c] = IF c = d THEN "create" ELSE "out"
    /\ pool = "down" => \E d \in Client : \A c \in Client :
         IF c = d THEN pc[c] \in {"release", "broken"} ELSE pc[c] = "out"
    /\ pool \in {"none", "freed"} => \A c \in Client : pc[c] = "out"
    /\ pool = "none" => refCount = 0
    /\ pool = "freed" => Alive = {}

LEMMA HoldersFinite == IsFiniteSet(Holders)
  BY ClientAssumption, FS_Subset DEF Holders

LEMMA InitReferences == Init => References
  BY DEF Init, References

\* Whoever is in a command is so in a pool that is listed.
LEMMA HolderInListed ==
  ASSUME Types, References, NEW c \in Client, pc[c] \in {"ready", "post", "nowait", "wait"}
  PROVE  pool = "listed"
  BY DEF References, Types, PoolTypes

LEMMA StaysHolder ==
  ASSUME Types, References, NEW c \in Client, pc[c] \in {"ready", "post", "nowait", "wait"},
         NEW p \in {"ready", "post", "nowait", "wait", "broken", "holding"},
         pc' = [pc EXCEPT ![c] = p], pool' = pool, refCount' = refCount
  PROVE  References'
  <1>1. pool = "listed"
    BY HolderInListed
  <1>2. Holders' = Holders
    BY DEF Holders, Types, ClientTypes
  <1> QED BY <1>1, <1>2 DEF References, Types, ClientTypes

LEMMA SameReferences ==
  ASSUME References, UNCHANGED <<pc, pool, refCount, opts>>, pool = "freed" => Alive' = {}
  PROVE  References'
  BY DEF References, Holders

LEMMA WorkerReferences ==
  ASSUME Types, References, NEW w \in Worker, Start(w) \/ Finish(w) \/ Wake(w)
  PROVE  References'
  <1>1. w \in Alive
    BY DEF Start, Finish, Wake, Alive, Idle
  <1> QED BY <1>1, SameReferences DEF Start, Finish, Wake, poolVars, clientVars, References

LEMMA PostReferences ==
  ASSUME Types, References, NEW c \in Client, Post(c) \/ PostNowait(c)
  PROVE  References'
  <1>1. pc[c] \in {"ready", "post", "nowait", "wait"}
    BY DEF Post, PostNowait, Calls, Resumes
  <1>2. pool' = pool /\ refCount' = refCount
    BY PostEffect DEF poolVars
  <1>3. PICK p \in {"ready", "post", "nowait", "wait", "broken", "holding"} : pc' = [pc EXCEPT ![c] = p]
    BY DEF Post, PostNowait, AwaitWorker, Posted, NotStarted, PushWaiter, Returns
  <1> QED BY <1>1, <1>2, <1>3, StaysHolder

LEMMA WaitReferences ==
  ASSUME Types, References, NEW c \in Client, Wait(c)
  PROVE  References'
  <1>1. pc[c] \in {"ready", "post", "nowait", "wait"}
    BY DEF Wait, Calls, Resumes
  <1>2. pool' = pool /\ refCount' = refCount
    BY DEF Wait, poolVars
  <1>3. PICK p \in {"ready", "post", "nowait", "wait", "broken", "holding"} : pc' = [pc EXCEPT ![c] = p]
    BY DEF Wait, PushWaiter, Returns
  <1> QED BY <1>1, <1>2, <1>3, StaysHolder

LEMMA ReserveReferences ==
  ASSUME Types, References, NEW c \in Client, TpoolReserve(c)
  PROVE  References'
  <1>1. Holders' = Holders \cup {c} /\ c \notin Holders
    BY DEF TpoolReserve, Holders, Types, ClientTypes
  <1>2. Cardinality(Holders') = Cardinality(Holders) + 1
    BY <1>1, HoldersFinite, FS_AddElement
  <1> QED BY <1>2 DEF TpoolReserve, References, Types, ClientTypes

\* What Dismantle leaves, if all others are out.
LEMMA DismantleReferences ==
  ASSUME Types, Types', NEW c \in Client, Dismantle(c),
         \A d \in Client \ {c} : pc[d] = "out"
  PROVE  References'
  <1>1. CASE Survivors
    <2>1. pool' = "down"
      BY <1>1 DEF Dismantle
    <2>2. PICK p \in {"release", "broken"} : pc' = [pc EXCEPT ![c] = p]
      BY <1>1 DEF Dismantle, PushWaiter
    <2>3. \A d \in Client : IF d = c THEN pc'[d] \in {"release", "broken"} ELSE pc'[d] = "out"
      BY <2>2 DEF Types, ClientTypes
    <2> QED BY <2>1, <2>3 DEF References
  <1>2. CASE ~Survivors
    <2>1. pool' = "freed" /\ pc' = [pc EXCEPT ![c] = "out"]
      BY <1>2 DEF Dismantle, Returns
    <2>2. \A d \in Client : pc'[d] = "out"
      BY <2>1 DEF Types, ClientTypes
    <2>3. numWorkers' = Cardinality(Alive') /\ numWorkers' \in Nat /\ ~(numWorkers' > 0)
      BY <1>2 DEF Types, Workers, CountersMatch, WorkerTypes, Survivors
    <2>4. IsFiniteSet(Alive')
      BY WorkerAssumption, FS_Subset DEF Alive
    <2>5. Alive' = {}
      BY <2>3, <2>4, FS_EmptySet
    <2> QED BY <2>1, <2>2, <2>5 DEF References
  <1> QED BY <1>1, <1>2

LEMMA ReleaseReferences ==
  ASSUME Types, Types', References, NEW c \in Client, TpoolRelease(c)
  PROVE  References'
  <1>0. CASE Calls(c)
    <2>0. /\ pool = "listed" /\ c \in Holders /\ refCount = Cardinality(Holders)
          /\ refCount \in Nat /\ pc[c] = "ready"
      BY <1>0 DEF Calls, Holders, References, Types, PoolTypes
    <2>1. CASE ~LastReference
      <3>1. pc' = [pc EXCEPT ![c] = "out"] /\ refCount' = refCount - 1 /\ pool' = pool
        BY <1>0, <2>0, <2>1 DEF TpoolRelease, Calls, Resumes, Abandons
      <3>2. Holders' = Holders \ {c}
        BY <3>1 DEF Holders, Types, ClientTypes
      <3>3. Cardinality(Holders') = refCount - 1
        BY <2>0, <3>2, HoldersFinite, FS_RemoveElement
      <3> QED BY <2>0, <3>1, <3>3 DEF References, Types, ClientTypes, LastReference
    <2>2. CASE LastReference
      <3>1. Dismantle(c)
        BY <1>0, <2>0, <2>2 DEF TpoolRelease, Calls, Resumes, Abandons
      <3>2. Cardinality(Holders \ {c}) = refCount - 1 /\ IsFiniteSet(Holders \ {c})
            /\ Cardinality(Holders \ {c}) \in Nat
        BY <2>0, HoldersFinite, FS_RemoveElement, FS_CardinalityType
      <3>3. Cardinality(Holders \ {c}) = 0
        BY <2>0, <2>2, <3>2 DEF LastReference
      <3>4. Holders \ {c} = {}
        BY <3>2, <3>3, FS_EmptySet
      <3>5. \A d \in Client \ {c} : pc[d] = "out"
        BY <2>0, <3>4 DEF Holders, References, Types, ClientTypes, Place, Waiting
      <3> QED BY <3>1, <3>5, DismantleReferences
    <2> QED BY <2>1, <2>2
  <1>1. CASE Resumes(c, "release")
    <2>1. Dismantle(c)
      BY <1>1 DEF TpoolRelease, Calls, Resumes
    <2>2. pool = "down" /\ pc[c] = "release"
      BY <1>1 DEF Resumes, References, Types, PoolTypes
    <2>3. \A d \in Client \ {c} : pc[d] = "out"
      BY <2>2 DEF References
    <2> QED BY <2>1, <2>3, DismantleReferences
  <1>2. CASE Abandons(c)
    <2>1. Dismantle(c)
      BY <1>2 DEF TpoolRelease, Calls, Abandons
    <2>2. \A d \in Client \ {c} : pc[d] = "out"
      BY <1>2 DEF Abandons, References
    <2> QED BY <2>1, <2>2, DismantleReferences
  <1> QED BY <1>0, <1>1, <1>2 DEF TpoolRelease

LEMMA CreateReferences ==
  ASSUME Types, Types', References, NEW c \in Client, Create(c)
  PROVE  References'
  <1>1. pool = "none" /\ refCount = 0 /\ refCount' = 0 /\ \A d \in Client : pc[d] = "out"
    BY DEF Create, References
  <1>2. CASE pool' = "failed" /\ pc' = [pc EXCEPT ![c] = "create"]
    <2>1. opts' = opts /\ "failures" \in opts.uses
      BY <1>2 DEF Create
    <2>2. \A d \in Client : pc'[d] = IF d = c THEN "create" ELSE "out"
      BY <1>1, <1>2 DEF Types, ClientTypes
    <2>3. \E e \in Client : \A d \in Client : pc'[d] = IF d = e THEN "create" ELSE "out"
      BY <2>2, Zenon
    <2> QED BY <1>2, <2>1, <2>3 DEF References
  <1>3. CASE pool' = "listed" /\ pc' = pc
    <2>1. Holders' = {}
      BY <1>1, <1>3 DEF Holders
    <2> QED BY <1>1, <1>3, <2>1, FS_EmptySet DEF References
  <1> QED BY <1>2, <1>3 DEF Create, clientVars

LEMMA CancelReferences ==
  ASSUME Types, References, NEW c \in Client, Cancel(c)
  PROVE  References'
  <1>1. pc[c] = "ready" /\ UNCHANGED <<pool, refCount, opts, wpc>>
    BY DEF Cancel, Calls, poolVars, workerVars
  <1>2. CASE pc' = pc
    BY <1>1, <1>2, SameReferences DEF Alive, References
  <1>3. CASE pc' = [pc EXCEPT ![c] = "holding"]
    BY <1>1, <1>3, StaysHolder
  <1> QED BY <1>2, <1>3 DEF Cancel

LEMMA NextReferences == Types /\ Types' /\ References /\ [Next]_vars => References'
  <1> SUFFICES ASSUME Types, Types', References, [Next]_vars PROVE References'
    OBVIOUS
  <1>1. ASSUME NEW w \in Worker, Start(w) \/ Finish(w) \/ Wake(w) PROVE References'
    BY <1>1, WorkerReferences
  <1>2. ASSUME UNCHANGED <<pc, pool, refCount, opts, wpc>> PROVE References'
    BY <1>2, SameReferences DEF Alive, References
  <1>3. ASSUME NEW c \in Client, ClientStep(c) PROVE References'
    <2>1. CASE Post(c) \/ PostNowait(c) \/ Wait(c)
      BY <2>1, PostReferences, WaitReferences
    <2>2. CASE Create(c) \/ TpoolReserve(c) \/ TpoolRelease(c)
      BY <2>2, CreateReferences, ReserveReferences, ReleaseReferences
    <2>3. CASE TpoolSuspend(c) \/ TpoolResume(c)
      BY <1>2, <2>3 DEF TpoolSuspend, TpoolResume, workerVars, clientVars
    <2>4. CASE Cancel(c) \/ Get(c) \/ RunStopEvent(c)
      BY <1>2, <2>4, CancelReferences DEF Get, RunStopEvent, workerVars, poolVars, clientVars
    <2> QED BY <1>3, <2>1, <2>2, <2>3, <2>4 DEF ClientStep
  <1>4. ASSUME UNCHANGED vars PROVE References'
    BY <1>2, <1>4 DEF vars, poolVars, workerVars, clientVars
  <1> QED BY <1>1, <1>3, <1>4 DEF Next

\* A thread that has preserved the pool and is in one of its commands is so in a
\* pool that nobody tears down, for any number of threads that use it.
THEOREM ReservedHold == Spec => []ReservedStaysUp
<1>1. Types /\ References => ReservedStaysUp
  BY HolderInListed DEF ReservedStaysUp
<1> QED BY InitTypes, NextTypes, InitReferences, NextReferences, <1>1, PTL DEF Spec

\* A pool that was freed has no worker left and no thread in its commands.
THEOREM FreedHold == Spec => []FreedIsQuiet
<1>1. References => FreedIsQuiet
  BY DEF References, FreedIsQuiet
<1> QED BY InitTypes, NextTypes, InitReferences, NextReferences, <1>1, PTL DEF Spec

-----------------------------------------------------------------------------
(* Waking up clients.                                                      *)

\* WaitersListed, and nobody is on the list twice.
Listed ==
    "failures" \notin opts.uses =>
        /\ WaitersListed
        /\ \A i, j \in DOMAIN waiters : waiters[i] = waiters[j] => i = j

LEMMA InitListed == Init => Listed
  BY DEF Init, Listed, WaitersListed, Range, Waiting

LEMMA SameListed ==
  ASSUME Listed, UNCHANGED <<opts, pc, waiters, stops>>
  PROVE  Listed'
  BY DEF Listed, WaitersListed

\* Those that SignalWaiter takes off the list get their event.
LEMMA SignalListed ==
  ASSUME Types, Listed, NEW n \in Nat, SignalWaiter(n), UNCHANGED <<opts, pc>>
  PROVE  Listed'
  <1> SUFFICES ASSUME "failures" \notin opts.uses
               PROVE  /\ WaitersListed'
                      /\ \A i, j \in DOMAIN waiters' : waiters'[i] = waiters'[j] => i = j
    BY DEF Listed
  <1>0. /\ waiters \in Seq(Client) /\ stops \in [Client -> Nat]
        /\ \A i, j \in 1 .. Len(waiters) : waiters[i] = waiters[j] => i = j
        /\ WaitersListed
    BY DEF Types, WaitTypes, Listed
  <1> DEFINE m == Len(waiters)
  <1>1. m \in Nat /\ \A i \in n + 1 .. m : waiters[i] \in Client
    BY <1>0
  <1>2. /\ waiters' \in Seq(Client)
        /\ Len(waiters') = IF n + 1 <= m THEN m - n ELSE 0
        /\ \A i \in 1 .. m - n : waiters'[i] = waiters[n + i]
    <2>1. waiters' = SubSeq(waiters, n + 1, m)
      BY DEF SignalWaiter
    <2>2. /\ SubSeq(waiters, n + 1, m) \in Seq(Client)
          /\ Len(SubSeq(waiters, n + 1, m)) = IF n + 1 <= m THEN m - (n + 1) + 1 ELSE 0
          /\ \A i \in 1 .. m - (n + 1) + 1 :
               SubSeq(waiters, n + 1, m)[i] = waiters[n + 1 + i - 1]
      <3> HIDE DEF m
      <3> QED BY <1>1, SubSeqProperties
    <2>3. m - (n + 1) + 1 = m - n /\ \A i \in 1 .. m - n : n + 1 + i - 1 = n + i
      BY <1>1
    <2> QED BY <2>1, <2>2, <2>3
  <1>3. DOMAIN waiters' = 1 .. Len(waiters') /\ Len(waiters') \in Nat
    <2>1. waiters' \in Seq(Client)
      BY <1>2
    <2> QED BY <2>1, LenProperties
  <1>4. \A i \in DOMAIN waiters' :
          i \in Nat /\ n + i \in 1 .. m /\ n + i > n /\ waiters'[i] = waiters[n + i]
    BY <1>1, <1>2, <1>3
  <1>5. \A i, j \in DOMAIN waiters' : waiters'[i] = waiters'[j] => i = j
    <2>1. TAKE i, j \in DOMAIN waiters'
    <2>2. HAVE waiters'[i] = waiters'[j]
    <2>3. /\ n + i \in 1 .. m /\ n + j \in 1 .. m /\ i \in Nat /\ j \in Nat
          /\ waiters[n + i] = waiters[n + j]
      BY <1>4, <2>2
    <2>4. n + i = n + j
      BY <1>0, <2>3
    <2> QED BY <2>3, <2>4
  <1>6. ASSUME NEW c \in Client
        PROVE  IF c \in Range(waiters)
                 THEN \/ c \in Range(waiters') /\ stops'[c] = stops[c]
                      \/ c \notin Range(waiters') /\ stops'[c] = stops[c] + 1
                 ELSE c \notin Range(waiters') /\ stops'[c] = stops[c]
    <2>1. stops'[c] = IF \E i \in Signalled(n) : waiters[i] = c THEN stops[c] + 1 ELSE stops[c]
      BY DEF SignalWaiter
    <2>2. CASE c \notin Range(waiters)
      <3>1. c \notin Range(waiters')
        BY <1>0, <1>4, <2>2 DEF Range
      <3> QED BY <1>0, <2>1, <2>2, <3>1 DEF Signalled, Range
    <2>3. CASE c \in Range(waiters)
      <3>1. PICK k \in 1 .. m : waiters[k] = c
        BY <1>0, <2>3 DEF Range
      <3>2. CASE k <= n
        <4>1. k \in Signalled(n)
          BY <1>0, <3>1, <3>2 DEF Signalled
        <4>2. c \notin Range(waiters')
          <5>1. \A i \in DOMAIN waiters' : n + i # k
            BY <1>4, <3>1, <3>2
          <5> QED BY <1>0, <1>4, <3>1, <5>1 DEF Range
        <4> QED BY <2>1, <2>3, <3>1, <4>1, <4>2
      <3>3. CASE k > n
        <4>1. \A i \in Signalled(n) : waiters[i] # c
          BY <1>0, <3>1, <3>3 DEF Signalled
        <4>2. k - n \in DOMAIN waiters' /\ n + (k - n) = k
          BY <1>1, <1>2, <1>3, <3>1, <3>3
        <4>3. waiters'[k - n] = c
          BY <1>4, <3>1, <4>2
        <4>4. c \in Range(waiters')
          BY <4>2, <4>3 DEF Range
        <4> QED BY <2>1, <2>3, <4>1, <4>4
      <3> QED BY <1>1, <3>1, <3>2, <3>3
    <2> QED BY <2>2, <2>3
  <1>7. WaitersListed'
    BY <1>0, <1>6 DEF WaitersListed
  <1> QED BY <1>5, <1>7

\* A caller that goes on the list has served its event, if it was waiting before.
LEMMA PushListed ==
  ASSUME Types, Listed, NEW c \in Client, NEW p \in Waiting, PushWaiter(c, p),
         pc[c] \in {"ready", "out"} \/ stops[c] > 0, opts' = opts
  PROVE  Listed'
  <1> SUFFICES ASSUME "failures" \notin opts.uses
               PROVE  /\ WaitersListed'
                      /\ \A i, j \in DOMAIN waiters' : waiters'[i] = waiters'[j] => i = j
    BY DEF Listed
  <1>0. /\ waiters \in Seq(Client) /\ stops \in [Client -> Nat] /\ pc \in [Client -> Place]
        /\ \A i, j \in 1 .. Len(waiters) : waiters[i] = waiters[j] => i = j
        /\ WaitersListed
    BY DEF Types, WaitTypes, ClientTypes, Listed
  <1>1. c \notin Range(waiters) /\ stops[c] = IF pc[c] \in Waiting THEN 1 ELSE 0
    BY <1>0 DEF WaitersListed, Waiting
  <1>2. pc' = [pc EXCEPT ![c] = p] /\ waiters' = Append(waiters, c) /\ stops' = Served(c)
    BY <1>1 DEF PushWaiter
  <1>3. /\ waiters' \in Seq(Client) /\ Len(waiters') = Len(waiters) + 1
        /\ \A i \in 1 .. Len(waiters) : waiters'[i] = waiters[i]
        /\ waiters'[Len(waiters) + 1] = c
    BY <1>0, <1>2, AppendProperties
  <1>4. DOMAIN waiters' = 1 .. Len(waiters) + 1 /\ Len(waiters) \in Nat
        /\ DOMAIN waiters = 1 .. Len(waiters)
    BY <1>0, <1>3
  <1>5. \A i \in 1 .. Len(waiters) : waiters[i] # c
    BY <1>1, <1>4 DEF Range
  <1>6. \A i, j \in DOMAIN waiters' : waiters'[i] = waiters'[j] => i = j
    <2>1. \A i \in DOMAIN waiters' : i \in 1 .. Len(waiters) \/ i = Len(waiters) + 1
      BY <1>4
    <2>2. TAKE i, j \in DOMAIN waiters'
    <2>3. HAVE waiters'[i] = waiters'[j]
    <2>4. CASE i \in 1 .. Len(waiters) /\ j \in 1 .. Len(waiters)
      BY <1>0, <1>3, <2>3, <2>4
    <2>5. CASE i = Len(waiters) + 1 /\ j = Len(waiters) + 1
      BY <2>5
    <2>6. CASE i \in 1 .. Len(waiters) /\ j = Len(waiters) + 1
      BY <1>3, <1>5, <2>3, <2>6
    <2>7. CASE i = Len(waiters) + 1 /\ j \in 1 .. Len(waiters)
      BY <1>3, <1>5, <2>3, <2>7
    <2> QED BY <2>1, <2>4, <2>5, <2>6, <2>7
  <1>7. Range(waiters') = Range(waiters) \cup {c}
    BY <1>3, <1>4 DEF Range
  <1>8. stops'[c] = 0 /\ \A d \in Client \ {c} : stops'[d] = stops[d] /\ pc'[d] = pc[d]
    BY <1>0, <1>1, <1>2 DEF Served
  <1>9. pc'[c] \in Waiting
    BY <1>0, <1>2
  <1>10. WaitersListed'
    BY <1>0, <1>7, <1>8, <1>9 DEF WaitersListed
  <1> QED BY <1>6, <1>10

\* A command that returns has served the caller's event, if it was waiting.
LEMMA ReturnsListed ==
  ASSUME Types, Listed, NEW c \in Client, NEW p \in {"ready", "out"}, Returns(c, p),
         pc[c] \in {"ready", "out"} \/ stops[c] > 0, opts' = opts, waiters' = waiters
  PROVE  Listed'
  <1> SUFFICES ASSUME "failures" \notin opts.uses
               PROVE  /\ WaitersListed'
                      /\ \A i, j \in DOMAIN waiters' : waiters'[i] = waiters'[j] => i = j
    BY DEF Listed
  <1>0. /\ stops \in [Client -> Nat] /\ pc \in [Client -> Place]
        /\ \A i, j \in DOMAIN waiters : waiters[i] = waiters[j] => i = j
        /\ WaitersListed
    BY DEF Types, WaitTypes, ClientTypes, Listed
  <1>1. c \notin Range(waiters) /\ stops[c] = IF pc[c] \in Waiting THEN 1 ELSE 0
    BY <1>0 DEF WaitersListed, Waiting
  <1>2. stops'[c] = 0 /\ pc'[c] = p
        /\ \A d \in Client \ {c} : stops'[d] = stops[d] /\ pc'[d] = pc[d]
    BY <1>0, <1>1 DEF Returns, Served
  <1>3. p \notin Waiting /\ p # "broken"
    BY DEF Waiting
  <1>4. WaitersListed'
    BY <1>0, <1>1, <1>2, <1>3 DEF WaitersListed
  <1> QED BY <1>0, <1>4

LEMMA WorkerListed ==
  ASSUME Types, Listed, NEW w \in Worker, Start(w) \/ Finish(w) \/ Wake(w)
  PROVE  Listed'
  <1>1. opts' = opts /\ pc' = pc
    BY DEF Start, Finish, Wake, poolVars, clientVars
  <1>2. CASE \E n \in Nat : SignalWaiter(n)
    BY <1>1, <1>2, SignalListed
  <1>3. CASE UNCHANGED waitVars
    BY <1>1, <1>3, SameListed DEF waitVars
  <1>4. SignalWaiter(1) \/ SignalWaiter(2) \/ UNCHANGED waitVars
    BY DEF Start, Finish, Wake, SleepOn, Retire, LookAgain
  <1> QED BY <1>2, <1>3, <1>4

\* Once starting a worker may fail there is nothing to show.
LEMMA NothingListed ==
  ASSUME "failures" \in opts.uses, opts' = opts
  PROVE  Listed'
  BY DEF Listed

\* The caller of a command is not waiting, or has a stop event to serve.
LEMMA CalledOrWoken ==
  ASSUME NEW c \in Client, NEW p \in Waiting, Calls(c) \/ Resumes(c, p)
  PROVE  pc[c] \in {"ready", "out"} \/ stops[c] > 0
  BY DEF Calls, Resumes

LEMMA AwaitListed ==
  ASSUME Types, Listed, NEW c \in Client, NEW d, NEW p \in {"post", "nowait"}, NEW b,
         AwaitWorker(c, d, p, b), pc[c] \in {"ready", "out"} \/ stops[c] > 0
  PROVE  Listed'
  <1>1. opts' = opts /\ p \in Waiting
    BY DEF AwaitWorker, poolVars, Waiting
  <1>2. CASE "failures" \in opts.uses
    BY <1>1, <1>2, NothingListed
  <1>3. CASE "failures" \notin opts.uses
    <2>1. PushWaiter(c, p)
      BY <1>3 DEF AwaitWorker, NotStarted
    <2> QED BY <1>1, <2>1, PushListed
  <1> QED BY <1>2, <1>3

LEMMA PostedListed ==
  ASSUME Types, Listed, NEW c \in Client, NEW d, Posted(c, d),
         pc[c] \in {"ready", "out"} \/ stops[c] > 0
  PROVE  Listed'
  <1>1. Returns(c, "ready") /\ opts' = opts /\ waiters' = waiters
    BY DEF Posted, poolVars
  <1> QED BY <1>1, ReturnsListed

LEMMA PostListed ==
  ASSUME Types, Listed, NEW c \in Client, Post(c) \/ PostNowait(c)
  PROVE  Listed'
  <1>1. pc[c] \in {"ready", "out"} \/ stops[c] > 0
    BY CalledOrWoken DEF Post, PostNowait, Calls, Resumes
  <1>2. \/ \E d \in BOOLEAN : Posted(c, d)
        \/ Posted(c, c \in quiet)
        \/ \E d \in BOOLEAN : AwaitWorker(c, d, "post", numWorkers < opts.max)
        \/ AwaitWorker(c, c \in quiet, "post", numWorkers < opts.max)
        \/ \E d \in BOOLEAN : AwaitWorker(c, d, "nowait", TRUE)
    BY Zenon DEF Post, PostNowait
  <1>3. ASSUME NEW d \in BOOLEAN, Posted(c, d) PROVE Listed'
    BY <1>1, <1>3, PostedListed
  <1>4. CASE Posted(c, c \in quiet)
    BY <1>1, <1>4, PostedListed
  <1>5. ASSUME NEW d \in BOOLEAN, AwaitWorker(c, d, "post", numWorkers < opts.max)
        PROVE  Listed'
    BY <1>1, <1>5, AwaitListed, Zenon
  <1>6. CASE AwaitWorker(c, c \in quiet, "post", numWorkers < opts.max)
    BY <1>1, <1>6, AwaitListed, Zenon
  <1>7. ASSUME NEW d \in BOOLEAN, AwaitWorker(c, d, "nowait", TRUE) PROVE Listed'
    BY <1>1, <1>7, AwaitListed, Zenon
  <1> QED BY <1>2, <1>3, <1>4, <1>5, <1>6, <1>7, Zenon

LEMMA WaitListed ==
  ASSUME Types, Listed, NEW c \in Client, Wait(c)
  PROVE  Listed'
  <1>1. opts' = opts /\ "wait" \in Waiting
    BY DEF Wait, poolVars, Waiting
  <1>2. pc[c] \in {"ready", "out"} \/ stops[c] > 0
    BY DEF Wait, Calls, Resumes
  <1>3. (Returns(c, "ready") /\ waiters' = waiters) \/ PushWaiter(c, "wait")
    BY DEF Wait
  <1> QED BY <1>1, <1>2, <1>3, ReturnsListed, PushListed

\* When the pool is freed no other thread is in its commands.
LEMMA DismantleListed ==
  ASSUME Types, Listed, NEW c \in Client, Dismantle(c),
         pc[c] \in {"ready", "out"} \/ stops[c] > 0,
         \A d \in Client \ {c} : pc[d] = "out"
  PROVE  Listed'
  <1>1. opts' = opts /\ "release" \in Waiting
    BY DEF Dismantle, Waiting
  <1>2. CASE PushWaiter(c, "release")
    BY <1>1, <1>2, PushListed
  <1>3. CASE "failures" \notin opts.uses /\ Returns(c, "out") /\ waiters' = <<>>
    <2>0. /\ stops \in [Client -> Nat] /\ pc \in [Client -> Place] /\ WaitersListed
      BY <1>3 DEF Types, WaitTypes, ClientTypes, Listed
    <2>a. ASSUME pc[c] \in Waiting PROVE stops[c] = 1
      <3>1. stops[c] # 0
        BY <2>a DEF Waiting
      <3> QED BY <1>3, <2>0, <2>a, <3>1 DEF WaitersListed
    <2>b. ASSUME pc[c] \notin Waiting PROVE stops[c] = 0
      BY <1>3, <2>0, <2>b DEF WaitersListed
    <2>1. stops[c] = IF pc[c] \in Waiting THEN 1 ELSE 0
      BY <2>a, <2>b
    <2>2. \A d \in Client : pc'[d] = "out" /\ stops'[d] = 0
      BY <1>3, <2>0, <2>1 DEF Returns, Served, WaitersListed, Waiting
    <2>3. \A d \in Client : d \notin Range(waiters')
      BY <1>3 DEF Range
    <2>4. \A i, j \in DOMAIN waiters' : waiters'[i] = waiters'[j] => i = j
      BY <1>3
    <2> QED BY <2>2, <2>3, <2>4 DEF Listed, WaitersListed, Waiting
  <1>4. CASE "failures" \in opts.uses
    BY <1>1, <1>4, NothingListed
  <1> QED BY <1>2, <1>3, <1>4 DEF Dismantle

\* A client between two commands enters or leaves the pool, or fails in a command.
LEMMA StepsListed ==
  ASSUME Types, Listed, NEW c \in Client, NEW p \in {"ready", "out", "holding"},
         pc[c] \in {"ready", "out"}, pc' = [pc EXCEPT ![c] = p],
         UNCHANGED <<opts, waiters, stops>>
  PROVE  Listed'
  <1>1. pc \in [Client -> Place]
    BY DEF Types, ClientTypes
  <1>2. \A d \in Client : pc'[d] \in Waiting <=> pc[d] \in Waiting
    BY <1>1 DEF Waiting
  <1>3. \A d \in Client : pc[d] \in Waiting => pc'[d] = pc[d]
    BY <1>1 DEF Waiting
  <1>4. \A d \in Client : pc'[d] = "broken" => pc[d] = "broken"
    BY <1>1
  <1> QED BY <1>2, <1>4 DEF Listed, WaitersListed

LEMMA ReleaseListed ==
  ASSUME Types, References, Listed, NEW c \in Client, TpoolRelease(c)
  PROVE  Listed'
  <1>1. CASE Calls(c) /\ ~LastReference
    BY <1>1, StepsListed DEF TpoolRelease, Calls, Resumes, Abandons, waitVars
  <1>2. CASE Calls(c) /\ LastReference
    <2>0. /\ pool = "listed" /\ c \in Holders /\ refCount = Cardinality(Holders)
          /\ refCount \in Nat /\ pc[c] = "ready"
      BY <1>2 DEF Calls, Holders, References, Types, PoolTypes
    <2>1. Dismantle(c)
      BY <1>2, <2>0 DEF TpoolRelease, Calls, Resumes
    <2>2. Cardinality(Holders \ {c}) = refCount - 1 /\ IsFiniteSet(Holders \ {c})
          /\ Cardinality(Holders \ {c}) \in Nat
      BY <2>0, HoldersFinite, FS_RemoveElement, FS_CardinalityType
    <2>3. Cardinality(Holders \ {c}) = 0
      BY <1>2, <2>0, <2>2 DEF LastReference
    <2>4. Holders \ {c} = {}
      BY <2>2, <2>3, FS_EmptySet
    <2>5. \A d \in Client \ {c} : pc[d] = "out"
      BY <2>0, <2>4 DEF Holders, References, Types, ClientTypes, Place, Waiting
    <2> QED BY <2>0, <2>1, <2>5, DismantleListed
  <1>3. CASE Resumes(c, "release")
    <2>1. Dismantle(c)
      BY <1>3 DEF TpoolRelease, Calls, Resumes
    <2>2. pool = "down" /\ pc[c] = "release" /\ stops[c] > 0
      BY <1>3 DEF Resumes, References, Types, PoolTypes
    <2>3. \A d \in Client \ {c} : pc[d] = "out"
      BY <2>2 DEF References
    <2> QED BY <2>1, <2>2, <2>3, DismantleListed
  <1>4. CASE Abandons(c)
    <2>1. Dismantle(c)
      BY <1>4 DEF TpoolRelease, Calls, Abandons
    <2>2. opts' = opts /\ "failures" \in opts.uses
      BY <1>4, <2>1 DEF Abandons, References, Dismantle
    <2> QED BY <2>2, NothingListed
  <1> QED BY <1>1, <1>2, <1>3, <1>4 DEF TpoolRelease

LEMMA CreateListed ==
  ASSUME Types, Listed, NEW c \in Client, Create(c)
  PROVE  Listed'
  <1>1. UNCHANGED <<opts, waiters, stops>>
    BY DEF Create, waitVars
  <1>2. CASE "failures" \in opts.uses
    BY <1>1, <1>2, NothingListed
  <1>3. CASE pc' = pc
    BY <1>1, <1>3, SameListed
  <1> QED BY <1>2, <1>3 DEF Create

LEMMA NextListed == Types /\ References /\ Listed /\ [Next]_vars => Listed'
  <1> SUFFICES ASSUME Types, References, Listed, [Next]_vars PROVE Listed'
    OBVIOUS
  <1>1. ASSUME NEW w \in Worker, Start(w) \/ Finish(w) \/ Wake(w) PROVE Listed'
    BY <1>1, WorkerListed
  <1>2. ASSUME UNCHANGED <<opts, clientVars, waitVars>> PROVE Listed'
    BY <1>2, SameListed DEF clientVars, waitVars
  <1>3. ASSUME NEW c \in Client, ClientStep(c) PROVE Listed'
    <2>1. CASE Post(c) \/ PostNowait(c) \/ Wait(c)
      BY <2>1, PostListed, WaitListed
    <2>2. CASE Create(c) \/ TpoolRelease(c)
      BY <2>2, CreateListed, ReleaseListed
    <2>3. CASE TpoolReserve(c)
      BY <2>3, StepsListed DEF TpoolReserve, waitVars
    <2>4. CASE TpoolSuspend(c) \/ TpoolResume(c) \/ Get(c)
      BY <1>2, <2>4 DEF TpoolSuspend, TpoolResume, Get, poolVars
    <2>6. CASE Cancel(c)
      <3>1. pc[c] = "ready" /\ UNCHANGED <<opts, waiters, stops>>
        BY <2>6 DEF Cancel, Calls, poolVars, waitVars
      <3>2. pc' = pc \/ pc' = [pc EXCEPT ![c] = "holding"]
        BY <2>6 DEF Cancel
      <3> QED BY <3>1, <3>2, SameListed, StepsListed
    <2>5. CASE RunStopEvent(c)
      <3>1. opts' = opts /\ stops[c] > 0 /\ pc[c] \in {"ready", "out"}
        BY <2>5 DEF RunStopEvent, poolVars
      <3>2. CASE "failures" \notin opts.uses
        <4>1. stops[c] = 0
          BY <3>1, <3>2 DEF Listed, WaitersListed, Waiting
        <4> QED BY <3>1, <4>1
      <3> QED BY <3>1, <3>2, NothingListed
    <2> QED BY <1>3, <2>1, <2>2, <2>3, <2>4, <2>5, <2>6 DEF ClientStep
  <1>4. ASSUME UNCHANGED vars PROVE Listed'
    BY <1>2, <1>4 DEF vars, poolVars
  <1> QED BY <1>1, <1>3, <1>4 DEF Next

\* Unless starting a worker fails, a thread that waits is on the list or has one
\* stop event to serve, and a thread that does not wait has left no trace, for
\* any number of threads that wait at once.
THEOREM WaitersHold == Spec => []WaitersListed
<1>1. Listed => WaitersListed
  BY DEF Listed, WaitersListed
<1> QED BY InitTypes, NextTypes, InitReferences, NextReferences, InitListed, NextListed,
           <1>1, PTL DEF Spec

-----------------------------------------------------------------------------
(* Waking up workers.                                                      *)

\* Jobs wait, or are about to, only where there are workers; without an idle
\* timer no worker ends before the pool goes down.
Manned ==
    "idletime" \notin opts.uses =>
        /\ tired = {}
        /\ (work # <<>> \/ \E c \in Client : pc[c] = "nowait") /\ ~TearDown => numWorkers > 0
        /\ NoJobStranded

LEMMA InitManned == Init => Manned
  BY DEF Init, Manned, NoJobStranded

\* The steps that change nothing Manned speaks of, or only make the queue shorter.
LEMMA SameManned ==
  ASSUME Manned, UNCHANGED <<opts, pool, suspend, numWorkers, wpc, awake, tired>>,
         work' # <<>> => work # <<>>, \A c \in Client : pc'[c] = "nowait" => pc[c] = "nowait"
  PROVE  Manned'
  BY DEF Manned, NoJobStranded, TearDown

\* A pool that goes down has nobody to wake up.
LEMMA DownManned ==
  ASSUME Manned, pool' \in {"down", "freed"}, opts' = opts, tired' = tired
  PROVE  Manned'
  BY DEF Manned, NoJobStranded, TearDown

LEMMA SomeWorker ==
  ASSUME Types, numWorkers > 0
  PROVE  \E w \in Worker : wpc[w] \in {"start", "run"} \/ w \in Idle
  <1>1. numWorkers = Cardinality(Alive) /\ wpc \in [Worker -> WorkerState]
    BY DEF Types, Workers, WorkerTypes, CountersMatch
  <1>2. Alive # {}
    <2>1. Cardinality({}) = 0
      BY FS_EmptySet
    <2> QED BY <1>1, <2>1
  <1> QED BY <1>1, <1>2 DEF Alive, Idle, WorkerState

LEMMA SeekManned ==
  ASSUME Types, Manned, NEW w \in Worker, NEW n, Seek(w, n),
         UNCHANGED <<opts, pool, suspend, pc>>
  PROVE  Manned'
  <1> SUFFICES ASSUME "idletime" \notin opts.uses
               PROVE  /\ tired' = {}
                      /\ (work' # <<>> \/ \E c \in Client : pc'[c] = "nowait") /\ ~TearDown'
                           => numWorkers' > 0
                      /\ NoJobStranded'
    BY DEF Manned
  <1>1. tired' = {} /\ numWorkers' = numWorkers /\ TearDown' = TearDown
    BY DEF Manned, Seek, TearDown
  <1>2. wpc \in [Worker -> WorkerState]
    BY DEF Types, Workers, WorkerTypes
  <1>3. CASE suspend \/ work = <<>>
    <2>1. work' = work
      BY <1>3 DEF Seek
    <2>2. NoJobStranded'
      BY <1>3, <2>1 DEF NoJobStranded
    <2> QED BY <1>1, <2>1, <2>2 DEF Manned
  <1>4. CASE ~(suspend \/ work = <<>>)
    <2>1. wpc'[w] = "run"
      BY <1>2, <1>4 DEF Seek
    <2> QED BY <1>1, <1>4, <2>1 DEF Manned, NoJobStranded
  <1> QED BY <1>3, <1>4

LEMMA WorkerManned ==
  ASSUME Types, Manned, NEW w \in Worker, Start(w) \/ Finish(w) \/ Wake(w)
  PROVE  Manned'
  <1> SUFFICES ASSUME "idletime" \notin opts.uses PROVE Manned'
    BY DEF Manned, Start, Finish, Wake, poolVars
  <1>0. UNCHANGED <<opts, pool, suspend, pc>> /\ tired = {}
    BY DEF Start, Finish, Wake, poolVars, clientVars, Manned
  <1>1. ASSUME TearDown PROVE Manned'
    <2>1. tired' = {}
      BY <1>0 DEF Start, Finish, Wake, SleepOn, Retire, LookAgain, Turn, Die, Seek, Tout
    <2> QED BY <1>0, <1>1, <2>1, DownManned DEF TearDown
  <1>2. ASSUME NEW n, Seek(w, n) PROVE Manned'
    BY <1>0, <1>2, SeekManned
  <1>3. CASE ~TearDown /\ (Start(w) \/ Finish(w))
    BY <1>2, <1>3 DEF Start, Finish, Turn
  <1>4. CASE ~TearDown /\ Wake(w)
    <2>1. PICK tout \in Tout(w) : SleepOn(w, tout) \/ Retire(w, tout) \/ LookAgain(w, tout)
      BY <1>4 DEF Wake
    <2>2. tout = FALSE
      BY <1>0 DEF Tout
    <2>3. CASE SleepOn(w, tout)
      <3>1. /\ suspend' /\ tired' = {} /\ numWorkers' = numWorkers /\ work' = work
        BY <1>0, <1>4, <2>2, <2>3 DEF SleepOn, Wake
      <3> QED BY <1>0, <3>1 DEF Manned, NoJobStranded, TearDown
    <2>4. CASE LookAgain(w, tout)
      BY <1>2, <2>4 DEF LookAgain
    <2> QED BY <1>4, <2>1, <2>2, <2>3, <2>4 DEF Retire
  <1> QED BY <1>1, <1>3, <1>4

LEMMA PostedManned ==
  ASSUME Types, Manned, NEW c \in Client, NEW d, Posted(c, d),
         ~TearDown => numWorkers > 0
  PROVE  Manned'
  <1>1. /\ UNCHANGED <<opts, pool, suspend, numWorkers, wpc, tired>> /\ awake' = Idle
        /\ pc' = [pc EXCEPT ![c] = "ready"]
    BY DEF Posted, PushWork, Notify, Returns, poolVars
  <1>2. numWorkers > 0 => NoJobStranded'
    BY <1>1, SomeWorker DEF NoJobStranded
  <1>3. TearDown' = TearDown /\ (TearDown => NoJobStranded')
    BY <1>1 DEF TearDown, NoJobStranded
  <1> QED BY <1>1, <1>2, <1>3 DEF Manned

LEMMA AwaitManned ==
  ASSUME Types, Manned, NEW c \in Client, NEW d, NEW p \in {"post", "nowait"}, NEW b,
         AwaitWorker(c, d, p, b), p = "nowait" => b = TRUE
  PROVE  Manned'
  <1>1. /\ UNCHANGED <<opts, pool, suspend, work>>
        /\ \E q \in {p, "ready", "broken"} : pc' = [pc EXCEPT ![c] = q]
    BY Zenon DEF AwaitWorker, NotStarted, PushWaiter, poolVars, jobVars
  <1>2. numWorkers \in Nat /\ wpc \in [Worker -> WorkerState] /\ pc \in [Client -> Place]
    BY DEF Types, Workers, WorkerTypes, ClientTypes
  <1>3. ASSUME NEW w \in Worker, CreateWorker(w) PROVE Manned'
    <2>1. /\ wpc'[w] = "start" /\ numWorkers' = numWorkers + 1 /\ tired' = tired
      BY <1>2, <1>3 DEF CreateWorker
    <2>2. numWorkers' > 0
      BY <1>2, <2>1
    <2> QED BY <1>1, <2>1, <2>2 DEF Manned, NoJobStranded
  <1>4. CASE UNCHANGED workerVars /\ \E q \in {"post", "ready", "broken"} : pc' = [pc EXCEPT ![c] = q]
    <2>1. \A e \in Client : pc'[e] = "nowait" => pc[e] = "nowait"
      BY <1>2, <1>4
    <2> QED BY <1>1, <1>4, <2>1, SameManned DEF workerVars
  <1>5. \/ \E w \in Worker : CreateWorker(w)
        \/ UNCHANGED workerVars /\ \E q \in {"post", "ready", "broken"} : pc' = [pc EXCEPT ![c] = q]
    <2>1. CASE NotStarted(c)
      BY <2>1, Zenon DEF NotStarted, PushWaiter
    <2>2. CASE PushWaiter(c, p) /\ ~b /\ UNCHANGED workerVars
      <3>1. p = "post"
        BY <2>2
      <3> QED BY <2>2, <3>1, Zenon DEF PushWaiter
    <2>3. CASE \E w \in Worker : CreateWorker(w)
      BY <2>3
    <2> QED BY <2>1, <2>2, <2>3, Zenon DEF AwaitWorker
  <1> QED BY <1>3, <1>4, <1>5

LEMMA PostManned ==
  ASSUME Types, Manned, NEW c \in Client, Post(c)
  PROVE  Manned'
  <1>1. idleWorkers # 0 => numWorkers > 0
    <2>1. Idle \subseteq Alive /\ IsFiniteSet(Alive) /\ IsFiniteSet(Idle)
      BY WorkersFinite DEF Idle, Alive
    <2>2. Cardinality(Idle) <= Cardinality(Alive)
      BY <2>1, FS_Subset
    <2> QED BY <2>2 DEF Types, Workers, WorkerTypes, CountersMatch
  <1>2. \/ idleWorkers # 0 /\ \E d \in BOOLEAN : Posted(c, d)
        \/ idleWorkers # 0 /\ Posted(c, c \in quiet)
        \/ \E d \in BOOLEAN : AwaitWorker(c, d, "post", numWorkers < opts.max)
        \/ AwaitWorker(c, c \in quiet, "post", numWorkers < opts.max)
    BY Zenon DEF Post
  <1>3. ASSUME NEW d \in BOOLEAN, idleWorkers # 0, Posted(c, d) PROVE Manned'
    BY <1>1, <1>3, PostedManned
  <1>4. CASE idleWorkers # 0 /\ Posted(c, c \in quiet)
    BY <1>1, <1>4, PostedManned
  <1>5. ASSUME NEW d \in BOOLEAN, AwaitWorker(c, d, "post", numWorkers < opts.max)
        PROVE  Manned'
    BY <1>5, AwaitManned, Zenon
  <1>6. CASE AwaitWorker(c, c \in quiet, "post", numWorkers < opts.max)
    BY <1>6, AwaitManned, Zenon
  <1> QED BY <1>2, <1>3, <1>4, <1>5, <1>6, Zenon

\* A post that was begun finds the worker that was created for it.
LEMMA PostNowaitManned ==
  ASSUME Types, Manned, NEW c \in Client, PostNowait(c)
  PROVE  Manned'
  <1>0. numWorkers \in Nat
    BY DEF Types, Workers, WorkerTypes
  <1>1. CASE Calls(c)
    <2>1. \/ numWorkers # 0 /\ \E d \in BOOLEAN : Posted(c, d)
          \/ \E d \in BOOLEAN : AwaitWorker(c, d, "nowait", TRUE)
      BY <1>1, Zenon DEF PostNowait, Resumes, Calls
    <2>2. ASSUME NEW d \in BOOLEAN, numWorkers # 0, Posted(c, d) PROVE Manned'
      BY <1>0, <2>2, PostedManned
    <2>3. ASSUME NEW d \in BOOLEAN, AwaitWorker(c, d, "nowait", TRUE) PROVE Manned'
      BY <2>3, AwaitManned, Zenon
    <2> QED BY <2>1, <2>2, <2>3, Zenon
  <1>2. CASE Resumes(c, "nowait") /\ Posted(c, c \in quiet)
    <2>1. CASE "idletime" \in opts.uses
      BY <1>2, <2>1 DEF Manned, Posted, poolVars
    <2>2. CASE "idletime" \notin opts.uses
      <3>1. ~TearDown => numWorkers > 0
        BY <1>2, <2>2 DEF Manned, Resumes
      <3> QED BY <1>2, <3>1, PostedManned
    <2> QED BY <2>1, <2>2
  <1> QED BY <1>1, <1>2 DEF PostNowait

LEMMA ReturnsManned ==
  ASSUME Types, Manned, NEW c \in Client, NEW p \in {"ready", "out", "wait", "broken"},
         pc' = [pc EXCEPT ![c] = p],
         UNCHANGED <<opts, pool, suspend, numWorkers, wpc, awake, tired, work>>
  PROVE  Manned'
  <1>1. \A d \in Client : pc'[d] = "nowait" => pc[d] = "nowait"
    BY DEF Types, ClientTypes
  <1> QED BY <1>1, SameManned

LEMMA WaitManned ==
  ASSUME Types, Manned, NEW c \in Client, Wait(c)
  PROVE  Manned'
  <1>1. UNCHANGED <<opts, pool, suspend, numWorkers, wpc, awake, tired, work>>
    BY DEF Wait, poolVars, jobVars, workerVars
  <1>2. Returns(c, "ready") \/ PushWaiter(c, "wait")
    BY DEF Wait
  <1>3. \E p \in {"ready", "out", "wait", "broken"} : pc' = [pc EXCEPT ![c] = p]
    BY <1>2, Zenon DEF Returns, PushWaiter
  <1> QED BY <1>1, <1>3, ReturnsManned

LEMMA CancelManned ==
  ASSUME Types, Manned, NEW c \in Client, Cancel(c) \/ Get(c)
  PROVE  Manned'
  <1>1. /\ UNCHANGED <<opts, pool, suspend, numWorkers, wpc, awake, tired>>
        /\ \A d \in Client : pc'[d] = "nowait" => pc[d] = "nowait"
    BY DEF Cancel, Get, poolVars, workerVars, clientVars, Types, ClientTypes
  <1>2. work' # <<>> => work # <<>>
    <2>1. CASE Cancel(c)
      <3>1. work' = work \/ DOMAIN work # {}
        BY <2>1 DEF Cancel
      <3> QED BY <3>1
    <2> QED BY <2>1 DEF Get
  <1> QED BY <1>1, <1>2, SameManned

LEMMA SuspendManned ==
  ASSUME Types, Manned, NEW c \in Client, TpoolSuspend(c) \/ TpoolResume(c)
  PROVE  Manned'
  <1>1. UNCHANGED <<opts, pool, numWorkers, wpc, tired, work, pc>>
    BY DEF TpoolSuspend, TpoolResume, jobVars, workerVars, clientVars
  <1>2. CASE suspend'
    BY <1>1, <1>2 DEF Manned, NoJobStranded, TearDown
  <1>3. CASE ~suspend' /\ awake' = Idle
    <2>1. numWorkers > 0 => NoJobStranded'
      BY <1>1, <1>3, SomeWorker DEF NoJobStranded
    <2>2. work = <<>> \/ TearDown => NoJobStranded'
      BY <1>1 DEF NoJobStranded, TearDown
    <2> QED BY <1>1, <2>1, <2>2 DEF Manned, TearDown
  <1> QED BY <1>2, <1>3 DEF TpoolSuspend, TpoolResume, Notify

LEMMA ReleaseManned ==
  ASSUME Types, Manned, NEW c \in Client, TpoolRelease(c) \/ TpoolReserve(c)
  PROVE  Manned'
  <1>1. CASE Dismantle(c)
    <2>1. pool' \in {"down", "freed"} /\ opts' = opts /\ tired' = tired
      BY <1>1 DEF Dismantle
    <2> QED BY <2>1, DownManned
  <1>2. CASE ~Dismantle(c)
    <2>1. /\ UNCHANGED <<opts, pool, suspend, numWorkers, wpc, awake, tired, work>>
          /\ \E p \in {"ready", "out"} : pc' = [pc EXCEPT ![c] = p]
      BY <1>2, Zenon DEF TpoolRelease, TpoolReserve, jobVars, workerVars
    <2> QED BY <2>1, ReturnsManned
  <1> QED BY <1>1, <1>2

LEMMA CreateManned ==
  ASSUME Types, Manned, NEW c \in Client, Create(c)
  PROVE  Manned'
  <1>1. /\ UNCHANGED <<opts, suspend, work, awake, tired>>
        /\ \A d \in Client : pc'[d] = "nowait" => pc[d] = "nowait"
    BY DEF Create, jobVars, Types, ClientTypes
  <1>2. CASE "idletime" \in opts.uses
    BY <1>1, <1>2 DEF Manned
  <1>3. CASE "idletime" \notin opts.uses
    <2>1. pool = "none" /\ Alive = {} /\ \A d \in Client : pc[d] = "out"
      BY DEF Create, Types, NewIsQuiet
    <2>2. numWorkers = 0
      BY <2>1, FS_EmptySet DEF Types, Workers, CountersMatch
    <2>3. work = <<>> /\ tired = {}
      BY <1>3, <2>1, <2>2 DEF Manned, TearDown
    <2> QED BY <1>1, <2>1, <2>3 DEF Manned, NoJobStranded
  <1> QED BY <1>2, <1>3

LEMMA NextManned == Types /\ Manned /\ [Next]_vars => Manned'
  <1> SUFFICES ASSUME Types, Manned, [Next]_vars PROVE Manned'
    OBVIOUS
  <1>1. ASSUME NEW w \in Worker, Start(w) \/ Finish(w) \/ Wake(w) PROVE Manned'
    BY <1>1, WorkerManned
  <1>2. ASSUME UNCHANGED <<poolVars, jobVars, workerVars, clientVars>> PROVE Manned'
    BY <1>2, SameManned DEF poolVars, jobVars, workerVars, clientVars
  <1>3. ASSUME NEW c \in Client, ClientStep(c) PROVE Manned'
    <2>1. CASE Post(c) \/ PostNowait(c) \/ Wait(c)
      BY <2>1, PostManned, PostNowaitManned, WaitManned
    <2>2. CASE Create(c) \/ TpoolRelease(c) \/ TpoolReserve(c)
      BY <2>2, CreateManned, ReleaseManned
    <2>3. CASE TpoolSuspend(c) \/ TpoolResume(c) \/ Cancel(c) \/ Get(c)
      BY <2>3, SuspendManned, CancelManned
    <2>4. CASE RunStopEvent(c)
      BY <1>2, <2>4 DEF RunStopEvent
    <2> QED BY <1>3, <2>1, <2>2, <2>3, <2>4 DEF ClientStep
  <1>4. ASSUME UNCHANGED vars PROVE Manned'
    BY <1>2, <1>4 DEF vars
  <1> QED BY <1>1, <1>3, <1>4 DEF Next

\* No job waits while every worker of a pool without an idle timer sleeps
\* unnotified, for any number of posters and workers.
THEOREM StrandedNever == Spec => []NoJobStranded
<1>1. Types /\ Manned => (NoJobStranded \/ "idletime" \in opts.uses)
  BY DEF Manned
<1>2. Types /\ Manned => NoJobStranded
  BY <1>1 DEF NoJobStranded
<1> QED BY InitTypes, NextTypes, InitManned, NextManned, <1>2, PTL DEF Spec

-----------------------------------------------------------------------------
(* Taking a pool down.                                                     *)

\* tpool::release hears of the end of the last worker, and until then every worker
\* that sleeps in a pool that is not suspended has been told to look.
ReleaseHeard == pool = "down" =>
    /\ ~suspend => Idle \subseteq awake
    /\ Alive = {} /\ "failures" \notin opts.uses =>
         \A c \in Client : pc[c] = "release" => stops[c] = 1

\* Unless the pool is suspended, whatever a worker does while it is taken down is to end.
WorkersOnlyEnd == [][pool = "down" /\ ~suspend =>
    \A w \in Worker : wpc'[w] \in {wpc[w], "none"}]_vars

\* The invariant: nobody who waits is left on the list without a worker.
Heard == pool = "down" =>
    /\ ~suspend => Idle \subseteq awake
    /\ Alive = {} /\ "failures" \notin opts.uses => waiters = <<>>

\* Who is left on the list was on it, and behind those that were sent an event.
LEMMA SignalShortens ==
  ASSUME waiters \in Seq(Client), NEW n \in Nat, SignalWaiter(n)
  PROVE  /\ Range(waiters') \subseteq Range(waiters)
         /\ Len(waiters) <= n => waiters' = <<>> /\ Range(waiters') = {}
         /\ \A i \in DOMAIN waiters' : n + i \in DOMAIN waiters /\ waiters'[i] = waiters[n + i]
  <1>1. /\ Len(waiters) \in Nat /\ DOMAIN waiters = 1 .. Len(waiters)
        /\ \A i \in n + 1 .. Len(waiters) : waiters[i] \in Client
    OBVIOUS
  <1>2. waiters' = SubSeq(waiters, n + 1, Len(waiters))
    BY DEF SignalWaiter
  <1>3. /\ waiters' \in Seq(Client)
        /\ Len(waiters') = IF n + 1 <= Len(waiters) THEN Len(waiters) - (n + 1) + 1 ELSE 0
        /\ \A i \in 1 .. Len(waiters) - (n + 1) + 1 : waiters'[i] = waiters[n + 1 + i - 1]
    BY <1>1, <1>2, SubSeqProperties
  <1>4. DOMAIN waiters' = 1 .. Len(waiters')
    BY <1>3, LenProperties
  <1>5. ASSUME NEW i \in DOMAIN waiters'
        PROVE  n + i \in DOMAIN waiters /\ waiters'[i] = waiters[n + i]
    <2>1. n + 1 <= Len(waiters) /\ i \in 1 .. Len(waiters) - (n + 1) + 1
      BY <1>1, <1>3, <1>4, <1>5
    <2>2. n + 1 + i - 1 = n + i /\ n + i \in 1 .. Len(waiters)
      BY <1>1, <2>1
    <2> QED BY <1>1, <1>3, <2>1, <2>2
  <1>6. ASSUME Len(waiters) <= n PROVE waiters' = <<>> /\ Range(waiters') = {}
    <2>0. ~(n + 1 <= Len(waiters))
      BY <1>1, <1>6
    <2>1. Len(waiters') = 0
      BY <1>3, <2>0
    <2> QED BY <1>3, <1>4, <2>1, EmptySeq DEF Range
  <1> QED BY <1>5, <1>6 DEF Range

\* While the pool is taken down there is at most one on the list.
LEMMA OneListed ==
  ASSUME Types, References, Listed, pool = "down", "failures" \notin opts.uses
  PROVE  Len(waiters) <= 1
  <1>1. /\ Len(waiters) \in Nat /\ DOMAIN waiters = 1 .. Len(waiters)
        /\ \A i \in DOMAIN waiters : waiters[i] \in Client
    BY DEF Types, WaitTypes
  <1>2. PICK d \in Client : \A c \in Client \ {d} : pc[c] = "out"
    BY DEF References
  <1>3. \A i \in DOMAIN waiters : waiters[i] = d
    BY <1>1, <1>2 DEF Listed, WaitersListed, Range, Waiting
  <1>4. ASSUME Len(waiters) > 1 PROVE FALSE
    <2>1. 1 \in DOMAIN waiters /\ 2 \in DOMAIN waiters
      BY <1>1, <1>4
    <2>2. 1 = 2
      BY <1>3, <2>1 DEF Listed
    <2> QED BY <2>2
  <1> QED BY <1>1, <1>4

LEMMA SomeAlive ==
  ASSUME Types
  PROVE  numWorkers > 0 <=> Alive # {}
  BY WorkersFinite, FS_EmptySet DEF Types, Workers, WorkerTypes, CountersMatch

\* A worker that comes by while the pool is taken down ends, or sleeps on.
LEMMA WorkerDown ==
  ASSUME Types, NEW w \in Worker, Start(w) \/ Finish(w) \/ Wake(w), pool = "down"
  PROVE  /\ UNCHANGED <<opts, pool, suspend>>
         /\ \/ /\ wpc' = [wpc EXCEPT ![w] = "none"] /\ awake' = awake \ {w}
               /\ SignalWaiter(1) \/ SignalWaiter(2)
            \/ suspend /\ w \in Idle /\ wpc' = [wpc EXCEPT ![w] = "paused"]
  <1>1. TearDown /\ Spare /\ UNCHANGED <<opts, pool, suspend>>
    BY DEF TearDown, Spare, Start, Finish, Wake, poolVars
  <1>2. CASE Start(w) \/ Finish(w)
    BY <1>1, <1>2 DEF Start, Finish, Turn, Die
  <1>3. CASE Wake(w)
    BY <1>1, <1>3 DEF Wake, SleepOn, Retire, LookAgain, Die
  <1> QED BY <1>1, <1>2, <1>3

LEMMA WorkerHeard ==
  ASSUME Types, References, Listed, Heard, NEW w \in Worker, Start(w) \/ Finish(w) \/ Wake(w)
  PROVE  Heard'
  <1> SUFFICES ASSUME pool = "down" PROVE Heard'
    BY DEF Heard, Start, Finish, Wake, poolVars
  <1>0. wpc \in [Worker -> WorkerState] /\ waiters \in Seq(Client)
    BY DEF Types, Workers, WorkerTypes, WaitTypes
  <1>1. UNCHANGED <<opts, pool, suspend>>
    BY WorkerDown
  <1>2. CASE /\ wpc' = [wpc EXCEPT ![w] = "none"] /\ awake' = awake \ {w}
             /\ SignalWaiter(1) \/ SignalWaiter(2)
    <2>1. Idle' = Idle \ {w}
      BY <1>0, <1>2 DEF Idle
    <2>2. ASSUME "failures" \notin opts.uses PROVE waiters' = <<>>
      <3>1. Len(waiters) \in Nat /\ Len(waiters) <= 1
        BY <1>0, <2>2, OneListed
      <3>2. Len(waiters) <= 2
        BY <3>1
      <3> QED BY <1>0, <1>2, <3>1, <3>2, SignalShortens
    <2> QED BY <1>1, <1>2, <2>1, <2>2 DEF Heard
  <1>3. CASE suspend /\ w \in Idle /\ wpc' = [wpc EXCEPT ![w] = "paused"]
    <2>1. w \in Alive'
      BY <1>0, <1>3 DEF Alive
    <2> QED BY <1>1, <1>3, <2>1 DEF Heard
  <1> QED BY <1>2, <1>3, WorkerDown

LEMMA ReleaseHears ==
  ASSUME Types, NEW c \in Client, TpoolRelease(c), ~(pool' = "listed")
  PROVE  Heard'
  <1>1. wpc' = wpc /\ numWorkers' = numWorkers /\ Dismantle(c)
    BY DEF TpoolRelease, Calls, workerVars
  <1>2. Idle' = Idle /\ Alive' = Alive
    BY <1>1 DEF Idle, Alive
  <1>3. CASE Survivors
    <2>1. awake' = Idle /\ Alive # {}
      BY <1>1, <1>3, SomeAlive DEF Dismantle, Survivors, Notify
    <2> QED BY <1>2, <2>1 DEF Heard
  <1>4. CASE ~Survivors
    BY <1>1, <1>4 DEF Dismantle, Heard
  <1> QED BY <1>3, <1>4

LEMMA CreateHears ==
  ASSUME NEW c \in Client, Create(c)
  PROVE  Heard'
  BY DEF Create, Heard

LEMMA NextHeard == Types /\ References /\ Listed /\ Heard /\ [Next]_vars => Heard'
  <1> SUFFICES ASSUME Types, References, Listed, Heard, [Next]_vars PROVE Heard'
    OBVIOUS
  <1>1. ASSUME NEW w \in Worker, Start(w) \/ Finish(w) \/ Wake(w) PROVE Heard'
    BY <1>1, WorkerHeard
  <1>2. ASSUME pool' \in {"none", "failed", "listed", "freed"} PROVE Heard'
    BY <1>2 DEF Heard
  <1>3. ASSUME NEW c \in Client, ClientStep(c) PROVE Heard'
    <2>1. CASE Create(c)
      BY <2>1, CreateHears
    <2>2. CASE TpoolRelease(c)
      BY <1>2, <2>2, ReleaseHears
    <2>3. CASE Post(c) \/ PostNowait(c) \/ Wait(c)
      <3>1. pc[c] \in {"ready", "post", "nowait", "wait"} /\ pool' = pool
        BY <2>3, PostEffect DEF Post, PostNowait, Wait, Calls, Resumes, poolVars
      <3> QED BY <1>2, <3>1, HolderInListed
    <2>4. CASE TpoolReserve(c) \/ TpoolSuspend(c) \/ TpoolResume(c) \/ Cancel(c) \/ Get(c)
      BY <1>2, <2>4 DEF TpoolReserve, TpoolSuspend, TpoolResume, Cancel, Get, Calls, poolVars
    <2>5. CASE RunStopEvent(c)
      BY <2>5 DEF RunStopEvent, Heard, Idle, Alive, poolVars, workerVars
    <2> QED BY <1>3, <2>1, <2>2, <2>3, <2>4, <2>5 DEF ClientStep
  <1>4. ASSUME UNCHANGED vars PROVE Heard'
    BY <1>4 DEF vars, Heard, Idle, Alive, poolVars, workerVars, waitVars
  <1> QED BY <1>1, <1>3, <1>4 DEF Next

LEMMA HeardIs ==
  ASSUME Types, References, Listed, Heard
  PROVE  ReleaseHeard
  <1>1. ASSUME waiters = <<>>, "failures" \notin opts.uses, NEW c \in Client, pc[c] = "release"
        PROVE  stops[c] = 1
    <2>1. c \notin Range(waiters)
      BY <1>1 DEF Range
    <2> QED BY <1>1, <2>1 DEF Listed, WaitersListed, Waiting
  <1> QED BY <1>1 DEF Heard, ReleaseHeard

\* tpool::release does not miss the end of the workers it waits for, whoever else
\* has used the pool before, for any number of workers: what sleeps is told to look,
\* and the last one that ends tells the command.
THEOREM ReleaseIsHeard == Spec => []ReleaseHeard
<1>1. Init => Heard
  BY DEF Init, Heard
<1> QED BY InitTypes, NextTypes, InitReferences, NextReferences, InitListed, NextListed,
           <1>1, NextHeard, HeardIs, PTL DEF Spec

\* While a pool that is not suspended is taken down no worker is started, takes a
\* job or goes to sleep: there are fewer with every step that one of them takes.
THEOREM TakenDown == Spec => WorkersOnlyEnd
<1>1. Types /\ References /\ [Next]_vars =>
        [pool = "down" /\ ~suspend => \A w \in Worker : wpc'[w] \in {wpc[w], "none"}]_vars
  <2> SUFFICES ASSUME Types, References, [Next]_vars, pool = "down", ~suspend,
                      NEW v \in Worker
               PROVE  wpc'[v] \in {wpc[v], "none"}
    OBVIOUS
  <2>1. ASSUME NEW w \in Worker, Start(w) \/ Finish(w) \/ Wake(w)
        PROVE  wpc'[v] \in {wpc[v], "none"}
    BY <2>1, WorkerDown DEF Types, Workers, WorkerTypes
  <2>2. ASSUME wpc' = wpc PROVE wpc'[v] \in {wpc[v], "none"}
    BY <2>2
  <2>3. ASSUME NEW c \in Client, ClientStep(c) PROVE wpc'[v] \in {wpc[v], "none"}
    <3>1. CASE TpoolRelease(c) \/ RunStopEvent(c)
      BY <2>2, <3>1 DEF TpoolRelease, RunStopEvent, workerVars
    <3>2. CASE Post(c) \/ PostNowait(c) \/ Wait(c)
      <4>1. pc[c] \in {"ready", "post", "nowait", "wait"}
        BY <3>2 DEF Post, PostNowait, Wait, Calls, Resumes
      <4> QED BY <4>1, HolderInListed
    <3> QED BY <2>3, <3>1, <3>2
            DEF ClientStep, Create, TpoolReserve, TpoolSuspend, TpoolResume, Cancel, Get, Calls
  <2>4. ASSUME UNCHANGED vars PROVE wpc' = wpc
    BY <2>4 DEF vars, workerVars
  <2> QED BY <2>1, <2>2, <2>3, <2>4 DEF Next
<1> QED BY InitTypes, NextTypes, InitReferences, NextReferences, <1>1, PTL
        DEF Spec, WorkersOnlyEnd
=============================================================================
