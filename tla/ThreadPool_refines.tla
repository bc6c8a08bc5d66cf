-------------------------- MODULE ThreadPool_refines --------------------------
(***************************************************************************)
(* The thread pool implements the line of jobs (JobLine), proved for any   *)
(* number of threads, workers and jobs and any settings; what follows for  *)
(* the jobs, their order and that none is run twice; and that no wakeup of *)
(* the threads that wait for jobs and workers is lost.                     *)
(***************************************************************************)
EXTENDS ThreadPool_proofs

\* A job is in one place: once in the line, or run by one worker.
Apart ==
    /\ \A i, j \in DOMAIN work : work[i] = work[j] => i = j
    /\ \A i \in DOMAIN work : work[i] <= posted /\ \A w \in Busy : job[w] # work[i]
    /\ \A v, w \in Busy : job[v] = job[w] => v = w
    /\ \A w \in Busy : job[w] <= posted

\* What the steps rest on.
Inv == Types /\ References /\ Apart

LEMMA InitApart == Init => Apart
  BY DEF Init, Apart, Busy

LEMMA WorkFacts ==
  ASSUME Types
  PROVE  /\ work \in Seq(Job) /\ Len(work) \in Nat /\ DOMAIN work = 1 .. Len(work)
         /\ wpc \in [Worker -> WorkerState] /\ job \in [Worker -> 0 .. MaxJobs]
         /\ posted \in Nat /\ MaxJobs \in Nat
         /\ \A w \in Busy : w \in Worker /\ job[w] \in Job
  <1>1. work \in Seq(Job) /\ owner \in Seq(Client)
    BY DEF Types, JobTypes
  <1>2. Len(work) \in Nat /\ DOMAIN work = 1 .. Len(work)
    BY <1>1, LenProperties
  <1>3. posted \in Nat
    BY <1>1, LenProperties DEF posted
  <1>4. /\ wpc \in [Worker -> WorkerState] /\ job \in [Worker -> 0 .. MaxJobs]
        /\ \A w \in Busy : w \in Worker /\ job[w] \in Job
    BY DEF Types, Workers, WorkerTypes, Busy
  <1> QED BY <1>1, <1>2, <1>3, <1>4, MaxJobsAssumption

-----------------------------------------------------------------------------
(* A worker's turn.                                                        *)

\* A worker goes to another state, with the head of the line if it runs a job.
Takes(w, s, k) ==
    /\ wpc' = [wpc EXCEPT ![w] = s] /\ job' = [job EXCEPT ![w] = k]
    /\ IF s = "run" THEN work # <<>> /\ k = Head(work) /\ work' = Tail(work)
                    ELSE work' = work

\* The jobs of one worker.
Held(w) == IF w \in Busy THEN {job[w]} ELSE {}
Taken(s, k) == IF s = "run" THEN {k} ELSE {}

LEMMA WorkerTakes ==
  ASSUME Types, NEW w \in Worker, Start(w) \/ Finish(w) \/ Wake(w)
  PROVE  \E s \in WorkerState, k \in 0 .. MaxJobs : Takes(w, s, k)
  <1>0. /\ job \in [Worker -> 0 .. MaxJobs] /\ 0 \in 0 .. MaxJobs
        /\ "none" \in WorkerState /\ "run" \in WorkerState
        /\ "idle" \in WorkerState /\ "paused" \in WorkerState
    BY WorkFacts DEF WorkerState
  <1>1. ASSUME NEW n, Seek(w, n)
        PROVE  \E s \in WorkerState, k \in 0 .. MaxJobs : Takes(w, s, k)
    <2>1. CASE suspend \/ work = <<>>
      <3>1. Takes(w, IF suspend THEN "paused" ELSE "idle", 0)
        BY <1>1, <2>1 DEF Seek, Takes
      <3> QED BY <1>0, <3>1
    <2>2. CASE ~(suspend \/ work = <<>>)
      <3>1. Takes(w, "run", Head(work))
        BY <1>1, <2>2 DEF Seek, Takes
      <3>2. Head(work) \in Job
        BY <2>2, WorkFacts, HeadTailProperties
      <3>3. Head(work) \in 0 .. MaxJobs
        BY <3>2, WorkFacts DEF Job
      <3> QED BY <1>0, <3>1, <3>3
    <2> QED BY <2>1, <2>2
  <1>2. ASSUME NEW n, Die(w, n)
        PROVE  \E s \in WorkerState, k \in 0 .. MaxJobs : Takes(w, s, k)
    <2>1. Takes(w, "none", 0)
      BY <1>2 DEF Die, Takes
    <2> QED BY <1>0, <2>1
  <1>3. ASSUME NEW t, SleepOn(w, t)
        PROVE  \E s \in WorkerState, k \in 0 .. MaxJobs : Takes(w, s, k)
    <2>1. Takes(w, "paused", job[w]) /\ job[w] \in 0 .. MaxJobs
      BY <1>0, <1>3 DEF SleepOn, Takes, Wake
    <2> QED BY <1>0, <2>1
  <1>4. ASSUME NEW n, Turn(w, n)
        PROVE  \E s \in WorkerState, k \in 0 .. MaxJobs : Takes(w, s, k)
    BY <1>1, <1>2, <1>4 DEF Turn
  <1>5. CASE Start(w) \/ Finish(w)
    BY <1>4, <1>5 DEF Start, Finish
  <1>6. CASE Wake(w)
    <2>1. PICK t \in Tout(w) : SleepOn(w, t) \/ Retire(w, t) \/ LookAgain(w, t)
      BY <1>6 DEF Wake
    <2> QED BY <1>1, <1>2, <1>3, <2>1 DEF Retire, LookAgain
  <1> QED BY <1>5, <1>6

LEMMA HeadTailWork ==
  ASSUME Types, Apart, work # <<>>
  PROVE  /\ Head(work) \in Job /\ Head(work) <= posted
         /\ \A w \in Busy : job[w] # Head(work)
         /\ Tail(work) \in Seq(Job)
         /\ \A i \in DOMAIN Tail(work) :
              /\ i \in Nat /\ i + 1 \in DOMAIN work /\ Tail(work)[i] = work[i + 1]
              /\ Tail(work)[i] # Head(work)
  <1>1. /\ Head(work) \in Job /\ Tail(work) \in Seq(Job)
        /\ Len(Tail(work)) = Len(work) - 1
        /\ \A i \in 1 .. Len(Tail(work)) : Tail(work)[i] = work[i + 1]
    BY WorkFacts, HeadTailProperties
  <1>2. Len(work) \in Nat \ {0} /\ DOMAIN work = 1 .. Len(work)
    BY WorkFacts, EmptySeq
  <1>3. 1 \in DOMAIN work /\ Head(work) = work[1]
    BY <1>2
  <1>4. DOMAIN Tail(work) = 1 .. Len(Tail(work))
    BY <1>1, LenProperties
  <1>5. \A i \in DOMAIN Tail(work) :
          i \in Nat /\ i + 1 \in DOMAIN work /\ Tail(work)[i] = work[i + 1] /\ i + 1 # 1
    BY <1>1, <1>2, <1>4
  <1>6. \A i \in DOMAIN Tail(work) : Tail(work)[i] # Head(work)
    BY <1>3, <1>5 DEF Apart
  <1>7. Head(work) <= posted /\ \A w \in Busy : job[w] # Head(work)
    BY <1>3 DEF Apart
  <1> QED BY <1>1, <1>5, <1>6, <1>7

LEMMA TakesApart ==
  ASSUME Types, Apart, NEW w \in Worker, NEW s \in WorkerState, NEW k \in 0 .. MaxJobs,
         Takes(w, s, k), owner' = owner
  PROVE  Apart'
  <1>0. /\ wpc \in [Worker -> WorkerState] /\ job \in [Worker -> 0 .. MaxJobs]
        /\ posted' = posted
    BY WorkFacts DEF posted
  <1>1. CASE s # "run"
    <2>1. Busy' = Busy \ {w} /\ work' = work /\ \A v \in Busy' : job'[v] = job[v]
      BY <1>0, <1>1 DEF Takes, Busy
    <2> QED BY <1>0, <2>1 DEF Apart
  <1>2. CASE s = "run"
    <2>0. work # <<>> /\ k = Head(work) /\ work' = Tail(work)
      BY <1>2 DEF Takes
    <2>1. /\ Busy' = Busy \cup {w} /\ job'[w] = k
          /\ \A v \in Busy' \ {w} : v \in Busy /\ job'[v] = job[v]
      BY <1>0, <1>2 DEF Takes, Busy
    <2>2. /\ k <= posted /\ \A v \in Busy : job[v] # k
          /\ \A i \in DOMAIN work' :
               i \in Nat /\ i + 1 \in DOMAIN work /\ work'[i] = work[i + 1] /\ work'[i] # k
      BY <2>0, HeadTailWork
    <2>3. \A i, j \in DOMAIN work' : work'[i] = work'[j] => i = j
      <3>1. TAKE i, j \in DOMAIN work'
      <3>2. HAVE work'[i] = work'[j]
      <3>3. i \in Nat /\ j \in Nat /\ i + 1 = j + 1
        BY <2>2, <3>2 DEF Apart
      <3> QED BY <3>3
    <2>4. \A i \in DOMAIN work' : work'[i] <= posted /\ \A v \in Busy' : job'[v] # work'[i]
      BY <2>1, <2>2 DEF Apart
    <2>5. \A u, v \in Busy' : job'[u] = job'[v] => u = v
      BY <2>1, <2>2 DEF Apart
    <2>6. \A v \in Busy' : job'[v] <= posted
      BY <2>1, <2>2 DEF Apart
    <2> QED BY <1>0, <2>3, <2>4, <2>5, <2>6 DEF Apart
  <1> QED BY <1>1, <1>2

LEMMA TakesTurn ==
  ASSUME Types, Apart, NEW w \in Worker, NEW s \in WorkerState, NEW k \in 0 .. MaxJobs,
         Takes(w, s, k), owner' = owner, pool' = pool,
         done' = done \/ (w \in Busy /\ done' = done \cup {job[w]})
  PROVE  JL!Turn
  <1>0. /\ wpc \in [Worker -> WorkerState] /\ job \in [Worker -> 0 .. MaxJobs]
        /\ \A v \in Busy : v \in Worker /\ job[v] \in Job
    BY WorkFacts
  <1>1. Held(w) \subseteq Running /\ \A i, j \in Held(w) : i = j
    BY DEF Held, Running
  <1>2. JL!Started(Taken(s, k))
    BY DEF JL!Started, Takes, Taken
  <1>3. Taken(s, k) \subseteq Job
    BY HeadTailWork DEF Takes, Taken
  <1>4. Running' = (Running \ Held(w)) \cup Taken(s, k)
    <2>1. /\ Busy' = (Busy \ {w}) \cup (IF s = "run" THEN {w} ELSE {})
          /\ \A v \in Busy \ {w} : job'[v] = job[v]
          /\ job'[w] = k
      BY <1>0 DEF Takes, Busy
    <2>2. \A v \in Busy \ {w} : job[v] \notin Held(w)
      BY DEF Held, Apart
    <2>3. \A v \in Busy \cap {w} : job[v] \in Held(w)
      BY DEF Held
    <2> QED BY <2>1, <2>2, <2>3 DEF Running, Taken
  <1>5. done' \in {done, done \cup Held(w)}
    BY DEF Held
  <1>6. posted' = posted
    BY DEF posted
  <1>7. JL!Work(Held(w), Taken(s, k))
    BY <1>2, <1>4, <1>5, <1>6 DEF JL!Work
  <1>8. JL!Job = Job
    BY DEF JL!Job, Job
  <1> QED BY <1>1, <1>3, <1>7, <1>8 DEF JL!Turn

LEMMA WorkerTurn ==
  ASSUME Inv, NEW w \in Worker, Start(w) \/ Finish(w) \/ Wake(w)
  PROVE  Apart' /\ JL!Turn
  <1>1. PICK s \in WorkerState, k \in 0 .. MaxJobs : Takes(w, s, k)
    BY WorkerTakes DEF Inv
  <1>2. owner' = owner /\ pool' = pool
    BY DEF Start, Finish, Wake, poolVars
  <1>3. done' = done \/ (w \in Busy /\ done' = done \cup {job[w]})
    BY DEF Start, Finish, Wake, Busy
  <1> QED BY <1>1, <1>2, <1>3, TakesApart, TakesTurn DEF Inv

-----------------------------------------------------------------------------
(* The commands.                                                           *)

\* The steps that leave the jobs where they are.
LEMMA SameJobs ==
  ASSUME Apart, UNCHANGED <<owner, work, done, Busy, pool = "freed">>, job' = job
  PROVE  Apart' /\ UNCHANGED JL!vars
  <1>1. Apart'
    BY DEF Apart, posted
  <1>2. posted' = posted /\ Running' = Running
    BY DEF posted, Running
  <1> QED BY <1>1, <1>2 DEF JL!vars

LEMMA PostedJobs ==
  ASSUME Inv, NEW c \in Client, NEW d, Posted(c, d), pool = "listed",
         pc[c] \in {"post", "nowait"} \/ Room
  PROVE  Apart' /\ JL!Post
  <1>1. /\ owner' = Append(owner, c) /\ work' = Append(work, posted + 1)
        /\ UNCHANGED <<done, wpc, job, pool>> /\ pc' = [pc EXCEPT ![c] = "ready"]
    BY DEF Posted, PushWork, Queued, Returns, poolVars
  <1>2. "ready" \in Place /\ "ready" \notin {"post", "nowait"}
    BY DEF Place
  <1>3. posted \in Nat /\ Cardinality(Pending') \in Nat /\ MaxJobs \in Nat
        /\ posted + Cardinality(Pending') + 1 <= MaxJobs
    BY <1>1, <1>2, RoomFor, MaxJobsAssumption DEF Inv
  <1>4. posted < MaxJobs /\ posted + 1 \in Job
    BY <1>3 DEF Job
  <1>5. posted' = posted + 1
    BY <1>1, AppendProperties DEF posted, Inv, Types, JobTypes
  <1>6. /\ work \in Seq(Job) /\ Len(work) \in Nat /\ DOMAIN work = 1 .. Len(work)
        /\ \A v \in Busy : job[v] \in Nat
    BY WorkFacts DEF Inv, Job
  <1>7. /\ Len(work') = Len(work) + 1 /\ work'[Len(work) + 1] = posted + 1
        /\ \A i \in 1 .. Len(work) : work'[i] = work[i]
        /\ work' \in Seq(Job)
    BY <1>1, <1>4, <1>6, AppendProperties
  <1>8. DOMAIN work' = 1 .. Len(work) + 1
    BY <1>7, LenProperties
  <1>9. \A i \in DOMAIN work' :
          \/ i \in DOMAIN work /\ work'[i] = work[i] /\ work[i] \in Nat /\ work[i] <= posted
          \/ i = Len(work) + 1 /\ work'[i] = posted + 1
    <2>1. \A i \in DOMAIN work' : i \in DOMAIN work \/ i = Len(work) + 1
      BY <1>6, <1>8
    <2>2. \A i \in DOMAIN work : work[i] \in Nat /\ work[i] <= posted /\ work'[i] = work[i]
      <3>1. TAKE i \in DOMAIN work
      <3>2. i \in 1 .. Len(work) /\ work[i] \in Job
        BY <1>6, ElementOfSeq
      <3>3. work[i] \in Nat
        BY <1>3, <3>2 DEF Job
      <3>4. work[i] <= posted
        BY DEF Inv, Apart
      <3> QED BY <1>7, <3>2, <3>3, <3>4
    <2> QED BY <1>7, <2>1, <2>2
  <1>10. Busy' = Busy /\ \A v \in Busy : job[v] <= posted /\ job[v] # posted + 1
    BY <1>1, <1>3, <1>6 DEF Busy, Inv, Apart
  <1>11. \A i, j \in DOMAIN work' : work'[i] = work'[j] => i = j
    <2>1. TAKE i, j \in DOMAIN work'
    <2>2. HAVE work'[i] = work'[j]
    <2>3. CASE i \in DOMAIN work /\ j \in DOMAIN work
      BY <1>6, <1>7, <2>2, <2>3 DEF Inv, Apart
    <2>4. CASE i = Len(work) + 1 /\ j = Len(work) + 1
      BY <2>4
    <2>5. CASE i \in DOMAIN work /\ j = Len(work) + 1
      BY <1>3, <1>6, <1>7, <1>9, <2>2, <2>5
    <2>6. CASE i = Len(work) + 1 /\ j \in DOMAIN work
      BY <1>3, <1>6, <1>7, <1>9, <2>2, <2>6
    <2> QED BY <1>9, <2>3, <2>4, <2>5, <2>6
  <1>12. \A i \in DOMAIN work' : work'[i] <= posted + 1 /\ \A v \in Busy : job[v] # work'[i]
    BY <1>3, <1>9, <1>10 DEF Inv, Apart
  <1>13. \A v \in Busy : job[v] <= posted + 1
    BY <1>3, <1>6, <1>10
  <1>14. Apart'
    BY <1>1, <1>5, <1>10, <1>11, <1>12, <1>13 DEF Inv, Apart
  <1>15. Running' = Running
    BY <1>1, <1>10 DEF Running
  <1>16. JL!Post
    BY <1>1, <1>4, <1>5, <1>15 DEF JL!Post
  <1> QED BY <1>14, <1>16

LEMMA CreateWorkerJobs ==
  ASSUME Types, NEW w \in Worker, CreateWorker(w)
  PROVE  Busy' = Busy /\ job' = job
  BY WorkFacts DEF CreateWorker, Busy

LEMMA AwaitJobs ==
  ASSUME Inv, NEW c \in Client, NEW d, NEW p, NEW b, AwaitWorker(c, d, p, b)
  PROVE  Apart' /\ UNCHANGED JL!vars
  <1>1. UNCHANGED <<pool, owner, work, done>>
    BY DEF AwaitWorker, poolVars, jobVars
  <1>2. UNCHANGED workerVars \/ \E w \in Worker : CreateWorker(w)
    BY Zenon DEF AwaitWorker, NotStarted
  <1>3. Busy' = Busy /\ job' = job
    <2>1. CASE UNCHANGED workerVars
      BY <2>1 DEF workerVars, Busy
    <2>2. CASE \E w \in Worker : CreateWorker(w)
      BY <2>2, CreateWorkerJobs DEF Inv
    <2> QED BY <1>2, <2>1, <2>2
  <1> QED BY <1>1, <1>3, SameJobs DEF Inv

LEMMA PostJobs ==
  ASSUME Inv, NEW c \in Client, Post(c) \/ PostNowait(c)
  PROVE  Apart' /\ [JL!Next]_JL!vars
  <1>1. (Calls(c) /\ Room) \/ Resumes(c, "post") \/ Resumes(c, "nowait")
    BY Zenon DEF Post, PostNowait
  <1>2. pool = "listed" /\ (pc[c] \in {"post", "nowait"} \/ Room)
    BY <1>1, HolderInListed DEF Inv, Calls, Resumes, Holders
  <1>3. \/ \E d : Posted(c, d)
        \/ \E d, p, b : AwaitWorker(c, d, p, b)
    BY Zenon DEF Post, PostNowait
  <1>4. CASE \E d : Posted(c, d)
    BY <1>2, <1>4, PostedJobs DEF JL!Next
  <1>5. CASE \E d, p, b : AwaitWorker(c, d, p, b)
    BY <1>5, AwaitJobs
  <1> QED BY <1>3, <1>4, <1>5

\* A sequence without its n-th element.
LEMMA RemovedFacts ==
  ASSUME NEW S, NEW s \in Seq(S), NEW n \in 1 .. Len(s)
  PROVE  /\ RemoveAt(s, n) \in Seq(S)
         /\ DOMAIN RemoveAt(s, n) = 1 .. Len(s) - 1
         /\ \A i \in 1 .. Len(s) - 1 :
              RemoveAt(s, n)[i] = IF i < n THEN s[i] ELSE s[i + 1]
  <1>1. Len(s) \in Nat /\ \A i \in 1 .. Len(s) : s[i] \in S
    OBVIOUS
  <1> DEFINE l == SubSeq(s, 1, n - 1)
             r == SubSeq(s, n + 1, Len(s))
  <1>2. /\ l \in Seq(S) /\ Len(l) = n - 1
        /\ \A i \in 1 .. n - 1 : l[i] = s[i]
    <2>1. \A i \in 1 .. n - 1 : s[i] \in S
      BY <1>1
    <2>2. /\ l \in Seq(S) /\ Len(l) = IF 1 <= n - 1 THEN n - 1 - 1 + 1 ELSE 0
          /\ \A i \in 1 .. n - 1 - 1 + 1 : l[i] = s[1 + i - 1]
      BY <1>1, <2>1, SubSeqProperties
    <2> QED BY <1>1, <2>2
  <1>3. /\ r \in Seq(S) /\ Len(r) = Len(s) - n
        /\ \A i \in 1 .. Len(s) - n : r[i] = s[n + i]
    <2>1. \A i \in n + 1 .. Len(s) : s[i] \in S
      BY <1>1
    <2>2. /\ r \in Seq(S)
          /\ Len(r) = IF n + 1 <= Len(s) THEN Len(s) - (n + 1) + 1 ELSE 0
          /\ \A i \in 1 .. Len(s) - (n + 1) + 1 : r[i] = s[n + 1 + i - 1]
      BY <1>1, <2>1, SubSeqProperties
    <2>3. Len(s) - (n + 1) + 1 = Len(s) - n /\ \A i \in 1 .. Len(s) - n : n + 1 + i - 1 = n + i
      BY <1>1
    <2>4. Len(r) = Len(s) - n
      <3> HIDE DEF r
      <3> QED BY <1>1, <2>2
    <2> HIDE DEF r
    <2> QED BY <2>2, <2>3, <2>4
  <1>4. RemoveAt(s, n) = l \o r
    BY DEF RemoveAt
  <1> HIDE DEF l, r
  <1>5. /\ l \o r \in Seq(S) /\ Len(l \o r) = Len(s) - 1
        /\ \A i \in 1 .. Len(s) - 1 : (l \o r)[i] = IF i <= n - 1 THEN l[i] ELSE r[i - (n - 1)]
    <2>1. /\ l \o r \in Seq(S) /\ Len(l \o r) = Len(l) + Len(r)
          /\ \A i \in 1 .. Len(l) + Len(r) :
               (l \o r)[i] = IF i <= Len(l) THEN l[i] ELSE r[i - Len(l)]
      BY <1>2, <1>3, ConcatProperties
    <2>2. Len(l) + Len(r) = Len(s) - 1
      BY <1>1, <1>2, <1>3
    <2> QED BY <1>2, <2>1, <2>2
  <1>6. DOMAIN (l \o r) = 1 .. Len(s) - 1
    BY <1>5, LenProperties
  <1>7. \A i \in 1 .. Len(s) - 1 : (l \o r)[i] = IF i < n THEN s[i] ELSE s[i + 1]
    <2>1. TAKE i \in 1 .. Len(s) - 1
    <2>2. CASE i < n
      <3>1. i \in 1 .. n - 1 /\ i <= n - 1
        BY <1>1, <2>2
      <3> QED BY <1>2, <1>5, <2>2, <3>1
    <2>3. CASE ~(i < n)
      <3>1. i - (n - 1) \in 1 .. Len(s) - n /\ ~(i <= n - 1) /\ n + (i - (n - 1)) = i + 1
        BY <1>1, <2>3
      <3> QED BY <1>3, <1>5, <2>3, <3>1
    <2> QED BY <1>1, <2>2, <2>3
  <1> QED BY <1>4, <1>5, <1>6, <1>7

LEMMA CancelJobs ==
  ASSUME Inv, NEW c \in Client, Cancel(c), NEW n \in DOMAIN work, work' = RemoveAt(work, n)
  PROVE  Apart' /\ JL!Cancel
  <1>1. /\ UNCHANGED <<pool, owner, done, wpc, job>>
    BY DEF Cancel, poolVars, workerVars
  <1>2. work' = RemoveAt(work, n)
    OBVIOUS
  <1>3. /\ work \in Seq(Job) /\ Len(work) \in Nat /\ DOMAIN work = 1 .. Len(work)
        /\ n \in 1 .. Len(work)
    BY <1>2, WorkFacts DEF Inv
  <1>4. /\ DOMAIN work' = 1 .. Len(work) - 1
        /\ \A i \in 1 .. Len(work) - 1 : work'[i] = IF i < n THEN work[i] ELSE work[i + 1]
    BY <1>2, <1>3, RemovedFacts
  <1>5. \A i \in DOMAIN work' :
          i \in Nat /\ work'[i] = IF i < n THEN work[i] ELSE work[i + 1]
    BY <1>4
  <1>6. \A i, j \in DOMAIN work' : work'[i] = work'[j] => i = j
    <2>1. TAKE i, j \in DOMAIN work'
    <2>2. HAVE work'[i] = work'[j]
    <2>3. i \in Nat /\ j \in Nat /\ i \in DOMAIN work /\ j \in DOMAIN work
          /\ i + 1 \in DOMAIN work /\ j + 1 \in DOMAIN work
      BY <1>3, <1>4
    <2>4. CASE i < n /\ j < n
      BY <1>5, <2>2, <2>3, <2>4 DEF Inv, Apart
    <2>5. CASE ~(i < n) /\ ~(j < n)
      <3>1. i + 1 = j + 1
        BY <1>5, <2>2, <2>3, <2>5 DEF Inv, Apart
      <3> QED BY <2>3, <3>1
    <2>6. CASE i < n /\ ~(j < n)
      <3>1. i = j + 1
        BY <1>5, <2>2, <2>3, <2>6 DEF Inv, Apart
      <3> QED BY <1>3, <2>3, <2>6, <3>1
    <2>7. CASE ~(i < n) /\ j < n
      <3>1. i + 1 = j
        BY <1>5, <2>2, <2>3, <2>7 DEF Inv, Apart
      <3> QED BY <1>3, <2>3, <2>7, <3>1
    <2> QED BY <2>4, <2>5, <2>6, <2>7
  <1>7. \A i \in DOMAIN work' : \E j \in DOMAIN work : work'[i] = work[j]
    <2>1. \A i \in DOMAIN work' : i \in DOMAIN work /\ i + 1 \in DOMAIN work
      BY <1>3, <1>4
    <2> QED BY <1>5, <2>1
  <1>8. Busy' = Busy /\ posted' = posted /\ Running' = Running
    BY <1>1 DEF Busy, posted, Running
  <1>9. Apart'
    BY <1>1, <1>6, <1>7, <1>8 DEF Inv, Apart
  <1>10. JL!Cancel
    <2>1. work' = JL!RemoveAt(work, n)
      BY <1>2 DEF RemoveAt, JL!RemoveAt
    <2> QED BY <1>1, <1>8, <2>1 DEF JL!Cancel
  <1> QED BY <1>9, <1>10

LEMMA GetJobs ==
  ASSUME Inv, NEW c \in Client, Get(c)
  PROVE  Apart' /\ JL!Collect
  <1>1. UNCHANGED <<pool, owner, work, wpc, job>> /\ \E j \in done : done' = done \ {j}
    BY DEF Get, poolVars, workerVars
  <1>2. Busy' = Busy /\ posted' = posted /\ Running' = Running
    BY <1>1 DEF Busy, posted, Running
  <1> QED BY <1>1, <1>2 DEF Inv, Apart, JL!Collect

\* A pool that is torn down waits for its workers; it is freed when none is left.
LEMMA DismantleJobs ==
  ASSUME Inv, NEW c \in Client, Dismantle(c), pool # "freed",
         Busy' = Busy, IF numWorkers' > 0 THEN TRUE ELSE Busy = {}
  PROVE  Apart' /\ [JL!Next]_JL!vars
  <1>1. owner' = owner /\ job' = job
    BY DEF Dismantle
  <1>2. CASE Survivors
    <2>1. pool' = "down" /\ UNCHANGED <<work, done>>
      BY <1>2 DEF Dismantle
    <2> QED BY <1>1, <2>1, SameJobs DEF Inv
  <1>3. CASE ~Survivors
    <2>1. pool' = "freed" /\ work' = <<>> /\ done' = {} /\ Busy = {}
      BY <1>3 DEF Dismantle, Survivors
    <2>2. Apart'
      BY <1>1, <2>1 DEF Apart
    <2>3. Running = {} /\ Running' = {} /\ posted' = posted
      BY <1>1, <2>1 DEF Running, posted
    <2>4. JL!Discard
      BY <2>1, <2>3 DEF JL!Discard
    <2> QED BY <2>2, <2>4 DEF JL!Next
  <1> QED BY <1>2, <1>3

LEMMA NobodyBusy ==
  ASSUME Types, ~(numWorkers > 0)
  PROVE  Busy = {}
  <1>1. numWorkers = Cardinality(Alive) /\ numWorkers \in Nat
    BY DEF Types, Workers, WorkerTypes, CountersMatch
  <1>2. Alive = {}
    BY <1>1, WorkersFinite, FS_EmptySet
  <1> QED BY <1>2 DEF Alive, Busy

LEMMA ReleaseJobs ==
  ASSUME Inv, NEW c \in Client, TpoolRelease(c)
  PROVE  Apart' /\ [JL!Next]_JL!vars
  <1>1. numWorkers' = numWorkers /\ wpc' = wpc
    BY DEF TpoolRelease, workerVars
  <1>2. Busy' = Busy /\ pool # "freed"
    BY <1>1 DEF Busy, TpoolRelease, Calls, Resumes, Abandons, Inv, References
  <1>3. CASE Dismantle(c)
    BY <1>1, <1>2, <1>3, NobodyBusy, DismantleJobs DEF Inv
  <1>4. CASE ~Dismantle(c)
    <2>1. UNCHANGED <<pool, owner, work, done, job>>
      BY <1>4 DEF TpoolRelease, jobVars, workerVars
    <2> QED BY <1>2, <2>1, SameJobs DEF Inv
  <1> QED BY <1>3, <1>4

LEMMA CreateJobs ==
  ASSUME Inv, NEW c \in Client, Create(c)
  PROVE  Apart' /\ [JL!Next]_JL!vars
  <1>1. pool = "none" /\ Busy = {} /\ Busy' = {}
    BY DEF Create, Inv, Types, NewIsQuiet, Alive, Busy
  <1>2. pool' # "freed" /\ UNCHANGED <<jobVars, job>>
    BY DEF Create
  <1> QED BY <1>1, <1>2, SameJobs DEF Inv, jobVars

-----------------------------------------------------------------------------
LEMMA NextJobs == Inv /\ [Next]_vars => Apart' /\ [JL!Next]_JL!vars
  <1> SUFFICES ASSUME Inv, [Next]_vars PROVE Apart' /\ [JL!Next]_JL!vars
    OBVIOUS
  <1>1. ASSUME NEW w \in Worker, Start(w) \/ Finish(w) \/ Wake(w)
        PROVE  Apart' /\ [JL!Next]_JL!vars
    BY <1>1, WorkerTurn DEF JL!Next
  <1>2. ASSUME UNCHANGED <<pool, jobVars, wpc, job>>
        PROVE  Apart' /\ [JL!Next]_JL!vars
    <2>1. Busy' = Busy
      BY <1>2 DEF Busy
    <2> QED BY <1>2, <2>1, SameJobs DEF Inv, jobVars
  <1>3. ASSUME NEW c \in Client, ClientStep(c)
        PROVE  Apart' /\ [JL!Next]_JL!vars
    <2>1. CASE Post(c) \/ PostNowait(c)
      BY <2>1, PostJobs
    <2>2. CASE Cancel(c) \/ Get(c)
      <3>1. CASE Get(c)
        BY <3>1, GetJobs DEF JL!Next
      <3>2. CASE Cancel(c) /\ \E n \in DOMAIN work : work' = RemoveAt(work, n)
        BY <3>2, CancelJobs DEF JL!Next
      <3>3. CASE Cancel(c) /\ work' = work
        BY <1>2, <3>3 DEF Cancel, jobVars, poolVars, workerVars
      <3> QED BY <2>2, <3>1, <3>2, <3>3 DEF Cancel
    <2>3. CASE Create(c) \/ TpoolRelease(c)
      BY <2>3, CreateJobs, ReleaseJobs
    <2>4. CASE Wait(c) \/ TpoolReserve(c) \/ TpoolSuspend(c) \/ TpoolResume(c) \/ RunStopEvent(c)
      BY <1>2, <2>4 DEF Wait, TpoolReserve, TpoolSuspend, TpoolResume, RunStopEvent,
                        poolVars, workerVars
    <2> QED BY <1>3, <2>1, <2>2, <2>3, <2>4 DEF ClientStep
  <1>4. ASSUME UNCHANGED vars PROVE Apart' /\ [JL!Next]_JL!vars
    BY <1>2, <1>4 DEF vars, poolVars, workerVars
  <1> QED BY <1>1, <1>3, <1>4 DEF Next

LEMMA InitLine == Init => JL!Init
  <1> SUFFICES ASSUME Init PROVE JL!Init
    OBVIOUS
  <1>1. work = <<>> /\ done = {} /\ pool # "freed"
    BY DEF Init
  <1>2. posted = 0
    BY EmptySeq DEF Init, posted
  <1>3. Running = {}
    BY DEF Init, Running, Busy
  <1> QED BY <1>1, <1>2, <1>3 DEF JL!Init

\* Jobs are started in the order of the posts, none twice and none lost, only
\* waiting ones are cancelled, and the pool goes away only when nothing runs, for
\* any number of posters and workers, and whatever fails, suspends or times out.
THEOREM LineImplemented == Spec => ImplementsJobLine
<1>1. Inv /\ [Next]_vars => Inv'
  BY NextTypes, NextReferences, NextJobs DEF Inv
<1>2. Init => Inv
  BY InitTypes, InitReferences, InitApart DEF Inv
<1> QED BY <1>1, <1>2, NextJobs, InitLine, PTL DEF Spec, ImplementsJobLine, JL!Spec

-----------------------------------------------------------------------------
(* What follows for the jobs, by way of the line.                          *)

LineTypes ==
    /\ posted \in Nat /\ work \in Seq(Nat)
    /\ Running \cup done \subseteq {j \in Nat : j <= posted}

InLine == LineTypes /\ JL!InOrder

LEMMA LineFacts ==
  ASSUME InLine
  PROVE  /\ posted \in Nat /\ Len(work) \in Nat /\ DOMAIN work = 1 .. Len(work)
         /\ \A i \in DOMAIN work : work[i] \in Nat /\ work[i] <= posted
         /\ \A j \in Running \cup done : j \in Nat /\ j <= posted
         /\ \A i, j \in DOMAIN work : i < j => work[i] < work[j]
         /\ \A i \in DOMAIN work : \A j \in Running \cup done : j < work[i]
  BY LenProperties DEF InLine, LineTypes, JL!InOrder

LEMMA SameLine ==
  ASSUME InLine, posted' = posted, work' = work,
         Running' \cup done' \subseteq Running \cup done
  PROVE  InLine'
  <1>1. LineTypes'
    BY DEF InLine, LineTypes
  <1>2. JL!InOrder'
    BY LineFacts DEF JL!InOrder
  <1> QED BY <1>1, <1>2 DEF InLine

LEMMA PostInLine ==
  ASSUME InLine, JL!Post
  PROVE  InLine'
  <1>1. posted' = posted + 1 /\ work' = Append(work, posted + 1) /\ UNCHANGED <<Running, done>>
    BY DEF JL!Post
  <1>2. /\ work' \in Seq(Nat) /\ Len(work') = Len(work) + 1
        /\ work'[Len(work) + 1] = posted + 1
        /\ \A i \in 1 .. Len(work) : work'[i] = work[i]
    BY <1>1, LineFacts, AppendProperties DEF InLine, LineTypes
  <1>3. DOMAIN work' = 1 .. Len(work) + 1
    BY <1>2, LenProperties
  <1>4. \A i \in DOMAIN work' :
          \/ i \in DOMAIN work /\ work'[i] = work[i]
          \/ i = Len(work) + 1 /\ work'[i] = posted + 1
    BY <1>2, <1>3, LineFacts
  <1>5. \A i, j \in DOMAIN work' : i < j => work'[i] < work'[j]
    <2>1. TAKE i, j \in DOMAIN work'
    <2>2. HAVE i < j
    <2>3. i \in DOMAIN work /\ work'[i] = work[i]
      BY <1>3, <1>4, <2>2, LineFacts
    <2>4. CASE j \in DOMAIN work /\ work'[j] = work[j]
      BY <2>2, <2>3, <2>4, LineFacts
    <2>5. CASE j = Len(work) + 1 /\ work'[j] = posted + 1
      <3>1. work[i] \in Nat /\ work[i] <= posted /\ posted \in Nat
        BY <2>3, LineFacts
      <3> QED BY <2>3, <2>5, <3>1
    <2> QED BY <1>4, <2>4, <2>5
  <1>6. \A i \in DOMAIN work' : work'[i] <= posted' /\ \A j \in Running' \cup done' : j < work'[i]
    <2>1. TAKE i \in DOMAIN work'
    <2>2. CASE i \in DOMAIN work /\ work'[i] = work[i]
      BY <1>1, <2>2, LineFacts
    <2>3. CASE work'[i] = posted + 1
      BY <1>1, <2>3, LineFacts
    <2> QED BY <1>4, <2>2, <2>3
  <1>7. LineTypes'
    BY <1>1, <1>2, LineFacts DEF LineTypes
  <1> QED BY <1>5, <1>6, <1>7 DEF InLine, JL!InOrder

LEMMA TurnInLine ==
  ASSUME InLine, JL!Turn
  PROVE  InLine'
  <1>1. PICK old \in SUBSET Running, new \in SUBSET JL!Job : JL!Work(old, new)
    BY DEF JL!Turn
  <1>2. /\ JL!Started(new) /\ Running' = (Running \ old) \cup new
        /\ done' \in {done, done \cup old} /\ posted' = posted
    BY <1>1 DEF JL!Work
  <1>3. CASE new = {} /\ work' = work
    <2>1. Running' \cup done' \subseteq Running \cup done
      BY <1>1, <1>2, <1>3
    <2> QED BY <1>2, <1>3, <2>1, SameLine
  <1>4. CASE work # <<>> /\ new = {Head(work)} /\ work' = Tail(work)
    <2>1. Len(work) \in Nat \ {0} /\ DOMAIN work = 1 .. Len(work)
      BY <1>4, LineFacts, EmptySeq DEF InLine, LineTypes
    <2>2. 1 \in DOMAIN work /\ Head(work) = work[1]
      BY <2>1
    <2>3. /\ work' \in Seq(Nat) /\ Len(work') = Len(work) - 1
          /\ \A i \in 1 .. Len(work') : work'[i] = work[i + 1]
      BY <1>4, HeadTailProperties DEF InLine, LineTypes
    <2>4. DOMAIN work' = 1 .. Len(work) - 1
      BY <2>3, LenProperties
    <2>5. \A i \in DOMAIN work' :
            i \in Nat /\ i + 1 \in DOMAIN work /\ 1 < i + 1 /\ work'[i] = work[i + 1]
      BY <2>1, <2>3, <2>4
    <2>6. Running' \cup done' \subseteq (Running \cup done) \cup {work[1]}
      BY <1>1, <1>2, <1>4, <2>2
    <2>7. \A i, j \in DOMAIN work' : i < j => work'[i] < work'[j]
      <3>1. TAKE i, j \in DOMAIN work'
      <3>2. HAVE i < j
      <3>3. i + 1 < j + 1
        BY <2>5, <3>2
      <3> QED BY <2>5, <3>3, LineFacts
    <2>8. \A i \in DOMAIN work' : work'[i] <= posted /\ \A j \in Running' \cup done' : j < work'[i]
      <3>1. TAKE i \in DOMAIN work'
      <3>2. work'[i] <= posted /\ work[1] < work'[i] /\ \A j \in Running \cup done : j < work'[i]
        BY <2>2, <2>5, LineFacts
      <3> QED BY <2>6, <3>2
    <2>9. LineTypes'
      BY <1>2, <2>2, <2>3, <2>6, LineFacts DEF LineTypes
    <2> QED BY <1>2, <2>7, <2>8, <2>9 DEF InLine, JL!InOrder
  <1> QED BY <1>2, <1>3, <1>4 DEF JL!Started

LEMMA CancelInLine ==
  ASSUME InLine, JL!Cancel
  PROVE  InLine'
  <1>1. PICK n \in DOMAIN work : work' = JL!RemoveAt(work, n)
    BY DEF JL!Cancel
  <1>2. UNCHANGED <<posted, Running, done>>
    BY DEF JL!Cancel
  <1>3. work' = RemoveAt(work, n) /\ n \in 1 .. Len(work) /\ work \in Seq(Nat)
    BY <1>1, LineFacts DEF RemoveAt, JL!RemoveAt, InLine, LineTypes
  <1>4. /\ work' \in Seq(Nat) /\ DOMAIN work' = 1 .. Len(work) - 1
        /\ \A i \in 1 .. Len(work) - 1 : work'[i] = IF i < n THEN work[i] ELSE work[i + 1]
    BY <1>3, RemovedFacts
  <1>5. \A i \in DOMAIN work' :
          /\ i \in Nat /\ i \in DOMAIN work /\ i + 1 \in DOMAIN work
          /\ work'[i] = IF i < n THEN work[i] ELSE work[i + 1]
    BY <1>4, LineFacts
  <1>6. \A i, j \in DOMAIN work' : i < j => work'[i] < work'[j]
    <2>1. TAKE i, j \in DOMAIN work'
    <2>2. HAVE i < j
    <2>3. /\ i \in Nat /\ j \in Nat /\ n \in Nat
          /\ {i, j, i + 1, j + 1} \subseteq DOMAIN work
      BY <1>3, <1>5
    <2>4. CASE j < n
      <3>1. i < n
        BY <2>2, <2>3, <2>4
      <3> QED BY <1>5, <2>2, <2>3, <2>4, <3>1, LineFacts
    <2>5. CASE i < n /\ ~(j < n)
      <3>1. i < j + 1
        BY <2>2, <2>3
      <3> QED BY <1>5, <2>3, <2>5, <3>1, LineFacts
    <2>6. CASE ~(i < n)
      <3>1. i + 1 < j + 1 /\ ~(j < n)
        BY <2>2, <2>3, <2>6
      <3> QED BY <1>5, <2>3, <2>6, <3>1, LineFacts
    <2> QED BY <2>4, <2>5, <2>6
  <1>7. \A i \in DOMAIN work' : work'[i] <= posted /\ \A j \in Running \cup done : j < work'[i]
    BY <1>5, LineFacts
  <1>8. LineTypes'
    BY <1>2, <1>4, LineFacts DEF LineTypes
  <1> QED BY <1>2, <1>6, <1>7, <1>8 DEF InLine, JL!InOrder

LEMMA LineKeeps ==
  ASSUME InLine, [JL!Next]_JL!vars
  PROVE  InLine'
  <1>1. CASE JL!Collect \/ UNCHANGED JL!vars
    <2>1. posted' = posted /\ work' = work /\ Running' \cup done' \subseteq Running \cup done
      BY <1>1 DEF JL!Collect, JL!vars
    <2> QED BY <2>1, SameLine
  <1>2. CASE JL!Discard
    <2>1. posted' = posted /\ Running' = Running /\ work' = <<>> /\ done' = {}
      BY <1>2 DEF JL!Discard
    <2>2. work' \in Seq(Nat) /\ DOMAIN work' = {}
      BY <2>1
    <2> QED BY <2>1, <2>2, LineFacts DEF InLine, LineTypes, JL!InOrder
  <1> QED BY <1>1, <1>2, PostInLine, TurnInLine, CancelInLine DEF JL!Next

LEMMA InitInLine == JL!Init => InLine
  BY DEF JL!Init, InLine, LineTypes, JL!InOrder

\* Jobs are first come, first served, whoever posts them and however many workers
\* there are: the numbers on the list of work grow, and every job that runs or has
\* a result was posted before all that wait.
THEOREM ServedInOrder == Spec => []JL!InOrder
<1>1. InLine /\ [JL!Next]_JL!vars => InLine'
  BY LineKeeps
<1>2. InLine => JL!InOrder
  BY DEF InLine
<1> QED BY <1>1, <1>2, InitInLine, LineImplemented, PTL DEF ImplementsJobLine, JL!Spec

LEMMA LineOnward ==
  ASSUME InLine, [JL!Next]_JL!vars, NEW j \in 1 .. posted
  PROVE  /\ j \notin JL!Range(work) => j \notin JL!Range(work')
         /\ j \notin JL!Range(work) \cup Running => j \notin Running'
         /\ j \notin Running \cup done => j \notin done'
  <1>1. CASE JL!Post
    <2>1. work' = Append(work, posted + 1) /\ UNCHANGED <<Running, done>>
      BY <1>1 DEF JL!Post
    <2>2. \A i \in DOMAIN work' : (i \in DOMAIN work /\ work'[i] = work[i]) \/ work'[i] = posted + 1
      BY <2>1, LineFacts, AppendProperties DEF InLine, LineTypes
    <2>3. j # posted + 1
      BY LineFacts
    <2> QED BY <2>1, <2>2, <2>3 DEF JL!Range
  <1>2. CASE JL!Turn
    <2>1. PICK old \in SUBSET Running, new \in SUBSET JL!Job : JL!Work(old, new)
      BY <1>2 DEF JL!Turn
    <2>2. /\ JL!Started(new) /\ Running' = (Running \ old) \cup new
          /\ done' \in {done, done \cup old}
      BY <2>1 DEF JL!Work
    <2>3. new \subseteq JL!Range(work) /\ JL!Range(work') \subseteq JL!Range(work)
      <3>1. CASE new = {} /\ work' = work
        BY <3>1
      <3>2. CASE work # <<>> /\ new = {Head(work)} /\ work' = Tail(work)
        <4>1. Len(work) \in Nat \ {0} /\ DOMAIN work = 1 .. Len(work)
          BY <3>2, LineFacts, EmptySeq DEF InLine, LineTypes
        <4>2. 1 \in DOMAIN work /\ Head(work) = work[1]
          BY <4>1
        <4>3. /\ work' \in Seq(Nat) /\ Len(work') = Len(work) - 1
              /\ \A i \in 1 .. Len(work') : work'[i] = work[i + 1]
          BY <3>2, HeadTailProperties DEF InLine, LineTypes
        <4>4. DOMAIN work' = 1 .. Len(work')
          BY <4>3, LenProperties
        <4>5. \A i \in DOMAIN work' : i + 1 \in DOMAIN work /\ work'[i] = work[i + 1]
          BY <4>1, <4>3, <4>4
        <4> QED BY <3>2, <4>2, <4>5 DEF JL!Range
      <3> QED BY <2>2, <3>1, <3>2 DEF JL!Started
    <2> QED BY <2>1, <2>2, <2>3
  <1>3. CASE JL!Cancel
    <2>1. PICK n \in DOMAIN work : work' = JL!RemoveAt(work, n)
      BY <1>3 DEF JL!Cancel
    <2>2. work' = RemoveAt(work, n) /\ n \in 1 .. Len(work) /\ work \in Seq(Nat)
      BY <2>1, LineFacts DEF RemoveAt, JL!RemoveAt, InLine, LineTypes
    <2>3. /\ DOMAIN work' = 1 .. Len(work) - 1
          /\ \A i \in 1 .. Len(work) - 1 : work'[i] = IF i < n THEN work[i] ELSE work[i + 1]
      BY <2>2, RemovedFacts
    <2>4. \A i \in DOMAIN work' : i \in DOMAIN work /\ i + 1 \in DOMAIN work
      BY <2>3, LineFacts
    <2>5. JL!Range(work') \subseteq JL!Range(work)
      BY <2>3, <2>4 DEF JL!Range
    <2> QED BY <1>3, <2>5 DEF JL!Cancel
  <1>4. CASE JL!Collect \/ UNCHANGED JL!vars
    BY <1>4 DEF JL!Collect, JL!vars
  <1>5. CASE JL!Discard
    <2>1. JL!Range(work') = {}
      BY <1>5 DEF JL!Discard, JL!Range
    <2> QED BY <1>5, <2>1 DEF JL!Discard
  <1> QED BY <1>1, <1>2, <1>3, <1>4, <1>5 DEF JL!Next

\* No job is run a second time, or has a second result, whoever cancels, collects,
\* waits, suspends or releases meanwhile: it goes from the list of work to a worker
\* and then to jobsDone, and never back.
THEOREM NeverAgain == Spec => JL!Onward
<1>1. InLine /\ [JL!Next]_JL!vars => InLine'
  BY LineKeeps
<1>2. InLine /\ [JL!Next]_JL!vars =>
        [\A j \in 1 .. posted :
           /\ j \notin JL!Range(work) => j \notin JL!Range(work')
           /\ j \notin JL!Range(work) \cup Running => j \notin Running'
           /\ j \notin Running \cup done => j \notin done']_JL!vars
  BY LineOnward
<1> QED BY <1>1, <1>2, InitInLine, LineImplemented, PTL
        DEF ImplementsJobLine, JL!Spec, JL!Onward

-----------------------------------------------------------------------------
(* Waking up the threads that wait for jobs and workers, if two use the    *)
(* pool: the end of a job wakes two, so that of three one may sleep on.    *)

TwoClients == \A c, d, e \in Client : c = d \/ d = e \/ c = e

\* A thread that waits for a job that is done has been told.
WaitHeard == "failures" \notin opts.uses => \A c \in Client :
    pc[c] = "wait" /\ target[c] \in done => stops[c] = 1

\* Where jobs are neither cancelled nor shared, a thread that waits to post a job
\* has been told, or it will be: by a worker that is about to come by, or by one
\* that the job of the other thread wakes up.
PostHeard == Only({"commands"}) => \A c \in Client :
    pc[c] \in {"post", "nowait"} =>
        \/ stops[c] = 1
        \/ \E w \in Worker : wpc[w] \in {"start", "run"} \/ (work # <<>> /\ w \in awake \cap Idle)
        \/ \E d \in Client : pc[d] \in {"post", "nowait"} /\ stops[d] = 1

LEMMA ShortList ==
  ASSUME TwoClients, Types, Listed, "failures" \notin opts.uses
  PROVE  waiters \in Seq(Client) /\ Len(waiters) \in Nat /\ Len(waiters) <= 2
  <1>1. /\ waiters \in Seq(Client) /\ Len(waiters) \in Nat /\ DOMAIN waiters = 1 .. Len(waiters)
        /\ \A i \in DOMAIN waiters : waiters[i] \in Client
    BY DEF Types, WaitTypes
  <1>2. ASSUME Len(waiters) > 2 PROVE FALSE
    <2>1. 1 \in DOMAIN waiters /\ 2 \in DOMAIN waiters /\ 3 \in DOMAIN waiters
      BY <1>1, <1>2
    <2>2. waiters[1] = waiters[2] \/ waiters[2] = waiters[3] \/ waiters[1] = waiters[3]
      BY <1>1, <2>1 DEF TwoClients
    <2>3. 1 = 2 \/ 2 = 3 \/ 1 = 3
      BY <2>1, <2>2 DEF Listed
    <2> QED BY <2>3
  <1> QED BY <1>1, <1>2

\* Nobody is left on the list whose job is done.
Woken == "failures" \notin opts.uses => \A c \in Client :
    pc[c] = "wait" /\ target[c] \in done => c \notin Range(waiters)

\* What the steps of a client c do to those who wait.
LEMMA MovesWoken ==
  ASSUME Types, Woken, NEW c \in Client, NEW p, pc' = [pc EXCEPT ![c] = p],
         p # "wait" \/ target'[c] \notin done,
         \A d \in Client \ {c} : target'[d] = target[d],
         done' \subseteq done, Range(waiters') \subseteq Range(waiters) \cup {c}, opts' = opts
  PROVE  Woken'
  BY DEF Woken, Types, ClientTypes

LEMMA SameWoken ==
  ASSUME Woken, UNCHANGED <<opts, pc, target>>, done' \subseteq done,
         Range(waiters') \subseteq Range(waiters)
  PROVE  Woken'
  BY DEF Woken

LEMMA PushRange ==
  ASSUME Types, NEW c \in Client, NEW p, PushWaiter(c, p)
  PROVE  /\ Range(waiters') \subseteq Range(waiters) \cup {c}
         /\ pc' = [pc EXCEPT ![c] = "broken"] \/ pc' = [pc EXCEPT ![c] = p]
  <1>1. waiters \in Seq(Client)
    BY DEF Types, WaitTypes
  <1>2. CASE waiters' = Append(waiters, c)
    <2>1. /\ DOMAIN waiters' = 1 .. Len(waiters) + 1 /\ DOMAIN waiters = 1 .. Len(waiters)
          /\ Len(waiters) \in Nat
          /\ \A i \in 1 .. Len(waiters) : waiters'[i] = waiters[i]
          /\ waiters'[Len(waiters) + 1] = c
      BY <1>1, <1>2, AppendProperties, LenProperties
    <2>2. \A i \in DOMAIN waiters' : i \in DOMAIN waiters \/ i = Len(waiters) + 1
      BY <2>1
    <2> QED BY <2>1, <2>2 DEF PushWaiter, Range
  <1>3. CASE waiters' = waiters
    BY <1>3 DEF PushWaiter
  <1> QED BY <1>2, <1>3 DEF PushWaiter, waitVars

LEMMA WorkerWoken ==
  ASSUME TwoClients, Types, Listed, Woken, NEW w \in Worker, Start(w) \/ Finish(w) \/ Wake(w)
  PROVE  Woken'
  <1>1. UNCHANGED <<opts, pc, target>>
    BY DEF Start, Finish, Wake, poolVars, clientVars
  <1> SUFFICES ASSUME "failures" \notin opts.uses PROVE Woken'
    BY <1>1 DEF Woken
  <1>2. waiters \in Seq(Client) /\ Len(waiters) <= 2
    BY ShortList
  <1>3. ASSUME SignalWaiter(1) PROVE Range(waiters') \subseteq Range(waiters)
    BY <1>2, <1>3, SignalShortens
  <1>4. ASSUME SignalWaiter(2) PROVE Range(waiters') = {}
    BY <1>2, <1>4, SignalShortens
  <1>5. CASE done' = done /\ (SignalWaiter(1) \/ UNCHANGED waitVars)
    BY <1>1, <1>3, <1>5, SameWoken DEF waitVars
  <1>6. CASE SignalWaiter(2)
    BY <1>4, <1>6 DEF Woken
  <1>7. \/ done' = done /\ (SignalWaiter(1) \/ UNCHANGED waitVars)
        \/ SignalWaiter(2)
    BY DEF Start, Finish, Wake, SleepOn, Retire, LookAgain
  <1> QED BY <1>5, <1>6, <1>7

LEMMA PostWoken ==
  ASSUME Types, Woken, NEW c \in Client, Post(c) \/ PostNowait(c)
  PROVE  Woken'
  <1>1. opts' = opts /\ done' = done
    BY PostEffect DEF poolVars
  <1>2. \/ \E d : Posted(c, d)
        \/ \E d, b : AwaitWorker(c, d, "post", b)
        \/ \E d, b : AwaitWorker(c, d, "nowait", b)
    BY Zenon DEF Post, PostNowait
  <1>3. CASE \E d : Posted(c, d)
    <2>1. /\ pc' = [pc EXCEPT ![c] = "ready"] /\ target' = [target EXCEPT ![c] = 0]
          /\ waiters' = waiters
      BY <1>3, Zenon DEF Posted, Returns
    <2>2. \A d \in Client \ {c} : target'[d] = target[d]
      BY <2>1 DEF Types, ClientTypes
    <2> QED BY <1>1, <2>1, <2>2, MovesWoken
  <1>4. ASSUME NEW d, NEW p \in {"post", "nowait"}, NEW b, AwaitWorker(c, d, p, b)
        PROVE  Woken'
    <2>1. PushWaiter(c, p) \/ PushWaiter(c, "ready")
      BY <1>4, Zenon DEF AwaitWorker, NotStarted
    <2>2. PICK q \in {p, "ready"} : PushWaiter(c, q)
      BY <2>1
    <2>3. target' = target
      BY <1>4 DEF AwaitWorker
    <2>4. PICK r \in {"broken", "ready", "post", "nowait"} : pc' = [pc EXCEPT ![c] = r]
      BY <2>2, PushRange
    <2>5. Range(waiters') \subseteq Range(waiters) \cup {c}
      BY <2>2, PushRange
    <2>6. r # "wait"
      OBVIOUS
    <2> QED BY <1>1, <2>3, <2>4, <2>5, <2>6, MovesWoken
  <1>5. CASE \E d, b : AwaitWorker(c, d, "post", b)
    BY <1>4, <1>5
  <1>6. CASE \E d, b : AwaitWorker(c, d, "nowait", b)
    BY <1>4, <1>6
  <1> QED BY <1>2, <1>3, <1>5, <1>6, Zenon

LEMMA WaitWoken ==
  ASSUME Types, Woken, NEW c \in Client, Wait(c)
  PROVE  Woken'
  <1>1. opts' = opts /\ done' = done
    BY DEF Wait, poolVars, jobVars
  <1>2. PICK j \in 1 .. posted :
          IF j \in done
            THEN Returns(c, "ready") /\ UNCHANGED waiters
            ELSE /\ PushWaiter(c, "wait")
                 /\ target' = [target EXCEPT ![c] = j] /\ quiet' = quiet
    BY DEF Wait
  <1>3. target \in [Client -> 0 .. MaxJobs]
    BY DEF Types, ClientTypes
  <1>4. CASE j \in done
    <2>1. /\ pc' = [pc EXCEPT ![c] = "ready"] /\ target' = [target EXCEPT ![c] = 0]
          /\ waiters' = waiters
      BY <1>2, <1>4 DEF Returns
    <2>2. \A d \in Client \ {c} : target'[d] = target[d]
      BY <1>3, <2>1
    <2> QED BY <1>1, <2>1, <2>2, MovesWoken
  <1>5. CASE j \notin done
    <2>1. PushWaiter(c, "wait") /\ target' = [target EXCEPT ![c] = j]
      BY <1>2, <1>5
    <2>2. target'[c] = j /\ \A d \in Client \ {c} : target'[d] = target[d]
      BY <1>3, <2>1
    <2>3. PICK r \in {"broken", "wait"} : pc' = [pc EXCEPT ![c] = r]
      BY <2>1, PushRange
    <2>4. Range(waiters') \subseteq Range(waiters) \cup {c}
      BY <2>1, PushRange
    <2> QED BY <1>1, <1>5, <2>2, <2>3, <2>4, MovesWoken
  <1> QED BY <1>4, <1>5

\* Whoever enters or leaves the pool, takes it down, or cancels, waits for no job.
LEMMA LeaveWoken ==
  ASSUME Types, Woken, NEW c \in Client,
         Create(c) \/ TpoolReserve(c) \/ TpoolRelease(c) \/ Cancel(c)
  PROVE  Woken'
  <1>1. CASE Dismantle(c) /\ Survivors
    <2>1. PushWaiter(c, "release") /\ UNCHANGED <<opts, done, target>>
      BY <1>1 DEF Dismantle
    <2>2. PICK r \in {"broken", "release"} : pc' = [pc EXCEPT ![c] = r]
      BY <2>1, PushRange
    <2>3. Range(waiters') \subseteq Range(waiters) \cup {c}
      BY <2>1, PushRange
    <2> QED BY <2>1, <2>2, <2>3, MovesWoken
  <1>2. CASE Dismantle(c) /\ ~Survivors
    BY <1>2 DEF Dismantle, Woken
  <1>3. CASE ~Dismantle(c)
    <2>1. /\ UNCHANGED <<opts, done, target, waiters>>
          /\ pc' = pc \/ \E p \in {"ready", "out", "create", "holding"} : pc' = [pc EXCEPT ![c] = p]
      BY <1>3, Zenon DEF Create, TpoolReserve, TpoolRelease, Cancel, poolVars, jobVars, clientVars,
                         waitVars
    <2>2. CASE pc' = pc
      BY <2>1, <2>2, SameWoken
    <2>3. CASE \E p \in {"ready", "out", "create", "holding"} : pc' = [pc EXCEPT ![c] = p]
      BY <2>1, <2>3, MovesWoken
    <2> QED BY <2>1, <2>2, <2>3
  <1> QED BY <1>1, <1>2, <1>3

LEMMA NextWoken ==
  ASSUME TwoClients, Types, Listed, Woken, [Next]_vars
  PROVE  Woken'
  <1>1. ASSUME NEW w \in Worker, Start(w) \/ Finish(w) \/ Wake(w) PROVE Woken'
    BY <1>1, WorkerWoken
  <1>2. ASSUME UNCHANGED <<opts, pc, target, waiters>>, done' \subseteq done PROVE Woken'
    BY <1>2, SameWoken
  <1>3. ASSUME NEW c \in Client, ClientStep(c) PROVE Woken'
    <2>1. CASE Post(c) \/ PostNowait(c) \/ Wait(c)
      BY <2>1, PostWoken, WaitWoken
    <2>2. CASE Create(c) \/ TpoolReserve(c) \/ TpoolRelease(c) \/ Cancel(c)
      BY <2>2, LeaveWoken
    <2>3. CASE TpoolSuspend(c) \/ TpoolResume(c) \/ Get(c) \/ RunStopEvent(c)
      BY <1>2, <2>3 DEF TpoolSuspend, TpoolResume, Get, RunStopEvent,
                        poolVars, jobVars, clientVars, waitVars
    <2> QED BY <1>3, <2>1, <2>2, <2>3 DEF ClientStep
  <1>4. ASSUME UNCHANGED vars PROVE Woken'
    BY <1>2, <1>4 DEF vars, poolVars, jobVars, clientVars, waitVars
  <1> QED BY <1>1, <1>3, <1>4 DEF Next

\* tpool::wait does not miss the end of its job, whichever workers end others at the
\* same time, for two threads and any number of workers and jobs.
THEOREM WaitIsHeard ==
  ASSUME TwoClients
  PROVE  Spec => []WaitHeard
<1>1. Init => Woken
  BY DEF Init, Woken
<1>2. Types /\ Listed /\ Woken /\ [Next]_vars => Woken'
  BY NextWoken
<1>3. Listed /\ Woken => WaitHeard
  BY DEF Listed, WaitersListed, Woken, WaitHeard, Waiting
<1> QED BY InitTypes, NextTypes, InitReferences, NextReferences, InitListed, NextListed,
           <1>1, <1>2, <1>3, PTL DEF Spec

\* The pools that PostHeard is about.
LEMMA OnlyCommands ==
  ASSUME Only({"commands"})
  PROVE  /\ "failures" \notin opts.uses /\ "cancel" \notin opts.uses
         /\ "malformed" \notin opts.uses
         /\ "suspend" \notin opts.uses /\ "sharing" \notin opts.uses
         /\ "idletime" \notin opts.uses
  BY DEF Only

Kept == Range(work) \cup Running \cup done

\* A thread waits for a job that it posted itself and that is still there.
Own == Only({"commands"}) =>
    /\ ~suspend
    /\ \A c \in Client : pc[c] = "wait" =>
         /\ target[c] \in 1 .. posted /\ owner[target[c]] = c
         /\ target[c] \in Kept \ detached

\* Somebody will send a stop event to who waits for a worker.
Hope ==
    \/ \E w \in Worker : wpc[w] \in {"start", "run"} \/ (work # <<>> /\ w \in awake \cap Idle)
    \/ \E d \in Client : pc[d] \in {"post", "nowait"} /\ d \notin Range(waiters)

Hopeful == Only({"commands"}) => \A c \in Client :
    pc[c] \in {"post", "nowait"} /\ c \in Range(waiters) => Hope

\* A job that is not detached is there as long as nobody cancels or collects it.
LEMMA TurnKeepsJobs ==
  ASSUME Inv, NEW w \in Worker, Start(w) \/ Finish(w) \/ Wake(w), NEW j \in Kept \ detached
  PROVE  j \in Kept'
  <1>1. PICK s \in WorkerState, k \in 0 .. MaxJobs : Takes(w, s, k)
    BY WorkerTakes DEF Inv
  <1>2. /\ wpc \in [Worker -> WorkerState] /\ job \in [Worker -> 0 .. MaxJobs]
        /\ work \in Seq(Job)
    BY WorkFacts DEF Inv
  <1>3. done \subseteq done' /\ (w \in Busy /\ job[w] \notin detached => job[w] \in done')
    BY DEF Start, Finish, Wake, Busy, Idle
  <1>4. CASE j \in Range(work)
    <2>1. PICK i \in DOMAIN work : work[i] = j
      BY <1>4 DEF Range
    <2>2. CASE s = "run"
      <3>1. work # <<>> /\ k = Head(work) /\ work' = Tail(work)
        BY <1>1, <2>2 DEF Takes
      <3>2. DOMAIN work = 1 .. Len(work) /\ Len(work) \in Nat \ {0} /\ Head(work) = work[1]
        BY <1>2, <3>1, EmptySeq, LenProperties
      <3>3. CASE i = 1
        <4>1. w \in Busy' /\ job'[w] = j
          BY <1>1, <1>2, <2>1, <2>2, <3>1, <3>2, <3>3 DEF Takes, Busy
        <4> QED BY <4>1 DEF Kept, Running
      <3>4. CASE i # 1
        <4>1. /\ work' \in Seq(Job) /\ Len(work') = Len(work) - 1
              /\ \A m \in 1 .. Len(work') : work'[m] = work[m + 1]
          BY <1>2, <3>1, HeadTailProperties
        <4>2. DOMAIN work' = 1 .. Len(work')
          BY <4>1, LenProperties
        <4>3. i - 1 \in DOMAIN work' /\ (i - 1) + 1 = i
          BY <2>1, <3>2, <3>4, <4>1, <4>2
        <4>4. work'[i - 1] = j
          BY <2>1, <4>1, <4>2, <4>3
        <4> QED BY <4>3, <4>4 DEF Kept, Range
      <3> QED BY <3>3, <3>4
    <2>3. CASE s # "run"
      <3>1. work' = work
        BY <1>1, <2>3 DEF Takes
      <3> QED BY <1>4, <3>1 DEF Kept
    <2> QED BY <2>2, <2>3
  <1>5. CASE j \in Running
    <2>1. PICK u \in Busy : job[u] = j
      BY <1>5 DEF Running
    <2>2. CASE u = w
      BY <1>3, <2>1, <2>2 DEF Kept
    <2>3. CASE u # w
      <3>1. u \in Busy' /\ job'[u] = j
        BY <1>1, <1>2, <2>1, <2>3 DEF Takes, Busy
      <3> QED BY <3>1 DEF Kept, Running
    <2> QED BY <2>2, <2>3
  <1>6. CASE j \in done
    BY <1>3, <1>6 DEF Kept
  <1> QED BY <1>4, <1>5, <1>6 DEF Kept

\* The steps of a client that waits for no job, and takes none away.
LEMMA SameOwn ==
  ASSUME Types, Own, NEW c \in Client, NEW p, p # "wait", pc' = [pc EXCEPT ![c] = p],
         \A d \in Client \ {c} : target'[d] = target[d],
         UNCHANGED <<opts, owner, detached>>, Kept \subseteq Kept', suspend' \in {FALSE, suspend}
  PROVE  Own'
  <1>1. posted' = posted /\ pc \in [Client -> Place]
    BY DEF posted, Types, ClientTypes
  <1>2. \A d \in Client : pc'[d] = "wait" => d # c /\ pc[d] = "wait"
    BY <1>1
  <1> QED BY <1>1, <1>2 DEF Own, Only

LEMMA StillOwn ==
  ASSUME Own, UNCHANGED <<opts, pc, target, owner, detached>>,
         \A j \in Kept \ detached : j \in Kept', suspend' \in {FALSE, suspend}
  PROVE  Own'
  BY DEF Own, Only, posted

LEMMA PostedOwn ==
  ASSUME Types, Own, NEW c \in Client, NEW d, Posted(c, d)
  PROVE  Own'
  <1> SUFFICES ASSUME Only({"commands"}) PROVE Own'
    BY DEF Own, Only, Posted, poolVars
  <1>1. /\ owner' = Append(owner, c) /\ detached' \subseteq detached \cup {posted + 1}
        /\ work' = Append(work, posted + 1) /\ UNCHANGED <<opts, suspend, done, wpc, job>>
        /\ pc' = [pc EXCEPT ![c] = "ready"] /\ target' = [target EXCEPT ![c] = 0]
    BY DEF Posted, PushWork, Queued, Returns, poolVars
  <1>2. /\ owner \in Seq(Client) /\ work \in Seq(Job) /\ pc \in [Client -> Place]
        /\ target \in [Client -> 0 .. MaxJobs] /\ posted \in Nat /\ posted = Len(owner)
    BY DEF Types, JobTypes, ClientTypes, posted
  <1>3. posted' = posted + 1 /\ \A j \in 1 .. posted : owner'[j] = owner[j]
    BY <1>1, <1>2, AppendProperties DEF posted
  <1>4. Range(work) \subseteq Range(work')
    <2>1. \A i \in DOMAIN work : i \in DOMAIN work' /\ work'[i] = work[i]
      <3>1. /\ work' \in Seq(Job \cup {posted + 1}) /\ work \in Seq(Job \cup {posted + 1})
            /\ Len(work') = Len(work) + 1 /\ Len(work) \in Nat
            /\ \A i \in 1 .. Len(work) : work'[i] = work[i]
        <4>1. work \in Seq(Job \cup {posted + 1})
          BY <1>2
        <4> QED BY <1>1, <4>1, AppendProperties
      <3>2. DOMAIN work = 1 .. Len(work) /\ DOMAIN work' = 1 .. Len(work')
        BY <3>1, LenProperties
      <3> QED BY <3>1, <3>2
    <2> QED BY <2>1 DEF Range
  <1>5. Running' = Running
    BY <1>1 DEF Running, Busy
  <1>6. \A e \in Client : pc'[e] = "wait" => pc[e] = "wait" /\ target'[e] = target[e]
    BY <1>1, <1>2
  <1>7. \A j \in 1 .. posted : j # posted + 1 /\ j \in 1 .. posted + 1
    BY <1>2
  <1>8. Kept \subseteq Kept'
    BY <1>1, <1>4, <1>5 DEF Kept
  <1>9. ASSUME NEW e \in Client, pc'[e] = "wait"
        PROVE  /\ target'[e] \in 1 .. posted' /\ owner'[target'[e]] = e
               /\ target'[e] \in Kept' \ detached'
    <2>1. PICK j : j = target[e]
      OBVIOUS
    <2>2. j \in 1 .. posted /\ owner[j] = e /\ j \in Kept \ detached /\ target'[e] = j
      BY <1>6, <1>9, <2>1 DEF Own
    <2> QED BY <1>1, <1>3, <1>7, <1>8, <2>2
  <1> QED BY <1>1, <1>9 DEF Own

LEMMA AwaitEffect ==
  ASSUME Types, NEW c \in Client, NEW d, NEW p \in {"post", "nowait"}, NEW b,
         AwaitWorker(c, d, p, b)
  PROVE  /\ \E r \in {"broken", "ready", "post", "nowait"} : pc' = [pc EXCEPT ![c] = r]
         /\ UNCHANGED <<poolVars, jobVars, target>> /\ Running' = Running
         /\ UNCHANGED workerVars \/ \E w \in Worker : CreateWorker(w)
  <1>1. PushWaiter(c, p) \/ PushWaiter(c, "ready")
    BY Zenon DEF AwaitWorker, NotStarted
  <1>2. PICK q \in {p, "ready"} : PushWaiter(c, q)
    BY <1>1
  <1>3. \E r \in {"broken", "ready", "post", "nowait"} : pc' = [pc EXCEPT ![c] = r]
    BY <1>2, PushRange
  <1>4. UNCHANGED workerVars \/ \E w \in Worker : CreateWorker(w)
    BY Zenon DEF AwaitWorker, NotStarted
  <1>5. CASE UNCHANGED workerVars
    BY <1>3, <1>5 DEF AwaitWorker, workerVars, Running, Busy
  <1>6. CASE \E w \in Worker : CreateWorker(w)
    <2>1. Busy' = Busy /\ job' = job
      BY <1>6, CreateWorkerJobs
    <2> QED BY <1>3, <1>6, <2>1 DEF AwaitWorker, Running
  <1> QED BY <1>4, <1>5, <1>6

LEMMA PostCases ==
  ASSUME NEW c \in Client, Post(c) \/ PostNowait(c)
  PROVE  \/ \E d : Posted(c, d)
         \/ \E d, b : AwaitWorker(c, d, "post", b)
         \/ \E d, b : AwaitWorker(c, d, "nowait", b)
  BY Zenon DEF Post, PostNowait

LEMMA PostOwn ==
  ASSUME Types, Own, NEW c \in Client, Post(c) \/ PostNowait(c)
  PROVE  Own'
  <1>1. ASSUME NEW d, NEW p \in {"post", "nowait"}, NEW b, AwaitWorker(c, d, p, b)
        PROVE  Own'
    <2>1. PICK r \in {"broken", "ready", "post", "nowait"} : pc' = [pc EXCEPT ![c] = r]
      BY <1>1, AwaitEffect
    <2>2. UNCHANGED <<opts, suspend, owner, detached, work, done, target>> /\ Running' = Running
      BY <1>1, AwaitEffect DEF poolVars, jobVars
    <2>3. Kept' = Kept
      BY <2>2 DEF Kept
    <2>4. r # "wait"
      OBVIOUS
    <2> QED BY <2>1, <2>2, <2>3, <2>4, SameOwn
  <1>2. CASE \E d : Posted(c, d)
    BY <1>2, PostedOwn
  <1>3. CASE \E d, b : AwaitWorker(c, d, "post", b)
    BY <1>1, <1>3
  <1>4. CASE \E d, b : AwaitWorker(c, d, "nowait", b)
    BY <1>1, <1>4
  <1> QED BY <1>2, <1>3, <1>4, PostCases

LEMMA WaitOwn ==
  ASSUME Types, Own, NEW c \in Client, Wait(c)
  PROVE  Own'
  <1> SUFFICES ASSUME Only({"commands"}) PROVE Own'
    BY DEF Own, Only, Wait, poolVars
  <1>0. /\ UNCHANGED <<opts, suspend, owner, detached, work, done, wpc, job>>
        /\ pc \in [Client -> Place] /\ target \in [Client -> 0 .. MaxJobs]
    BY DEF Wait, poolVars, jobVars, workerVars, Types, ClientTypes
  <1>1. Kept' = Kept /\ posted' = posted
    BY <1>0 DEF Kept, Running, Busy, posted
  <1>2. PICK j \in 1 .. posted :
          /\ \/ Calls(c) /\ Knows(c, j)
             \/ Resumes(c, "wait") /\ target[c] = j
          /\ IF j \in done
               THEN Returns(c, "ready") /\ UNCHANGED waiters
               ELSE /\ PushWaiter(c, "wait")
                    /\ target' = [target EXCEPT ![c] = j] /\ quiet' = quiet
    BY DEF Wait
  <1>3. owner[j] = c /\ j \in Kept \ detached
    <2>1. CASE Calls(c) /\ Knows(c, j)
      BY <2>1, OnlyCommands DEF Knows, Kept
    <2>2. CASE Resumes(c, "wait") /\ target[c] = j
      BY <2>2 DEF Own, Resumes
    <2> QED BY <1>2, <2>1, <2>2
  <1>4. \A d \in Client : pc'[d] = "wait" =>
          (d # c /\ pc[d] = "wait" /\ target'[d] = target[d]) \/ (d = c /\ target'[d] = j)
    <2>1. CASE j \in done
      <3>1. pc' = [pc EXCEPT ![c] = "ready"] /\ target' = [target EXCEPT ![c] = 0]
        BY <1>2, <2>1 DEF Returns
      <3> QED BY <1>0, <3>1
    <2>2. CASE j \notin done
      <3>1. PushWaiter(c, "wait") /\ target' = [target EXCEPT ![c] = j]
        BY <1>2, <2>2
      <3>2. PICK r \in {"broken", "wait"} : pc' = [pc EXCEPT ![c] = r]
        BY <3>1, PushRange
      <3> QED BY <1>0, <3>1, <3>2
    <2> QED BY <2>1, <2>2
  <1> QED BY <1>0, <1>1, <1>2, <1>3, <1>4 DEF Own

\* A thread collects its own jobs only, and none while it waits.
LEMMA GetOwn ==
  ASSUME Types, Own, NEW c \in Client, Get(c)
  PROVE  Own'
  <1> SUFFICES ASSUME Only({"commands"}) PROVE Own'
    BY DEF Own, Only, Get, poolVars
  <1>0. /\ UNCHANGED <<opts, suspend, owner, detached, work, wpc, job, pc, target>>
    BY DEF Get, poolVars, workerVars, clientVars
  <1>1. PICK j \in done : Knows(c, j) /\ done' = done \ {j}
    BY DEF Get
  <1>2. owner[j] = c /\ pc[c] = "ready"
    BY <1>1, OnlyCommands DEF Knows, Get, Calls
  <1>3. \A d \in Client : pc[d] = "wait" => target[d] # j
    BY <1>2 DEF Own
  <1>4. posted' = posted /\ Kept \ {j} \subseteq Kept'
    BY <1>0, <1>1 DEF posted, Kept, Running, Busy
  <1> QED BY <1>0, <1>3, <1>4 DEF Own

LEMMA LeaveOwn ==
  ASSUME Types, Types', References', Own, NEW c \in Client,
         Create(c) \/ TpoolReserve(c) \/ TpoolRelease(c)
  PROVE  Own'
  <1>1. UNCHANGED <<opts, suspend>>
    BY DEF Create, TpoolReserve, TpoolRelease, Dismantle
  <1>2. CASE pool' # "listed"
    <2>1. \A d \in Client : pc'[d] # "wait"
      BY <1>2 DEF References, Types, PoolTypes
    <2> QED BY <1>1, <2>1 DEF Own, Only
  <1>3. CASE pool' = "listed"
    <2>1. ~Dismantle(c)
      BY <1>3 DEF Dismantle
    <2>2. UNCHANGED <<owner, detached, work, done, target, job>>
      BY <2>1 DEF Create, TpoolReserve, TpoolRelease, jobVars, clientVars, workerVars
    <2>3. Running \subseteq Running'
      <3>1. CASE Create(c)
        <4>1. Running = {}
          BY <3>1 DEF Create, Types, NewIsQuiet, Running, Busy, Alive
        <4> QED BY <4>1
      <3>2. CASE wpc' = wpc
        BY <2>2, <3>2 DEF Running, Busy
      <3> QED BY <3>1, <3>2 DEF TpoolReserve, TpoolRelease, workerVars
    <2>4. Kept \subseteq Kept'
      BY <2>2, <2>3 DEF Kept
    <2>5. pc' = pc \/ \E p \in {"ready", "out"} : pc' = [pc EXCEPT ![c] = p]
      <3>1. Create(c) => pc' = pc
        BY <1>3 DEF Create
      <3> QED BY <2>1, <3>1, Zenon DEF TpoolReserve, TpoolRelease
    <2>6. CASE pc' = pc
      BY <1>1, <2>2, <2>4, <2>6, StillOwn
    <2>7. CASE \E p \in {"ready", "out"} : pc' = [pc EXCEPT ![c] = p]
      <3>1. PICK p \in {"ready", "out"} : pc' = [pc EXCEPT ![c] = p]
        BY <2>7
      <3>2. p # "wait"
        OBVIOUS
      <3> QED BY <1>1, <2>2, <2>4, <3>1, <3>2, SameOwn
    <2> QED BY <2>5, <2>6, <2>7
  <1> QED BY <1>2, <1>3

LEMMA NextOwn ==
  ASSUME Inv, Types', References', Own, [Next]_vars
  PROVE  Own'
  <1>1. ASSUME NEW w \in Worker, Start(w) \/ Finish(w) \/ Wake(w) PROVE Own'
    <2>1. UNCHANGED <<opts, pc, target, owner, detached, suspend>>
      BY <1>1 DEF Start, Finish, Wake, poolVars, clientVars
    <2> QED BY <1>1, <2>1, TurnKeepsJobs, StillOwn
  <1>2. ASSUME UNCHANGED <<opts, pc, target, owner, detached, work, done, wpc, job>>,
               suspend' \in {FALSE, suspend}
        PROVE  Own'
    <2>1. Kept' = Kept
      BY <1>2 DEF Kept, Running, Busy
    <2> QED BY <1>2, <2>1, StillOwn
  <1>3. ASSUME NEW c \in Client, ClientStep(c) PROVE Own'
    <2>1. CASE Post(c) \/ PostNowait(c) \/ Wait(c)
      BY <2>1, PostOwn, WaitOwn DEF Inv
    <2>2. CASE Create(c) \/ TpoolReserve(c) \/ TpoolRelease(c)
      BY <2>2, LeaveOwn DEF Inv
    <2>3. CASE TpoolSuspend(c) \/ Cancel(c)
      <3>1. opts' = opts /\ opts.uses \cap {"suspend", "cancel", "malformed"} # {}
        BY <2>3 DEF TpoolSuspend, Cancel, poolVars
      <3> QED BY <3>1, OnlyCommands DEF Own, Only
    <2>4. CASE TpoolResume(c) \/ RunStopEvent(c)
      BY <1>2, <2>4 DEF TpoolResume, RunStopEvent, poolVars, jobVars, workerVars, clientVars
    <2>5. CASE Get(c)
      BY <2>5, GetOwn DEF Inv
    <2> QED BY <1>3, <2>1, <2>2, <2>3, <2>4, <2>5 DEF ClientStep
  <1>4. ASSUME UNCHANGED vars PROVE Own'
    BY <1>2, <1>4 DEF vars, poolVars, jobVars, workerVars, clientVars
  <1> QED BY <1>1, <1>3, <1>4 DEF Next

\* What the next lemmas may use.
Alert == Inv /\ Listed /\ Manned /\ Woken /\ Own /\ Only({"commands"})

\* A worker takes a job, and will come by again, or it tells the first of those who
\* wait; if that one is waiting for a job, another worker runs it.
LEMMA WorkerHopes ==
  ASSUME TwoClients, Alert, Hopeful, pool = "listed",
         NEW w \in Worker, Start(w) \/ Finish(w) \/ Wake(w)
  PROVE  Hopeful'
  <1>0. /\ UNCHANGED <<opts, pool, suspend, pc>> /\ ~TearDown /\ ~suspend /\ tired = {}
        /\ wpc \in [Worker -> WorkerState] /\ waiters \in Seq(Client)
    BY OnlyCommands DEF Start, Finish, Wake, poolVars, clientVars, TearDown, Alert, Own, Manned,
       Inv, Types, Workers, WorkerTypes, WaitTypes
  <1>1. PICK n : Seek(w, n)
    <2>1. CASE Start(w) \/ Finish(w)
      BY <1>0, <2>1 DEF Start, Finish, Turn
    <2>2. CASE Wake(w)
      <3>1. PICK tout \in Tout(w) : SleepOn(w, tout) \/ Retire(w, tout) \/ LookAgain(w, tout)
        BY <2>2 DEF Wake
      <3>2. tout = FALSE
        BY <1>0, OnlyCommands DEF Tout, Alert
      <3> QED BY <1>0, <3>1, <3>2 DEF SleepOn, Retire, LookAgain
    <2> QED BY <2>1, <2>2
  <1>2. CASE work # <<>>
    <2>1. wpc'[w] = "run"
      BY <1>0, <1>1, <1>2 DEF Seek
    <2> QED BY <2>1 DEF Hopeful, Hope
  <1>3. CASE work = <<>>
    <2>1. \A u \in Worker \ {w} : wpc'[u] = wpc[u]
      BY <1>0, <1>1, <1>3 DEF Seek
    <2> SUFFICES ASSUME NEW c \in Client, pc[c] \in {"post", "nowait"}, c \in Range(waiters')
                 PROVE  Hope'
      BY <1>0 DEF Hopeful
    <2>2. CASE Wake(w)
      <3>1. waiters' = waiters /\ wpc[w] \notin {"start", "run"}
        <4>1. PICK tout \in Tout(w) : SleepOn(w, tout) \/ Retire(w, tout) \/ LookAgain(w, tout)
          BY <2>2 DEF Wake
        <4>2. tout = FALSE
          BY <1>0, OnlyCommands DEF Tout, Alert
        <4> QED BY <1>0, <2>2, <4>1, <4>2 DEF SleepOn, Retire, LookAgain, waitVars, Wake, Idle
      <3>2. Hope
        BY <3>1 DEF Hopeful, Alert
      <3> QED BY <1>0, <1>3, <2>1, <3>1, <3>2 DEF Hope
    <2>3. CASE SignalWaiter(2)
      BY <1>0, <2>3, ShortList, SignalShortens, OnlyCommands DEF Alert, Inv
    <2>4. CASE SignalWaiter(1) /\ (wpc[w] = "start" \/ job[w] \in detached)
      <3>1. /\ Range(waiters') \subseteq Range(waiters)
            /\ \A i \in DOMAIN waiters' : 1 + i \in DOMAIN waiters /\ waiters'[i] = waiters[1 + i]
        BY <1>0, <2>4, SignalShortens
      <3>2. PICK i \in DOMAIN waiters' : waiters'[i] = c
        BY DEF Range
      <3>3. /\ DOMAIN waiters = 1 .. Len(waiters) /\ Len(waiters) \in Nat
            /\ \A k \in DOMAIN waiters : waiters[k] \in Client
        BY <1>0
      <3>4. 1 + i \in 1 .. Len(waiters) /\ 1 \in DOMAIN waiters
        <4>1. waiters' \in Seq(Client)
          BY <2>4, SignalKeeps DEF Alert, Inv, Types, WaitTypes
        <4>2. i \in Nat \ {0}
          BY <3>2, <4>1
        <4>3. 1 + i \in 1 .. Len(waiters)
          BY <3>1, <3>2, <3>3
        <4> QED BY <3>3, <4>2, <4>3
      <3>5. PICK d \in Client : d = waiters[1]
        BY <3>3, <3>4
      <3>6. d \in Range(waiters) /\ "failures" \notin opts.uses
        BY <3>4, <3>5, OnlyCommands DEF Range, Alert
      <3>7. pc[d] \in {"post", "nowait", "wait"}
        BY <3>6 DEF Alert, Listed, WaitersListed, Waiting, Inv, References
      <3>8. d \notin Range(waiters')
        <4>1. ASSUME NEW k \in DOMAIN waiters', waiters'[k] = d PROVE FALSE
          <5>1. 1 + k \in DOMAIN waiters /\ waiters[1 + k] = waiters[1]
            BY <3>1, <3>5, <4>1
          <5>2. 1 + k = 1
            BY <3>4, <3>6, <5>1 DEF Alert, Listed
          <5>3. k \in 1 .. Len(waiters')
            <6>1. waiters' \in Seq(Client)
              BY <2>4, SignalKeeps DEF Alert, Inv, Types, WaitTypes
            <6> QED BY <6>1
          <5> QED BY <5>2, <5>3
        <4> QED BY <4>1 DEF Range
      <3>9. CASE pc[d] \in {"post", "nowait"}
        BY <1>0, <3>8, <3>9 DEF Hope
      <3>10. CASE pc[d] = "wait"
        <4>1. target[d] \in Kept \ detached /\ target[d] \notin done
          BY <3>6, <3>10 DEF Alert, Own, Woken
        <4>2. Range(work) = {}
          BY <1>3 DEF Range
        <4>3. PICK u \in Busy : job[u] = target[d]
          BY <4>1, <4>2 DEF Kept, Running
        <4>4. u # w /\ u \in Worker /\ wpc[u] = "run"
          BY <2>4, <4>1, <4>3 DEF Busy
        <4> QED BY <2>1, <4>4 DEF Hope
      <3> QED BY <3>7, <3>9, <3>10
    <2> QED BY <2>2, <2>3, <2>4 DEF Start, Finish
  <1> QED BY <1>2, <1>3

\* Where a job is posted there is a worker for it.
LEMMA PosterFinds ==
  ASSUME Types, Manned, "idletime" \notin opts.uses, NEW c \in Client, pool = "listed",
         Post(c) \/ PostNowait(c)
  PROVE  \/ (\E d : Posted(c, d)) /\ numWorkers > 0
         \/ \E d : AwaitWorker(c, d, "post", numWorkers < opts.max) /\ idleWorkers = 0
         \/ \E d : AwaitWorker(c, d, "nowait", TRUE)
  <1>0. numWorkers \in Nat
    BY DEF Types, Workers, WorkerTypes
  <1>1. idleWorkers # 0 => numWorkers > 0
    <2>1. Idle \subseteq Alive /\ IsFiniteSet(Alive) /\ IsFiniteSet(Idle)
      BY WorkersFinite DEF Idle, Alive
    <2>2. Cardinality(Idle) <= Cardinality(Alive)
      BY <2>1, FS_Subset
    <2> QED BY <2>2 DEF Types, Workers, WorkerTypes, CountersMatch
  <1>2. pc[c] = "nowait" => numWorkers > 0
    BY DEF Manned, TearDown
  <1>3. \/ idleWorkers # 0 /\ \E d : Posted(c, d)
        \/ \E d : AwaitWorker(c, d, "post", numWorkers < opts.max) /\ idleWorkers = 0
        \/ (numWorkers # 0 \/ pc[c] = "nowait") /\ \E d : Posted(c, d)
        \/ \E d : AwaitWorker(c, d, "nowait", TRUE)
    BY Zenon DEF Post, PostNowait, Resumes
  <1>4. numWorkers # 0 => numWorkers > 0
    BY <1>0
  <1> QED BY <1>1, <1>2, <1>3, <1>4, Zenon

LEMMA PostHopes ==
  ASSUME Alert, pool = "listed", NEW c \in Client, Post(c) \/ PostNowait(c)
  PROVE  Hopeful'
  <1>0. /\ Types /\ wpc \in [Worker -> WorkerState] /\ opts.max >= 1 /\ opts.max \in Nat
        /\ numWorkers \in Nat /\ work \in Seq(Job)
        /\ "failures" \notin opts.uses /\ "idletime" \notin opts.uses
    BY OptionFacts, OnlyCommands DEF Alert, Inv, Types, Workers, WorkerTypes, JobTypes
  <1>1. ASSUME NEW d, Posted(c, d), numWorkers > 0 PROVE Hope'
    <2>1. work' = Append(work, posted + 1) /\ awake' = Idle /\ wpc' = wpc
      BY <1>1 DEF Posted, PushWork, Queued, Notify
    <2>2. work' # <<>> /\ Idle' = Idle
      BY <1>0, <2>1 DEF Idle
    <2> QED BY <1>0, <1>1, <2>1, <2>2, SomeWorker DEF Hope
  <1>2. ASSUME NEW w \in Worker, CreateWorker(w) PROVE Hope'
    <2>1. wpc'[w] = "start"
      BY <1>0, <1>2 DEF CreateWorker
    <2> QED BY <2>1 DEF Hope
  <1>3. ASSUME NEW d, AwaitWorker(c, d, "nowait", TRUE) PROVE Hope'
    <2>1. \E w \in Worker : CreateWorker(w)
      BY <1>0, <1>3 DEF AwaitWorker, NotStarted
    <2> QED BY <1>2, <2>1
  <1>4. ASSUME NEW d, AwaitWorker(c, d, "post", numWorkers < opts.max), idleWorkers = 0
        PROVE  Hope'
    <2>1. CASE numWorkers < opts.max
      <3>1. \E w \in Worker : CreateWorker(w)
        BY <1>0, <1>4, <2>1 DEF AwaitWorker, NotStarted
      <3> QED BY <1>2, <3>1
    <2>2. CASE ~(numWorkers < opts.max)
      <3>1. wpc' = wpc
        BY <1>4, <2>2 DEF AwaitWorker, workerVars
      <3>2. numWorkers > 0
        BY <1>0, <2>2
      <3>3. Idle = {}
        BY <1>0, <1>4, WorkersFinite, FS_EmptySet DEF Types, Workers, CountersMatch
      <3> QED BY <1>0, <3>1, <3>2, <3>3, SomeWorker DEF Hope
    <2> QED BY <2>1, <2>2
  <1>5. Hope'
    BY <1>0, <1>1, <1>3, <1>4, PosterFinds DEF Alert
  <1> QED BY <1>5 DEF Hopeful

\* The steps of a client that does not post.
LEMMA OtherHopes ==
  ASSUME Types, Hopeful, NEW c \in Client, NEW p,
         pc[c] \notin {"post", "nowait"}, p \notin {"post", "nowait"}, pc' = [pc EXCEPT ![c] = p],
         Range(waiters') \subseteq Range(waiters) \cup {c},
         UNCHANGED <<opts, wpc, work>>, awake' \in {awake, Idle}
  PROVE  Hopeful'
  <1> SUFFICES ASSUME Only({"commands"}), NEW e \in Client,
                      pc'[e] \in {"post", "nowait"}, e \in Range(waiters')
               PROVE  Hope'
    BY DEF Hopeful, Only
  <1>1. pc \in [Client -> Place] /\ Idle' = Idle
    BY DEF Types, ClientTypes, Idle
  <1>2. e # c /\ pc[e] \in {"post", "nowait"} /\ e \in Range(waiters)
    BY <1>1
  <1>3. Hope
    BY <1>2 DEF Hopeful
  <1>4. CASE \E w \in Worker : wpc[w] \in {"start", "run"} \/ (work # <<>> /\ w \in awake \cap Idle)
    BY <1>1, <1>4 DEF Hope
  <1>5. ASSUME NEW d \in Client, pc[d] \in {"post", "nowait"}, d \notin Range(waiters)
        PROVE  Hope'
    <2>1. d # c /\ pc'[d] = pc[d] /\ d \notin Range(waiters')
      BY <1>1, <1>5
    <2> QED BY <1>5, <2>1 DEF Hope
  <1> QED BY <1>3, <1>4, <1>5 DEF Hope

LEMMA NextHopes ==
  ASSUME TwoClients, Inv, Types', References', Listed, Manned, Woken, Own, Hopeful, [Next]_vars
  PROVE  Hopeful'
  <1> SUFFICES ASSUME Only({"commands"}), pool' = "listed" PROVE Hopeful'
    <2>1. opts' = opts
      BY DEF Next, vars, ClientStep, Create, Dismantle, TpoolReserve, TpoolRelease, TpoolSuspend,
             TpoolResume, Wait, Cancel, Get, RunStopEvent, Post, PostNowait, AwaitWorker, Posted,
             Start, Finish, Wake, poolVars
    <2>2. ASSUME pool' # "listed" PROVE Hopeful'
      <3>1. \A c \in Client : pc'[c] \notin {"post", "nowait"}
        BY <2>2 DEF References, Types, PoolTypes
      <3> QED BY <3>1 DEF Hopeful
    <2> QED BY <2>1, <2>2 DEF Hopeful, Only
  <1>0. Alert /\ Types
    BY DEF Alert, Inv
  <1>1. ASSUME NEW w \in Worker, Start(w) \/ Finish(w) \/ Wake(w) PROVE Hopeful'
    <2>1. pool' = pool
      BY <1>1 DEF Start, Finish, Wake, poolVars
    <2> QED BY <1>0, <1>1, <2>1, WorkerHopes
  <1>2. ASSUME UNCHANGED <<opts, pc, waiters, wpc, work>>, awake' \in {awake, Idle}
        PROVE  Hopeful'
    <2>1. Idle' = Idle
      BY <1>2 DEF Idle
    <2> QED BY <1>2, <2>1 DEF Hopeful, Hope, Only
  <1>3. ASSUME NEW c \in Client, ClientStep(c) PROVE Hopeful'
    <2>1. CASE Post(c) \/ PostNowait(c)
      <3>1. pool' = pool
        BY <2>1, PostEffect, <1>0 DEF poolVars
      <3> QED BY <1>0, <2>1, <3>1, PostHopes
    <2>2. CASE Wait(c)
      <3>1. /\ pc[c] \notin {"post", "nowait"} /\ UNCHANGED <<opts, wpc, work>> /\ awake' = awake
            /\ (Returns(c, "ready") /\ UNCHANGED waiters) \/ PushWaiter(c, "wait")
        BY <2>2 DEF Wait, Calls, Resumes, poolVars, jobVars, workerVars
      <3>2. CASE Returns(c, "ready") /\ UNCHANGED waiters
        <4>1. pc' = [pc EXCEPT ![c] = "ready"]
          BY <3>2 DEF Returns
        <4> QED BY <1>0, <3>1, <3>2, <4>1, OtherHopes
      <3>3. CASE PushWaiter(c, "wait")
        <4>1. PICK r \in {"broken", "wait"} : pc' = [pc EXCEPT ![c] = r]
          BY <1>0, <3>3, PushRange
        <4>2. Range(waiters') \subseteq Range(waiters) \cup {c} /\ r \notin {"post", "nowait"}
          BY <1>0, <3>3, PushRange
        <4> QED BY <1>0, <3>1, <4>1, <4>2, OtherHopes
      <3> QED BY <3>1, <3>2, <3>3
    <2>3. CASE TpoolReserve(c) \/ TpoolRelease(c)
      <3>1. ~Dismantle(c)
        BY DEF Dismantle
      <3>2. /\ pc[c] \notin {"post", "nowait"} /\ UNCHANGED <<opts, wpc, work, awake, waiters>>
            /\ \E p \in {"ready", "out"} : pc' = [pc EXCEPT ![c] = p]
        BY <2>3, <3>1, Zenon DEF TpoolReserve, TpoolRelease, Calls, Resumes, jobVars, workerVars,
                                 waitVars
      <3>3. PICK p \in {"ready", "out"} : pc' = [pc EXCEPT ![c] = p]
        BY <3>2
      <3>4. p \notin {"post", "nowait"}
        OBVIOUS
      <3> QED BY <1>0, <3>2, <3>3, <3>4, OtherHopes
    <2>4. CASE Create(c)
      <3>1. \A d \in Client : pc[d] = "out"
        BY <1>0, <2>4 DEF Create, Types, NewIsQuiet
      <3>2. pc' = pc
        BY <2>4 DEF Create, Dismantle, clientVars
      <3> QED BY <3>1, <3>2 DEF Hopeful
    <2>5. CASE TpoolSuspend(c) \/ Cancel(c)
      BY <2>5, OnlyCommands DEF TpoolSuspend, Cancel
    <2>6. CASE TpoolResume(c) \/ Get(c) \/ RunStopEvent(c)
      BY <1>2, <2>6 DEF TpoolResume, Get, RunStopEvent, Notify, poolVars, jobVars, workerVars,
                        clientVars, waitVars
    <2> QED BY <1>3, <2>1, <2>2, <2>3, <2>4, <2>5, <2>6 DEF ClientStep
  <1>4. ASSUME UNCHANGED vars PROVE Hopeful'
    BY <1>2, <1>4 DEF vars, poolVars, jobVars, workerVars, clientVars, waitVars
  <1> QED BY <1>1, <1>3, <1>4 DEF Next

LEMMA HopefulIs ==
  ASSUME Listed, Hopeful
  PROVE  PostHeard
  <1> SUFFICES ASSUME Only({"commands"}), NEW c \in Client, pc[c] \in {"post", "nowait"}
               PROVE  \/ stops[c] = 1
                      \/ \E w \in Worker : \/ wpc[w] \in {"start", "run"}
                                           \/ work # <<>> /\ w \in awake \cap Idle
                      \/ \E d \in Client : pc[d] \in {"post", "nowait"} /\ stops[d] = 1
    BY DEF PostHeard
  <1>1. \A d \in Client :
          pc[d] \in {"post", "nowait"} /\ d \notin Range(waiters) => stops[d] = 1
    BY OnlyCommands DEF Listed, WaitersListed, Waiting
  <1>2. CASE c \notin Range(waiters)
    BY <1>1, <1>2
  <1>3. CASE Hope
    BY <1>1, <1>3 DEF Hope
  <1> QED BY <1>2, <1>3 DEF Hopeful

\* tpool::post does not wait for nobody: where two threads post and wait for their own
\* jobs, for any number of workers and jobs and also when a thread was told of the
\* end of something else, there is always one left that will tell it.
THEOREM PostIsHeard ==
  ASSUME TwoClients
  PROVE  Spec => []PostHeard
<1>1. Init => Inv /\ Manned /\ Woken /\ Own /\ Hopeful /\ Listed
  BY InitTypes, InitReferences, InitApart, InitManned, InitListed
     DEF Inv, Init, Woken, Own, Hopeful
<1>2. Inv /\ [Next]_vars => Inv'
  BY NextTypes, NextReferences, NextJobs DEF Inv
<1>3. Inv /\ Listed /\ Manned /\ Woken /\ [Next]_vars => Listed' /\ Manned' /\ Woken'
  BY NextListed, NextManned, NextWoken DEF Inv
<1>4. Inv /\ Inv' /\ Own /\ [Next]_vars => Own'
  BY NextOwn DEF Inv
<1>5. Inv /\ Inv' /\ Listed /\ Manned /\ Woken /\ Own /\ Hopeful /\ [Next]_vars => Hopeful'
  BY NextHopes DEF Inv
<1>6. Listed /\ Hopeful => PostHeard
  BY HopefulIs
<1> QED BY <1>1, <1>2, <1>3, <1>4, <1>5, <1>6, PTL DEF Spec
=============================================================================
