--------------------------- MODULE Datafile_proofs ---------------------------
(***************************************************************************)
(* Proofs of what the run of Datafile checks, for any number of columns,   *)
(* lengths, contents, sizes, commits and lost writes, whatever the faults  *)
(* are. That the datafile is a stable store is proved without crashes in   *)
(* commits that extend it.                                                 *)
(***************************************************************************)
EXTENDS Datafile, FiniteSetTheorems, SequenceTheorems, WellFoundedInduction, TLAPS

Locs == [Col -> [len : 0 .. MaxLen, pos : Addr]]

\* The end of the datafile before the commit at work, where its columns are, and
\* where its walk is.
Before == IF pc = "idle" THEN end ELSE plan.end
OldLocs == Root(file, base + Before)
OldWalk == WalkPos(file, base + Before)

\* A datafile ends at e, its columns are at locs and its walk at w.
Holds(f, b, e, locs, w) ==
    /\ e >= 4
    /\ f[b][1] = "head"
    /\ f[b + e - 2] = SkipTail(e - 2) /\ f[b + e - 1] = CommitTail(w)
    /\ w \in 1 .. e - 3 /\ f[b + w] = Walk(locs)
    /\ locs \in Locs /\ Spans(locs) \subseteq 1 .. e - 3

PlanType ==
    [end : Nat, end0 : Addr, locs : Locs, walk : Addr, next : SUBSET (0 .. MaxSize + 1)]

Types ==
    /\ mode \in Modes /\ base \in Addr
    /\ file \in [Addr -> Unit]
    /\ DOMAIN pending \subseteq Addr /\ \A x \in DOMAIN pending : pending[x] \in Unit
    /\ cols \in [Col -> [data : Seq(Unit), pos : Addr, dirty : BOOLEAN]]
    /\ \A c \in Col : Len(cols[c].data) <= MaxLen
    /\ \E K \in Nat : space \subseteq 0 .. K
    /\ pc \in {"idle", "tail", "write", "seal", "header"}
    /\ plan \in PlanType
    /\ told \in BOOLEAN /\ failed \in BOOLEAN /\ trust \in {"all", "file", "none"}

\* All that is read by the marks before n comes before m.
Inside(f, n, m) ==
    /\ Start(f, n) + WalkPos(f, n) \in 0 .. m - 1
    /\ \A c \in Col : \A i \in 1 .. Root(f, n)[c].len :
         Start(f, n) + Root(f, n)[c].pos + i - 1 \in 0 .. m - 1

\* The scan that comes to a position of C stays in C, or ends at the start of the
\* file, and meets no commit tail.
Chain(f, C) == \A n \in C :
    /\ ~IsMark(f, n, "tail")
    /\ IsMark(f, n, "skip") /\ Skipped(f, n) > 0 => Skipped(f, n) \in C

\* What there is before a datafile, also after crashes that have made a process
\* start a new one: nothing there is taken for a datafile when the file is opened,
\* and what earlier ones lead to is before it, too.
Remains(f, b) ==
    /\ \E C \in SUBSET (0 .. b) : b \in C /\ Chain(f, C)
    /\ \A n \in 1 .. b : IsDatafile(f, n) => Inside(f, n, b)

\* The file is filled from the start, and its marks and walks say what the program
\* writes into them: nothing in it leads past what was its end.
FilledTo(f, b, n) ==
    /\ n \in Nat /\ b + n <= MaxSize + 1
    /\ \A x \in Addr : f[x] # None <=> x < b + n
    /\ Remains(f, b)
MarksTo(f, b, m) == \A x \in Addr : x >= b =>
    /\ f[x][1] = "skip" => f[x] = SkipTail(x - b)
    /\ f[x][1] = "tail" => f[x][2] \in 1 .. x - b - 1
    /\ f[x][1] = "walk" => Spans(f[x][2]) \subseteq 1 .. m - 1

Filled == FilledTo(file, base, end)
Marks == MarksTo(file, base, IF pc = "header" THEN end ELSE Before)

\* The datafile that was last committed is there, until it is replaced in place.
Kept ==
    IF Before = 0 THEN stable = Empty /\ (pc # "header" => file[base][1] # "head")
    ELSE ~(pc = "header" /\ InPlace) =>
           Holds(file, base, Before, OldLocs, OldWalk) /\ stable = DataAt(file, base, OldLocs)

\* What memory has, and where it was read from.
Loaded == pc \in {"idle", "tail", "write"} =>
    \A c \in Col :
      /\ ~cols[c].dirty => /\ cols[c].data = stable[c]
                           /\ Before > 0 => cols[c].pos = OldLocs[c].pos
                                            /\ Len(cols[c].data) = OldLocs[c].len
      /\ cols[c].dirty => cols[c].data # <<>>
                          /\ \A i \in DOMAIN cols[c].data : cols[c].data[i][1] = "data"

\* Nothing of it is free, nor is what a failed commit has laid out.
Covered == pc \in {"idle", "tail"} =>
    /\ (mode = 1 /\ Before > 0) => Spans(OldLocs) \cup {OldWalk} \subseteq space
    /\ pc = "idle" => \A locs : rootWalk = <<locs>> => Spans(locs) \subseteq Unfree
    /\ (pc = "tail" /\ mode = 1) => Spans(plan.locs) \subseteq space

\* What a commit must not write over.
Untouchable(x) ==
    \/ plan.end > 0 /\ (x \in {0, plan.end - 2, plan.end - 1, OldWalk} \/ x \in Spans(OldLocs))
    \/ mode = 2 /\ x \in 0 .. plan.end - 1

\* What it has laid out.
Planned == pc # "idle" =>
    /\ base + plan.end0 + 1 <= MaxSize
    /\ rootWalk = <<plan.locs>>
    /\ plan.walk \in 1 .. plan.end0 - 1 /\ Spans(plan.locs) \subseteq 1 .. plan.end0 - 1
    /\ IF InPlace THEN mode = 1 /\ pc # "tail" /\ plan.end0 = plan.end - 2
       ELSE plan.end0 >= plan.end + 2
    /\ mode = 1 => Spans(plan.locs) \cup {plan.walk} \subseteq plan.next
    /\ \A c \in Col : plan.locs[c].len = Len(cols[c].data)
                      /\ (~cols[c].dirty => plan.locs[c].pos = cols[c].pos)
    /\ end = IF pc = "tail" THEN plan.end
             ELSE IF pc = "header" THEN plan.end0 + 2
             ELSE IF InPlace THEN plan.end ELSE plan.end0 + 1
Apart == pc \in {"tail", "write"} =>
    /\ \A x \in DirtySpans(plan.locs) \cup {plan.walk} : x # 0 /\ x # plan.end /\ ~Untouchable(x)
    /\ plan.walk \notin DirtySpans(plan.locs)
    /\ \A c, d \in Dirty : c # d =>
         Span(plan.locs[c].pos, plan.locs[c].len) \cap Span(plan.locs[d].pos, plan.locs[d].len) = {}

\* The file is ready for the writes, and these go where nothing is kept and make
\* the new datafile, but for its commit tail.
Ready == pc \in {"write", "seal"} =>
    /\ file[base + plan.end0] = SkipTail(plan.end0)
    /\ \A x \in Addr : x >= base + plan.end => file[x][1] # "tail"
Sealable ==
    IF pc = "seal"
      THEN /\ \A x \in DOMAIN pending :
                /\ x \in base .. base + plan.end0 - 1 /\ ~Untouchable(x - base)
                /\ pending[x] # None /\ pending[x][1] \in {"head", "part", "data", "walk"}
                /\ pending[x][1] = "walk" => pending[x] = Walk(plan.locs)
           /\ Now[base + plan.walk] = Walk(plan.locs)
           /\ \A c \in Col : \A i \in DOMAIN cols[c].data :
                Now[base + plan.locs[c].pos + i - 1] = cols[c].data[i]
           /\ plan.end = 0 => Now[base] = Header(plan.end0 + 2)
      ELSE DOMAIN pending = {}
Written == pc \in {"seal", "header"} => Dirty = {}
Sealed == pc = "header" =>
    /\ Holds(file, base, plan.end0 + 2, plan.locs, plan.walk)
    /\ Value = DataAt(file, base, plan.locs)
    /\ plan.end = 0 => file[base] = Header(plan.end0 + 2)
Told == told => pc = "idle" /\ Dirty = {}

IInv ==
    /\ Types /\ Filled /\ Marks /\ Kept /\ Loaded /\ Covered /\ Planned /\ Apart
    /\ Ready /\ Sealable /\ Written /\ Sealed /\ Told

\* What is needed to open a file: it is filled, its marks are in order, and there
\* is no datafile in it yet or one at its end.
Openable(f, b, e, d) ==
    /\ b \in Addr /\ e \in Nat /\ f \in [Addr -> Unit] /\ FilledTo(f, b, e) /\ MarksTo(f, b, e)
    /\ \/ e = 0 /\ d = Empty
       \/ \E locs, w : Holds(f, b, e, locs, w) /\ d = DataAt(f, b, locs)

\* What a commit that failed has left when memory is not to be relied on: the
\* datafile that was committed before, or nothing that is found; and a file that
\* nobody can rely on.
Left ==
    /\ pc = "idle" /\ DOMAIN pending = {}
    /\ end \in Nat /\ (end = 0 \/ end >= 3)
    /\ IF Cut THEN Openable(file, base + end, 0, Empty) ELSE Openable(file, base, end, stable)
Lost == pc = "idle" /\ DOMAIN pending = {} /\ plan = NoPlan

Inv ==
    /\ Types
    /\ trust = "all" => IInv
    /\ trust = "file" => Left
    /\ trust = "none" => Lost

-----------------------------------------------------------------------------
(* Numbers and sets of them.                                               *)

\* A set of naturals that is not empty has an element no other is below.
LEMMA LeastOf ==
  ASSUME NEW S, S \subseteq Nat, S # {}
  PROVE  \E x \in S : \A y \in S : x <= y
<1>1. PICK x \in S : \A y \in S : ~ (<<y, x>> \in OpToRel(<, Nat))
  BY NatLessThanWellFounded, WFMin
<1>2. ASSUME NEW y \in S PROVE x <= y
  <2>1. x \in Nat /\ y \in Nat
    OBVIOUS
  <2>2. y < x => <<y, x>> \in OpToRel(<, Nat)
    BY <2>1 DEF OpToRel
  <2>3. ~(y < x)
    BY <1>1, <2>2
  <2> QED BY <2>1, <2>3
<1> QED BY <1>2

LEMMA MinOf ==
  ASSUME NEW S, S \subseteq Nat, S # {}
  PROVE  Min(S) \in S /\ \A y \in S : Min(S) <= y
<1>1. \E x \in S : \A y \in S : x <= y
  BY LeastOf
<1> QED BY <1>1 DEF Min

LEMMA MaxOf ==
  ASSUME NEW K \in Nat, NEW S, S \subseteq 0 .. K, S # {}
  PROVE  Max(S) \in S /\ \A y \in S : y <= Max(S)
<1> DEFINE T == {K - y : y \in S}
<1>1. T \subseteq Nat /\ T # {}
  <2>1. \A y \in S : K - y \in Nat
    OBVIOUS
  <2> QED BY <2>1
<1>2. PICK t \in T : \A u \in T : t <= u
  BY <1>1, LeastOf
<1>3. PICK x \in S : t = K - x
  OBVIOUS
<1>4. \A y \in S : x >= y
  <2> SUFFICES ASSUME NEW y \in S PROVE x >= y
    OBVIOUS
  <2>1. K - y \in T
    OBVIOUS
  <2>2. K - x <= K - y
    BY <1>2, <1>3, <2>1
  <2>3. x \in Int /\ y \in Int
    OBVIOUS
  <2> HIDE DEF T
  <2> QED BY <2>2, <2>3
<1>5. Max(S) \in S /\ \A y \in S : Max(S) >= y
  BY <1>4 DEF Max
<1>6. \A y \in S : y \in Int
  OBVIOUS
<1> QED BY <1>5, <1>6

\* Where everything is free, and where a column of some length fits.
LEMMA LimitFacts ==
  ASSUME NEW K \in Nat, NEW taken, taken \subseteq 0 .. K, 0 \in taken
  PROVE  /\ LimitOf(taken) \in 1 .. K + 1 /\ LimitOf(taken) - 1 \in taken
         /\ \A x \in taken : x < LimitOf(taken)
<1>1. Max(taken) \in taken /\ \A y \in taken : y <= Max(taken)
  BY MaxOf
<1>2. \A x \in taken : x \in Int
  OBVIOUS
<1>3. PICK m : m = Max(taken)
  OBVIOUS
<1>4. m \in 0 .. K /\ \A x \in taken : x <= m
  BY <1>1, <1>3
<1>5. LimitOf(taken) = m + 1
  BY <1>3 DEF LimitOf
<1>6. m + 1 \in 1 .. K + 1 /\ m + 1 - 1 = m /\ \A x \in taken : x < m + 1
  BY <1>2, <1>4
<1>7. LimitOf(taken) - 1 = m
  BY <1>4, <1>5, <1>6
<1> QED BY <1>1, <1>3, <1>5, <1>6, <1>7

LEMMA AllocateFacts ==
  ASSUME NEW K \in Nat, NEW taken, taken \subseteq 0 .. K, 0 \in taken, NEW len \in Nat
  PROVE  /\ Allocate(taken, len) \in 1 .. K + 1
         /\ Span(Allocate(taken, len), len) \cap taken = {}
<1> DEFINE fits == {p \in 1 .. LimitOf(taken) : Span(p, len) \cap taken = {}}
<1>1. LimitOf(taken) \in 1 .. K + 1 /\ \A x \in taken : x < LimitOf(taken)
  BY LimitFacts
<1>2. LimitOf(taken) \in fits
  BY <1>1 DEF Span
<1>3. fits \subseteq Nat /\ fits # {}
  BY <1>1, <1>2
<1>4. Min(fits) \in fits
  BY <1>3, MinOf
<1>5. \A p \in fits : p \in 1 .. K + 1 /\ Span(p, len) \cap taken = {}
  BY <1>1
<1> QED BY <1>4, <1>5 DEF Allocate

-----------------------------------------------------------------------------
(* Files.                                                                  *)

LEMMA SizeFacts ==
  ASSUME NEW f, NEW n \in 0 .. MaxSize + 1, \A x \in Addr : f[x] # None <=> x < n
  PROVE  Size(f) = n
<1>1. MaxSize \in Nat
  BY Assumption
<1> DEFINE S == {x \in Addr : f[x] # None}
<1>2. S = 0 .. n - 1
  BY <1>1 DEF Addr
<1>3. Cardinality(0 .. n - 1) = IF 0 > n - 1 THEN 0 ELSE n - 1 - 0 + 1
  BY <1>1, FS_Interval
<1>4. Cardinality(S) = n
  <2> HIDE DEF S
  <2>1. Cardinality(0 .. n - 1) = n
    BY <1>1, <1>3
  <2> QED BY <1>2, <2>1
<1> QED BY <1>4 DEF Size

\* The scan is what it is defined to be.
LEMMA ScanSolved ==
  ASSUME NEW f, NEW M \in Nat, Size(f) = M,
         \A n \in 1 .. M : f[n - 1][1] = "skip" => f[n - 1][2] \in Nat
  PROVE  \E b : /\ EndOfData(f) = b[M]
                /\ \A n \in 0 .. M : b[n] = IF ~IsMark(f, n, "skip") THEN n
                                            ELSE IF Skipped(f, n) > 0 THEN b[Skipped(f, n)]
                                            ELSE 0
<1> DEFINE step(g, n) == IF ~IsMark(f, n, "skip") THEN n
                         ELSE IF Skipped(f, n) > 0 THEN g[Skipped(f, n)]
                         ELSE 0
           Bad == {k \in 0 .. M : ~ \E g : g = [n \in 0 .. k |-> step(g, n)]}
<1>1. ~IsMark(f, 0, "skip")
  BY DEF IsMark
<1>2. \A n \in 1 .. M : IsMark(f, n, "skip") /\ Skipped(f, n) > 0 => Skipped(f, n) \in 0 .. n - 1
  BY DEF IsMark, Skipped
<1>3. ASSUME Bad # {} PROVE FALSE
  <2>1. PICK k \in Bad : \A j \in Bad : k <= j
    <3>1. Bad \subseteq Nat
      OBVIOUS
    <3> HIDE DEF Bad
    <3> QED BY <1>3, <3>1, LeastOf
  <2>2. k # 0
    <3>1. ASSUME k = 0 PROVE FALSE
      <4> DEFINE g == [n \in 0 .. 0 |-> n]
      <4>1. g = [n \in 0 .. 0 |-> step(g, n)]
        BY <1>1
      <4> QED BY <3>1, <4>1
    <3> QED BY <3>1
  <2>3. k \in 1 .. M /\ k - 1 \in 0 .. M /\ k - 1 \notin Bad
    BY <2>1, <2>2
  <2>4. PICK g : g = [n \in 0 .. k - 1 |-> step(g, n)]
    BY <2>3
  <2> DEFINE h == [n \in 0 .. k |-> IF n < k THEN g[n] ELSE step(g, n)]
  <2>5. \A n \in 0 .. k : h[n] = step(g, n)
    BY <2>3, <2>4
  <2>6. \A n \in 0 .. k : step(g, n) = step(h, n)
    <3> SUFFICES ASSUME NEW n \in 0 .. k, IsMark(f, n, "skip"), Skipped(f, n) > 0
                 PROVE  g[Skipped(f, n)] = h[Skipped(f, n)]
      OBVIOUS
    <3>1. n \in 1 .. M
      BY <1>1, <2>3
    <3>2. Skipped(f, n) \in 0 .. n - 1
      BY <1>2, <3>1
    <3>3. PICK m : m = Skipped(f, n)
      OBVIOUS
    <3>4. m \in 0 .. k /\ m < k
      BY <2>3, <3>2, <3>3
    <3> QED BY <3>3, <3>4
  <2>7. h = [n \in 0 .. k |-> step(h, n)]
    BY <2>5, <2>6
  <2> QED BY <2>1, <2>7
<1>4. PICK g : g = [n \in 0 .. M |-> step(g, n)]
  BY <1>3
<1>5. PICK b : b = CHOOSE c : c = [n \in 0 .. M |-> step(c, n)]
  OBVIOUS
<1>6. b = [n \in 0 .. M |-> step(b, n)]
  BY <1>4, <1>5
<1>7. EndOfData(f) = b[M]
  BY <1>5 DEF EndOfData
<1>8. \A n \in 0 .. M : b[n] = step(b, n)
  BY <1>6
<1> QED BY <1>7, <1>8

\* The scan of a file that does not end with a skip tail ends where it starts.
LEMMA ScanFacts ==
  ASSUME NEW f, NEW M \in Nat, Size(f) = M,
         \A n \in 1 .. M : f[n - 1][1] = "skip" => f[n - 1][2] \in Nat,
         ~IsMark(f, M, "skip")
  PROVE  EndOfData(f) = M
BY ScanSolved

\* And otherwise it ends in any chain that it starts in.
LEMMA ScanChain ==
  ASSUME NEW f, NEW M \in Nat, Size(f) = M,
         \A n \in 1 .. M : f[n - 1][1] = "skip" => f[n - 1][2] \in Nat,
         NEW C \in SUBSET (0 .. M), M \in C, Chain(f, C)
  PROVE  EndOfData(f) \in C \cup {0}
<1>1. PICK b : /\ EndOfData(f) = b[M]
               /\ \A n \in 0 .. M : b[n] = IF ~IsMark(f, n, "skip") THEN n
                                           ELSE IF Skipped(f, n) > 0 THEN b[Skipped(f, n)]
                                           ELSE 0
  BY ScanSolved
<1> DEFINE Bad == {n \in C : b[n] \notin C \cup {0}}
<1>2. ASSUME Bad # {} PROVE FALSE
  <2>1. PICK n \in Bad : \A k \in Bad : n <= k
    <3>1. Bad \subseteq C /\ C \subseteq 0 .. M
      OBVIOUS
    <3> HIDE DEF Bad
    <3>2. Bad \subseteq Nat
      BY <3>1
    <3> QED BY <1>2, <3>2, LeastOf
  <2>2. n \in C /\ n \in 0 .. M /\ b[n] \notin C \cup {0}
    OBVIOUS
  <2>3. IsMark(f, n, "skip") /\ Skipped(f, n) > 0 /\ b[n] = b[Skipped(f, n)]
    BY <1>1, <2>2
  <2>4. PICK k : k = Skipped(f, n)
    OBVIOUS
  <2>5. k \in C /\ k \in 0 .. M
    BY <2>2, <2>3, <2>4 DEF Chain
  <2>6. k < n
    <3>1. n > 0 /\ f[n - 1][1] = "skip"
      BY <2>3 DEF IsMark
    <3>2. n \in 1 .. M
      BY <2>2, <3>1
    <3>3. f[n - 1][2] \in Nat
      BY <3>1, <3>2
    <3> QED BY <2>2, <2>4, <3>3 DEF Skipped
  <2>7. k \in Bad
    BY <2>2, <2>3, <2>4, <2>5
  <2>8. n <= k
    BY <2>1, <2>7
  <2> HIDE DEF Bad
  <2> QED BY <2>2, <2>5, <2>6, <2>8
<1>3. b[M] \in C \cup {0}
  BY <1>2
<1> QED BY <1>1, <1>3

LEMMA UnitFacts ==
  /\ \A n : /\ Header(n)[1] = "head" /\ Header(n)[2] = n
            /\ Part(n)[1] = "part" /\ Part(n)[2] = n
            /\ SkipTail(n)[1] = "skip" /\ SkipTail(n)[2] = n
            /\ CommitTail(n)[1] = "tail" /\ CommitTail(n)[2] = n
            /\ Walk(n)[1] = "walk" /\ Walk(n)[2] = n
  /\ None[1] = "none" /\ Hole[1] = "hole" /\ Other[1] = "other"
BY DEF Header, Part, SkipTail, CommitTail, Walk, None, Hole, Other

\* What is found by the marks of a datafile.
LEMMA HoldsFacts ==
  ASSUME NEW f, NEW b \in Nat, NEW e \in Nat, NEW locs, NEW w, Holds(f, b, e, locs, w)
  PROVE  /\ IsDatafile(f, b + e) /\ Start(f, b + e) = b
         /\ WalkPos(f, b + e) = w /\ Root(f, b + e) = locs
         /\ DataBefore(f, b + e) = DataAt(f, b, locs)
<1>1. /\ e >= 4 /\ f[b][1] = "head"
      /\ f[b + e - 2] = SkipTail(e - 2) /\ f[b + e - 1] = CommitTail(w)
      /\ w \in 1 .. e - 3 /\ f[b + w] = Walk(locs)
  BY DEF Holds
<1>2. PICK n \in Nat : n = b + e
  OBVIOUS
<1>3. n - 1 = b + e - 1 /\ n - 1 - 1 = b + e - 2 /\ n > 0 /\ n - 1 > 0
  BY <1>1, <1>2
<1>4. f[n - 1] = CommitTail(w) /\ f[n - 1 - 1] = SkipTail(e - 2)
  BY <1>1, <1>3
<1>5. IsMark(f, n, "tail") /\ IsMark(f, n - 1, "skip")
  BY <1>3, <1>4, UnitFacts DEF IsMark
<1>6. Skipped(f, n - 1) = b
  <2>1. Skipped(f, n - 1) = n - 1 - 1 - (e - 2)
    BY <1>4, UnitFacts DEF Skipped
  <2> QED BY <1>1, <1>2, <2>1
<1>7. IsMark(f, Skipped(f, n - 1) + 1, "head")
  <2>1. b + 1 > 0 /\ b + 1 - 1 = b
    OBVIOUS
  <2> QED BY <1>1, <1>6, <2>1 DEF IsMark
<1>8. IsDatafile(f, n) /\ Start(f, n) = b /\ WalkPos(f, n) = w
  BY <1>4, <1>5, <1>6, <1>7, UnitFacts DEF IsDatafile, Start, WalkPos
<1>9. Root(f, n) = locs
  BY <1>1, <1>8, UnitFacts DEF Root
<1> QED BY <1>2, <1>8, <1>9 DEF DataBefore

\* What a process finds that opens a file at the end of which a datafile is.
LEMMA FoundFacts ==
  ASSUME NEW f, NEW b \in Nat, NEW e \in Nat, NEW locs, NEW w, Holds(f, b, e, locs, w),
         b + e <= MaxSize + 1,
         \A x \in Addr : f[x] # None <=> x < b + e,
         \A x \in Addr : f[x][1] = "skip" => f[x][2] \in Nat
  PROVE  /\ Size(f) = b + e /\ EndOfData(f) = b + e /\ Loads(f)
         /\ Found(f) = DataAt(f, b, locs)
<1>1. MaxSize \in Nat
  BY Assumption
<1>2. Size(f) = b + e
  BY <1>1, SizeFacts
<1>3. /\ IsDatafile(f, b + e) /\ DataBefore(f, b + e) = DataAt(f, b, locs)
      /\ f[b + e - 1] = CommitTail(w)
  <2>1. f[b + e - 1] = CommitTail(w)
    BY DEF Holds
  <2> QED BY <2>1, HoldsFacts
<1>4. ~IsMark(f, b + e, "skip")
  BY <1>3, UnitFacts DEF IsMark
<1>5. \A n \in 1 .. b + e : f[n - 1][1] = "skip" => f[n - 1][2] \in Nat
  <2>1. \A n \in 1 .. b + e : n - 1 \in Addr
    BY <1>1 DEF Addr
  <2> QED BY <2>1
<1>6. EndOfData(f) = b + e
  <2>1. b + e \in Nat
    OBVIOUS
  <2> QED BY <1>2, <1>4, <1>5, <2>1, ScanFacts
<1> QED BY <1>2, <1>3, <1>6 DEF Loads, Found

\* The marks in a file lead back.
LEMMA SkipTypes ==
  ASSUME NEW f \in [Addr -> Unit], NEW x \in Addr, f[x][1] = "skip"
  PROVE  f[x][2] \in Nat
<1>1. f[x] \in Unit /\ f[x] # None /\ f[x] # Hole /\ f[x] # Other
  BY UnitFacts
<1> QED BY <1>1 DEF Unit

\* And where no datafile is.
LEMMA NothingFacts ==
  ASSUME NEW f \in [Addr -> Unit], NEW b \in 0 .. MaxSize + 1,
         \A x \in Addr : f[x] # None <=> x < b, Remains(f, b)
  PROVE  Size(f) = b /\ ~Loads(f) /\ Found(f) = Empty
<1>1. MaxSize \in Nat /\ b \in Nat
  BY Assumption
<1>2. Size(f) = b
  BY SizeFacts
<1>3. \A n \in 1 .. b : f[n - 1][1] = "skip" => f[n - 1][2] \in Nat
  <2>1. \A n \in 1 .. b : n - 1 \in Addr
    BY <1>1 DEF Addr
  <2> QED BY <2>1, SkipTypes
<1>4. PICK C \in SUBSET (0 .. b) : b \in C /\ Chain(f, C)
  BY DEF Remains
<1>5. EndOfData(f) \in C \cup {0}
  BY <1>1, <1>2, <1>3, <1>4, ScanChain
<1>6. ~IsMark(f, EndOfData(f), "tail")
  <2>1. ~IsMark(f, 0, "tail")
    BY DEF IsMark
  <2>2. \A n \in C : ~IsMark(f, n, "tail")
    BY <1>4 DEF Chain
  <2> QED BY <1>5, <2>1, <2>2
<1> QED BY <1>2, <1>6 DEF Loads, IsDatafile, Found

\* Writing inside a file, and at or after its end.
LEMMA PutInside ==
  ASSUME NEW f, NEW w, NEW n \in Int, DOMAIN w \subseteq Addr,
         \A x \in Addr : f[x] # None <=> x < n,
         \A x \in DOMAIN w : x < n
  PROVE  Put(f, w) = [x \in Addr |-> IF x \in DOMAIN w THEN w[x] ELSE f[x]]
<1>1. Addr \subseteq Int
  BY DEF Addr
<1>2. \A x \in Addr : f[x] = None => ~ \E y \in DOMAIN w : x < y
  <2> SUFFICES ASSUME NEW x \in Addr, f[x] = None, NEW y \in DOMAIN w, x < y PROVE FALSE
    OBVIOUS
  <2>1. ~(x < n) /\ y < n /\ y \in Int /\ x \in Int
    BY <1>1
  <2> QED BY <2>1
<1> QED BY <1>2 DEF Put

LEMMA PutAfter ==
  ASSUME NEW f, NEW n \in Int, NEW pos, base + pos \in Addr, base + pos >= n, NEW u,
         \A x \in Addr : f[x] # None <=> x < n
  PROVE  Put1(f, pos, u) = [x \in Addr |-> IF x = base + pos THEN u
                                           ELSE IF n <= x /\ x < base + pos THEN Hole
                                           ELSE f[x]]
<1>1. Addr \subseteq Int
  BY DEF Addr
<1> DEFINE w == [x \in {base + pos} |-> u]
<1>2. DOMAIN w = {base + pos} /\ w[base + pos] = u
  OBVIOUS
<1>3. \A x \in Addr : (f[x] = None /\ \E y \in DOMAIN w : x < y) <=> n <= x /\ x < base + pos
  <2>1. \A x \in Addr : (\E y \in DOMAIN w : x < y) <=> x < base + pos
    BY <1>2
  <2>2. \A x \in Addr : f[x] = None <=> n <= x
    BY <1>1
  <2> QED BY <2>1, <2>2
<1> QED BY <1>2, <1>3 DEF Put1, Put

LEMMA SpansFacts ==
  ASSUME NEW locs, NEW c \in Col, locs[c].len \in Nat, locs[c].pos \in Int,
         NEW i \in 1 .. locs[c].len
  PROVE  /\ locs[c].pos + i - 1 \in Span(locs[c].pos, locs[c].len)
         /\ locs[c].pos + i - 1 \in Spans(locs)
<1>1. locs[c].pos + i - 1 \in Span(locs[c].pos, locs[c].len)
  BY DEF Span
<1> QED BY <1>1 DEF Spans

\* A datafile is still there when nothing that it needs was changed.
LEMMA HoldsKept ==
  ASSUME NEW f, NEW g, NEW b, NEW e, NEW locs, NEW w, Holds(f, b, e, locs, w),
         b \in Nat, e \in Nat,
         \A x \in {0, e - 2, e - 1, w} \cup Spans(locs) : g[b + x] = f[b + x]
  PROVE  Holds(g, b, e, locs, w) /\ DataAt(g, b, locs) = DataAt(f, b, locs)
<1>1. b + 0 = b /\ b + (e - 2) = b + e - 2 /\ b + (e - 1) = b + e - 1
  OBVIOUS
<1>2. g[b] = f[b] /\ g[b + e - 2] = f[b + e - 2] /\ g[b + e - 1] = f[b + e - 1] /\ g[b + w] = f[b + w]
  <2>1. g[b + 0] = f[b + 0] /\ g[b + (e - 2)] = f[b + (e - 2)] /\ g[b + (e - 1)] = f[b + (e - 1)]
    OBVIOUS
  <2> QED BY <1>1, <2>1
<1>3. Holds(g, b, e, locs, w)
  BY <1>2 DEF Holds
<1>4. ASSUME NEW c \in Col, NEW i \in 1 .. locs[c].len
      PROVE  g[b + locs[c].pos + i - 1] = f[b + locs[c].pos + i - 1]
  <2>1. locs[c].len \in Nat /\ locs[c].pos \in Int
    BY Assumption DEF Holds, Locs, Addr
  <2>2. locs[c].pos + i - 1 \in Spans(locs)
    BY <2>1, SpansFacts
  <2>3. b + (locs[c].pos + i - 1) = b + locs[c].pos + i - 1
    BY <2>1
  <2> QED BY <2>2, <2>3
<1> QED BY <1>3, <1>4 DEF DataAt

-----------------------------------------------------------------------------
(* Where a commit puts the columns.                                        *)

\* The columns have places, each free and apart from the others.
LEMMA LayoutFacts ==
  ASSUME NEW K \in Nat, Unfree \subseteq 0 .. K, 0 \in Unfree,
         \A c \in Col : Len(cols[c].data) \in Nat
  PROVE  /\ DOMAIN Layout = Col
         /\ \A c \in Col : Layout[c] = [len |-> Len(cols[c].data), pos |-> Layout[c].pos]
         /\ \A c \in Col : c \notin Dirty => Layout[c].pos = cols[c].pos
         /\ \A c \in Dirty : /\ Layout[c].pos \in Nat
                             /\ Span(Layout[c].pos, Layout[c].len) \cap Unfree = {}
         /\ \A c, d \in Dirty : c # d =>
              Span(Layout[c].pos, Layout[c].len) \cap Span(Layout[d].pos, Layout[d].len) = {}
         /\ \E m \in Nat : DirtySpans(Layout) \subseteq 0 .. m
<1> DEFINE place(g, c) == IF c \in Dirty THEN Allocate(TakenBefore(g, c), Len(cols[c].data))
                          ELSE cols[c].pos
           Bad == {k \in 0 .. N : ~ \E g : g = [c \in 1 .. k |-> place(g, c)]}
<1>1. N \in Nat /\ Col = 1 .. N /\ Dirty \subseteq 1 .. N
  BY Assumption DEF Col, Dirty
<1>2. ASSUME NEW g, NEW h, NEW c \in 1 .. N, \A d \in 1 .. c - 1 : g[d] = h[d]
      PROVE  place(g, c) = place(h, c)
  BY <1>2 DEF TakenBefore
<1>3. ASSUME Bad # {} PROVE FALSE
  <2>1. PICK k \in Bad : \A j \in Bad : k <= j
    <3>1. Bad \subseteq Nat
      OBVIOUS
    <3> HIDE DEF Bad
    <3> QED BY <1>3, <3>1, LeastOf
  <2>2. k # 0
    <3>1. ASSUME k = 0 PROVE FALSE
      <4> DEFINE g == [c \in 1 .. 0 |-> 0]
      <4>1. g = [c \in 1 .. 0 |-> place(g, c)]
        OBVIOUS
      <4> QED BY <3>1, <4>1
    <3> QED BY <3>1
  <2>3. k \in 1 .. N /\ k - 1 \in 0 .. N /\ k - 1 \notin Bad
    BY <1>1, <2>1, <2>2
  <2>4. PICK g : g = [c \in 1 .. k - 1 |-> place(g, c)]
    BY <2>3
  <2> DEFINE h == [c \in 1 .. k |-> IF c < k THEN g[c] ELSE place(g, c)]
  <2> HIDE DEF place
  <2>5. \A c \in 1 .. k : h[c] = place(g, c)
    <3> SUFFICES ASSUME NEW c \in 1 .. k PROVE h[c] = place(g, c)
      OBVIOUS
    <3>1. CASE c < k
      <4>1. c \in 1 .. k - 1
        BY <2>3, <3>1
      <4>2. g[c] = place(g, c)
        BY <2>4, <4>1
      <4> QED BY <3>1, <4>2
    <3>2. CASE ~(c < k)
      BY <3>2
    <3> QED BY <3>1, <3>2
  <2>6. \A c \in 1 .. k : place(g, c) = place(h, c)
    <3> SUFFICES ASSUME NEW c \in 1 .. k PROVE place(g, c) = place(h, c)
      OBVIOUS
    <3>1. \A d \in 1 .. c - 1 : g[d] = h[d]
      BY <2>3
    <3>2. c \in 1 .. N
      BY <1>1, <2>3
    <3> HIDE DEF h
    <3> QED BY <1>2, <3>1, <3>2
  <2>7. h = [c \in 1 .. k |-> place(h, c)]
    BY <2>5, <2>6
  <2> USE DEF place
  <2> QED BY <2>1, <2>7
<1>4. PICK g : g = [c \in 1 .. N |-> place(g, c)]
  BY <1>1, <1>3
<1>5. PICK at : at = CHOOSE b : b = [c \in 1 .. N |-> place(b, c)]
  OBVIOUS
<1>6. at = [c \in Col |-> place(at, c)]
  BY <1>1, <1>4, <1>5
<1>7. Layout = [c \in Col |-> [len |-> Len(cols[c].data), pos |-> at[c]]]
  BY <1>1, <1>5 DEF Layout
<1> HIDE DEF Bad
<1>8. \A c \in Col : at[c] = place(at, c)
  BY <1>6
<1> DEFINE Unbounded == {k \in 1 .. N + 1 : ~ \E m \in Nat : TakenBefore(at, k) \subseteq 0 .. m}
<1>9. ASSUME NEW k \in 1 .. N, NEW m \in Nat, TakenBefore(at, k) \subseteq 0 .. m, k \in Dirty
      PROVE  /\ at[k] \in 1 .. m + 1
             /\ Span(at[k], Len(cols[k].data)) \cap TakenBefore(at, k) = {}
  <2>1. at[k] = Allocate(TakenBefore(at, k), Len(cols[k].data))
    BY <1>1, <1>8, <1>9
  <2>2. 0 \in TakenBefore(at, k)
    BY DEF TakenBefore
  <2>3. PICK S, len : S = TakenBefore(at, k) /\ len = Len(cols[k].data)
    OBVIOUS
  <2>4. len \in Nat /\ S \subseteq 0 .. m /\ 0 \in S
    BY <1>1, <1>9, <2>2, <2>3
  <2>5. Allocate(S, len) \in 1 .. m + 1 /\ Span(Allocate(S, len), len) \cap S = {}
    BY <2>4, AllocateFacts
  <2> QED BY <2>1, <2>3, <2>5
<1>10. ASSUME NEW k \in 1 .. N
       PROVE  TakenBefore(at, k + 1) = TakenBefore(at, k)
                \cup IF k \in Dirty THEN Span(at[k], Len(cols[k].data)) ELSE {}
  <2>1. \A d : d \in Dirty \cap 1 .. k + 1 - 1 <=> d \in Dirty \cap 1 .. k - 1 \/ (d = k /\ k \in Dirty)
    BY <1>1
  <2> QED BY <2>1 DEF TakenBefore
<1>11. ASSUME Unbounded # {} PROVE FALSE
  <2>1. PICK k \in Unbounded : \A j \in Unbounded : k <= j
    <3>1. Unbounded \subseteq Nat
      BY <1>1
    <3> HIDE DEF Unbounded
    <3> QED BY <1>11, <3>1, LeastOf
  <2>2. k # 1
    <3>1. ASSUME k = 1 PROVE FALSE
      <4>1. Dirty \cap 1 .. k - 1 = {}
        BY <3>1
      <4>2. TakenBefore(at, k) \subseteq 0 .. K
        BY <4>1 DEF TakenBefore
      <4> QED BY <4>2
    <3> QED BY <3>1
  <2>3. k - 1 \in 1 .. N /\ k - 1 \notin Unbounded /\ k - 1 + 1 = k
    BY <1>1, <2>1, <2>2
  <2>4. PICK j \in 1 .. N : j = k - 1
    BY <2>3
  <2>5. PICK m \in Nat : TakenBefore(at, j) \subseteq 0 .. m
    BY <1>1, <2>3, <2>4
  <2>6. PICK len \in Nat : len = Len(cols[j].data)
    BY <1>1, <2>4
  <2>7. TakenBefore(at, k) = TakenBefore(at, j) \cup IF j \in Dirty THEN Span(at[j], len) ELSE {}
    BY <1>10, <2>3, <2>4, <2>6
  <2>8. j \in Dirty => Span(at[j], len) \subseteq 0 .. m + 1 + len
    <3> SUFFICES ASSUME j \in Dirty PROVE Span(at[j], len) \subseteq 0 .. m + 1 + len
      OBVIOUS
    <3>1. at[j] \in 1 .. m + 1
      BY <1>9, <2>5
    <3> QED BY <3>1 DEF Span
  <2>9. TakenBefore(at, k) \subseteq 0 .. m + 1 + len
    BY <2>5, <2>7, <2>8
  <2>10. m + 1 + len \in Nat
    OBVIOUS
  <2> QED BY <2>1, <2>9, <2>10
<1>12. \A k \in 1 .. N + 1 : \E m \in Nat : TakenBefore(at, k) \subseteq 0 .. m
  BY <1>11
<1> HIDE DEF place, Unbounded
<1>13. ASSUME NEW c \in Dirty
       PROVE  /\ at[c] \in Nat /\ Span(at[c], Len(cols[c].data)) \cap TakenBefore(at, c) = {}
  <2>1. c \in 1 .. N /\ c \in 1 .. N + 1
    BY <1>1
  <2>2. PICK m \in Nat : TakenBefore(at, c) \subseteq 0 .. m
    BY <1>12, <2>1
  <2>3. at[c] \in 1 .. m + 1 /\ Span(at[c], Len(cols[c].data)) \cap TakenBefore(at, c) = {}
    BY <1>9, <2>1, <2>2
  <2> QED BY <2>3
<1>14. ASSUME NEW c \in Dirty, NEW d \in Dirty, c < d
       PROVE  Span(at[c], Len(cols[c].data)) \cap Span(at[d], Len(cols[d].data)) = {}
  <2>1. c \in Dirty \cap 1 .. d - 1
    BY <1>1, <1>14
  <2>2. Span(at[c], Len(cols[c].data)) \subseteq TakenBefore(at, d)
    BY <2>1 DEF TakenBefore
  <2> QED BY <1>13, <2>2
<1>15. \A c \in Col : Layout[c].len = Len(cols[c].data) /\ Layout[c].pos = at[c]
  BY <1>7
<1>16. ASSUME NEW c \in Dirty, NEW d \in Dirty, c # d
       PROVE  Span(Layout[c].pos, Layout[c].len) \cap Span(Layout[d].pos, Layout[d].len) = {}
  <2>1. c \in Col /\ d \in Col
    BY <1>1
  <2>2. c < d \/ d < c
    BY <1>1, <1>16
  <2> QED BY <1>14, <1>15, <2>1, <2>2
<1>17. \A c \in Dirty : Layout[c].pos \in Nat /\ Span(Layout[c].pos, Layout[c].len) \cap Unfree = {}
  <2> SUFFICES ASSUME NEW c \in Dirty
               PROVE  Layout[c].pos \in Nat /\ Span(Layout[c].pos, Layout[c].len) \cap Unfree = {}
    OBVIOUS
  <2>1. c \in Col /\ Unfree \subseteq TakenBefore(at, c)
    BY <1>1 DEF TakenBefore
  <2> QED BY <1>13, <1>15, <2>1
<1>18. \E m \in Nat : DirtySpans(Layout) \subseteq 0 .. m
  <2>1. N + 1 \in 1 .. N + 1
    BY <1>1
  <2>2. PICK m \in Nat : TakenBefore(at, N + 1) \subseteq 0 .. m
    BY <1>12, <2>1
  <2>3. \A c \in Dirty : c \in Col
    BY <1>1
  <2>4. DirtySpans(Layout) \subseteq TakenBefore(at, N + 1)
    <3>1. \A c \in Dirty : Span(Layout[c].pos, Layout[c].len) \subseteq TakenBefore(at, N + 1)
      <4> SUFFICES ASSUME NEW c \in Dirty
                   PROVE  Span(Layout[c].pos, Layout[c].len) \subseteq TakenBefore(at, N + 1)
        OBVIOUS
      <4>1. c \in 1 .. N
        BY <1>1
      <4>2. PICK k : k = N + 1
        OBVIOUS
      <4>3. c \in Dirty \cap 1 .. k - 1
        BY <1>1, <4>1, <4>2
      <4>4. Span(at[c], Len(cols[c].data)) \subseteq TakenBefore(at, k)
        BY <4>3 DEF TakenBefore
      <4> QED BY <1>15, <2>3, <4>2, <4>4
    <3> QED BY <3>1 DEF DirtySpans
  <2> QED BY <2>2, <2>4
<1>19. \A c \in Col : c \notin Dirty => Layout[c].pos = cols[c].pos
  BY <1>8, <1>15 DEF place
<1>20. DOMAIN Layout = Col /\ \A c \in Col : Layout[c] = [len |-> Len(cols[c].data), pos |-> Layout[c].pos]
  BY <1>7
<1> QED BY <1>16, <1>17, <1>18, <1>19, <1>20

-----------------------------------------------------------------------------
(* The steps.                                                              *)

LEMMA Constants ==
  /\ MaxSize \in Nat /\ Addr = 0 .. MaxSize /\ Addr \subseteq Nat /\ 0 \in Addr
  /\ N \in Nat /\ Col = 1 .. N /\ MaxLen \in Nat /\ Modes \subseteq {1, 2}
BY Assumption DEF Addr, Col

LEMMA EndFacts ==
  ASSUME NEW f, NEW b \in Nat, NEW n, FilledTo(f, b, n)
  PROVE  n \in Nat /\ Size(f) = b + n /\ Size(f) - b = n
<1>1. n \in Nat /\ b + n \in 0 .. MaxSize + 1 /\ \A x \in Addr : f[x] # None <=> x < b + n
  BY Constants DEF FilledTo
<1>2. Size(f) = b + n
  BY <1>1, SizeFacts
<1> QED BY <1>1, <1>2

\* What comes before m is all that is read by the marks before n <= m, when what
\* these lead to is there.
LEMMA SameMarks ==
  ASSUME NEW f \in [Addr -> Unit], NEW g, NEW m \in Nat, m <= MaxSize + 1,
         \A x \in 0 .. m - 1 : g[x] = f[x],
         NEW n \in Nat, n <= m, IsDatafile(f, n)
  PROVE  IsDatafile(g, n) /\ Start(g, n) = Start(f, n) /\ WalkPos(g, n) = WalkPos(f, n)
<1>1. /\ n > 0 /\ f[n - 1][1] = "tail" /\ n - 1 > 0 /\ f[n - 1 - 1][1] = "skip"
      /\ Skipped(f, n - 1) >= 0 /\ IsMark(f, Skipped(f, n - 1) + 1, "head")
  BY DEF IsDatafile, IsMark
<1>2. PICK k : k = n - 1 - 1
  OBVIOUS
<1>3. k \in Addr /\ k \in 0 .. m - 1 /\ n - 1 \in 0 .. m - 1
  BY <1>1, <1>2, Constants
<1>4. PICK q : q = f[k][2]
  OBVIOUS
<1>5. q \in Nat
  BY <1>1, <1>2, <1>3, <1>4, SkipTypes
<1>6. g[k] = f[k] /\ g[n - 1] = f[n - 1]
  BY <1>3
<1>7. Skipped(f, n - 1) = k - q /\ Skipped(g, n - 1) = k - q
  BY <1>2, <1>4, <1>6 DEF Skipped
<1>8. k - q \in 0 .. m - 1 /\ k - q + 1 - 1 = k - q /\ k - q + 1 > 0
  BY <1>1, <1>3, <1>5, <1>7
<1>9. g[k - q] = f[k - q]
  BY <1>8
<1>10. IsMark(g, n, "tail") /\ IsMark(g, n - 1, "skip") /\ IsMark(g, k - q + 1, "head")
  BY <1>1, <1>2, <1>6, <1>7, <1>8, <1>9 DEF IsMark
<1> QED BY <1>1, <1>6, <1>7, <1>10 DEF IsDatafile, Start, WalkPos

LEMMA SameBelow ==
  ASSUME NEW f \in [Addr -> Unit], NEW g, NEW m \in Nat, m <= MaxSize + 1,
         \A x \in 0 .. m - 1 : g[x] = f[x],
         NEW n \in Nat, n <= m, IsDatafile(f, n), Inside(f, n, m)
  PROVE  IsDatafile(g, n) /\ DataBefore(g, n) = DataBefore(f, n) /\ Inside(g, n, m)
<1>1. IsDatafile(g, n) /\ Start(g, n) = Start(f, n) /\ WalkPos(g, n) = WalkPos(f, n)
  BY SameMarks
<1>2. PICK b, w : b = Start(f, n) /\ w = WalkPos(f, n)
  OBVIOUS
<1>3. g[b + w] = f[b + w]
  <2>1. b + w \in 0 .. m - 1
    BY <1>2 DEF Inside
  <2> QED BY <2>1
<1>4. PICK locs : locs = Root(f, n)
  OBVIOUS
<1>5. Root(g, n) = locs
  BY <1>1, <1>2, <1>3, <1>4 DEF Root
<1>6. \A c \in Col : \A i \in 1 .. locs[c].len : b + locs[c].pos + i - 1 \in 0 .. m - 1
  BY <1>2, <1>4 DEF Inside
<1>7. DataAt(g, b, locs) = DataAt(f, b, locs)
  <2>1. \A c \in Col : \A i \in 1 .. locs[c].len :
          g[b + locs[c].pos + i - 1] = f[b + locs[c].pos + i - 1]
    BY <1>6
  <2> QED BY <2>1 DEF DataAt
<1>8. DataBefore(g, n) = DataBefore(f, n)
  BY <1>1, <1>2, <1>4, <1>5, <1>7 DEF DataBefore
<1>9. Inside(g, n, m)
  BY <1>1, <1>4, <1>5 DEF Inside
<1> QED BY <1>1, <1>8, <1>9

\* What is before a datafile stays what it is.
LEMMA RemainsKept ==
  ASSUME NEW f \in [Addr -> Unit], NEW g \in [Addr -> Unit], NEW b \in Nat, b <= MaxSize + 1,
         \A x \in 0 .. b - 1 : g[x] = f[x], Remains(f, b)
  PROVE  Remains(g, b)
<1>1. PICK C \in SUBSET (0 .. b) : b \in C /\ Chain(f, C)
  BY DEF Remains
<1>2. Chain(g, C)
  <2> SUFFICES ASSUME NEW n \in C
               PROVE  /\ ~IsMark(g, n, "tail")
                      /\ IsMark(g, n, "skip") /\ Skipped(g, n) > 0 => Skipped(g, n) \in C
    BY DEF Chain
  <2>1. CASE n = 0
    BY <2>1 DEF IsMark
  <2>2. CASE n # 0
    <3>1. n - 1 \in 0 .. b - 1
      BY <1>1, <2>2
    <3>2. g[n - 1] = f[n - 1]
      BY <3>1
    <3> QED BY <1>1, <3>2 DEF Chain, IsMark, Skipped
  <2> QED BY <2>1, <2>2
<1>3. ASSUME NEW n \in 1 .. b, IsDatafile(g, n) PROVE Inside(g, n, b)
  <2>1. n \in Nat /\ n <= b /\ \A x \in 0 .. b - 1 : f[x] = g[x]
    OBVIOUS
  <2>2. IsDatafile(f, n)
    BY <1>3, <2>1, SameMarks
  <2>3. Inside(f, n, b)
    BY <2>2 DEF Remains
  <2> QED BY <2>1, <2>2, <2>3, SameBelow
<1> QED BY <1>1, <1>2, <1>3 DEF Remains

\* A walk that is in a file says where columns are.
LEMMA WalkTypes ==
  ASSUME NEW u \in Unit, u[1] = "walk"
  PROVE  u[2] \in Locs
<1>1. u # None /\ u # Hole /\ u # Other
  BY UnitFacts
<1> QED BY <1>1 DEF Unit, Locs

\* What any datafile in the file leads to comes before what was its end.
LEMMA ReadInside ==
  ASSUME NEW f \in [Addr -> Unit], NEW b \in Nat, NEW m \in Nat, b + m <= MaxSize + 1,
         MarksTo(f, b, m), Remains(f, b),
         NEW n \in Nat, n <= b + m, IsDatafile(f, n)
  PROVE  Inside(f, n, b + m)
<1>1. /\ n > 0 /\ f[n - 1][1] = "tail" /\ n - 1 > 0 /\ f[n - 1 - 1][1] = "skip"
  BY DEF IsDatafile, IsMark
<1>2. CASE n <= b
  <2>1. Inside(f, n, b)
    <3>1. n \in 1 .. b
      BY <1>1, <1>2
    <3> QED BY <3>1 DEF Remains
  <2>2. 0 .. b - 1 \subseteq 0 .. b + m - 1
    OBVIOUS
  <2> QED BY <2>1, <2>2 DEF Inside
<1>3. CASE n > b
  <2>1. PICK t, k : t = n - 1 /\ k = n - 1 - 1
    OBVIOUS
  <2>2. /\ t \in Nat /\ k \in Nat /\ t = k + 1 /\ n = k + 2 /\ t \in Addr /\ k \in Addr
        /\ t >= b /\ t \in 0 .. b + m - 1 /\ f[t][1] = "tail" /\ f[k][1] = "skip"
    <3>1. /\ t \in Nat /\ k \in Nat /\ t = k + 1 /\ n = k + 2 /\ t >= b
          /\ t \in 0 .. b + m - 1 /\ k \in 0 .. b + m - 1
      BY <1>1, <1>3, <2>1
    <3>2. t \in Addr /\ k \in Addr
      BY <3>1, Constants
    <3> QED BY <1>1, <2>1, <3>1, <3>2
  <2>3. PICK w : w = f[t][2]
    OBVIOUS
  <2>4. w \in 1 .. t - b - 1
    BY <2>2, <2>3 DEF MarksTo
  <2>5. k >= b /\ w \in Nat /\ b + w \in 0 .. b + m - 1 /\ b + w \in Addr /\ b + w >= b
    <3>1. k >= b /\ w \in Nat /\ b + w \in 0 .. b + m - 1 /\ b + w >= b
      BY <2>2, <2>4
    <3> QED BY <3>1, Constants
  <2>6. f[k] = SkipTail(k - b)
    BY <2>2, <2>5 DEF MarksTo
  <2>7. Start(f, n) = b /\ WalkPos(f, n) = w
    <3>1. f[k][2] = k - b
      BY <2>6, UnitFacts
    <3>2. Skipped(f, n - 1) = k - (k - b)
      BY <2>1, <3>1 DEF Skipped
    <3>3. k - (k - b) = b
      BY <2>2
    <3> QED BY <2>1, <2>3, <3>2, <3>3 DEF Start, WalkPos
  <2>8. PICK u : u = f[b + w]
    OBVIOUS
  <2>9. PICK locs : locs = IF u[1] = "walk" THEN u[2] ELSE NoLocs
    OBVIOUS
  <2>10. Root(f, n) = locs
    BY <2>7, <2>8, <2>9 DEF Root
  <2>11. ASSUME NEW c \in Col, NEW i \in 1 .. locs[c].len
         PROVE  b + locs[c].pos + i - 1 \in 0 .. b + m - 1
    <3>1. CASE u[1] = "walk"
      <4>1. u \in Unit
        BY <2>5, <2>8
      <4>2. locs = u[2] /\ locs \in Locs /\ Spans(locs) \subseteq 1 .. m - 1
        <5>1. Spans(u[2]) \subseteq 1 .. m - 1
          BY <2>5, <2>8, <3>1 DEF MarksTo
        <5> QED BY <2>9, <3>1, <4>1, <5>1, WalkTypes
      <4>3. PICK q, z : q = locs[c].pos /\ z = locs[c].len
        OBVIOUS
      <4>4. q \in Nat /\ z \in Nat /\ i \in 1 .. z
        <5>1. locs[c].len \in Nat /\ locs[c].pos \in Nat
          BY <4>2, Constants DEF Locs
        <5> QED BY <2>11, <4>3, <5>1
      <4>5. q + i - 1 \in Spans(locs)
        BY <4>3, <4>4, SpansFacts
      <4>6. b + q + i - 1 \in 0 .. b + m - 1
        BY <4>2, <4>4, <4>5
      <4> QED BY <4>3, <4>6
    <3>2. CASE u[1] # "walk"
      <4>1. locs[c].len = 0
        BY <2>9, <3>2 DEF NoLocs
      <4> QED BY <2>11, <4>1
    <3> QED BY <3>1, <3>2
  <2> QED BY <2>5, <2>7, <2>10, <2>11 DEF Inside
<1> QED BY <1>2, <1>3

LEMMA FoundThere ==
  ASSUME NEW f \in [Addr -> Unit], NEW b \in Addr, NEW e \in Nat, NEW m, NEW locs, NEW w, Holds(f, b, e, locs, w),
         FilledTo(f, b, e), MarksTo(f, b, m)
  PROVE  /\ EndOfData(f) = b + e /\ Loads(f) /\ Found(f) = DataAt(f, b, locs)
         /\ Start(f, b + e) = b /\ WalkPos(f, b + e) = w /\ Root(f, b + e) = locs
         /\ DataBefore(f, b + e) = DataAt(f, b, locs)
<1>1. b \in Nat /\ \A x \in Addr : x \in Nat
  BY Constants
<1>2. b + e <= MaxSize + 1 /\ \A x \in Addr : f[x] # None <=> x < b + e
  BY DEF FilledTo
<1>3. \A x \in Addr : f[x][1] = "skip" => f[x][2] \in Nat
  BY SkipTypes
<1>4. EndOfData(f) = b + e /\ Loads(f) /\ Found(f) = DataAt(f, b, locs)
  BY <1>1, <1>2, <1>3, FoundFacts
<1>5. /\ Start(f, b + e) = b /\ WalkPos(f, b + e) = w /\ Root(f, b + e) = locs
      /\ DataBefore(f, b + e) = DataAt(f, b, locs)
  BY <1>1, HoldsFacts
<1> QED BY <1>4, <1>5

\* The data of a datafile are sequences of units.
LEMMA DataTypes ==
  ASSUME NEW f \in [Addr -> Unit], NEW b \in Addr, NEW e \in Nat, NEW locs, NEW w,
         Holds(f, b, e, locs, w), b + e <= MaxSize + 1, NEW c \in Col
  PROVE  /\ DataAt(f, b, locs)[c] \in Seq(Unit) /\ Len(DataAt(f, b, locs)[c]) = locs[c].len
         /\ locs[c].len \in 0 .. MaxLen /\ locs[c].pos \in Addr
<1>1. locs[c].len \in 0 .. MaxLen /\ locs[c].pos \in Addr /\ Spans(locs) \subseteq 1 .. e - 3
  BY DEF Holds, Locs
<1>2. PICK n, p : n = locs[c].len /\ p = locs[c].pos
  OBVIOUS
<1>3. n \in Nat /\ p \in Nat /\ b \in Nat
  BY <1>1, <1>2, Constants
<1>4. \A i \in 1 .. n : f[b + p + i - 1] \in Unit
  <2> SUFFICES ASSUME NEW i \in 1 .. n PROVE f[b + p + i - 1] \in Unit
    OBVIOUS
  <2>1. p + i - 1 \in Spans(locs)
    BY <1>2, <1>3, SpansFacts
  <2>2. p + i - 1 \in 1 .. e - 3
    BY <1>1, <2>1
  <2>3. b + p + i - 1 \in Addr
    BY <1>3, <2>2, Constants
  <2> QED BY <2>3
<1>5. DataAt(f, b, locs)[c] = [i \in 1 .. n |-> f[b + p + i - 1]]
  BY <1>2 DEF DataAt
<1>6. [i \in 1 .. n |-> f[b + p + i - 1]] \in Seq(Unit) /\ Len([i \in 1 .. n |-> f[b + p + i - 1]]) = n
  BY <1>3, <1>4, IsASeq, LenProperties
<1> QED BY <1>1, <1>2, <1>5, <1>6

LEMMA NoPlanTypes ==
  NoPlan \in PlanType
BY Constants DEF NoPlan, PlanType, NoLocs, Locs

\* LoadAll of an openable file.
LEMMA Reopened ==
  ASSUME NEW walk, NEW b, NEW e, Openable(file', b, e, stable'), e = 0 => Blank(walk),
         LoadAll(file', walk), mode' \in Modes,
         pc' = "idle", DOMAIN pending' = {}, plan' \in PlanType, told' = FALSE,
         failed' \in BOOLEAN, trust' \in {"all", "file", "none"}
  PROVE  IInv'
<1>1. /\ b \in Addr /\ b \in Nat /\ e \in Nat /\ file' \in [Addr -> Unit]
      /\ FilledTo(file', b, e) /\ MarksTo(file', b, e) /\ b + e <= MaxSize + 1
  BY Constants DEF Openable, FilledTo
<1>2. Size(file') = b + e
  BY <1>1, EndFacts
<1>3. CASE e = 0 /\ stable' = Empty
  <2>1. ~Loads(file')
    <3>1. b \in 0 .. MaxSize + 1 /\ b + e = b
      BY <1>1, <1>3, Constants
    <3>2. /\ \A x \in Addr : file'[x] # None <=> x < b
          /\ Remains(file', b)
      BY <1>1, <3>1 DEF FilledTo
    <3> QED BY <1>1, <3>1, <3>2, NothingFacts
  <2>2. /\ base' = b /\ cols' = [c \in Col |-> Clean(<<>>, 0)]
        /\ rootWalk' = walk /\ space' = {} /\ Blank(walk)
    BY <1>1, <1>2, <1>3, <2>1 DEF LoadAll
  <2>3. end' = 0 /\ Before' = 0
    BY <1>1, <1>2, <1>3, <2>2 DEF end, Before
  <2>4. Types'
    <3>1. <<>> \in Seq(Unit) /\ Len(<<>>) = 0
      BY EmptySeq
    <3>2. Clean(<<>>, 0) \in [data : Seq(Unit), pos : Addr, dirty : BOOLEAN]
      BY <3>1, Constants DEF Clean
    <3>3. \A c \in Col : Len(cols'[c].data) <= MaxLen
      BY <2>2, <3>1, Constants DEF Clean
    <3>4. \E K \in Nat : space' \subseteq 0 .. K
      BY <2>2, Constants
    <3>5. cols' \in [Col -> [data : Seq(Unit), pos : Addr, dirty : BOOLEAN]]
      BY <2>2, <3>2
    <3> QED BY <1>1, <2>2, <3>3, <3>4, <3>5 DEF Types
  <2>5. Filled' /\ Marks'
    BY <1>1, <1>3, <2>2, <2>3 DEF Filled, Marks
  <2>6. Kept'
    <3>1. file'[b] = None
      BY <1>1, <1>3 DEF FilledTo
    <3>2. file'[b][1] # "head"
      BY <3>1, UnitFacts
    <3> QED BY <1>3, <2>2, <2>3, <3>2 DEF Kept
  <2>7. Loaded' /\ Dirty' = {}
    BY <1>3, <2>2, <2>3 DEF Loaded, Clean, Dirty, Empty
  <2>8. Covered'
    <3>1. ASSUME NEW L, walk = <<L>> PROVE Spans(L) = {}
      <4>1. walk # <<>> /\ walk[1] = L
        BY <3>1
      <4> QED BY <2>2, <4>1 DEF Blank
    <3>2. \A L : rootWalk' = <<L>> => Spans(L) \subseteq Unfree'
      BY <2>2, <3>1
    <3> QED BY <2>2, <2>3, <3>2 DEF Covered
  <2>9. Planned' /\ Apart' /\ Ready' /\ Sealable' /\ Written' /\ Sealed' /\ Told'
    BY <2>7 DEF Planned, Apart, Ready, Sealable, Written, Sealed, Told
  <2> QED BY <2>4, <2>5, <2>6, <2>7, <2>8, <2>9 DEF IInv
<1>4. CASE \E locs, w : Holds(file', b, e, locs, w) /\ stable' = DataAt(file', b, locs)
  <2>1. PICK locs, w : Holds(file', b, e, locs, w) /\ stable' = DataAt(file', b, locs)
    BY <1>4
  <2>2. PICK n \in Nat : n = b + e
    BY <1>1
  <2>3. /\ EndOfData(file') = n /\ Loads(file')
        /\ Start(file', n) = b /\ WalkPos(file', n) = w /\ Root(file', n) = locs
        /\ DataBefore(file', n) = stable'
    BY <1>1, <2>1, <2>2, FoundThere
  <2>4. /\ base' = b /\ cols' = [c \in Col |-> Clean(stable'[c], locs[c].pos)]
        /\ rootWalk' = <<locs>>
        /\ space' = IF mode' = 1 THEN Spans(locs) \cup {w} ELSE {}
    BY <2>3 DEF LoadAll
  <2>5. end' = e /\ Before' = e /\ OldLocs' = locs /\ OldWalk' = w
    BY <1>1, <1>2, <2>2, <2>3, <2>4 DEF end, Before, OldLocs, OldWalk
  <2>6. e >= 4 /\ w \in 1 .. e - 3 /\ Spans(locs) \subseteq 1 .. e - 3 /\ locs \in Locs
    BY <2>1 DEF Holds
  <2>7. \A c \in Col : /\ stable'[c] \in Seq(Unit) /\ Len(stable'[c]) = locs[c].len
                       /\ locs[c].len \in 0 .. MaxLen /\ locs[c].pos \in Addr
    BY <1>1, <2>1, DataTypes
  <2>8. \A c \in Col : /\ cols'[c].data = stable'[c] /\ cols'[c].pos = locs[c].pos
                       /\ cols'[c].dirty = FALSE
    BY <2>4 DEF Clean
  <2>9. Types'
    <3>1. \A c \in Col : Clean(stable'[c], locs[c].pos) \in [data : Seq(Unit), pos : Addr, dirty : BOOLEAN]
      BY <2>7 DEF Clean
    <3>2. \A c \in Col : Len(cols'[c].data) <= MaxLen
      BY <2>7, <2>8, Constants
    <3>3. space' \subseteq 0 .. MaxSize + 1
      <4>1. e \in Nat /\ e <= MaxSize + 1 /\ MaxSize \in Nat
        BY <1>1, Constants
      <4>2. 1 .. e - 3 \subseteq 0 .. MaxSize + 1
        BY <4>1
      <4>3. Spans(locs) \cup {w} \subseteq 0 .. MaxSize + 1
        BY <2>6, <4>2
      <4> QED BY <2>4, <4>3
    <3>4. \E K \in Nat : space' \subseteq 0 .. K
      <4>1. MaxSize + 1 \in Nat
        BY Constants
      <4> QED BY <3>3, <4>1
    <3>5. cols' \in [Col -> [data : Seq(Unit), pos : Addr, dirty : BOOLEAN]]
      BY <2>4, <3>1
    <3>6. file' \in [Addr -> Unit] /\ base' \in Addr /\ mode' \in Modes /\ plan' \in PlanType
      BY <1>1, <2>4
    <3>7. DOMAIN pending' \subseteq Addr /\ \A x \in DOMAIN pending' : pending'[x] \in Unit
      BY <1>1
    <3>8. /\ pc' \in {"idle", "tail", "write", "seal", "header"}
          /\ told' \in BOOLEAN /\ failed' \in BOOLEAN /\ trust' \in {"all", "file", "none"}
      BY <1>1
    <3> QED BY <3>2, <3>4, <3>5, <3>6, <3>7, <3>8 DEF Types
  <2>10. Filled' /\ Marks'
    BY <1>1, <2>4, <2>5 DEF Filled, Marks
  <2>11. Kept'
    BY <2>1, <2>4, <2>5, <2>6 DEF Kept
  <2>12. Loaded' /\ Dirty' = {}
    BY <2>5, <2>7, <2>8 DEF Loaded, Dirty
  <2>13. Covered'
    <3>1. mode' = 1 => Spans(locs) \subseteq Unfree'
      BY <2>4 DEF Unfree
    <3>2. mode' # 1 => Spans(locs) \subseteq Unfree'
      <4>1. mode' # 1 => mode' = 2
        BY Constants
      <4>2. Spans(locs) \subseteq 0 .. e - 1
        BY <1>1, <2>6
      <4> QED BY <2>5, <4>1, <4>2 DEF Unfree
    <3>3. \A L : rootWalk' = <<L>> => L = locs
      BY <2>4
    <3> QED BY <2>4, <2>5, <3>1, <3>2, <3>3 DEF Covered
  <2>14. Planned' /\ Apart' /\ Ready' /\ Sealable' /\ Written' /\ Sealed' /\ Told'
    BY <2>12 DEF Planned, Apart, Ready, Sealable, Written, Sealed, Told
  <2> QED BY <2>9, <2>10, <2>11, <2>12, <2>13, <2>14 DEF IInv
<1> QED BY <1>3, <1>4 DEF Openable

LEMMA OpenableFound ==
  ASSUME NEW f, NEW b, NEW e, NEW d, Openable(f, b, e, d)
  PROVE  Found(f) = d
<1>1. /\ b \in Addr /\ b \in Nat /\ e \in Nat /\ f \in [Addr -> Unit]
      /\ FilledTo(f, b, e) /\ MarksTo(f, b, e)
  BY Constants DEF Openable
<1>2. CASE e = 0 /\ d = Empty
  <2>1. b \in 0 .. MaxSize + 1 /\ b + e = b
    BY <1>1, <1>2, Constants
  <2>2. /\ \A x \in Addr : f[x] # None <=> x < b
        /\ Remains(f, b)
    BY <1>1, <2>1 DEF FilledTo
  <2> QED BY <1>1, <1>2, <2>1, <2>2, NothingFacts
<1>3. CASE \E locs, w : Holds(f, b, e, locs, w) /\ d = DataAt(f, b, locs)
  <2>1. PICK locs, w : Holds(f, b, e, locs, w) /\ d = DataAt(f, b, locs)
    BY <1>3
  <2> QED BY <1>1, <2>1, FoundThere
<1> QED BY <1>2, <1>3 DEF Openable

\* When nothing is unflushed there is nothing that could get to the file.
LEMMA NothingPending ==
  ASSUME Types, DOMAIN pending = {}, NEW S \in SUBSET DOMAIN pending
  PROVE  After(S) = file
<1>1. S = {}
  OBVIOUS
<1> DEFINE w == Only(pending, S)
<1>2. DOMAIN w = {}
  BY <1>1 DEF Only
<1>3. file \in [Addr -> Unit]
  BY DEF Types
<1>4. \A x \in Addr : Put(file, w)[x] = file[x]
  BY <1>2 DEF Put
<1>5. Put(file, w) = file
  <2> HIDE DEF w
  <2>1. Put(file, w) = [x \in Addr |-> Put(file, w)[x]]
    BY DEF Put
  <2> QED BY <1>3, <1>4, <2>1
<1> QED BY <1>5 DEF After

\* Whatever gets to the file of what is not flushed, it stays in order, and the
\* datafile that was committed last stays there.
LEMMA PendingFacts ==
  ASSUME IInv, pc = "seal", NEW S \in SUBSET DOMAIN pending
  PROVE  /\ After(S) = [x \in Addr |-> IF x \in S THEN pending[x] ELSE file[x]]
         /\ After(S) \in [Addr -> Unit]
         /\ FilledTo(After(S), base, end) /\ MarksTo(After(S), base, plan.end0 + 2)
         /\ plan.end <= plan.end0 => MarksTo(After(S), base, plan.end0)
         /\ plan.end > 0 => /\ Holds(After(S), base, plan.end, OldLocs, OldWalk)
                            /\ stable = DataAt(After(S), base, OldLocs)
<1>1. /\ file \in [Addr -> Unit] /\ base \in Addr /\ base \in Nat /\ FilledTo(file, base, end)
      /\ MarksTo(file, base, plan.end) /\ plan.end \in Nat /\ plan.end0 \in Nat
      /\ DOMAIN pending \subseteq Addr /\ \A x \in DOMAIN pending : pending[x] \in Unit
  BY Constants DEF IInv, Types, Filled, Marks, Before, PlanType
<1>2. /\ plan.end0 < end /\ plan.end0 + 2 >= plan.end /\ Spans(plan.locs) \subseteq 1 .. plan.end0 - 1
  BY <1>1 DEF IInv, Planned, InPlace
<1>3. \A x \in DOMAIN pending :
        /\ x \in base .. base + plan.end0 - 1 /\ ~Untouchable(x - base)
        /\ pending[x] # None /\ pending[x][1] \in {"head", "part", "data", "walk"}
        /\ pending[x][1] = "walk" => pending[x] = Walk(plan.locs)
  BY DEF IInv, Sealable
<1>4. end \in Nat /\ base + end <= MaxSize + 1 /\ \A x \in Addr : file[x] # None <=> x < base + end
  BY <1>1 DEF FilledTo
<1>5. \A x \in DOMAIN pending : x < base + end
  BY <1>1, <1>2, <1>3, <1>4
<1>6. After(S) = [x \in Addr |-> IF x \in S THEN pending[x] ELSE file[x]]
  <2> DEFINE w == Only(pending, S)
  <2>1. DOMAIN w = S /\ \A x \in S : w[x] = pending[x]
    BY DEF Only
  <2>2. base + end \in Int /\ S \subseteq Addr
    BY <1>1, <1>4
  <2> HIDE DEF w
  <2>3. Put(file, w) = [x \in Addr |-> IF x \in DOMAIN w THEN w[x] ELSE file[x]]
    <3>1. \A x \in DOMAIN w : x < base + end
      BY <1>5, <2>1
    <3> QED BY <1>4, <2>1, <2>2, <3>1, PutInside
  <2>4. Put(file, w) = [x \in Addr |-> IF x \in S THEN pending[x] ELSE file[x]]
    BY <2>1, <2>3
  <2> QED BY <2>4 DEF After, w
<1>7. PICK g : g = After(S)
  OBVIOUS
<1>8. g \in [Addr -> Unit] /\ \A x \in Addr : g[x] = IF x \in S THEN pending[x] ELSE file[x]
  BY <1>1, <1>6, <1>7
<1>9. FilledTo(g, base, end)
  <2>1. \A x \in Addr : g[x] # None <=> x < base + end
    BY <1>3, <1>4, <1>5, <1>8
  <2>2. Remains(g, base)
    <3>1. ASSUME NEW x \in 0 .. base - 1 PROVE g[x] = file[x]
      <4>1. x \in Addr
        BY <1>1, Constants
      <4>2. x \notin S
        BY <1>1, <1>3
      <4> QED BY <1>8, <4>1, <4>2
    <3>2. Remains(file, base) /\ base <= MaxSize + 1
      <4>1. base \in 0 .. MaxSize /\ MaxSize \in Nat
        BY <1>1, Constants
      <4> QED BY <1>1, <4>1 DEF FilledTo
    <3> QED BY <1>1, <1>8, <3>1, <3>2, RemainsKept
  <2> QED BY <1>4, <2>1, <2>2 DEF FilledTo
<1>10. ASSUME NEW m \in Nat, m >= plan.end0, m >= plan.end
       PROVE  MarksTo(g, base, m)
  <2>2. Spans(plan.locs) \subseteq 1 .. m - 1 /\ 1 .. plan.end - 1 \subseteq 1 .. m - 1
    BY <1>1, <1>2, <1>10
  <2>3. ASSUME NEW x \in Addr, x >= base
        PROVE  /\ g[x][1] = "skip" => g[x] = SkipTail(x - base)
               /\ g[x][1] = "tail" => g[x][2] \in 1 .. x - base - 1
               /\ g[x][1] = "walk" => Spans(g[x][2]) \subseteq 1 .. m - 1
    <3>1. CASE x \in S
      <4>1. /\ g[x][1] \in {"head", "part", "data", "walk"}
            /\ g[x][1] = "walk" => g[x] = Walk(plan.locs)
        BY <1>3, <1>8, <3>1
      <4>2. g[x][1] = "walk" => g[x][2] = plan.locs
        BY <4>1, UnitFacts
      <4>3. g[x][1] # "skip" /\ g[x][1] # "tail"
        BY <4>1
      <4> QED BY <2>2, <4>2, <4>3
    <3>2. CASE x \notin S
      <4>1. g[x] = file[x]
        BY <1>8, <3>2
      <4>2. /\ file[x][1] = "skip" => file[x] = SkipTail(x - base)
            /\ file[x][1] = "tail" => file[x][2] \in 1 .. x - base - 1
            /\ file[x][1] = "walk" => Spans(file[x][2]) \subseteq 1 .. plan.end - 1
        BY <1>1, <2>3 DEF MarksTo
      <4> QED BY <2>2, <4>1, <4>2
    <3> QED BY <3>1, <3>2
  <2> QED BY <2>3 DEF MarksTo
<1>11. ASSUME plan.end > 0
       PROVE  Holds(g, base, plan.end, OldLocs, OldWalk) /\ stable = DataAt(g, base, OldLocs)
  <2>1. Holds(file, base, plan.end, OldLocs, OldWalk) /\ stable = DataAt(file, base, OldLocs)
    BY <1>11 DEF IInv, Kept, Before
  <2>2. \A x \in {0, plan.end - 2, plan.end - 1, OldWalk} \cup Spans(OldLocs) : g[base + x] = file[base + x]
    <3> SUFFICES ASSUME NEW x \in {0, plan.end - 2, plan.end - 1, OldWalk} \cup Spans(OldLocs)
                 PROVE  g[base + x] = file[base + x]
      OBVIOUS
    <3>1. /\ plan.end >= 4 /\ OldWalk \in 1 .. plan.end - 3 /\ Spans(OldLocs) \subseteq 1 .. plan.end - 3
      BY <2>1 DEF Holds
    <3>2. x \in 0 .. plan.end - 1
      BY <1>1, <3>1
    <3>3. plan.end <= end
      BY <1>1 DEF IInv, Planned, InPlace
    <3>4. base + x \in Addr /\ base + x - base = x
      BY <1>1, <1>4, <3>2, <3>3, Constants
    <3>5. Untouchable(x)
      BY <1>11 DEF Untouchable
    <3>6. base + x \notin S
      <4>1. PICK y : y = base + x
        OBVIOUS
      <4>2. y \in S => ~Untouchable(y - base)
        BY <1>3
      <4>3. y - base = x
        BY <1>1, <3>2, <4>1
      <4> QED BY <3>5, <4>1, <4>2, <4>3
    <3> QED BY <1>8, <3>4, <3>6
  <2> QED BY <1>1, <2>1, <2>2, HoldsKept
<1>12. MarksTo(g, base, plan.end0 + 2) /\ (plan.end <= plan.end0 => MarksTo(g, base, plan.end0))
  BY <1>1, <1>2, <1>10
<1> QED BY <1>6, <1>7, <1>8, <1>9, <1>11, <1>12

LEMMA MarksUp ==
  ASSUME NEW f, NEW b, NEW m \in Int, NEW n \in Int, m <= n, MarksTo(f, b, m)
  PROVE  MarksTo(f, b, n)
<1>1. 1 .. m - 1 \subseteq 1 .. n - 1
  OBVIOUS
<1>2. ASSUME NEW x \in Addr, x >= b
      PROVE  /\ f[x][1] = "skip" => f[x] = SkipTail(x - b)
             /\ f[x][1] = "tail" => f[x][2] \in 1 .. x - b - 1
             /\ f[x][1] = "walk" => Spans(f[x][2]) \subseteq 1 .. n - 1
  BY <1>1, <1>2 DEF MarksTo
<1> QED BY <1>2 DEF MarksTo

\* When no commit is at work that extends the file, what is there can be opened,
\* whatever of the writes gets to it.
LEMMA OpenableAfter ==
  ASSUME IInv, pc = "idle" \/ InPlace, NEW S \in SUBSET DOMAIN pending
  PROVE  Openable(After(S), base, Before, Committing)
<1>1. /\ file \in [Addr -> Unit] /\ base \in Addr /\ base \in Nat /\ FilledTo(file, base, end)
      /\ end \in Nat /\ plan.end \in Nat /\ plan.end0 \in Nat
      /\ pc \in {"idle", "tail", "write", "seal", "header"}
  BY Constants DEF IInv, Types, Filled, FilledTo, PlanType
<1>2. CASE pc = "idle"
  <2>1. After(S) = file
    BY <1>2, NothingPending DEF IInv, Sealable
  <2>2. Before = end /\ MarksTo(file, base, end) /\ Committing = stable
    BY <1>2 DEF Before, IInv, Marks, Committing
  <2>3. IF end = 0 THEN stable = Empty
        ELSE Holds(file, base, end, OldLocs, OldWalk) /\ stable = DataAt(file, base, OldLocs)
    BY <1>2, <2>2 DEF IInv, Kept
  <2> QED BY <1>1, <2>1, <2>2, <2>3 DEF Openable
<1>3. CASE pc # "idle"
  <2>1. /\ InPlace /\ pc # "tail" /\ plan.end0 = plan.end - 2 /\ Before = plan.end
        /\ end = plan.end /\ plan.end > 0
    BY <1>1, <1>2, <1>3 DEF IInv, Planned, Before, InPlace
  <2>2. CASE pc = "write"
    <3>1. After(S) = file
      BY <2>2, NothingPending DEF IInv, Sealable
    <3>2. /\ MarksTo(file, base, plan.end) /\ Committing = stable
          /\ Holds(file, base, plan.end, OldLocs, OldWalk) /\ stable = DataAt(file, base, OldLocs)
      BY <2>1, <2>2 DEF IInv, Marks, Committing, Kept
    <3> QED BY <1>1, <2>1, <3>1, <3>2 DEF Openable
  <2>3. CASE pc = "seal"
    <3>1. /\ After(S) \in [Addr -> Unit] /\ FilledTo(After(S), base, end)
          /\ MarksTo(After(S), base, plan.end0 + 2)
          /\ Holds(After(S), base, plan.end, OldLocs, OldWalk)
          /\ stable = DataAt(After(S), base, OldLocs)
      BY <2>1, <2>3, PendingFacts
    <3>2. plan.end0 + 2 = plan.end /\ Committing = stable
      BY <1>1, <2>1, <2>3 DEF Committing
    <3> QED BY <1>1, <2>1, <3>1, <3>2 DEF Openable
  <2>4. CASE pc = "header"
    <3>1. After(S) = file
      BY <2>4, NothingPending DEF IInv, Sealable
    <3>2. plan.end0 + 2 = plan.end /\ Committing = Value
      BY <1>1, <2>1, <2>4 DEF Committing
    <3>3. /\ MarksTo(file, base, plan.end)
          /\ Holds(file, base, plan.end, plan.locs, plan.walk) /\ Value = DataAt(file, base, plan.locs)
      BY <2>1, <2>4, <3>2 DEF IInv, Marks, Sealed
    <3> QED BY <1>1, <2>1, <3>1, <3>2, <3>3 DEF Openable
  <2> QED BY <1>1, <1>3, <2>1, <2>2, <2>3, <2>4
<1> QED BY <1>2, <1>3

\* Until a commit writes, the datafile that was committed before is there.
LEMMA OldOpens ==
  ASSUME IInv, pc = "idle" \/ pc = "tail"
  PROVE  /\ Openable(file, base, end, stable) /\ end \in Nat /\ (end = 0 \/ end >= 4)
         /\ end > 0 => file[base + end - 1][1] = "tail"
<1>1. /\ base \in Addr /\ file \in [Addr -> Unit] /\ FilledTo(file, base, end) /\ end \in Nat
      /\ MarksTo(file, base, end) /\ Before = end
  BY DEF IInv, Types, Filled, FilledTo, Marks, Planned, Before, InPlace
<1>2. IF end = 0 THEN stable = Empty
      ELSE Holds(file, base, end, OldLocs, OldWalk) /\ stable = DataAt(file, base, OldLocs)
  BY <1>1 DEF IInv, Kept
<1>3. Openable(file, base, end, stable)
  BY <1>1, <1>2 DEF Openable
<1>4. end > 0 => end >= 4 /\ file[base + end - 1] = CommitTail(OldWalk)
  BY <1>1, <1>2 DEF Holds
<1> QED BY <1>1, <1>3, <1>4, UnitFacts

LEMMA CutFacts ==
  base \in Nat /\ end \in Nat /\ Cut => end > 0 /\ file[base + end - 1][1] = "skip"
<1> SUFFICES ASSUME base \in Nat, end \in Nat, Cut
             PROVE  end > 0 /\ file[base + end - 1][1] = "skip"
  OBVIOUS
<1>1. end > 0 /\ IsMark(file, base + end, "skip")
  BY DEF Cut
<1>2. PICK n : n = base + end
  OBVIOUS
<1>3. n - 1 = base + end - 1
  BY <1>2
<1>4. file[n - 1][1] = "skip"
  BY <1>1, <1>2 DEF IsMark
<1> QED BY <1>1, <1>3, <1>4

LEMMA IdleLeft ==
  ASSUME IInv, pc = "idle"
  PROVE  Left
<1>1. /\ Openable(file, base, end, stable) /\ end \in Nat /\ (end = 0 \/ end >= 4)
      /\ end > 0 => file[base + end - 1][1] = "tail"
  BY OldOpens
<1>2. DOMAIN pending = {}
  BY DEF IInv, Sealable
<1>3. ~Cut
  <2> SUFFICES ASSUME Cut PROVE FALSE
    OBVIOUS
  <2>1. end > 0 /\ file[base + end - 1][1] = "skip"
    BY <1>1, CutFacts, Constants DEF IInv, Types
  <2> QED BY <1>1, <2>1
<1> QED BY <1>1, <1>2, <1>3 DEF Left

\* What failed commits have left can be opened.
LEMMA LeftOpens ==
  ASSUME Left
  PROVE  \E b, e, d : Openable(file, b, e, d)
BY DEF Left

\* A datafile is found if there is one.
LEMMA OpenableLoads ==
  ASSUME NEW f, NEW b, NEW e, NEW d, Openable(f, b, e, d)
  PROVE  /\ Loads(f) <=> e # 0
         /\ e = 0 => d = Empty
         /\ b \in Addr /\ Size(f) = b + e
<1>1. /\ b \in Addr /\ b \in Nat /\ e \in Nat /\ f \in [Addr -> Unit]
      /\ FilledTo(f, b, e) /\ MarksTo(f, b, e)
  BY Constants DEF Openable
<1>2. Size(f) = b + e
  BY <1>1, EndFacts
<1>3. CASE e = 0
  <2>1. b \in 0 .. MaxSize + 1 /\ b + e = b
    BY <1>1, <1>3, Constants
  <2>2. /\ \A x \in Addr : f[x] # None <=> x < b
        /\ Remains(f, b)
    BY <1>1, <2>1 DEF FilledTo
  <2>3. ~Loads(f)
    BY <1>1, <2>1, <2>2, NothingFacts
  <2>4. d = Empty
    BY <1>3 DEF Openable, Holds
  <2> QED BY <1>1, <1>2, <1>3, <2>3, <2>4
<1>4. CASE e # 0
  <2>1. PICK locs, w : Holds(f, b, e, locs, w)
    BY <1>4 DEF Openable
  <2>2. Loads(f)
    BY <1>1, <2>1, FoundThere
  <2> QED BY <1>1, <1>2, <1>4, <2>2
<1> QED BY <1>3, <1>4

\* What is on disk is loaded again.
LEMMA ReloadKeeps ==
  ASSUME Types, Left, Rollback, Reload
  PROVE  Inv'
<1>1. /\ pc = "idle" /\ told' = FALSE /\ DOMAIN pending = {}
      /\ UNCHANGED <<mode, file, pending, pc, plan, failed>>
      /\ LoadAll(file, rootWalk) /\ stable' = Found(file)
      /\ trust' = IF Loads(file) \/ Blank(rootWalk) THEN "all" ELSE "file"
  BY DEF Rollback, Reload, Left
<1>2. PICK b, e, d : Openable(file, b, e, d)
  BY LeftOpens
<1>3. /\ stable' = d /\ (Loads(file) <=> e # 0) /\ (e = 0 => d = Empty)
      /\ b \in Addr /\ Size(file) = b + e
  BY <1>1, <1>2, OpenableFound, OpenableLoads
<1>4. CASE Loads(file) \/ Blank(rootWalk)
  <2>1. /\ Openable(file', b, e, stable') /\ (e = 0 => Blank(rootWalk))
        /\ LoadAll(file', rootWalk) /\ mode' \in Modes
        /\ pc' = "idle" /\ DOMAIN pending' = {} /\ plan' \in PlanType /\ told' = FALSE
        /\ failed' \in BOOLEAN /\ trust' \in {"all", "file", "none"}
    <3>1. mode \in Modes /\ plan \in PlanType /\ failed \in BOOLEAN
      BY DEF Types
    <3>2. file' = file
      BY <1>1
    <3> QED BY <1>1, <1>2, <1>3, <1>4, <3>1, <3>2
  <2>2. IInv'
    BY <2>1, Reopened
  <2> QED BY <1>1, <1>4, <2>2 DEF Inv, IInv
<1>5. CASE ~(Loads(file) \/ Blank(rootWalk))
  <2>1. e = 0 /\ stable' = Empty /\ trust' = "file"
    BY <1>1, <1>3, <1>5
  <2>2. b \in Nat /\ Size(file) = b
    BY <1>3, <2>1, Constants
  <2>3. base' = b /\ cols' = [c \in Col |-> Clean(<<>>, 0)] /\ space' = {}
    BY <1>1, <1>5, <2>2 DEF LoadAll
  <2>4. end' = 0 /\ ~Cut'
    <3>1. end' = 0
      BY <1>1, <2>2, <2>3 DEF end
    <3> QED BY <3>1 DEF Cut
  <2>5. Left'
    <3>1. Openable(file', base', 0, stable')
      BY <1>1, <1>2, <1>3, <2>1, <2>3
    <3> QED BY <1>1, <2>4, <3>1 DEF Left
  <2>6. Types'
    <3>1. <<>> \in Seq(Unit) /\ Len(<<>>) = 0
      BY EmptySeq
    <3>2. Clean(<<>>, 0) \in [data : Seq(Unit), pos : Addr, dirty : BOOLEAN]
      BY <3>1, Constants DEF Clean
    <3>3. \A c \in Col : Len(cols'[c].data) <= MaxLen
      BY <2>3, <3>1, Constants DEF Clean
    <3>4. cols' \in [Col -> [data : Seq(Unit), pos : Addr, dirty : BOOLEAN]]
      BY <2>3, <3>2
    <3>5. \E K \in Nat : space' \subseteq 0 .. K
      BY <2>3, Constants
    <3> QED BY <1>1, <1>3, <2>1, <2>3, <3>3, <3>4, <3>5 DEF Types
  <2> QED BY <2>1, <2>5, <2>6 DEF Inv
<1> QED BY <1>4, <1>5

\* Memory is emptied.
LEMMA ForgetKeeps ==
  ASSUME Types, Left, Rollback, Forget
  PROVE  Inv'
<1>1. /\ told' = FALSE /\ trust' = "file"
      /\ cols' = [c \in Col |-> Clean(<<>>, 0)] /\ space' = {}
      /\ UNCHANGED <<mode, base, file, pending, pc, plan, failed, stable>>
  BY DEF Rollback, Forget
<1>2. Left'
  BY <1>1 DEF Left, Cut, end
<1>3. Types'
  <2>1. <<>> \in Seq(Unit) /\ Len(<<>>) = 0
    BY EmptySeq
  <2>2. Clean(<<>>, 0) \in [data : Seq(Unit), pos : Addr, dirty : BOOLEAN]
    BY <2>1, Constants DEF Clean
  <2>3. \A c \in Col : Len(cols'[c].data) <= MaxLen
    BY <1>1, <2>1, Constants DEF Clean
  <2>4. cols' \in [Col -> [data : Seq(Unit), pos : Addr, dirty : BOOLEAN]]
    BY <1>1, <2>2
  <2>5. \E K \in Nat : space' \subseteq 0 .. K
    BY <1>1, Constants
  <2> QED BY <1>1, <2>3, <2>4, <2>5 DEF Types
<1> QED BY <1>1, <1>2, <1>3 DEF Inv

LEMMA RollbackKeeps ==
  ASSUME Types, Left, Rollback
  PROVE  Inv'
BY ReloadKeeps, ForgetKeeps DEF Rollback

\* A file that ends with a skip tail leads the scan to where the datafile starts,
\* and so to nothing; the next process starts a new one at its end.
LEMMA CutOpens ==
  ASSUME NEW g \in [Addr -> Unit], NEW b \in Addr, NEW e \in Nat, b + e + 1 <= MaxSize,
         FilledTo(g, b, e + 1), MarksTo(g, b, e + 1), g[b + e] = SkipTail(e)
  PROVE  Openable(g, b + (e + 1), 0, Empty)
<1>1. /\ b \in Nat /\ b + e \in Addr /\ b + (e + 1) \in Nat /\ b + (e + 1) \in Addr
  BY Constants
<1>2. PICK n : n = b + (e + 1)
  OBVIOUS
<1>3. n \in Nat /\ n > b /\ n > 0 /\ n - 1 = b + e /\ n - 1 - e = b /\ n <= MaxSize + 1 /\ n \in Addr
  BY <1>1, <1>2, Constants
<1>4. Remains(g, n)
  <2>1. Remains(g, b)
    BY <1>1 DEF FilledTo
  <2>2. PICK C \in SUBSET (0 .. b) : b \in C /\ Chain(g, C)
    BY <2>1 DEF Remains
  <2>3. PICK D : D = C \cup {n}
    OBVIOUS
  <2>4. D \in SUBSET (0 .. n) /\ n \in D
    BY <1>1, <1>3, <2>3
  <2>5. Chain(g, D)
    <3>1. g[n - 1][1] = "skip" /\ g[n - 1][2] = e
      BY <1>3, UnitFacts
    <3>2. ~IsMark(g, n, "tail") /\ Skipped(g, n) = b
      BY <1>3, <3>1 DEF IsMark, Skipped
    <3> QED BY <2>2, <2>3, <3>2 DEF Chain
  <2>6. ASSUME NEW k \in 1 .. n, IsDatafile(g, k) PROVE Inside(g, k, n)
    <3>1. e + 1 \in Nat /\ b + (e + 1) <= MaxSize + 1 /\ k \in Nat /\ k <= b + (e + 1)
      BY <1>1, <1>2, <1>3
    <3>2. Inside(g, k, b + (e + 1))
      BY <1>1, <2>1, <2>6, <3>1, ReadInside
    <3> QED BY <1>2, <3>2
  <2> QED BY <2>4, <2>5, <2>6 DEF Remains
<1>5. FilledTo(g, n, 0)
  <2>1. \A x \in Addr : g[x] # None <=> x < n + 0
    BY <1>2, <1>3 DEF FilledTo
  <2>2. 0 \in Nat /\ n + 0 <= MaxSize + 1
    BY <1>3
  <2> QED BY <1>4, <2>1, <2>2 DEF FilledTo
<1>6. MarksTo(g, n, 0)
  <2>1. ASSUME NEW x \in Addr, x >= n
        PROVE  g[x][1] # "skip" /\ g[x][1] # "tail" /\ g[x][1] # "walk"
    <3>1. g[x] = None
      <4>1. ~(x < n + 0)
        BY <1>3, <2>1, Constants
      <4> QED BY <1>5, <4>1 DEF FilledTo
    <3> QED BY <3>1, UnitFacts
  <2> QED BY <2>1 DEF MarksTo
<1>7. Openable(g, n, 0, Empty)
  BY <1>3, <1>5, <1>6 DEF Openable
<1> QED BY <1>2, <1>7

\* So it is when a commit that extends the file does not get on until the data are
\* written.
LEMMA MarkThere ==
  ASSUME IInv, pc \in {"write", "seal"}, ~InPlace, NEW S \in SUBSET DOMAIN pending
  PROVE  /\ base \in Addr /\ plan.end0 \in Nat /\ plan.end0 >= 2 /\ base + plan.end0 + 1 <= MaxSize
         /\ end = plan.end0 + 1
         /\ After(S) \in [Addr -> Unit]
         /\ FilledTo(After(S), base, plan.end0 + 1) /\ MarksTo(After(S), base, plan.end0 + 1)
         /\ After(S)[base + plan.end0] = SkipTail(plan.end0)
<1>1. /\ base \in Nat /\ base \in Addr /\ plan.end \in Nat /\ plan.end0 \in Nat /\ MaxSize \in Nat
      /\ base + plan.end0 + 1 <= MaxSize /\ plan.end0 >= plan.end + 2 /\ end = plan.end0 + 1
      /\ file[base + plan.end0] = SkipTail(plan.end0)
  BY Constants DEF IInv, Types, PlanType, Planned, Ready
<1>2. plan.end <= plan.end0 /\ plan.end <= plan.end0 + 1 /\ plan.end0 >= 2 /\ base + plan.end0 \in Addr
  BY <1>1, Constants
<1>3. CASE pc = "write"
  <2>1. After(S) = file
    BY <1>3, NothingPending DEF IInv, Sealable
  <2>2. MarksTo(file, base, plan.end)
    BY <1>3 DEF IInv, Marks, Before
  <2>3. MarksTo(file, base, plan.end0 + 1)
    BY <1>1, <1>2, <2>2, MarksUp
  <2> QED BY <1>1, <1>2, <2>1, <2>3 DEF IInv, Types, Filled
<1>4. CASE pc = "seal"
  <2>1. /\ After(S) = [x \in Addr |-> IF x \in S THEN pending[x] ELSE file[x]]
        /\ After(S) \in [Addr -> Unit] /\ FilledTo(After(S), base, end)
        /\ MarksTo(After(S), base, plan.end0)
    BY <1>2, <1>4, PendingFacts
  <2>2. MarksTo(After(S), base, plan.end0 + 1)
    <3>1. plan.end0 \in Int /\ plan.end0 + 1 \in Int /\ plan.end0 <= plan.end0 + 1
      BY <1>1
    <3> QED BY <2>1, <3>1, MarksUp
  <2>3. base + plan.end0 \notin S
    <3>1. \A x \in S : x \in base .. base + plan.end0 - 1
      BY <1>4 DEF IInv, Sealable
    <3> QED BY <1>1, <3>1
  <2>4. After(S)[base + plan.end0] = file[base + plan.end0]
    BY <1>2, <2>1, <2>3
  <2> QED BY <1>1, <1>2, <2>1, <2>2, <2>4
<1> QED BY <1>3, <1>4

LEMMA LeftBehind ==
  ASSUME IInv, pc \in {"write", "seal"}, ~InPlace, NEW S \in SUBSET DOMAIN pending
  PROVE  Openable(After(S), base + end, 0, Empty)
<1>1. PICK g, b, e : g = After(S) /\ b = base /\ e = plan.end0
  OBVIOUS
<1>2. /\ b \in Addr /\ e \in Nat /\ b + e + 1 <= MaxSize /\ end = e + 1
      /\ g \in [Addr -> Unit] /\ FilledTo(g, b, e + 1) /\ MarksTo(g, b, e + 1)
      /\ g[b + e] = SkipTail(e)
  BY <1>1, MarkThere
<1>3. Openable(g, b + (e + 1), 0, Empty)
  BY <1>2, CutOpens
<1> QED BY <1>1, <1>2, <1>3

\* What is left of the file when such a commit fails.
LEMMA CutLeaves ==
  ASSUME NEW g \in [Addr -> Unit], NEW b \in Addr, NEW e \in Nat, b + e + 1 <= MaxSize, e >= 2,
         FilledTo(g, b, e + 1), MarksTo(g, b, e + 1), g[b + e] = SkipTail(e),
         file' = g, base' = b, pc' = "idle", DOMAIN pending' = {}
  PROVE  Left'
<1>1. b \in Nat /\ e + 1 \in Nat /\ e + 1 >= 3 /\ b + (e + 1) > 0 /\ b + (e + 1) - 1 = b + e
  BY Constants
<1>2. end' = e + 1
  BY <1>1, EndFacts DEF end
<1>3. Cut'
  <2>1. g[b + e][1] = "skip"
    BY UnitFacts
  <2> QED BY <1>1, <1>2, <2>1 DEF Cut, IsMark
<1>4. Openable(g, b + (e + 1), 0, Empty)
  BY CutOpens
<1> QED BY <1>1, <1>2, <1>3, <1>4 DEF Left

\* What can be opened after a crash, wherever the commit was.
LEMMA CrashLeaves ==
  ASSUME IInv, NEW S \in SUBSET DOMAIN pending
  PROVE  \E b, e, d : Openable(After(S), b, e, d)
<1>1. CASE pc = "idle" \/ InPlace
  BY <1>1, OpenableAfter
<1>2. CASE pc = "tail"
  <2>1. After(S) = file
    BY <1>2, NothingPending DEF IInv, Sealable
  <2>2. Openable(file, base, end, stable)
    BY <1>2, OldOpens
  <2> QED BY <2>1, <2>2
<1>3. CASE pc \in {"write", "seal"} /\ ~InPlace
  BY <1>3, LeftBehind
<1>4. CASE pc = "header" /\ ~InPlace
  <2>1. After(S) = file
    BY <1>4, NothingPending DEF IInv, Sealable
  <2>2. /\ base \in Addr /\ file \in [Addr -> Unit] /\ FilledTo(file, base, end) /\ end \in Nat
        /\ MarksTo(file, base, end) /\ end = plan.end0 + 2
        /\ Holds(file, base, end, plan.locs, plan.walk)
    BY <1>4 DEF IInv, Types, Filled, FilledTo, Marks, Planned, Sealed
  <2>3. Openable(file, base, end, DataAt(file, base, plan.locs))
    BY <2>2 DEF Openable
  <2> QED BY <2>1, <2>3
<1>5. pc \in {"idle", "tail", "write", "seal", "header"}
  BY DEF IInv, Types
<1> QED BY <1>1, <1>2, <1>3, <1>4, <1>5

LEMMA RestartKeeps ==
  ASSUME Inv, Restart
  PROVE  IInv'
<1>1. PICK S \in SUBSET DOMAIN pending :
        file' = After(S) /\ LoadAll(After(S), <<>>) /\ stable' = Found(After(S))
  BY DEF Restart, After
<1>2. /\ mode' \in Modes /\ pending' = NoWrites /\ pc' = "idle" /\ plan' = NoPlan
      /\ told' = FALSE /\ failed' = FALSE /\ trust' = "all"
  BY DEF Restart
<1>3. \E b, e, d : Openable(After(S), b, e, d)
  <2>1. CASE trust = "all"
    BY <2>1, CrashLeaves DEF Inv
  <2>2. CASE trust = "file"
    <3>1. After(S) = file
      BY <2>2, NothingPending DEF Inv, Left
    <3> QED BY <2>2, <3>1, LeftOpens DEF Inv
  <2>3. CASE trust = "none"
    <3>1. pc = "idle" /\ ~InPlace
      BY <2>3 DEF Inv, Lost, InPlace, NoPlan
    <3> QED BY <2>3, <3>1 DEF Restart, Idle
  <2> QED BY <2>1, <2>2, <2>3 DEF Inv, Types
<1>4. PICK b, e, d : Openable(After(S), b, e, d)
  BY <1>3
<1>5. stable' = d
  BY <1>1, <1>4, OpenableFound
<1>6. /\ Openable(file', b, e, stable') /\ (e = 0 => Blank(<<>>))
      /\ LoadAll(file', <<>>) /\ mode' \in Modes
      /\ pc' = "idle" /\ DOMAIN pending' = {} /\ plan' \in PlanType /\ told' = FALSE
      /\ failed' \in BOOLEAN /\ trust' \in {"all", "file", "none"}
  BY <1>1, <1>2, <1>4, <1>5, NoPlanTypes DEF NoWrites, Blank
<1> QED BY <1>6, Reopened

LEMMA InitKeeps ==
  ASSUME Init
  PROVE  IInv
<1>1. /\ mode \in Modes /\ base \in Addr /\ base \in Nat
      /\ file = [x \in Addr |-> IF x < base THEN Other ELSE None]
      /\ pending = NoWrites /\ cols = [c \in Col |-> Clean(<<>>, 0)] /\ rootWalk = <<>>
      /\ space = {} /\ pc = "idle" /\ plan = NoPlan /\ stable = Empty /\ told = FALSE
      /\ failed = FALSE /\ trust = "all"
  BY Assumption, Constants DEF Init
<1>2. Other # None /\ Other \in Unit /\ None \in Unit
  BY DEF Other, None, Unit
<1>3. FilledTo(file, base, 0) /\ file \in [Addr -> Unit]
  <2>1. \A x \in Addr : file[x] # None <=> x < base + 0
    BY <1>1, <1>2, Constants
  <2>2. Remains(file, base)
    <3>1. ASSUME NEW n \in 1 .. base PROVE file[n - 1] = Other
      <4>1. n - 1 \in Addr /\ n - 1 < base
        BY <1>1, Constants
      <4> QED BY <1>1, <4>1
    <3>2. \A n \in 0 .. base : ~IsMark(file, n, "tail") /\ ~IsMark(file, n, "skip")
      <4> SUFFICES ASSUME NEW n \in 0 .. base
                   PROVE  ~IsMark(file, n, "tail") /\ ~IsMark(file, n, "skip")
        OBVIOUS
      <4>1. CASE n = 0
        BY <4>1 DEF IsMark
      <4>2. CASE n # 0
        <5>1. file[n - 1][1] = "other"
          BY <1>1, <3>1, <4>2, UnitFacts
        <5> QED BY <5>1 DEF IsMark
      <4> QED BY <4>1, <4>2
    <3>3. PICK C : C = {base}
      OBVIOUS
    <3>4. C \in SUBSET (0 .. base) /\ base \in C /\ Chain(file, C)
      BY <1>1, <3>2, <3>3 DEF Chain
    <3>5. \A n \in 1 .. base : ~IsDatafile(file, n)
      BY <1>1, <3>2 DEF IsDatafile
    <3> QED BY <3>4, <3>5 DEF Remains
  <2>3. 0 \in Nat /\ base + 0 <= MaxSize + 1
    BY <1>1, Constants
  <2> QED BY <1>1, <1>2, <2>1, <2>2, <2>3 DEF FilledTo
<1>4. end = 0 /\ Before = 0
  BY <1>1, <1>3, EndFacts DEF end, Before
<1>5. Types
  <2>1. <<>> \in Seq(Unit) /\ Len(<<>>) = 0
    BY EmptySeq
  <2>2. Clean(<<>>, 0) \in [data : Seq(Unit), pos : Addr, dirty : BOOLEAN]
    BY <2>1, Constants DEF Clean
  <2>3. \A c \in Col : Len(cols[c].data) <= MaxLen
    BY <1>1, <2>1, Constants DEF Clean
  <2>4. \E K \in Nat : space \subseteq 0 .. K
    BY <1>1, Constants
  <2> QED BY <1>1, <1>3, <2>2, <2>3, <2>4, NoPlanTypes DEF Types, NoWrites
<1>6. Filled
  BY <1>3, <1>4 DEF Filled
<1>7. Marks
  <2>1. ASSUME NEW x \in Addr
        PROVE  file[x][1] # "skip" /\ file[x][1] # "tail" /\ file[x][1] # "walk"
    <3>1. file[x] = Other \/ file[x] = None
      BY <1>1
    <3> QED BY <3>1, UnitFacts
  <2> QED BY <2>1 DEF Marks, MarksTo
<1>8. Kept
  <2>1. file[base] = None
    BY <1>1
  <2>2. file[base][1] # "head"
    BY <2>1, UnitFacts
  <2> QED BY <1>1, <1>4, <2>2 DEF Kept
<1>9. Loaded /\ Dirty = {}
  BY <1>1, <1>4 DEF Loaded, Clean, Dirty, Empty
<1>10. Covered
  BY <1>1, <1>4 DEF Covered
<1>11. Planned /\ Apart /\ Ready /\ Sealable /\ Written /\ Sealed /\ Told
  BY <1>1, <1>9 DEF Planned, Apart, Ready, Sealable, Written, Sealed, Told, NoWrites
<1> QED BY <1>5, <1>6, <1>7, <1>8, <1>9, <1>10, <1>11 DEF IInv

LEMMA DataTyped ==
  ASSUME NEW c \in Col, NEW t \in Tag, NEW n \in 1 .. MaxLen
  PROVE  /\ Data(c, t, n) \in Seq(Unit) /\ Len(Data(c, t, n)) = n
         /\ DOMAIN Data(c, t, n) = 1 .. n /\ Data(c, t, n) # <<>>
         /\ \A i \in 1 .. n : Data(c, t, n)[i][1] = "data"
<1>1. n \in Nat /\ n > 0
  BY Constants
<1>2. \A i \in 1 .. n : <<"data", c, t, i>> \in Unit
  <2>1. \A i \in 1 .. n : i \in 1 .. MaxLen
    BY Constants
  <2> QED BY <2>1 DEF Unit
<1>3. PICK d : d = Data(c, t, n)
  OBVIOUS
<1>4. d = [i \in 1 .. n |-> <<"data", c, t, i>>]
  BY <1>3 DEF Data
<1>5. d \in Seq(Unit)
  BY <1>1, <1>2, <1>4, IsASeq
<1>6. DOMAIN d = 1 .. n /\ \A i \in 1 .. n : d[i][1] = "data"
  BY <1>4
<1>7. Len(d) = n
  <2>1. Len(d) \in Nat /\ DOMAIN d = 1 .. Len(d)
    BY <1>5, LenProperties
  <2>2. PICK m : m = Len(d)
    OBVIOUS
  <2>3. m \in Nat /\ 1 .. m = 1 .. n
    BY <1>6, <2>1, <2>2
  <2>4. m = n
    <3>1. n \in 1 .. m
      BY <1>1, <2>3
    <3>2. m \in 1 .. n
      BY <1>1, <2>3, <3>1
    <3> QED BY <1>1, <2>3, <3>1, <3>2
  <2> QED BY <2>2, <2>4
<1>8. d # <<>>
  BY <1>1, <1>7, EmptySeq
<1> QED BY <1>3, <1>5, <1>6, <1>7, <1>8

LEMMA ChangeTypes ==
  ASSUME Types, NEW c \in Col, Change(c)
  PROVE  Types'
<1>1. PICK t \in Tag, n \in 1 .. MaxLen :
        cols' = [cols EXCEPT ![c] = [data |-> Data(c, t, n), pos |-> 0, dirty |-> TRUE]]
  BY DEF Change
<1>2. /\ told' = FALSE
      /\ UNCHANGED <<mode, base, file, pending, space, pc, plan, failed, trust>>
  BY DEF Change
<1>3. PICK d : d = Data(c, t, n)
  OBVIOUS
<1>4. d \in Seq(Unit) /\ Len(d) = n /\ n <= MaxLen
  BY <1>3, DataTyped
<1>5. cols \in [Col -> [data : Seq(Unit), pos : Addr, dirty : BOOLEAN]]
  BY DEF Types
<1>6. \A k \in Col : cols'[k] = IF k = c THEN [data |-> d, pos |-> 0, dirty |-> TRUE] ELSE cols[k]
  BY <1>1, <1>3, <1>5
<1>7. [data |-> d, pos |-> 0, dirty |-> TRUE] \in [data : Seq(Unit), pos : Addr, dirty : BOOLEAN]
  BY <1>4, Constants
<1>8. cols' \in [Col -> [data : Seq(Unit), pos : Addr, dirty : BOOLEAN]]
  BY <1>1, <1>3, <1>5, <1>7
<1>9. \A k \in Col : Len(cols'[k].data) <= MaxLen
  <2> SUFFICES ASSUME NEW k \in Col PROVE Len(cols'[k].data) <= MaxLen
    OBVIOUS
  <2>1. k # c => cols'[k].data = cols[k].data /\ Len(cols[k].data) <= MaxLen
    BY <1>6 DEF Types
  <2>2. k = c => cols'[k].data = d
    BY <1>6
  <2> QED BY <1>4, <2>1, <2>2
<1> QED BY <1>2, <1>8, <1>9 DEF Types

LEMMA ChangeKeeps ==
  ASSUME IInv, NEW c \in Col, Change(c)
  PROVE  IInv'
<1>1. PICK t \in Tag, n \in 1 .. MaxLen :
        cols' = [cols EXCEPT ![c] = [data |-> Data(c, t, n), pos |-> 0, dirty |-> TRUE]]
  BY DEF Change
<1>2. /\ pc = "idle" /\ told' = FALSE
      /\ UNCHANGED <<mode, base, file, pending, rootWalk, space, pc, plan, stable>>
  BY DEF Change, Idle
<1>3. PICK d : d = Data(c, t, n)
  OBVIOUS
<1>4. /\ d \in Seq(Unit) /\ Len(d) = n /\ n <= MaxLen /\ d # <<>> /\ DOMAIN d = 1 .. n
      /\ \A i \in 1 .. n : d[i][1] = "data"
  BY <1>3, DataTyped
<1>5. cols \in [Col -> [data : Seq(Unit), pos : Addr, dirty : BOOLEAN]]
  BY DEF IInv, Types
<1>6. \A k \in Col : cols'[k] = IF k = c THEN [data |-> d, pos |-> 0, dirty |-> TRUE] ELSE cols[k]
  BY <1>1, <1>3, <1>5
<1>7. end' = end /\ Before' = Before /\ OldLocs' = OldLocs /\ OldWalk' = OldWalk
  BY <1>2 DEF end, Before, OldLocs, OldWalk
<1>8. Types'
  BY ChangeTypes DEF IInv
<1>9. Filled' /\ Marks' /\ Kept'
  BY <1>2, <1>7 DEF IInv, Filled, Marks, Kept
<1>10. Loaded'
  <2>1. ASSUME NEW k \in Col
        PROVE  /\ ~cols'[k].dirty => /\ cols'[k].data = stable[k]
                                     /\ Before > 0 => cols'[k].pos = OldLocs[k].pos
                                                      /\ Len(cols'[k].data) = OldLocs[k].len
               /\ cols'[k].dirty => cols'[k].data # <<>>
                                    /\ \A i \in DOMAIN cols'[k].data : cols'[k].data[i][1] = "data"
    <3>1. CASE k = c
      BY <1>4, <1>6, <3>1
    <3>2. CASE k # c
      BY <1>2, <1>6, <3>2 DEF IInv, Loaded
    <3> QED BY <3>1, <3>2
  <2> QED BY <1>2, <1>7, <2>1 DEF Loaded
<1>11. Covered'
  <2>1. Unfree' = Unfree
    BY <1>2, <1>7 DEF Unfree, Reserved
  <2> QED BY <1>2, <1>7, <2>1 DEF IInv, Covered
<1>12. Planned' /\ Apart' /\ Ready' /\ Sealable' /\ Written' /\ Sealed' /\ Told'
  BY <1>2 DEF IInv, Planned, Apart, Ready, Sealable, Written, Sealed, Told
<1> QED BY <1>8, <1>9, <1>10, <1>11, <1>12 DEF IInv

-----------------------------------------------------------------------------
(* Commit.                                                                 *)

\* What is not free has an end, and so has what a commit takes of the rest.
LEMMA UnfreeTypes ==
  ASSUME Types, end \in Nat, end = 0 \/ end >= 3
  PROVE  0 \in Unfree /\ \E K \in Nat : Unfree \subseteq 0 .. K
<1>1. PICK K \in Nat : space \subseteq 0 .. K
  BY DEF Types
<1>2. PICK e, M : e = end /\ M = K + e
  OBVIOUS
<1>3. e \in Nat /\ M \in Nat /\ (e = 0 \/ e >= 3)
  BY <1>2
<1>4. 0 .. e - 1 \subseteq 0 .. M /\ 0 .. K \subseteq 0 .. M
  BY <1>2, <1>3
<1>5. Reserved \subseteq 0 .. M
  <2>1. CASE e = 0
    BY <1>2, <1>3, <2>1 DEF Reserved
  <2>2. CASE e >= 3
    <3>1. e - 2 \in 0 .. M /\ e - 1 \in 0 .. M /\ e \in 0 .. M /\ 0 \in 0 .. M
      BY <1>2, <1>3, <2>2
    <3> QED BY <1>2, <3>1 DEF Reserved
  <2> QED BY <1>3, <2>1, <2>2
<1>6. 0 \in Unfree
  BY DEF Unfree, Reserved
<1>7. Unfree \subseteq 0 .. M
  BY <1>1, <1>2, <1>4, <1>5 DEF Unfree
<1> QED BY <1>3, <1>6, <1>7

\* The values that Commit computes.
Taken == Unfree \cup DirtySpans(Layout)
WalkAt == Allocate(Taken, 1)
NextSpace == Reserved \cup Spans(Layout) \cup {WalkAt} \cup IF mode = 2 THEN Unfree ELSE {}

LEMMA TakenTypes ==
  ASSUME Types, end \in Nat, end = 0 \/ end >= 3
  PROVE  \E K \in Nat : Taken \cup {WalkAt} \subseteq 0 .. K
<1>1. PICK K \in Nat : Unfree \subseteq 0 .. K
  BY UnfreeTypes
<1>2. 0 \in Unfree
  BY UnfreeTypes
<1>3. \A c \in Col : Len(cols[c].data) \in Nat
  BY LenProperties DEF Types
<1>4. PICK m \in Nat : DirtySpans(Layout) \subseteq 0 .. m
  BY <1>1, <1>2, <1>3, LayoutFacts
<1>5. PICK k : k = K + m
  OBVIOUS
<1>6. k \in Nat /\ 0 .. K \subseteq 0 .. k /\ 0 .. m \subseteq 0 .. k
  BY <1>5
<1>7. PICK taken : taken = Taken
  OBVIOUS
<1>8. taken \subseteq 0 .. k /\ 0 \in taken
  BY <1>1, <1>2, <1>4, <1>6, <1>7 DEF Taken
<1>9. Allocate(taken, 1) \in 1 .. k + 1
  BY <1>6, <1>8, AllocateFacts
<1>10. k + 1 \in Nat /\ 0 .. k \subseteq 0 .. k + 1 /\ 1 .. k + 1 \subseteq 0 .. k + 1
  BY <1>6
<1>11. Taken \cup {WalkAt} \subseteq 0 .. k + 1
  BY <1>7, <1>8, <1>9, <1>10 DEF WalkAt
<1> QED BY <1>10, <1>11

\* What is not free holds all that must stay.
LEMMA UnfreeFacts ==
  ASSUME IInv, pc = "idle"
  PROVE  /\ end \in Nat /\ base \in Nat /\ base + end <= MaxSize + 1
         /\ 0 \in Unfree /\ Reserved \subseteq Unfree
         /\ end > 0 => /\ end >= 4 /\ {end - 2, end - 1, end, OldWalk} \cup Spans(OldLocs) \subseteq Unfree
                       /\ OldWalk \in 1 .. end - 3 /\ Spans(OldLocs) \subseteq 1 .. end - 3
         /\ mode = 2 => 0 .. end - 1 \subseteq Unfree
<1>1. /\ end \in Nat /\ base \in Nat /\ base + end <= MaxSize + 1 /\ Before = end
      /\ mode = 1 \/ mode = 2
  BY Constants DEF IInv, Types, Filled, FilledTo, Before
<1>2. end > 0 => /\ end >= 4 /\ OldWalk \in 1 .. end - 3 /\ Spans(OldLocs) \subseteq 1 .. end - 3
  BY <1>1 DEF IInv, Kept, Holds
<1>3. 0 \in Unfree /\ Reserved \subseteq Unfree
  BY DEF Unfree, Reserved
<1>4. mode = 2 => 0 .. end - 1 \subseteq Unfree
  BY DEF Unfree
<1>5. end > 0 => {end - 2, end - 1, end} \subseteq Unfree
  BY <1>3 DEF Reserved
<1>6. end > 0 => {OldWalk} \cup Spans(OldLocs) \subseteq Unfree
  <2>1. CASE mode = 1
    <3>1. space \subseteq Unfree
      BY <2>1 DEF Unfree
    <3> QED BY <1>1, <2>1, <3>1 DEF IInv, Covered
  <2>2. CASE mode = 2
    <3>1. end > 0 => {OldWalk} \cup Spans(OldLocs) \subseteq 0 .. end - 1
      BY <1>1, <1>2
    <3> QED BY <1>4, <2>2, <3>1
  <2> QED BY <1>1, <2>1, <2>2
<1> QED BY <1>1, <1>2, <1>3, <1>4, <1>5, <1>6

\* Columns that are not written stay where nothing is free.
LEMMA CleanSpans ==
  ASSUME IInv, pc = "idle", NEW locs, NEW c \in Col, c \notin Dirty,
         locs[c].len = Len(cols[c].data), locs[c].pos = cols[c].pos
  PROVE  Span(locs[c].pos, locs[c].len) \subseteq Unfree \cap 1 .. end - 3
<1>1. /\ end \in Nat /\ Before = end /\ cols[c].dirty \in BOOLEAN /\ ~cols[c].dirty
      /\ cols[c].pos \in Nat
  BY UnfreeFacts, Constants DEF Before, IInv, Types, Dirty
<1>2. cols[c].data = stable[c] /\ (end > 0 => cols[c].pos = OldLocs[c].pos
                                              /\ Len(cols[c].data) = OldLocs[c].len)
  BY <1>1 DEF IInv, Loaded
<1>3. CASE end = 0
  <2>1. cols[c].data = <<>>
    BY <1>1, <1>2, <1>3 DEF IInv, Kept, Empty
  <2>2. locs[c].len = 0
    BY <2>1, EmptySeq
  <2> QED BY <1>1, <2>2 DEF Span
<1>4. CASE end > 0
  <2>1. Span(locs[c].pos, locs[c].len) \subseteq Spans(OldLocs)
    BY <1>2, <1>4 DEF Spans
  <2> QED BY <1>4, <2>1, UnfreeFacts
<1> QED BY <1>1, <1>3, <1>4

LEMMA LaidOut ==
  ASSUME IInv, pc = "idle"
  PROVE  /\ \A c \in Col : /\ Layout[c] = [len |-> Len(cols[c].data), pos |-> Layout[c].pos]
                           /\ Len(cols[c].data) \in 0 .. MaxLen
                           /\ c \notin Dirty => Layout[c].pos = cols[c].pos
                           /\ c \in Dirty => /\ Layout[c].pos \in Nat /\ Layout[c].len > 0
                                             /\ Span(Layout[c].pos, Layout[c].len) \cap Unfree = {}
         /\ DOMAIN Layout = Col
         /\ \A c, d \in Dirty : c # d =>
              Span(Layout[c].pos, Layout[c].len) \cap Span(Layout[d].pos, Layout[d].len) = {}
         /\ DirtySpans(Layout) \cap Unfree = {} /\ DirtySpans(Layout) \subseteq Spans(Layout)
         /\ Spans(Layout) \subseteq DirtySpans(Layout) \cup (Unfree \cap 1 .. end - 3)
         /\ WalkAt \in Nat /\ WalkAt \notin Taken
         /\ LimitOf(NextSpace) \in Nat /\ \A x \in NextSpace : x \in Nat /\ x < LimitOf(NextSpace)
<1>22. PICK K \in Nat : Unfree \subseteq 0 .. K
  <2>1. Types /\ end \in Nat /\ (end = 0 \/ end >= 3)
    BY IdleLeft DEF IInv, Left
  <2> QED BY <2>1, UnfreeTypes
<1>1. end \in Nat /\ 0 \in Unfree /\ Reserved \subseteq Unfree
  BY UnfreeFacts
<1>2. \A c \in Col : Len(cols[c].data) \in Nat /\ Len(cols[c].data) <= MaxLen
  BY LenProperties DEF IInv, Types
<1>3. PICK locs : locs = Layout
  OBVIOUS
<1>4. /\ DOMAIN locs = Col
      /\ \A c \in Col : locs[c] = [len |-> Len(cols[c].data), pos |-> locs[c].pos]
      /\ \A c \in Col : c \notin Dirty => locs[c].pos = cols[c].pos
      /\ \A c \in Dirty : locs[c].pos \in Nat /\ Span(locs[c].pos, locs[c].len) \cap Unfree = {}
      /\ \A c, d \in Dirty : c # d =>
           Span(locs[c].pos, locs[c].len) \cap Span(locs[d].pos, locs[d].len) = {}
      /\ \E m \in Nat : DirtySpans(locs) \subseteq 0 .. m
  BY <1>1, <1>2, <1>3, <1>22, LayoutFacts
<1>5. Dirty \subseteq Col
  BY DEF Dirty
<1>6. \A c \in Dirty : locs[c].len > 0
  <2> SUFFICES ASSUME NEW c \in Dirty PROVE locs[c].len > 0
    OBVIOUS
  <2>1. cols[c].data # <<>> /\ cols[c].data \in Seq(Unit)
    BY <1>5 DEF IInv, Loaded, Dirty, Types
  <2>2. Len(cols[c].data) \in Nat \ {0}
    BY <2>1, EmptySeq
  <2>3. locs[c].len = Len(cols[c].data)
    BY <1>4, <1>5
  <2> QED BY <2>2, <2>3
<1>7. DirtySpans(locs) \cap Unfree = {} /\ DirtySpans(locs) \subseteq Spans(locs)
  BY <1>4, <1>5 DEF DirtySpans, Spans
<1>8. Spans(locs) \subseteq DirtySpans(locs) \cup (Unfree \cap 1 .. end - 3)
  <2> SUFFICES ASSUME NEW c \in Col
               PROVE  Span(locs[c].pos, locs[c].len) \subseteq DirtySpans(locs) \cup (Unfree \cap 1 .. end - 3)
    BY DEF Spans
  <2>1. c \in Dirty => Span(locs[c].pos, locs[c].len) \subseteq DirtySpans(locs)
    BY DEF DirtySpans
  <2>2. c \notin Dirty => Span(locs[c].pos, locs[c].len) \subseteq Unfree \cap 1 .. end - 3
    <3>1. locs[c].len = Len(cols[c].data) /\ (c \notin Dirty => locs[c].pos = cols[c].pos)
      BY <1>4
    <3> QED BY <3>1, CleanSpans
  <2> QED BY <2>1, <2>2
<1>9. PICK m \in Nat : DirtySpans(locs) \subseteq 0 .. m
  BY <1>4
<1>10. PICK k \in Nat : k = m + K
  <2>1. m + K \in Nat
    OBVIOUS
  <2> QED BY <2>1
<1>11. PICK taken : taken = Unfree \cup DirtySpans(locs)
  OBVIOUS
<1>12. taken \subseteq 0 .. k /\ 0 \in taken
  <2>1. 0 .. m \subseteq 0 .. k /\ 0 .. K \subseteq 0 .. k
    BY <1>10
  <2> QED BY <1>1, <1>9, <1>11, <1>22, <2>1
<1>13. PICK walk : walk = Allocate(taken, 1)
  OBVIOUS
<1>14. walk \in Nat /\ walk \in 1 .. k + 1 /\ walk \notin taken
  <2>1. walk \in 1 .. k + 1 /\ Span(walk, 1) \cap taken = {}
    BY <1>12, <1>13, AllocateFacts
  <2>2. walk \in Span(walk, 1)
    BY <2>1 DEF Span
  <2> QED BY <2>1, <2>2
<1>15. PICK next : next = Reserved \cup Spans(locs) \cup {walk} \cup IF mode = 2 THEN Unfree ELSE {}
  OBVIOUS
<1>16. next \subseteq 0 .. k + 1 /\ 0 \in next
  <2>1. Spans(locs) \subseteq taken
    BY <1>8, <1>11
  <2>2. next \subseteq taken \cup {walk}
    BY <1>1, <1>11, <1>15, <2>1
  <2>3. 0 \in next
    BY <1>15 DEF Reserved
  <2> QED BY <1>12, <1>14, <2>2, <2>3
<1>17. LimitOf(next) \in Nat /\ \A x \in next : x \in Nat /\ x < LimitOf(next)
  <2>1. k + 1 \in Nat
    OBVIOUS
  <2>2. LimitOf(next) \in 1 .. k + 1 + 1 /\ \A x \in next : x < LimitOf(next)
    BY <1>16, <2>1, LimitFacts
  <2> QED BY <1>16, <2>2
<1>18. walk = WalkAt /\ taken = Taken /\ next = NextSpace
  BY <1>3, <1>11, <1>13, <1>15 DEF WalkAt, Taken, NextSpace
<1>19. \A c \in Col :
         /\ locs[c] = [len |-> Len(cols[c].data), pos |-> locs[c].pos]
         /\ Len(cols[c].data) \in 0 .. MaxLen
         /\ c \notin Dirty => locs[c].pos = cols[c].pos
         /\ c \in Dirty => /\ locs[c].pos \in Nat /\ locs[c].len > 0
                           /\ Span(locs[c].pos, locs[c].len) \cap Unfree = {}
  <2>1. \A c \in Col : Len(cols[c].data) \in 0 .. MaxLen
    BY <1>2, Constants
  <2> QED BY <1>4, <1>6, <2>1
<1>20. WalkAt \in Nat /\ WalkAt \notin Taken
  BY <1>14, <1>18
<1>21. LimitOf(NextSpace) \in Nat /\ \A x \in NextSpace : x \in Nat /\ x < LimitOf(NextSpace)
  BY <1>17, <1>18
<1> HIDE DEF WalkAt, Taken, NextSpace
<1> QED BY <1>3, <1>4, <1>7, <1>8, <1>19, <1>20, <1>21

IsInPlace == end = LimitOf(NextSpace) - 1
End0 == IF IsInPlace THEN end - 2 ELSE LimitOf(NextSpace)

LEMMA CommitPlan ==
  ASSUME IInv, pc = "idle", base + End0 + 1 <= MaxSize
  PROVE  /\ End0 \in Addr
         /\ IF IsInPlace THEN mode = 1 /\ end >= 4 /\ End0 = end - 2 ELSE End0 >= end + 2
         /\ WalkAt \in 1 .. End0 - 1 /\ Spans(Layout) \subseteq 1 .. End0 - 1
         /\ Layout \in Locs
         /\ NextSpace \subseteq 0 .. MaxSize + 1
         /\ end \notin Spans(Layout) \cup {WalkAt}
<1>1. PICK limit, e0, walk, locs :
        limit = LimitOf(NextSpace) /\ e0 = End0 /\ walk = WalkAt /\ locs = Layout
  OBVIOUS
<1>2. /\ end \in Nat /\ base \in Nat /\ MaxSize \in Nat /\ base + e0 + 1 <= MaxSize
      /\ IsInPlace <=> end = limit - 1
      /\ e0 = IF IsInPlace THEN end - 2 ELSE limit
  BY <1>1, UnfreeFacts, Constants DEF IsInPlace, End0
<1>3. /\ limit \in Nat /\ \A x \in NextSpace : x \in Nat /\ x < limit
      /\ walk \in Nat /\ walk \notin Taken
      /\ DirtySpans(locs) \cap Unfree = {} /\ DirtySpans(locs) \subseteq Spans(locs)
      /\ Spans(locs) \subseteq DirtySpans(locs) \cup (Unfree \cap 1 .. end - 3)
  BY <1>1, LaidOut
<1>4. /\ 0 \in Unfree
      /\ end > 0 => end >= 4 /\ {end - 2, end - 1, end} \subseteq Unfree
      /\ mode = 2 => 0 .. end - 1 \subseteq Unfree
  BY UnfreeFacts
<1>5. Unfree \subseteq Taken /\ DirtySpans(locs) \subseteq Taken
  BY <1>1 DEF Taken
<1>6. walk \in NextSpace /\ Spans(locs) \subseteq NextSpace /\ (end > 0 => end \in NextSpace)
  BY <1>1 DEF NextSpace, Reserved
<1>7. walk # 0 /\ walk < limit
  BY <1>3, <1>4, <1>5, <1>6
<1>8. end > 0 => walk # end - 2 /\ walk # end - 1 /\ walk # end
  BY <1>3, <1>4, <1>5
<1>9. \A x \in Spans(locs) : /\ x \in Nat /\ x < limit /\ x # 0
                             /\ end > 0 => x # end - 2 /\ x # end - 1 /\ x # end
  <2> SUFFICES ASSUME NEW x \in Spans(locs)
               PROVE  /\ x \in Nat /\ x < limit /\ x # 0
                      /\ end > 0 => x # end - 2 /\ x # end - 1 /\ x # end
    OBVIOUS
  <2>1. x \in Nat /\ x < limit
    BY <1>3, <1>6
  <2>2. CASE x \in DirtySpans(locs)
    BY <1>3, <1>4, <2>1, <2>2
  <2>3. CASE x \in 1 .. end - 3
    BY <1>2, <2>1, <2>3
  <2> QED BY <1>3, <2>1, <2>2, <2>3
<1>10. PICK S : S = Spans(locs) \cup {walk}
  OBVIOUS
<1>20. \A y \in S : /\ y \in Nat /\ y < limit /\ y # 0
                    /\ end > 0 => y # end - 2 /\ y # end - 1 /\ y # end
  <2>1. /\ walk \in Nat /\ walk < limit /\ walk # 0
        /\ end > 0 => walk # end - 2 /\ walk # end - 1 /\ walk # end
    BY <1>3, <1>7, <1>8
  <2>2. PICK T : T = Spans(locs)
    OBVIOUS
  <2>3. \A y \in T : /\ y \in Nat /\ y < limit /\ y # 0
                     /\ end > 0 => y # end - 2 /\ y # end - 1 /\ y # end
    BY <1>9, <2>2
  <2> QED BY <1>10, <2>1, <2>2, <2>3, Zenon
<1>11. /\ e0 \in Addr /\ limit <= MaxSize + 2
       /\ IF IsInPlace THEN mode = 1 /\ end >= 4 /\ e0 = end - 2 ELSE e0 >= end + 2
       /\ S \subseteq 1 .. e0 - 1
  <2> HIDE DEF IsInPlace
  <2>1. ASSUME IsInPlace
        PROVE  /\ e0 \in Addr /\ limit <= MaxSize + 2 /\ mode = 1 /\ end >= 4 /\ e0 = end - 2
               /\ S \subseteq 1 .. e0 - 1
    <3>1. end = limit - 1 /\ e0 = end - 2 /\ end > 0 /\ end >= 4
      BY <1>2, <1>3, <1>4, <1>7, <2>1
    <3>2. e0 \in Addr /\ limit <= MaxSize + 2
      BY <1>2, <1>3, <3>1, Constants
    <3>3. \A x \in S : x \in 1 .. e0 - 1
      <4> SUFFICES ASSUME NEW x \in S PROVE x \in 1 .. e0 - 1
        OBVIOUS
      <4>1. x \in Nat /\ x < limit /\ x # 0 /\ x # end - 2 /\ x # end - 1 /\ x # end
        BY <1>20, <3>1
      <4> QED BY <1>2, <1>3, <3>1, <4>1
    <3>4. mode # 2
      <4>1. walk \in S
        BY <1>10
      <4>2. walk \in 0 .. end - 1
        BY <1>2, <3>1, <3>3, <4>1
      <4> QED BY <1>3, <1>4, <1>5, <4>2
    <3>5. mode = 1
      BY <3>4, Constants DEF IInv, Types
    <3> QED BY <3>1, <3>2, <3>3, <3>5
  <2>2. ASSUME ~IsInPlace
        PROVE  /\ e0 \in Addr /\ limit <= MaxSize + 2 /\ e0 >= end + 2
               /\ S \subseteq 1 .. e0 - 1
    <3>1. end # limit - 1 /\ e0 = limit
      BY <1>2, <2>2
    <3>2. e0 >= end + 2
      <4>1. end > 0 => end < limit
        BY <1>3, <1>6
      <4>2. 1 < limit
        BY <1>3, <1>7
      <4>3. PICK e \in Nat, l \in Nat : e = end /\ l = limit
        BY <1>2, <1>3
      <4>4. (e > 0 => e < l) /\ 1 < l /\ e # l - 1
        BY <3>1, <4>1, <4>2, <4>3
      <4>5. l >= e + 2
        BY <4>4
      <4> QED BY <3>1, <4>3, <4>5
    <3>3. \A x \in S : x \in 1 .. e0 - 1
      <4> SUFFICES ASSUME NEW x \in S PROVE x \in 1 .. e0 - 1
        OBVIOUS
      <4>1. x \in Nat /\ x < limit /\ x # 0
        BY <1>20
      <4> QED BY <1>3, <3>1, <4>1
    <3>4. e0 \in Addr /\ limit <= MaxSize + 2
      <4>1. base + limit + 1 <= MaxSize
        BY <1>2, <3>1
      <4>2. limit \in 0 .. MaxSize /\ limit <= MaxSize + 2
        BY <1>2, <1>3, <4>1
      <4> QED BY <3>1, <4>2, Constants
    <3> QED BY <3>2, <3>3, <3>4
  <2> QED BY <2>1, <2>2
<1>12. walk \in 1 .. e0 - 1 /\ Spans(locs) \subseteq 1 .. e0 - 1
  BY <1>10, <1>11
<1>13. NextSpace \subseteq 0 .. MaxSize + 1
  <2> SUFFICES ASSUME NEW x \in NextSpace PROVE x \in 0 .. MaxSize + 1
    OBVIOUS
  <2>1. x \in Nat /\ x < limit
    BY <1>3
  <2> QED BY <1>2, <1>3, <1>11, <2>1
<1>15. end \notin Spans(locs) \cup {walk}
  <2>1. end \notin S
    BY <1>2, <1>20
  <2> QED BY <1>10, <2>1
<1>16. locs \in Locs
  <2>1. /\ DOMAIN locs = Col
        /\ \A c \in Col : /\ locs[c] = [len |-> Len(cols[c].data), pos |-> locs[c].pos]
                          /\ Len(cols[c].data) \in 0 .. MaxLen
                          /\ c \notin Dirty => locs[c].pos = cols[c].pos
                          /\ c \in Dirty => locs[c].pos \in Nat /\ locs[c].len > 0
    BY <1>1, LaidOut
  <2>2. ASSUME NEW c \in Col PROVE locs[c].pos \in Addr
    <3>1. CASE c \notin Dirty
      BY <2>1, <3>1 DEF IInv, Types
    <3>2. CASE c \in Dirty
      <4>1. PICK p, n : p = locs[c].pos /\ n = locs[c].len
        OBVIOUS
      <4>2. n = Len(cols[c].data)
        BY <2>1, <4>1
      <4>3. p \in Nat /\ n \in Nat /\ n > 0
        BY <2>1, <3>2, <4>1, <4>2, Constants
      <4>4. p + 1 - 1 \in Spans(locs)
        <5>1. 1 \in 1 .. n
          BY <4>3
        <5> QED BY <4>1, <4>3, <5>1, SpansFacts
      <4>5. p \in 1 .. e0 - 1
        <5>1. p + 1 - 1 = p
          BY <4>3
        <5>2. p \in Spans(locs)
          BY <4>4, <5>1
        <5> QED BY <1>12, <5>2
      <4> QED BY <1>2, <1>11, <4>1, <4>5, Constants
    <3> QED BY <3>1, <3>2
  <2>3. \A c \in Col : locs[c] \in [len : 0 .. MaxLen, pos : Addr]
    BY <2>1, <2>2
  <2>4. locs = [c \in Col |-> locs[c]]
    <3>1. Layout = [c \in DOMAIN Layout |-> Layout[c]]
      BY DEF Layout
    <3> QED BY <1>1, <2>1, <3>1
  <2> QED BY <2>3, <2>4 DEF Locs
<1> HIDE DEF IsInPlace
<1> QED BY <1>1, <1>11, <1>12, <1>13, <1>15, <1>16


\* What Commit does, said with these.
LEMMA CommitSteps ==
  ASSUME Commit
  PROVE  /\ Idle /\ UNCHANGED <<mode, base, file, pending, cols, stable, trust>>
         /\ \/ /\ rootWalk' = rootWalk
               /\ space' = IF mode = 1 THEN Taken \cup {WalkAt} ELSE {}
               /\ Returns(FALSE)
            \/ /\ base + End0 + 1 <= MaxSize /\ rootWalk' = <<Layout>>
               /\ \/ /\ end = 0 /\ \A c \in Col : Layout[c].len = 0
                     /\ space' = {} /\ Returns(TRUE)
                  \/ /\ rootWalk = <<Layout>> /\ ~(end = 0 /\ \A c \in Col : Layout[c].len = 0)
                     /\ space' = IF mode = 1 THEN Taken \cup {WalkAt} ELSE {}
                     /\ Returns(TRUE)
                  \/ /\ space' = IF mode = 1 THEN Taken \cup {WalkAt} ELSE {}
                     /\ trust = "all"
                     /\ pc' = IF IsInPlace THEN "write" ELSE "tail"
                     /\ plan' = [end |-> end, end0 |-> End0, locs |-> Layout, walk |-> WalkAt,
                                 next |-> IF IsInPlace THEN NextSpace \ {end} ELSE NextSpace]
                     /\ told' = FALSE /\ failed' = FALSE
BY DEF Commit, Taken, WalkAt, NextSpace, IsInPlace, End0

\* It leaves the types and the file.
LEMMA CommitTypes ==
  ASSUME Types, Commit, end \in Nat, end = 0 \/ end >= 3
  PROVE  /\ \E K \in Nat : space' \subseteq 0 .. K
         /\ plan' = NoPlan => Types'
<1>1. \/ space' = Taken \cup {WalkAt}
      \/ space' = {}
  BY CommitSteps
<1>2. PICK K \in Nat : Taken \cup {WalkAt} \subseteq 0 .. K
  BY TakenTypes
<1>3. space' \subseteq 0 .. K
  BY <1>1, <1>2
<1>4. /\ UNCHANGED <<mode, base, file, pending, cols, stable, trust>>
      /\ Returns(TRUE) \/ Returns(FALSE)
         \/ (pc' \in {"write", "tail"} /\ told' = FALSE /\ failed' = FALSE)
  BY CommitSteps
<1>5. pc' \in {"idle", "tail", "write", "seal", "header"} /\ told' \in BOOLEAN /\ failed' \in BOOLEAN
  BY <1>4 DEF Returns
<1>6. \E k \in Nat : space' \subseteq 0 .. k
  BY <1>3
<1>7. ASSUME plan' = NoPlan PROVE Types'
  BY <1>4, <1>5, <1>6, <1>7, NoPlanTypes DEF Types
<1> QED BY <1>6, <1>7

LEMMA CommitKeeps ==
  ASSUME IInv, Commit
  PROVE  IInv'
<1> USE DEF IInv
<1>1. pc = "idle" /\ UNCHANGED <<mode, base, file, pending, cols, stable, trust>>
  BY CommitSteps DEF Idle
<1>2. PICK locs, walk : locs = Layout /\ walk = WalkAt
  OBVIOUS
<1>3. /\ \A c \in Col : /\ locs[c].len = Len(cols[c].data)
                        /\ c \notin Dirty => locs[c].pos = cols[c].pos
                        /\ c \in Dirty => locs[c].len > 0 /\ locs[c].pos \in Nat
                                          /\ Span(locs[c].pos, locs[c].len) \cap Unfree = {}
      /\ \A c, d \in Dirty : c # d =>
           Span(locs[c].pos, locs[c].len) \cap Span(locs[d].pos, locs[d].len) = {}
      /\ DirtySpans(locs) \cap Unfree = {}
      /\ Spans(locs) \subseteq Taken /\ Unfree \subseteq Taken
      /\ walk \notin Unfree /\ walk \notin DirtySpans(locs)
  <2>1. /\ \A c \in Col : /\ Layout[c] = [len |-> Len(cols[c].data), pos |-> Layout[c].pos]
                          /\ c \notin Dirty => Layout[c].pos = cols[c].pos
                          /\ c \in Dirty => /\ Layout[c].pos \in Nat /\ Layout[c].len > 0
                                            /\ Span(Layout[c].pos, Layout[c].len) \cap Unfree = {}
        /\ \A c, d \in Dirty : c # d =>
             Span(Layout[c].pos, Layout[c].len) \cap Span(Layout[d].pos, Layout[d].len) = {}
        /\ DirtySpans(Layout) \cap Unfree = {}
        /\ Spans(Layout) \subseteq DirtySpans(Layout) \cup (Unfree \cap 1 .. end - 3)
        /\ WalkAt \notin Taken
    BY <1>1, LaidOut
  <2>2. ASSUME NEW c \in Col PROVE locs[c].len = Len(cols[c].data)
    <3>1. PICK p, n : p = locs[c].pos /\ n = Len(cols[c].data)
      OBVIOUS
    <3>2. locs[c] = [len |-> n, pos |-> p]
      BY <1>2, <2>1, <3>1
    <3> QED BY <3>1, <3>2
  <2> QED BY <1>2, <2>1, <2>2 DEF Taken
<1>4. /\ end \in Nat /\ base \in Nat /\ 0 \in Unfree
      /\ end > 0 => /\ end >= 4 /\ {end - 2, end - 1, end, OldWalk} \cup Spans(OldLocs) \subseteq Unfree
      /\ mode = 2 => 0 .. end - 1 \subseteq Unfree
  BY <1>1, UnfreeFacts
<1>5. /\ end' = end /\ Before = end /\ Dirty' = Dirty
      /\ Before' = Before => OldLocs' = OldLocs /\ OldWalk' = OldWalk
  BY <1>1 DEF end, Before, Dirty, OldLocs, OldWalk
<1>6. ASSUME Before' = Before, pc' \in {"idle", "tail", "write"}
      PROVE  Filled' /\ Marks' /\ Kept' /\ Loaded'
  <2>1. Filled' /\ Marks'
    BY <1>1, <1>5, <1>6 DEF Filled, Marks
  <2>2. Kept'
    BY <1>1, <1>5, <1>6 DEF Kept
  <2>3. Loaded'
    BY <1>1, <1>5, <1>6 DEF Loaded
  <2> QED BY <2>1, <2>2, <2>3
<1>7. ASSUME NEW success \in BOOLEAN, Returns(success), success => Dirty = {},
             \E K \in Nat : space' \subseteq 0 .. K,
             mode = 1 /\ end > 0 => Spans(OldLocs) \cup {OldWalk} \subseteq space',
             \A l : rootWalk' = <<l>> => Spans(l) \subseteq Unfree'
      PROVE  IInv'
  <2>1. pc' = "idle" /\ plan' = NoPlan /\ told' = success /\ failed' \in BOOLEAN
    BY <1>7 DEF Returns
  <2>2. Before' = Before
    BY <1>5, <2>1 DEF Before
  <2>3. Types'
    <3>1. NoPlan \in PlanType
      BY NoPlanTypes
    <3> QED BY <1>1, <1>7, <2>1, <3>1 DEF Types
  <2>4. Filled' /\ Marks' /\ Kept' /\ Loaded'
    BY <1>6, <2>1, <2>2
  <2>5. Covered'
    BY <1>1, <1>5, <1>7, <2>1, <2>2 DEF Covered
  <2>6. Planned' /\ Apart' /\ Ready' /\ Sealable' /\ Written' /\ Sealed' /\ Told'
    BY <1>1, <1>5, <1>7, <2>1 DEF Planned, Apart, Ready, Sealable, Written, Sealed, Told
  <2> QED BY <2>3, <2>4, <2>5, <2>6
<1>8. CASE /\ end = 0 /\ (\A c \in Col : Layout[c].len = 0) /\ space' = {} /\ Returns(TRUE)
           /\ rootWalk' = <<locs>>
  <2>1. Dirty = {}
    BY <1>2, <1>3, <1>8 DEF Dirty
  <2>2. Spans(locs) = {}
    <3>1. \A c \in Col : Span(locs[c].pos, locs[c].len) = {}
      <4> SUFFICES ASSUME NEW c \in Col PROVE Span(locs[c].pos, locs[c].len) = {}
        OBVIOUS
      <4>1. locs[c].len = 0
        BY <1>2, <1>8
      <4>2. locs[c].pos = cols[c].pos /\ cols[c].pos \in Nat
        BY <1>3, <2>1, Constants DEF Types
      <4> QED BY <4>1, <4>2 DEF Span
    <3> QED BY <3>1 DEF Spans
  <2>3. \A l : rootWalk' = <<l>> => Spans(l) \subseteq Unfree'
    <3>1. \A l : rootWalk' = <<l>> => l = locs
      BY <1>8
    <3> QED BY <2>2, <3>1
  <2>4. \E K \in Nat : space' \subseteq 0 .. K
    BY <1>8, Constants
  <2>5. mode = 1 /\ end > 0 => Spans(OldLocs) \cup {OldWalk} \subseteq space'
    BY <1>8
  <2>6. Returns(TRUE) /\ TRUE \in BOOLEAN
    BY <1>8
  <2> QED BY <1>7, <2>1, <2>3, <2>4, <2>5, <2>6
<1>9. space' = (IF mode = 1 THEN Taken \cup {walk} ELSE {})
        => /\ \E K \in Nat : space' \subseteq 0 .. K
           /\ mode = 1 => /\ Unfree \subseteq space' /\ Spans(locs) \subseteq space'
                          /\ end > 0 => Spans(OldLocs) \cup {OldWalk} \subseteq space'
  <2>1. \E K \in Nat : space' \subseteq 0 .. K
    <3>1. end = 0 \/ end >= 3
      BY <1>4
    <3> QED BY <1>4, <3>1, CommitTypes
  <2> QED BY <1>3, <1>4, <2>1
<1>12. ASSUME space' = (IF mode = 1 THEN Taken \cup {walk} ELSE {})
       PROVE  Unfree \subseteq Unfree'
  <2>1. mode' = mode /\ Reserved' = Reserved
    BY <1>1, <1>5 DEF Reserved
  <2>2. CASE mode = 1
    BY <1>9, <1>12, <2>1, <2>2 DEF Unfree
  <2>3. CASE mode = 2
    BY <1>5, <2>1, <2>3 DEF Unfree
  <2> QED BY <2>2, <2>3, Constants DEF Types
<1>13. CASE rootWalk' = rootWalk /\ space' = (IF mode = 1 THEN Taken \cup {walk} ELSE {}) /\ Returns(FALSE)
  <2>1. \A l : rootWalk' = <<l>> => Spans(l) \subseteq Unfree'
    BY <1>1, <1>12, <1>13 DEF Covered
  <2> QED BY <1>7, <1>9, <1>13, <2>1
<1>10. CASE /\ rootWalk = <<locs>> /\ space' = (IF mode = 1 THEN Taken \cup {walk} ELSE {})
            /\ Returns(TRUE) /\ rootWalk' = <<locs>>
  <2>1. Spans(locs) \subseteq Unfree
    BY <1>1, <1>10 DEF Covered
  <2>2. Dirty = {}
    <3> SUFFICES ASSUME NEW c \in Dirty PROVE FALSE
      OBVIOUS
    <3>1. c \in Col
      BY DEF Dirty
    <3>2. PICK p, n : p = locs[c].pos /\ n = locs[c].len
      OBVIOUS
    <3>3. p \in Nat /\ n > 0 /\ Span(p, n) \cap Unfree = {}
      BY <1>3, <3>1, <3>2
    <3>4. n \in Nat
      BY <1>3, <3>1, <3>2 DEF Types
    <3>5. p \in Span(p, n) /\ Span(p, n) \subseteq Spans(locs)
      BY <3>1, <3>2, <3>3, <3>4 DEF Span, Spans
    <3> QED BY <2>1, <3>3, <3>5
  <2>3. \A l : rootWalk' = <<l>> => Spans(l) \subseteq Unfree'
    <3>1. \A l : rootWalk' = <<l>> => l = locs
      BY <1>10
    <3> QED BY <1>10, <1>12, <2>1, <3>1
  <2> QED BY <1>7, <1>9, <1>10, <2>2, <2>3
<1>11. CASE /\ space' = (IF mode = 1 THEN Taken \cup {walk} ELSE {})
            /\ pc' = (IF IsInPlace THEN "write" ELSE "tail")
            /\ plan' = [end |-> end, end0 |-> End0, locs |-> locs, walk |-> walk,
                        next |-> IF IsInPlace THEN NextSpace \ {end} ELSE NextSpace]
            /\ told' = FALSE /\ failed' = FALSE
            /\ base + End0 + 1 <= MaxSize /\ rootWalk' = <<locs>>
  <2> HIDE DEF IsInPlace, End0
  <2>1. PICK e0, next : e0 = End0 /\ next = IF IsInPlace THEN NextSpace \ {end} ELSE NextSpace
    OBVIOUS
  <2>2. /\ plan'.end = end /\ plan'.end0 = e0 /\ plan'.locs = locs /\ plan'.walk = walk
        /\ plan'.next = next
    BY <1>11, <2>1
  <2>3. Before' = Before
    BY <1>5, <1>11, <2>2 DEF Before
  <2>4. /\ e0 \in Addr
        /\ IF IsInPlace THEN mode = 1 /\ end >= 4 /\ e0 = end - 2 ELSE e0 >= end + 2
        /\ walk \in 1 .. e0 - 1 /\ Spans(locs) \subseteq 1 .. e0 - 1
        /\ locs \in Locs /\ NextSpace \subseteq 0 .. MaxSize + 1
        /\ end \notin Spans(locs) \cup {walk}
    BY <1>1, <1>2, <1>11, <2>1, CommitPlan
  <2>5. e0 \in Nat /\ (InPlace' <=> IsInPlace)
    <3>1. e0 \in Nat
      BY <2>4, Constants
    <3>2. e0 < end <=> IsInPlace
      BY <1>4, <2>4, <3>1
    <3> QED BY <2>2, <3>1, <3>2 DEF InPlace
  <2>6. Types'
    <3>1. next \subseteq 0 .. MaxSize + 1
      BY <2>1, <2>4
    <3>2. walk \in Addr
      BY <2>4, Constants
    <3>3. plan' \in PlanType
      BY <1>4, <1>11, <2>1, <2>4, <3>1, <3>2 DEF PlanType
    <3> QED BY <1>1, <1>9, <1>11, <3>3 DEF Types
  <2>7. Filled' /\ Marks' /\ Kept' /\ Loaded'
    BY <1>6, <1>11, <2>3
  <2>8. Covered'
    BY <1>1, <1>5, <1>9, <1>11, <2>2, <2>3 DEF Covered
  <2>9. Planned'
    <3>1. mode = 1 => Spans(locs) \cup {walk} \subseteq next
      BY <1>2, <2>1, <2>4 DEF NextSpace
    <3>2. \A c \in Col : locs[c].len = Len(cols[c].data) /\ (~cols[c].dirty => locs[c].pos = cols[c].pos)
      BY <1>3 DEF Dirty
    <3>3. end' = end /\ (pc' = "tail" \/ (pc' = "write" /\ IsInPlace))
      BY <1>5, <1>11
    <3>4. base + e0 + 1 <= MaxSize /\ rootWalk' = <<locs>>
      BY <1>11, <2>1
    <3>5. IF IsInPlace THEN mode = 1 /\ pc' # "tail" /\ e0 = end - 2 ELSE e0 >= end + 2
      BY <1>11, <2>4
    <3> QED BY <1>1, <2>2, <2>4, <2>5, <3>1, <3>2, <3>3, <3>4, <3>5 DEF Planned
  <2>10. Apart'
    <3>1. ASSUME NEW x \in DirtySpans(locs) \cup {walk}
          PROVE  x # 0 /\ x # end /\ ~Untouchable(x)'
      <4>1. x \notin Unfree /\ x \in 1 .. e0 - 1
        BY <1>3, <2>4 DEF DirtySpans, Spans, Dirty
      <4>2. x # 0 /\ x # end
        BY <1>4, <4>1
      <4>3. Untouchable(x)' => x \in Unfree
        <5>1. /\ plan'.end = end /\ OldWalk' = OldWalk /\ mode' = mode
              /\ Spans(OldLocs)' = Spans(OldLocs)
          BY <1>1, <1>5, <2>2, <2>3 DEF Spans
        <5> QED BY <1>4, <5>1 DEF Untouchable
      <4> QED BY <4>1, <4>2, <4>3
    <3>2. /\ Dirty' = Dirty /\ DirtySpans(plan.locs)' = DirtySpans(locs)
          /\ plan'.locs = locs /\ plan'.walk = walk /\ plan'.end = end
      BY <1>5, <2>2 DEF DirtySpans
    <3> QED BY <1>3, <3>1, <3>2 DEF Apart
  <2>11. Ready'
    <3>1. CASE pc' = "write"
      <4>1. IsInPlace /\ end >= 4 /\ e0 = end - 2
        BY <1>11, <2>4, <3>1
      <4>2. file[base + e0] = SkipTail(e0)
        <5>1. file[base + end - 2] = SkipTail(end - 2)
          BY <1>1, <1>5, <4>1 DEF Kept, Holds
        <5>2. base + end - 2 = base + e0
          BY <1>4, <4>1
        <5> QED BY <4>1, <5>1, <5>2
      <4>3. ASSUME NEW x \in Addr, x >= base + end PROVE file[x][1] # "tail"
        <5>1. file[x] = None
          BY <1>4, <4>3, Constants DEF Filled, FilledTo
        <5> QED BY <5>1, UnitFacts
      <4> QED BY <1>1, <2>2, <4>2, <4>3 DEF Ready
    <3>2. CASE pc' = "tail"
      BY <3>2 DEF Ready
    <3> QED BY <1>11, <3>1, <3>2
  <2>12. Sealable' /\ Written' /\ Sealed' /\ Told'
    BY <1>1, <1>11 DEF Sealable, Written, Sealed, Told
  <2> QED BY <2>6, <2>7, <2>8, <2>9, <2>10, <2>11, <2>12
<1> QED BY <1>2, <1>8, <1>10, <1>11, <1>13, CommitSteps

-----------------------------------------------------------------------------
(* The later steps of a commit.                                            *)

\* Where the datafile that was committed last still is, its columns and its walk
\* are where they were.
LEMMA OldFacts ==
  ASSUME NEW f, NEW b \in Nat, NEW e \in Nat, NEW locs, NEW w, Holds(f, b, e, locs, w)
  PROVE  Root(f, b + e) = locs /\ WalkPos(f, b + e) = w
BY HoldsFacts

\* The extension of the file leaves what is before its end.
LEMMA Marked ==
  ASSUME IInv, pc = "tail", NEW g, g = Put1(file, plan.end0, SkipTail(plan.end0))
  PROVE  /\ g = [x \in Addr |-> IF x = base + plan.end0 THEN SkipTail(plan.end0)
                               ELSE IF base + plan.end <= x /\ x < base + plan.end0 THEN Hole
                               ELSE file[x]]
         /\ g \in [Addr -> Unit]
         /\ FilledTo(g, base, plan.end0 + 1) /\ MarksTo(g, base, plan.end)
<1>1. /\ file \in [Addr -> Unit] /\ base \in Nat /\ FilledTo(file, base, end)
      /\ MarksTo(file, base, plan.end) /\ plan.end \in Nat /\ plan.end0 \in Nat
  BY Constants DEF IInv, Types, Filled, Marks, Before, PlanType
<1>2. /\ plan.end0 >= plan.end + 2 /\ end = plan.end /\ base + plan.end0 + 1 <= MaxSize
  BY DEF IInv, Planned
<1>3. base + plan.end0 \in Addr /\ base + plan.end \in Int /\ base + plan.end0 >= base + plan.end
  BY <1>1, <1>2, Constants
<1>4. \A x \in Addr : file[x] # None <=> x < base + plan.end
  BY <1>1, <1>2 DEF FilledTo
<1>5. g = [x \in Addr |-> IF x = base + plan.end0 THEN SkipTail(plan.end0)
                              ELSE IF base + plan.end <= x /\ x < base + plan.end0 THEN Hole
                              ELSE file[x]]
  BY <1>3, <1>4, PutAfter
<1>6. PICK e, b, z : e = plan.end0 /\ b = base /\ z = plan.end
  OBVIOUS
<1>7. \A x \in Addr : g[x] = IF x = b + e THEN SkipTail(e)
                             ELSE IF b + z <= x /\ x < b + e THEN Hole ELSE file[x]
  BY <1>5, <1>6
<1>8. /\ b \in Nat /\ e \in Nat /\ z \in Nat /\ e >= z + 2 /\ b + e + 1 <= MaxSize
      /\ \A x \in Addr : x \in Nat
  BY <1>1, <1>2, <1>6, Constants
<1>9. g \in [Addr -> Unit]
  <2>1. SkipTail(e) \in Unit /\ Hole \in Unit
    BY <1>8 DEF SkipTail, Hole, Unit
  <2>2. g = [x \in Addr |-> IF x = b + e THEN SkipTail(e)
                            ELSE IF b + z <= x /\ x < b + e THEN Hole ELSE file[x]]
    BY <1>5, <1>6
  <2> QED BY <1>1, <2>1, <2>2
<1>10. FilledTo(g, b, e + 1)
  <2>1. ASSUME NEW x \in Addr PROVE g[x] # None <=> x < b + (e + 1)
    <3>1. SkipTail(e) # None /\ Hole # None
      BY DEF SkipTail, None, Hole
    <3>2. file[x] # None <=> x < b + z
      BY <1>4, <1>6
    <3>3. CASE x = b + e
      BY <1>7, <1>8, <3>1, <3>3
    <3>4. CASE x < b + e
      BY <1>7, <1>8, <3>1, <3>2, <3>4
    <3>5. CASE x > b + e
      BY <1>7, <1>8, <3>1, <3>2, <3>5
    <3> QED BY <1>8, <3>3, <3>4, <3>5
  <2>2. Remains(g, b)
    <3>1. ASSUME NEW x \in 0 .. b - 1 PROVE g[x] = file[x]
      <4>1. x \in Addr
        BY <1>8, Constants
      <4> QED BY <1>7, <1>8, <4>1
    <3>2. Remains(file, b)
      BY <1>1, <1>6 DEF FilledTo
    <3>3. b <= MaxSize + 1
      BY <1>8, Constants
    <3> QED BY <1>1, <1>8, <1>9, <3>1, <3>2, <3>3, RemainsKept
  <2>3. e + 1 \in Nat /\ b + (e + 1) <= MaxSize + 1
    BY <1>8, Constants
  <2> QED BY <2>1, <2>2, <2>3 DEF FilledTo
<1>11. MarksTo(g, b, z)
  <2>1. ASSUME NEW x \in Addr, x >= b
        PROVE  /\ g[x][1] = "skip" => g[x] = SkipTail(x - b)
               /\ g[x][1] = "tail" => g[x][2] \in 1 .. x - b - 1
               /\ g[x][1] = "walk" => Spans(g[x][2]) \subseteq 1 .. z - 1
    <3>1. CASE x = b + e
      <4>1. g[x] = SkipTail(e) /\ x - b = e
        BY <1>7, <1>8, <3>1
      <4> QED BY <4>1, UnitFacts
    <3>2. CASE x # b + e /\ b + z <= x /\ x < b + e
      <4>1. g[x] = Hole
        BY <1>7, <3>2
      <4> QED BY <4>1, UnitFacts
    <3>3. CASE x # b + e /\ ~(b + z <= x /\ x < b + e)
      <4>1. g[x] = file[x]
        BY <1>7, <3>3
      <4> QED BY <1>1, <1>6, <2>1, <4>1 DEF MarksTo
    <3> QED BY <3>1, <3>2, <3>3
  <2> QED BY <2>1 DEF MarksTo
<1> QED BY <1>5, <1>6, <1>9, <1>10, <1>11

LEMMA Extended ==
  ASSUME IInv, pc = "tail", file' = Put1(file, plan.end0, SkipTail(plan.end0)),
         UNCHANGED <<base, stable, plan>>, pc' = "write"
  PROVE  /\ file' = [x \in Addr |-> IF x = base + plan.end0 THEN SkipTail(plan.end0)
                                    ELSE IF base + plan.end <= x /\ x < base + plan.end0 THEN Hole
                                    ELSE file[x]]
         /\ file' \in [Addr -> Unit] /\ Filled' /\ Marks' /\ Kept' /\ Ready'
         /\ end' = plan.end0 + 1 /\ Before' = Before /\ Before = plan.end
         /\ plan.end > 0 => OldLocs' = OldLocs /\ OldWalk' = OldWalk
<1>1. /\ file \in [Addr -> Unit] /\ base \in Nat /\ FilledTo(file, base, end)
      /\ plan.end \in Nat /\ plan.end0 \in Nat
      /\ Before = plan.end /\ Before' = plan.end
  BY Constants DEF IInv, Types, Filled, Before, PlanType
<1>2. /\ plan.end0 >= plan.end + 2 /\ end = plan.end /\ base + plan.end0 + 1 <= MaxSize
  BY DEF IInv, Planned
<1>3. base + plan.end0 \in Addr
  BY <1>1, <1>2, Constants
<1>4. \A x \in Addr : file[x] # None <=> x < base + plan.end
  BY <1>1, <1>2 DEF FilledTo
<1>6. PICK g, e, b, z : g = file' /\ e = plan.end0 /\ b = base /\ z = plan.end
  OBVIOUS
<1>5. /\ g = [x \in Addr |-> IF x = base + plan.end0 THEN SkipTail(plan.end0)
                             ELSE IF base + plan.end <= x /\ x < base + plan.end0 THEN Hole
                             ELSE file[x]]
      /\ g \in [Addr -> Unit]
      /\ FilledTo(g, base, plan.end0 + 1) /\ MarksTo(g, base, plan.end)
  BY <1>6, Marked
<1>7. \A x \in Addr : g[x] = IF x = b + e THEN SkipTail(e)
                             ELSE IF b + z <= x /\ x < b + e THEN Hole ELSE file[x]
  BY <1>5, <1>6
<1>8. /\ b \in Nat /\ e \in Nat /\ z \in Nat /\ e >= z + 2 /\ b + e + 1 <= MaxSize
      /\ \A x \in Addr : x \in Nat
  BY <1>1, <1>2, <1>6, Constants
<1>9. g \in [Addr -> Unit] /\ FilledTo(g, b, e + 1) /\ MarksTo(g, b, z)
  BY <1>5, <1>6
<1>12. end' = e + 1
  <2>1. Size(g) - b = e + 1
    BY <1>8, <1>9, EndFacts
  <2> QED BY <1>6, <2>1 DEF end
<1>13. Filled' /\ Marks'
  BY <1>1, <1>6, <1>9, <1>12 DEF Filled, Marks
<1>14. z > 0 => Holds(g, b, z, OldLocs, OldWalk) /\ stable = DataAt(g, b, OldLocs)
  <2> SUFFICES ASSUME z > 0 PROVE Holds(g, b, z, OldLocs, OldWalk) /\ stable = DataAt(g, b, OldLocs)
    OBVIOUS
  <2>1. Holds(file, b, z, OldLocs, OldWalk) /\ stable = DataAt(file, b, OldLocs)
    BY <1>1, <1>6 DEF IInv, Kept
  <2>2. /\ z >= 4 /\ OldWalk \in 1 .. z - 3 /\ Spans(OldLocs) \subseteq 1 .. z - 3
    BY <2>1 DEF Holds
  <2>3. ASSUME NEW x \in {0, z - 2, z - 1, OldWalk} \cup Spans(OldLocs)
        PROVE  g[b + x] = file[b + x]
    <3>1. x \in 0 .. z - 1
      BY <1>8, <2>2
    <3>2. b + x \in Addr /\ b + x # b + e /\ ~(b + z <= b + x)
      BY <1>8, <3>1, Constants
    <3> QED BY <1>7, <3>2
  <2>4. b \in Nat /\ z \in Nat /\ Holds(file, b, z, OldLocs, OldWalk)
    BY <1>8, <2>1
  <2>5. Holds(g, b, z, OldLocs, OldWalk) /\ DataAt(g, b, OldLocs) = DataAt(file, b, OldLocs)
    <3>1. PICK f, locs, w : f = file /\ locs = OldLocs /\ w = OldWalk
      OBVIOUS
    <3>2. Holds(f, b, z, locs, w)
      BY <2>4, <3>1
    <3>3. \A x \in {0, z - 2, z - 1, w} \cup Spans(locs) : g[b + x] = f[b + x]
      BY <2>3, <3>1
    <3>4. Holds(g, b, z, locs, w) /\ DataAt(g, b, locs) = DataAt(f, b, locs)
      BY <2>4, <3>2, <3>3, HoldsKept
    <3> QED BY <3>1, <3>4
  <2> QED BY <2>1, <2>5
<1>15. z > 0 => OldLocs' = OldLocs /\ OldWalk' = OldWalk
  <2> SUFFICES ASSUME z > 0 PROVE OldLocs' = OldLocs /\ OldWalk' = OldWalk
    OBVIOUS
  <2>1. Root(g, b + z) = OldLocs /\ WalkPos(g, b + z) = OldWalk
    BY <1>8, <1>14, OldFacts
  <2>2. OldLocs' = Root(g, b + z) /\ OldWalk' = WalkPos(g, b + z)
    BY <1>1, <1>6 DEF OldLocs, OldWalk
  <2> QED BY <2>1, <2>2
<1>16. Kept'
  <2>1. CASE z = 0
    <3>1. stable = Empty
      BY <1>1, <1>6, <2>1 DEF IInv, Kept
    <3>2. g[b] = Hole
      <4>1. b \in Addr /\ b # b + e /\ b + z <= b /\ b < b + e
        BY <1>8, <2>1, Constants
      <4> QED BY <1>7, <4>1
    <3>3. g[b][1] # "head"
      BY <3>2, UnitFacts
    <3> QED BY <1>1, <1>6, <2>1, <3>1, <3>3 DEF Kept
  <2>2. CASE z > 0
    BY <1>1, <1>6, <1>14, <1>15, <2>2 DEF Kept
  <2> QED BY <1>8, <2>1, <2>2
<1>17. Ready'
  <2>1. g[b + e] = SkipTail(e)
    BY <1>3, <1>6, <1>7
  <2>2. ASSUME NEW x \in Addr, x >= b + z PROVE g[x][1] # "tail"
    <3>1. file[x] = None
      BY <1>4, <1>6, <1>8, <2>2
    <3>2. g[x] = SkipTail(e) \/ g[x] = Hole \/ g[x] = None
      BY <1>7, <3>1
    <3> QED BY <3>2, UnitFacts
  <2> QED BY <1>6, <2>1, <2>2 DEF Ready
<1> QED BY <1>1, <1>5, <1>6, <1>9, <1>12, <1>13, <1>15, <1>16, <1>17

LEMMA ExtendFileKeeps ==
  ASSUME IInv, ExtendFile
  PROVE  IInv'
<1> USE DEF IInv
<1>1. /\ pc = "tail" /\ pc' = "write" /\ file' = Put1(file, plan.end0, SkipTail(plan.end0))
      /\ UNCHANGED <<mode, base, pending, cols, rootWalk, space, plan, stable, told, failed, trust>>
  BY DEF ExtendFile
<1>2. Dirty' = Dirty /\ DOMAIN pending' = {} /\ ~told
  BY <1>1 DEF Dirty, Sealable, Told
<1>3. /\ file' \in [Addr -> Unit] /\ Filled' /\ Marks' /\ Kept' /\ Ready'
      /\ end' = plan.end0 + 1 /\ Before' = Before /\ Before = plan.end
      /\ plan.end > 0 => OldLocs' = OldLocs /\ OldWalk' = OldWalk
  BY <1>1, Extended
<1>4. Types'
  BY <1>1, <1>3 DEF Types
<1>5. Loaded'
  BY <1>1, <1>3 DEF Loaded
<1>6. Covered' /\ Sealed' /\ Written' /\ Sealable' /\ Told'
  BY <1>1, <1>2 DEF Covered, Sealed, Written, Sealable, Told
<1>7. Planned'
  <2>1. ~InPlace
    BY <1>1 DEF Planned
  <2> QED BY <1>1, <1>3, <2>1 DEF Planned, InPlace
<1>8. Apart'
  <2>1. \A x : Untouchable(x)' <=> Untouchable(x)
    BY <1>1, <1>3 DEF Untouchable, Spans
  <2>2. DirtySpans(plan.locs)' = DirtySpans(plan.locs)
    BY <1>1, <1>2 DEF DirtySpans
  <2> QED BY <1>1, <1>2, <2>1, <2>2 DEF Apart
<1> QED BY <1>3, <1>4, <1>5, <1>6, <1>7, <1>8

\* When that fails in commit mode and the marker has not come to the file, all is as
\* it was, but what the commit has laid out is not free.
LEMMA NothingExtended ==
  ASSUME IInv, ExtendFileFails, mode = 1, file' = file
  PROVE  IInv'
<1> USE DEF IInv
<1>1. /\ pc = "tail" /\ UNCHANGED <<mode, base, pending, cols, rootWalk, space, stable>>
      /\ pc' = "idle" /\ plan' = NoPlan /\ told' = FALSE /\ failed' = TRUE /\ trust' = "all"
  BY DEF ExtendFileFails, Returns
<1>2. /\ Dirty' = Dirty /\ DOMAIN pending' = {} /\ end = plan.end /\ end' = end
  BY <1>1 DEF Dirty, Sealable, Planned, end
<1>3. Before' = Before /\ OldLocs' = OldLocs /\ OldWalk' = OldWalk
  BY <1>1, <1>2 DEF Before, OldLocs, OldWalk
<1>4. Types'
  BY <1>1, NoPlanTypes DEF Types
<1>5. Filled' /\ Marks' /\ Kept' /\ Loaded'
  BY <1>1, <1>2, <1>3 DEF Filled, Marks, Kept, Loaded
<1>6. Covered'
  <2>1. rootWalk' = <<plan.locs>> /\ Spans(plan.locs) \subseteq space
    BY <1>1 DEF Planned, Covered
  <2>2. space \subseteq Unfree'
    BY <1>1 DEF Unfree
  <2>3. \A l : rootWalk' = <<l>> => Spans(l) \subseteq Unfree'
    BY <2>1, <2>2
  <2> QED BY <1>1, <1>2, <1>3, <2>3 DEF Covered
<1>7. Planned' /\ Apart' /\ Ready' /\ Sealable' /\ Written' /\ Sealed' /\ Told'
  BY <1>1, <1>2 DEF Planned, Apart, Ready, Sealable, Written, Sealed, Told
<1> QED BY <1>4, <1>5, <1>6, <1>7

\* In extend mode the next commit takes it for saved; with the marker, what is there
\* is not found any more.
LEMMA ExtendFailsKeeps ==
  ASSUME IInv, ExtendFileFails
  PROVE  Inv'
<1>1. /\ pc = "tail" /\ UNCHANGED <<mode, base, pending, cols, rootWalk, space, stable>>
      /\ pc' = "idle" /\ plan' = NoPlan /\ told' = FALSE /\ failed' = TRUE
      /\ trust' = IF mode = 1 /\ file' = file THEN "all" ELSE "file"
      /\ file' = file \/ file' = Put1(file, plan.end0, SkipTail(plan.end0))
  BY DEF ExtendFileFails, Returns
<1>2. Types /\ DOMAIN pending' = {}
  BY <1>1 DEF IInv, Sealable
<1>3. CASE mode = 1 /\ file' = file
  <2>1. IInv' /\ trust' = "all"
    BY <1>1, <1>3, NothingExtended
  <2> QED BY <2>1 DEF Inv, IInv
<1>4. CASE mode # 1 /\ file' = file
  <2>1. /\ Openable(file, base, end, stable) /\ end \in Nat /\ (end = 0 \/ end >= 4)
        /\ end > 0 => file[base + end - 1][1] = "tail"
    BY <1>1, OldOpens
  <2>2. end' = end /\ stable' = stable /\ base' = base
    BY <1>1, <1>4 DEF end
  <2>3. ~Cut'
    <3> SUFFICES ASSUME Cut' PROVE FALSE
      OBVIOUS
    <3>1. (base \in Nat /\ end \in Nat /\ Cut => end > 0 /\ file[base + end - 1][1] = "skip")'
      BY CutFacts, PTL
    <3>2. base' \in Nat /\ end' \in Nat
      BY <1>2, <2>1, <2>2, Constants DEF Types
    <3>3. end' > 0 /\ file'[base' + end' - 1][1] = "skip"
      BY <3>1, <3>2
    <3>4. end > 0 /\ file[base + end - 1][1] = "skip"
      BY <1>4, <2>2, <3>3
    <3> QED BY <2>1, <3>4
  <2>4. Left'
    BY <1>1, <1>2, <1>4, <2>1, <2>2, <2>3 DEF Left
  <2>5. Types'
    BY <1>1, <1>2, <1>4, NoPlanTypes DEF Types
  <2> QED BY <1>1, <1>4, <2>4, <2>5 DEF Inv
<1>5. CASE file' = Put1(file, plan.end0, SkipTail(plan.end0)) /\ ~(mode = 1 /\ file' = file)
  <2>1. PICK g, e, b : g = file' /\ e = plan.end0 /\ b = base
    OBVIOUS
  <2>2. /\ plan.end \in Nat /\ plan.end0 \in Nat /\ plan.end0 >= plan.end + 2
        /\ base \in Addr /\ base + plan.end0 + 1 <= MaxSize
    BY <1>1, Constants DEF IInv, Types, PlanType, Planned
  <2>3. /\ g = [x \in Addr |-> IF x = base + plan.end0 THEN SkipTail(plan.end0)
                               ELSE IF base + plan.end <= x /\ x < base + plan.end0 THEN Hole
                               ELSE file[x]]
        /\ g \in [Addr -> Unit]
        /\ FilledTo(g, base, plan.end0 + 1) /\ MarksTo(g, base, plan.end)
    BY <1>1, <1>5, <2>1, Marked
  <2>4. /\ b \in Addr /\ e \in Nat /\ e >= 2 /\ b + e + 1 <= MaxSize /\ b + e \in Addr
    BY <2>1, <2>2, Constants
  <2>5. MarksTo(g, b, e + 1)
    <3>1. plan.end \in Int /\ e + 1 \in Int /\ plan.end <= e + 1
      BY <2>1, <2>2
    <3> QED BY <2>1, <2>3, <3>1, MarksUp
  <2>6. g[b + e] = SkipTail(e) /\ FilledTo(g, b, e + 1)
    BY <2>1, <2>3, <2>4
  <2>7. base' = b /\ file' = g
    BY <1>1, <2>1
  <2>8. Left'
    BY <1>1, <1>2, <2>3, <2>4, <2>5, <2>6, <2>7, CutLeaves
  <2>9. Types'
    BY <1>1, <1>2, <2>3, <2>7, NoPlanTypes DEF Types
  <2> QED BY <1>1, <1>5, <2>8, <2>9 DEF Inv
<1> QED BY <1>1, <1>3, <1>4, <1>5

\* What is at a position when some writes get to the file.
LEMMA PutAt ==
  ASSUME NEW f, NEW w, NEW x \in Addr
  PROVE  /\ x \in DOMAIN w => Put(f, w)[x] = w[x]
         /\ x \notin DOMAIN w /\ f[x] # None => Put(f, w)[x] = f[x]
BY DEF Put

LEMMA OnlyAll ==
  ASSUME NEW w
  PROVE  DOMAIN Only(w, DOMAIN w) = DOMAIN w /\ \A x \in DOMAIN w : Only(w, DOMAIN w)[x] = w[x]
BY DEF Only

LEMMA PlanFacts ==
  ASSUME IInv, pc # "idle"
  PROVE  /\ base \in Nat /\ plan.locs \in Locs /\ plan.end \in Nat /\ plan.end0 \in Nat
         /\ \A c \in Col : /\ plan.locs[c].pos \in Nat /\ plan.locs[c].len \in Nat
                           /\ plan.locs[c].len = Len(cols[c].data)
                           /\ ~cols[c].dirty => plan.locs[c].pos = cols[c].pos
                           /\ cols[c].data \in Seq(Unit) /\ cols[c].dirty \in BOOLEAN
         /\ Dirty \subseteq Col
<1>1. base \in Addr /\ plan \in PlanType
  BY DEF IInv, Types
<1>2. plan.locs \in Locs /\ plan.end \in Nat /\ plan.end0 \in Addr
  BY <1>1 DEF PlanType
<1>3. \A c \in Col : plan.locs[c].pos \in Addr /\ plan.locs[c].len \in 0 .. MaxLen
  BY <1>2 DEF Locs
<1>4. \A c \in Col : plan.locs[c].pos \in Nat /\ plan.locs[c].len \in Nat
  BY <1>3, Constants
<1>5. \A c \in Col : /\ plan.locs[c].len = Len(cols[c].data)
                     /\ ~cols[c].dirty => plan.locs[c].pos = cols[c].pos
  BY DEF IInv, Planned
<1>6. \A c \in Col : cols[c].data \in Seq(Unit) /\ cols[c].dirty \in BOOLEAN
  BY DEF IInv, Types
<1> QED BY <1>1, <1>2, <1>4, <1>5, <1>6, Constants DEF Dirty

\* Each element of a dirty column is written where the column is to be.
LEMMA ColumnWritten ==
  ASSUME IInv, pc = "write", NEW c \in Dirty, NEW i \in 1 .. Len(cols[c].data),
         NEW p, p = plan.locs[c].pos + i - 1
  PROVE  /\ p \in DirtySpans(plan.locs) /\ base + p \in DOMAIN Columns
         /\ Columns[base + p] = cols[c].data[i]
<1>1. /\ c \in Col /\ base \in Nat /\ plan.locs \in Locs
      /\ \A d \in Col : plan.locs[d].pos \in Nat /\ plan.locs[d].len \in Nat
      /\ \A d \in Col : plan.locs[d].len = Len(cols[d].data)
  BY PlanFacts DEF Dirty
<1>2. \A d \in Dirty : d # c =>
        Span(plan.locs[c].pos, plan.locs[c].len) \cap Span(plan.locs[d].pos, plan.locs[d].len) = {}
  BY DEF IInv, Apart
<1>3. PICK q, n : q = plan.locs[c].pos /\ n = plan.locs[c].len
  OBVIOUS
<1>4. q \in Nat /\ n \in Nat /\ i \in 1 .. n /\ p = q + i - 1
  BY <1>1, <1>3
<1>5. p \in Span(q, n) /\ p \in Nat
  BY <1>4 DEF Span
<1>6. p \in DirtySpans(plan.locs)
  BY <1>3, <1>5 DEF DirtySpans
<1>7. PICK m : m = base + p
  OBVIOUS
<1>10. m - base = p
  BY <1>1, <1>5, <1>7
<1>8. PICK d : d = CHOOSE x \in Dirty : m - base \in Span(plan.locs[x].pos, plan.locs[x].len)
  OBVIOUS
<1>9. d = c
  <2>1. \E e \in Dirty : m - base \in Span(plan.locs[e].pos, plan.locs[e].len)
    BY <1>3, <1>5, <1>10
  <2>2. d \in Dirty /\ p \in Span(plan.locs[d].pos, plan.locs[d].len)
    BY <1>8, <1>10, <2>1
  <2> QED BY <1>2, <1>3, <1>5, <2>2
<1>11. m \in {base + k : k \in DirtySpans(plan.locs)}
  BY <1>6, <1>7
<1>12. m \in DOMAIN Columns /\ Columns[m] = cols[d].data[m - base - plan.locs[d].pos + 1]
  <2>1. m \in DOMAIN Columns
    BY <1>11 DEF Columns
  <2>2. Columns[m] = cols[CHOOSE x \in Dirty : m - base \in Span(plan.locs[x].pos, plan.locs[x].len)]
          .data[m - base - plan.locs[CHOOSE x \in Dirty :
                  m - base \in Span(plan.locs[x].pos, plan.locs[x].len)].pos + 1]
    BY <1>11, Zenon DEF Columns
  <2> QED BY <1>8, <2>1, <2>2
<1>13. m - base - q + 1 = i
  BY <1>4, <1>10
<1> QED BY <1>3, <1>6, <1>7, <1>9, <1>12, <1>13

LEMMA ColumnsFacts ==
  ASSUME IInv, pc = "write", NEW x \in DOMAIN Columns
  PROVE  \E c \in Dirty : \E i \in 1 .. Len(cols[c].data) :
           x = base + (plan.locs[c].pos + i - 1) /\ Columns[x] = cols[c].data[i]
<1>1. PICK p \in DirtySpans(plan.locs) : x = base + p
  BY DEF Columns
<1>2. PICK c \in Dirty : p \in Span(plan.locs[c].pos, plan.locs[c].len)
  BY DEF DirtySpans
<1>3. PICK q, n : q = plan.locs[c].pos /\ n = plan.locs[c].len
  OBVIOUS
<1>4. c \in Col /\ q \in Nat /\ n \in Nat /\ n = Len(cols[c].data)
  BY <1>3, PlanFacts
<1>5. PICK i : i = p - q + 1
  OBVIOUS
<1>6. i \in 1 .. n /\ p = q + i - 1
  <2>1. p \in q .. q + n - 1
    BY <1>2, <1>3 DEF Span
  <2> QED BY <1>4, <1>5, <2>1
<1>7. Columns[base + p] = cols[c].data[i]
  BY <1>3, <1>4, <1>6, ColumnWritten
<1>8. x = base + (plan.locs[c].pos + i - 1)
  BY <1>1, <1>3, <1>6
<1> QED BY <1>1, <1>4, <1>6, <1>7, <1>8

LEMMA OverFacts ==
  ASSUME NEW w, NEW v
  PROVE  /\ DOMAIN Over(w, v) = DOMAIN w \cup DOMAIN v
         /\ \A x \in DOMAIN w : Over(w, v)[x] = w[x]
         /\ \A x \in DOMAIN v : x \notin DOMAIN w => Over(w, v)[x] = v[x]
BY DEF Over

\* The three kinds of writes, and where they go.
LEMMA BridgeFacts ==
  /\ DOMAIN Bridge = IF InPlace THEN {} ELSE {base + plan.end}
  /\ ~InPlace => Bridge[base + plan.end] = IF plan.end = 0 THEN Header(plan.end0 + 2)
                                           ELSE Part(plan.end0 + 2 - plan.end)
  /\ DOMAIN WalkUnit = {base + plan.walk} /\ WalkUnit[base + plan.walk] = Walk(plan.locs)
BY DEF Bridge, NoWrites, WalkUnit

LEMMA WritesFacts ==
  ASSUME IInv, pc = "write"
  PROVE  /\ \A x \in DOMAIN Writes :
              \/ x \in DOMAIN Bridge /\ Writes[x] = Bridge[x]
              \/ x \in DOMAIN Columns /\ Writes[x] = Columns[x]
              \/ x = base + plan.walk /\ Writes[x] = Walk(plan.locs)
         /\ \A x \in DOMAIN Bridge : x \in DOMAIN Writes /\ Writes[x] = Bridge[x]
         /\ \A x \in DOMAIN Columns : x \in DOMAIN Writes /\ Writes[x] = Columns[x]
         /\ base + plan.walk \in DOMAIN Writes /\ Writes[base + plan.walk] = Walk(plan.locs)
<1>1. /\ base \in Nat /\ plan.end \in Nat /\ plan.walk \in Nat /\ plan.end0 \in Nat
      /\ plan.walk # plan.end /\ plan.walk \notin DirtySpans(plan.locs)
      /\ \A p \in DirtySpans(plan.locs) : p # plan.end
      /\ Spans(plan.locs) \subseteq 1 .. plan.end0 - 1 /\ plan.walk \in 1 .. plan.end0 - 1
  <2>1. plan.walk \in Nat
    BY Constants DEF IInv, Types, PlanType
  <2> QED BY <2>1, PlanFacts DEF IInv, Apart, Planned
<1>2. DirtySpans(plan.locs) \subseteq Nat
  <2>1. DirtySpans(plan.locs) \subseteq Spans(plan.locs)
    BY DEF DirtySpans, Spans, Dirty
  <2> QED BY <1>1, <2>1
<1>3. PICK b, e, w : b = base /\ e = plan.end /\ w = plan.walk
  OBVIOUS
<1>4. DOMAIN Columns = {b + p : p \in DirtySpans(plan.locs)}
  BY <1>3 DEF Columns
<1>5. b + w # b + e /\ b + w \notin DOMAIN Columns /\ b + e \notin DOMAIN Columns
  <2>1. b + w # b + e
    BY <1>1, <1>3
  <2>2. ASSUME NEW p \in DirtySpans(plan.locs) PROVE b + p # b + w /\ b + p # b + e
    BY <1>1, <1>2, <1>3
  <2> QED BY <1>4, <2>1, <2>2
<1>6. /\ DOMAIN Bridge \subseteq {b + e}
      /\ DOMAIN WalkUnit = {b + w} /\ WalkUnit[b + w] = Walk(plan.locs)
  BY <1>3, BridgeFacts
<1>7. PICK bridge, columns, unit : bridge = Bridge /\ columns = Columns /\ unit = WalkUnit
  OBVIOUS
<1>11. PICK rest : rest = Over(columns, unit)
  OBVIOUS
<1>8. /\ DOMAIN rest = DOMAIN Columns \cup {b + w} /\ rest[b + w] = Walk(plan.locs)
      /\ \A x \in DOMAIN Columns : rest[x] = Columns[x]
  <2>1. /\ DOMAIN rest = DOMAIN columns \cup DOMAIN unit
        /\ \A x \in DOMAIN columns : rest[x] = columns[x]
        /\ \A x \in DOMAIN unit : x \notin DOMAIN columns => rest[x] = unit[x]
    BY <1>11 DEF Over
  <2> QED BY <1>5, <1>6, <1>7, <2>1
<1>9. /\ DOMAIN Writes = DOMAIN Bridge \cup DOMAIN rest
      /\ \A x \in DOMAIN Bridge : Writes[x] = Bridge[x]
      /\ \A x \in DOMAIN rest : x \notin DOMAIN Bridge => Writes[x] = rest[x]
  <2>1. PICK writes : writes = Over(bridge, rest)
    OBVIOUS
  <2>2. /\ DOMAIN writes = DOMAIN bridge \cup DOMAIN rest
        /\ \A x \in DOMAIN bridge : writes[x] = bridge[x]
        /\ \A x \in DOMAIN rest : x \notin DOMAIN bridge => writes[x] = rest[x]
    BY <2>1, OverFacts
  <2>3. Writes = writes
    BY <1>7, <1>11, <2>1 DEF Writes
  <2> QED BY <1>7, <2>2, <2>3
<1>10. \A x \in DOMAIN rest : x \notin DOMAIN Bridge
  BY <1>5, <1>6, <1>8
<1> QED BY <1>3, <1>8, <1>9, <1>10

LEMMA WrittenUnits ==
  ASSUME IInv, pc = "write", NEW x \in DOMAIN Writes
  PROVE  /\ x \in base .. base + plan.end0 - 1 /\ x \in Addr /\ ~Untouchable(x - base)
         /\ Writes[x] \in Unit /\ Writes[x] # None
         /\ Writes[x][1] \in {"head", "part", "data", "walk"}
         /\ Writes[x][1] = "walk" => Writes[x] = Walk(plan.locs)
<1>1. /\ base \in Nat /\ plan.end \in Nat /\ plan.end0 \in Nat /\ plan.walk \in 1 .. plan.end0 - 1
      /\ base + plan.end0 + 1 <= MaxSize /\ Spans(plan.locs) \subseteq 1 .. plan.end0 - 1
      /\ plan.locs \in Locs /\ MaxSize \in Nat
      /\ ~InPlace => plan.end0 >= plan.end + 2
  BY PlanFacts, Constants DEF IInv, Planned
<1>2. \A p \in DirtySpans(plan.locs) \cup {plan.walk} : ~Untouchable(p)
  BY DEF IInv, Apart
<1>3. ASSUME NEW p \in 0 .. plan.end0 - 1, x = base + p
      PROVE  x \in base .. base + plan.end0 - 1 /\ x \in Addr /\ x - base = p
  BY <1>1, <1>3, Constants
<1>4. CASE x \in DOMAIN Bridge /\ Writes[x] = Bridge[x]
  <2>1. /\ ~InPlace /\ x = base + plan.end
        /\ Writes[x] = IF plan.end = 0 THEN Header(plan.end0 + 2) ELSE Part(plan.end0 + 2 - plan.end)
    BY <1>4, BridgeFacts
  <2>2. plan.end \in 0 .. plan.end0 - 1 /\ plan.end0 + 2 \in Nat /\ plan.end0 + 2 - plan.end \in Nat
    BY <1>1, <2>1
  <2>3. ~Untouchable(plan.end)
    <3>1. plan.end > 0 => OldWalk \in 1 .. plan.end - 3 /\ Spans(OldLocs) \subseteq 1 .. plan.end - 3
      BY <1>1 DEF IInv, Kept, Before, Holds
    <3> QED BY <1>1, <3>1 DEF Untouchable
  <2>4. /\ Header(plan.end0 + 2) \in Unit /\ Part(plan.end0 + 2 - plan.end) \in Unit
        /\ Header(plan.end0 + 2) # None /\ Part(plan.end0 + 2 - plan.end) # None
    BY <2>2 DEF Header, Part, None, Unit
  <2>5. Writes[x][1] \in {"head", "part"}
    BY <2>1, UnitFacts
  <2> QED BY <1>3, <2>1, <2>2, <2>3, <2>4, <2>5
<1>5. CASE x \in DOMAIN Columns /\ Writes[x] = Columns[x]
  <2>10. PICK c \in Dirty : \E i \in 1 .. Len(cols[c].data) :
          x = base + (plan.locs[c].pos + i - 1) /\ Columns[x] = cols[c].data[i]
    BY <1>5, ColumnsFacts
  <2>1. PICK i \in 1 .. Len(cols[c].data) :
          x = base + (plan.locs[c].pos + i - 1) /\ Columns[x] = cols[c].data[i]
    BY <2>10
  <2>2. PICK p : p = plan.locs[c].pos + i - 1
    OBVIOUS
  <2>3. p \in DirtySpans(plan.locs)
    BY <2>2, ColumnWritten
  <2>4. p \in 0 .. plan.end0 - 1
    <3>1. DirtySpans(plan.locs) \subseteq Spans(plan.locs)
      BY DEF DirtySpans, Spans, Dirty
    <3> QED BY <1>1, <2>3, <3>1
  <2>5. cols[c].data \in Seq(Unit) /\ c \in Col /\ cols[c].dirty
    BY PlanFacts DEF Dirty
  <2>6. i \in DOMAIN cols[c].data
    BY <2>5, LenProperties
  <2>7. cols[c].data[i] \in Unit
    BY <2>5, <2>6, ElementOfSeq
  <2>8. cols[c].data[i][1] = "data"
    BY <2>5, <2>6 DEF IInv, Loaded
  <2>9. cols[c].data[i] # None
    BY <2>8, UnitFacts
  <2> QED BY <1>2, <1>3, <1>5, <2>1, <2>2, <2>3, <2>4, <2>7, <2>8, <2>9
<1>6. CASE x = base + plan.walk /\ Writes[x] = Walk(plan.locs)
  <2>1. Walk(plan.locs) \in Unit /\ Walk(plan.locs) # None /\ Walk(plan.locs)[1] = "walk"
    <3>1. plan.locs \in [Col -> [len : 0 .. MaxLen, pos : Addr]]
      BY <1>1 DEF Locs
    <3> QED BY <3>1 DEF Walk, None, Unit
  <2> QED BY <1>1, <1>2, <1>3, <1>6, <2>1
<1> QED BY <1>4, <1>5, <1>6, WritesFacts

\* With the writes, the file has what memory has at the positions that were found.
LEMMA WritesRead ==
  ASSUME IInv, pc = "write", NEW g, g = Put(file, Writes)
  PROVE  /\ g[base + plan.walk] = Walk(plan.locs)
         /\ plan.end = 0 => g[base] = Header(plan.end0 + 2)
         /\ \A c \in Col : \A i \in DOMAIN cols[c].data :
              g[base + plan.locs[c].pos + i - 1] = cols[c].data[i]
<1>1. /\ base \in Nat /\ plan.end \in Nat /\ plan.end0 \in Nat
      /\ \A c \in Col : /\ plan.locs[c].pos \in Nat /\ plan.locs[c].len \in Nat
                        /\ plan.locs[c].len = Len(cols[c].data)
                        /\ ~cols[c].dirty => plan.locs[c].pos = cols[c].pos
                        /\ cols[c].data \in Seq(Unit) /\ cols[c].dirty \in BOOLEAN
  BY PlanFacts
<1>2. \A x \in DOMAIN Writes : x \in Addr /\ g[x] = Writes[x]
  BY PutAt, WrittenUnits
<1>3. g[base + plan.walk] = Walk(plan.locs)
  BY <1>2, WritesFacts
<1>4. ASSUME plan.end = 0 PROVE g[base] = Header(plan.end0 + 2)
  <2>1. ~InPlace /\ base + plan.end = base
    BY <1>1, <1>4 DEF InPlace
  <2>2. base \in DOMAIN Bridge /\ Bridge[base] = Header(plan.end0 + 2)
    BY <1>4, <2>1, BridgeFacts
  <2> QED BY <1>2, <2>2, WritesFacts
<1>5. ASSUME NEW c \in Col, NEW i \in DOMAIN cols[c].data
      PROVE  g[base + plan.locs[c].pos + i - 1] = cols[c].data[i]
  <2>1. i \in 1 .. Len(cols[c].data)
    BY <1>1, LenProperties
  <2>2. PICK q, n : q = plan.locs[c].pos /\ n = plan.locs[c].len
    OBVIOUS
  <2>3. q \in Nat /\ n \in Nat /\ i \in 1 .. n
    BY <1>1, <2>1, <2>2
  <2>4. PICK p : p = q + i - 1
    OBVIOUS
  <2>5. p \in Nat /\ base + q + i - 1 = base + p
    BY <1>1, <2>3, <2>4
  <2>6. CASE cols[c].dirty
    <3>1. c \in Dirty
      BY <2>6 DEF Dirty
    <3>2. base + p \in DOMAIN Columns /\ Columns[base + p] = cols[c].data[i]
      BY <2>1, <2>2, <2>4, <3>1, ColumnWritten
    <3> QED BY <1>2, <2>2, <2>5, <3>2, WritesFacts
  <2>7. CASE ~cols[c].dirty
    <3>1. /\ cols[c].data = stable[c] /\ Before = plan.end
          /\ plan.end > 0 => cols[c].pos = OldLocs[c].pos /\ Len(cols[c].data) = OldLocs[c].len
      BY <2>7 DEF IInv, Loaded, Before
    <3>2. plan.end > 0
      <4>1. ASSUME plan.end = 0 PROVE FALSE
        <5>1. cols[c].data = <<>>
          BY <3>1, <4>1 DEF IInv, Kept, Empty
        <5>2. n = 0
          BY <1>1, <2>2, <5>1, EmptySeq
        <5> QED BY <2>3, <5>2
      <4> QED BY <1>1, <4>1
    <3>3. Holds(file, base, plan.end, OldLocs, OldWalk) /\ stable = DataAt(file, base, OldLocs)
      BY <3>1, <3>2 DEF IInv, Kept
    <3>4. q = OldLocs[c].pos /\ n = OldLocs[c].len
      BY <1>1, <2>2, <2>7, <3>1, <3>2
    <3>5. p \in Spans(OldLocs)
      BY <2>3, <2>4, <3>4, SpansFacts
    <3>6. cols[c].data[i] = file[base + q + i - 1]
      <4>1. stable[c] = [j \in 1 .. n |-> file[base + q + j - 1]]
        BY <3>3, <3>4 DEF DataAt
      <4> QED BY <2>3, <3>1, <4>1
    <3>7. p \in 1 .. plan.end - 3 /\ Untouchable(p)
      BY <3>2, <3>3, <3>5 DEF Holds, Untouchable
    <3>8. PICK x : x = base + p
      OBVIOUS
    <3>9. x \notin DOMAIN Writes
      <4>1. x - base = p
        BY <1>1, <2>5, <3>8
      <4> QED BY <3>7, <4>1, WrittenUnits
    <3>10. x \in Addr /\ file[x] # None
      <4>1. end >= plan.end /\ end \in Nat /\ FilledTo(file, base, end)
        <5>1. end \in Nat /\ FilledTo(file, base, end)
          BY DEF IInv, Filled, FilledTo
        <5>2. /\ end = IF InPlace THEN plan.end ELSE plan.end0 + 1
              /\ ~InPlace => plan.end0 >= plan.end + 2
          BY DEF IInv, Planned
        <5> QED BY <1>1, <5>1, <5>2
      <4>2. base + end <= MaxSize + 1 /\ \A y \in Addr : file[y] # None <=> y < base + end
        BY <4>1 DEF FilledTo
      <4>3. x \in Addr /\ x < base + end
        BY <1>1, <3>7, <3>8, <4>1, <4>2, Constants
      <4> QED BY <4>2, <4>3
    <3>11. g[x] = file[x]
      BY <3>9, <3>10, PutAt
    <3> QED BY <2>2, <2>5, <3>6, <3>8, <3>11
  <2> QED BY <1>1, <2>6, <2>7
<1> QED BY <1>3, <1>4, <1>5

LEMMA WriteKeeps ==
  ASSUME IInv, Write
  PROVE  IInv'
<1> USE DEF IInv
<1>1. /\ pc = "write" /\ pc' = "seal" /\ pending' = Writes /\ SetLocations
      /\ space' = (IF mode = 1 THEN (IF InPlace THEN space \ {plan.end} ELSE space)
                                      \cup {plan.end0, plan.end0 + 1}
                   ELSE {})
      /\ UNCHANGED <<mode, base, file, rootWalk, stable, plan, told, failed, trust>>
  BY DEF Write
<1>2. cols' = [c \in Col |-> IF c \in Dirty THEN Clean(cols[c].data, plan.locs[c].pos) ELSE cols[c]]
  BY <1>1 DEF SetLocations
<1>3. \A c \in Col : /\ cols'[c].data = cols[c].data /\ cols'[c].dirty = FALSE
                     /\ cols'[c].pos = plan.locs[c].pos
  <2> SUFFICES ASSUME NEW c \in Col
               PROVE  /\ cols'[c].data = cols[c].data /\ cols'[c].dirty = FALSE
                      /\ cols'[c].pos = plan.locs[c].pos
    OBVIOUS
  <2>1. CASE c \in Dirty
    <3>1. cols'[c] = [data |-> cols[c].data, pos |-> plan.locs[c].pos, dirty |-> FALSE]
      BY <1>2, <2>1 DEF Clean
    <3> QED BY <3>1
  <2>2. CASE c \notin Dirty
    <3>1. cols'[c] = cols[c] /\ ~cols[c].dirty /\ cols[c].dirty \in BOOLEAN
      BY <1>1, <1>2, <2>2, PlanFacts DEF Dirty
    <3> QED BY <1>1, <3>1, PlanFacts
  <2> QED BY <2>1, <2>2
<1>4. end' = end /\ Before' = Before /\ OldLocs' = OldLocs /\ OldWalk' = OldWalk /\ InPlace' = InPlace
  BY <1>1 DEF end, Before, OldLocs, OldWalk, InPlace
<1>5. Dirty' = {}
  BY <1>3 DEF Dirty
<1>6. Types'
  <2>1. DOMAIN pending' \subseteq Addr /\ \A x \in DOMAIN pending' : pending'[x] \in Unit
    BY <1>1, WrittenUnits
  <2>2. PICK K \in Nat : space \subseteq 0 .. K
    BY DEF Types
  <2>3. \E k \in Nat : space' \subseteq 0 .. k
    <3>1. PICK e, k : e = plan.end0 /\ k = K + e + 1
      OBVIOUS
    <3>2. e \in Nat
      BY <3>1, Constants DEF Types, PlanType
    <3>3. k \in Nat /\ 0 .. K \subseteq 0 .. k /\ e \in 0 .. k /\ e + 1 \in 0 .. k
      BY <3>1, <3>2
    <3>4. space' \subseteq space \cup {e, e + 1}
      BY <1>1, <3>1
    <3> QED BY <2>2, <3>3, <3>4
  <2>4. cols' \in [Col -> [data : Seq(Unit), pos : Addr, dirty : BOOLEAN]]
    <3>1. ASSUME NEW c \in Col
          PROVE  Clean(cols[c].data, plan.locs[c].pos) \in [data : Seq(Unit), pos : Addr, dirty : BOOLEAN]
      <4>1. plan.locs \in Locs
        BY <1>1, PlanFacts
      <4>2. plan.locs[c].pos \in Addr /\ cols[c].data \in Seq(Unit)
        BY <1>1, <4>1, PlanFacts DEF Locs
      <4> QED BY <4>2 DEF Clean
    <3>2. \A c \in Col : cols[c] \in [data : Seq(Unit), pos : Addr, dirty : BOOLEAN]
      BY DEF Types
    <3> QED BY <1>2, <3>1, <3>2
  <2>5. \A c \in Col : Len(cols'[c].data) <= MaxLen
    BY <1>3 DEF Types
  <2> QED BY <1>1, <2>1, <2>3, <2>4, <2>5 DEF Types
<1>7. Filled' /\ Marks' /\ Kept' /\ Ready'
  BY <1>1, <1>4 DEF Filled, Marks, Kept, Ready
<1>8. Planned'
  <2>1. \A c \in Col : plan.locs[c].len = Len(cols'[c].data) /\ plan.locs[c].pos = cols'[c].pos
    <3> SUFFICES ASSUME NEW c \in Col
                 PROVE  plan.locs[c].len = Len(cols'[c].data) /\ plan.locs[c].pos = cols'[c].pos
      OBVIOUS
    <3>1. plan.locs[c].len = Len(cols[c].data)
      BY <1>1, PlanFacts
    <3> QED BY <1>3, <3>1
  <2> QED BY <1>1, <1>4, <2>1 DEF Planned
<1>9. Sealable'
  <2>1. \A x : Untouchable(x)' <=> Untouchable(x)
    BY <1>1, <1>4 DEF Untouchable, Spans
  <2>2. \A x \in DOMAIN pending' :
          /\ x \in base .. base + plan.end0 - 1 /\ ~Untouchable(x - base)'
          /\ pending'[x] # None /\ pending'[x][1] \in {"head", "part", "data", "walk"}
          /\ pending'[x][1] = "walk" => pending'[x] = Walk(plan.locs)
    BY <1>1, <2>1, WrittenUnits
  <2>3. Now' = Put(file, Writes)
    <3>1. Only(Writes, DOMAIN Writes) = Writes
      BY DEF Only, Writes, Over
    <3> QED BY <1>1, <3>1 DEF Now, After
  <2>4. PICK g : g = Put(file, Writes)
    OBVIOUS
  <2>5. /\ g[base + plan.walk] = Walk(plan.locs)
        /\ plan.end = 0 => g[base] = Header(plan.end0 + 2)
        /\ \A c \in Col : \A i \in DOMAIN cols[c].data :
             g[base + plan.locs[c].pos + i - 1] = cols[c].data[i]
    BY <1>1, <2>4, WritesRead
  <2>6. \A c \in Col : \A i \in DOMAIN cols'[c].data :
          g[base + plan.locs[c].pos + i - 1] = cols'[c].data[i]
    BY <1>3, <2>5
  <2> QED BY <1>1, <2>2, <2>3, <2>4, <2>5, <2>6 DEF Sealable
<1>10. Loaded' /\ Covered' /\ Apart' /\ Written' /\ Sealed' /\ Told'
  BY <1>1, <1>5 DEF Loaded, Covered, Apart, Written, Sealed, Told
<1> QED BY <1>6, <1>7, <1>8, <1>9, <1>10

\* The file after all unflushed writes.
LEMMA NowFacts ==
  ASSUME IInv, pc = "seal"
  PROVE  /\ Put(file, pending) = Now
         /\ Now \in [Addr -> Unit] /\ FilledTo(Now, base, end) /\ MarksTo(Now, base, plan.end0 + 2)
         /\ \A x \in Addr : x \notin DOMAIN pending => Now[x] = file[x]
         /\ plan.end > 0 => /\ Holds(Now, base, plan.end, OldLocs, OldWalk)
                            /\ stable = DataAt(Now, base, OldLocs)
<1>1. PICK S : S = DOMAIN pending
  OBVIOUS
<1>2. S \in SUBSET DOMAIN pending
  BY <1>1
<1>3. /\ After(S) = [x \in Addr |-> IF x \in S THEN pending[x] ELSE file[x]]
      /\ After(S) \in [Addr -> Unit]
      /\ FilledTo(After(S), base, end) /\ MarksTo(After(S), base, plan.end0 + 2)
      /\ plan.end > 0 => /\ Holds(After(S), base, plan.end, OldLocs, OldWalk)
                         /\ stable = DataAt(After(S), base, OldLocs)
  BY <1>2, PendingFacts
<1>4. Now = After(S)
  BY <1>1 DEF Now
<1>5. Put(file, pending) = Now
  <2>1. PICK w : w = Only(pending, DOMAIN pending)
    OBVIOUS
  <2>2. DOMAIN w = DOMAIN pending /\ \A x \in DOMAIN pending : w[x] = pending[x]
    BY <2>1, OnlyAll
  <2>3. Put(file, w) = Put(file, pending)
    BY <2>2 DEF Put
  <2> QED BY <2>1, <2>3 DEF Now, After
<1>6. \A x \in Addr : x \notin DOMAIN pending => Now[x] = file[x]
  BY <1>1, <1>3, <1>4
<1> QED BY <1>3, <1>4, <1>5, <1>6

LEMMA SealKeeps ==
  ASSUME IInv, Seal
  PROVE  IInv'
<1> USE DEF IInv
<1>1. /\ pc = "seal" /\ pc' = "header" /\ pending' = NoWrites
      /\ file' = Put1(Put(file, pending), plan.end0 + 1, CommitTail(plan.walk))
      /\ UNCHANGED <<mode, base, cols, rootWalk, space, plan, stable, told, failed, trust>>
  BY DEF Seal
<1>2. PICK g, h, b, z, e, w, locs :
        /\ g = Now /\ h = file' /\ b = base /\ z = plan.end /\ e = plan.end0
        /\ w = plan.walk /\ locs = plan.locs
  OBVIOUS
<1>3. /\ b \in Nat /\ z \in Nat /\ e \in Nat /\ MaxSize \in Nat /\ b + e + 1 <= MaxSize
      /\ w \in 1 .. e - 1 /\ Spans(locs) \subseteq 1 .. e - 1 /\ locs \in Locs
      /\ IF InPlace THEN e = z - 2 /\ end = e + 2 ELSE e >= z + 2 /\ end = e + 1
      /\ Before = z /\ Before' = z
      /\ \A x \in Addr : x \in Nat
  <2>1. /\ base \in Nat /\ plan.end \in Nat /\ plan.end0 \in Nat /\ plan.locs \in Locs
        /\ MaxSize \in Nat /\ \A x \in Addr : x \in Nat
    BY <1>1, PlanFacts, Constants
  <2>2. /\ base + plan.end0 + 1 <= MaxSize
        /\ plan.walk \in 1 .. plan.end0 - 1 /\ Spans(plan.locs) \subseteq 1 .. plan.end0 - 1
    BY <1>1 DEF Planned
  <2>3. CASE InPlace
    <3>1. plan.end0 = plan.end - 2 /\ end = plan.end
      BY <1>1, <2>3 DEF Planned
    <3>2. end = plan.end0 + 2
      BY <2>1, <3>1
    <3> QED BY <1>1, <1>2, <2>1, <2>2, <2>3, <3>1, <3>2 DEF Before
  <2>4. CASE ~InPlace
    <3>1. plan.end0 >= plan.end + 2 /\ end = plan.end0 + 1
      BY <1>1, <2>4 DEF Planned
    <3> QED BY <1>1, <1>2, <2>1, <2>2, <2>4, <3>1 DEF Before
  <2> QED BY <2>3, <2>4
<1>4. /\ g \in [Addr -> Unit] /\ FilledTo(g, b, end) /\ MarksTo(g, b, e + 2)
      /\ z > 0 => Holds(g, b, z, OldLocs, OldWalk) /\ stable = DataAt(g, b, OldLocs)
      /\ file' = Put1(g, e + 1, CommitTail(w))
      /\ \A x \in Addr : x \notin DOMAIN pending => g[x] = file[x]
  BY <1>1, <1>2, NowFacts
<1>5. b + (e + 1) \in Addr /\ (\A x \in Addr : g[x] # None <=> x < b + end) /\ b + end \in Int
  BY <1>3, <1>4, Constants DEF FilledTo
<1>6. \A x \in Addr : h[x] = IF x = b + (e + 1) THEN CommitTail(w) ELSE g[x]
  <2>1. CASE ~InPlace
    <3>1. base + (e + 1) \in Addr /\ base + (e + 1) >= b + end /\ b + end = b + (e + 1)
      BY <1>2, <1>3, <1>5, <2>1
    <3>2. Put1(g, e + 1, CommitTail(w)) =
            [x \in Addr |-> IF x = base + (e + 1) THEN CommitTail(w)
                            ELSE IF b + end <= x /\ x < base + (e + 1) THEN Hole ELSE g[x]]
      BY <1>5, <3>1, PutAfter
    <3>3. \A x \in Addr : ~(b + end <= x /\ x < base + (e + 1))
      BY <1>2, <1>3, <3>1
    <3> QED BY <1>2, <1>4, <3>2, <3>3
  <2>2. CASE InPlace
    <3>1. PICK v : v = [x \in {base + (e + 1)} |-> CommitTail(w)]
      OBVIOUS
    <3>2. DOMAIN v = {b + (e + 1)} /\ v[b + (e + 1)] = CommitTail(w)
      BY <1>2, <3>1
    <3>3. b + (e + 1) < b + end
      BY <1>3, <2>2
    <3>4. DOMAIN v \subseteq Addr /\ \A x \in DOMAIN v : x < b + end
      BY <1>5, <3>2, <3>3
    <3>5. Put(g, v) = [x \in Addr |-> IF x \in DOMAIN v THEN v[x] ELSE g[x]]
      BY <1>5, <3>4, PutInside
    <3>6. h = Put(g, v)
      BY <1>2, <1>4, <3>1 DEF Put1
    <3> QED BY <3>2, <3>5, <3>6
  <2> QED BY <2>1, <2>2
<1>7. h \in [Addr -> Unit]
  <2>1. CommitTail(w) \in Unit
    BY <1>3 DEF CommitTail, Unit
  <2>2. h = [x \in Addr |-> h[x]]
    BY <1>2, <1>4 DEF Put1, Put
  <2>3. \A x \in Addr : h[x] \in Unit
    BY <1>4, <1>6, <2>1
  <2> QED BY <2>2, <2>3
<1>8. FilledTo(h, b, e + 2)
  <2>1. e + 2 \in Nat /\ b + (e + 2) <= MaxSize + 1
    BY <1>3
  <2>2. CommitTail(w) # None
    BY DEF CommitTail, None
  <2>3. ASSUME NEW x \in Addr PROVE h[x] # None <=> x < b + (e + 2)
    <3>1. CASE x = b + (e + 1)
      BY <1>3, <1>6, <2>2, <3>1
    <3>2. CASE x # b + (e + 1)
      BY <1>3, <1>5, <1>6, <3>2
    <3> QED BY <3>1, <3>2
  <2>4. Remains(h, b)
    <3>1. ASSUME NEW x \in 0 .. b - 1 PROVE h[x] = g[x]
      <4>1. x \in Addr /\ x # b + (e + 1)
        BY <1>3, Constants
      <4> QED BY <1>6, <4>1
    <3>2. Remains(g, b) /\ b <= MaxSize + 1
      BY <1>3, <1>4 DEF FilledTo
    <3> QED BY <1>3, <1>4, <1>7, <3>1, <3>2, RemainsKept
  <2> QED BY <2>1, <2>3, <2>4 DEF FilledTo
<1>9. end' = e + 2
  <2>1. Size(h) - b = e + 2
    BY <1>3, <1>8, EndFacts
  <2> QED BY <1>1, <1>2, <2>1 DEF end
<1>10. MarksTo(h, b, e + 2)
  <2>2. PICK m : m = e + 2
    OBVIOUS
  <2>3. MarksTo(g, b, m)
    BY <1>4, <2>2
  <2>1. ASSUME NEW x \in Addr, x >= b
        PROVE  /\ h[x][1] = "skip" => h[x] = SkipTail(x - b)
               /\ h[x][1] = "tail" => h[x][2] \in 1 .. x - b - 1
               /\ h[x][1] = "walk" => Spans(h[x][2]) \subseteq 1 .. m - 1
    <3>1. CASE x = b + (e + 1)
      <4>1. h[x] = CommitTail(w) /\ w \in 1 .. x - b - 1
        BY <1>3, <1>6, <3>1
      <4>2. h[x][1] = "tail" /\ h[x][2] = w
        BY <4>1, UnitFacts
      <4> QED BY <4>1, <4>2
    <3>2. CASE x # b + (e + 1)
      <4>1. h[x] = g[x]
        BY <1>6, <3>2
      <4> QED BY <2>1, <2>3, <4>1 DEF MarksTo
    <3> QED BY <3>1, <3>2
  <2>4. MarksTo(h, b, m)
    BY <2>1 DEF MarksTo
  <2> QED BY <2>2, <2>4
<1>11. Filled' /\ Marks'
  BY <1>1, <1>2, <1>8, <1>9, <1>10 DEF Filled, Marks
<1>12. Kept'
  <2>1. CASE z = 0
    BY <1>1, <1>3, <2>1 DEF Kept
  <2>2. CASE z > 0 /\ InPlace
    <3>1. InPlace'
      BY <1>1, <2>2 DEF InPlace
    <3> QED BY <1>1, <1>3, <2>2, <3>1 DEF Kept
  <2>3. CASE z > 0 /\ ~InPlace
    <3>1. Holds(g, b, z, OldLocs, OldWalk) /\ stable = DataAt(g, b, OldLocs)
      BY <1>4, <2>3
    <3>2. /\ z >= 4 /\ OldWalk \in 1 .. z - 3 /\ Spans(OldLocs) \subseteq 1 .. z - 3
      BY <3>1 DEF Holds
    <3>3. ASSUME NEW x \in {0, z - 2, z - 1, OldWalk} \cup Spans(OldLocs)
          PROVE  h[b + x] = g[b + x]
      <4>1. x \in 0 .. z - 1
        BY <1>3, <3>2
      <4>2. b + x \in Addr /\ b + x # b + (e + 1)
        BY <1>3, <2>3, <4>1, Constants
      <4> QED BY <1>6, <4>2
    <3>7. b \in Nat /\ z \in Nat /\ Holds(g, b, z, OldLocs, OldWalk)
      BY <1>3, <3>1
    <3>4. Holds(h, b, z, OldLocs, OldWalk) /\ DataAt(h, b, OldLocs) = DataAt(g, b, OldLocs)
      BY <3>3, <3>7, HoldsKept
    <3>5. Root(h, b + z) = OldLocs /\ WalkPos(h, b + z) = OldWalk
      BY <1>3, <3>4, OldFacts
    <3>6. OldLocs' = OldLocs /\ OldWalk' = OldWalk
      BY <1>1, <1>2, <1>3, <3>5 DEF OldLocs, OldWalk
    <3> QED BY <1>1, <1>2, <1>3, <2>3, <3>1, <3>4, <3>6 DEF Kept
  <2> QED BY <1>3, <2>1, <2>2, <2>3
<1>13. Types'
  BY <1>1, <1>2, <1>7 DEF Types, NoWrites
<1>14. Planned'
  BY <1>1, <1>2, <1>9 DEF Planned, InPlace
<1>15. Sealed'
  <2>1. /\ g[b + w] = Walk(locs)
        /\ \A c \in Col : \A i \in DOMAIN cols[c].data :
             g[b + locs[c].pos + i - 1] = cols[c].data[i]
        /\ z = 0 => g[b] = Header(e + 2)
        /\ \A x \in DOMAIN pending : x \in b .. b + e - 1
    BY <1>1, <1>2 DEF Sealable
  <2>2. \A p \in 0 .. e : b + p \in Addr /\ h[b + p] = g[b + p]
    <3> SUFFICES ASSUME NEW p \in 0 .. e PROVE b + p \in Addr /\ h[b + p] = g[b + p]
      OBVIOUS
    <3>1. b + p \in Addr /\ b + p # b + (e + 1)
      BY <1>3, Constants
    <3> QED BY <1>6, <3>1
  <2>3. h[b] = g[b] /\ h[b + w] = g[b + w] /\ h[b + e] = g[b + e]
    <3>1. 0 \in 0 .. e /\ w \in 0 .. e /\ e \in 0 .. e /\ b + 0 = b
      BY <1>3
    <3>2. h[b + 0] = g[b + 0] /\ h[b + w] = g[b + w] /\ h[b + e] = g[b + e]
      BY <2>2, <3>1
    <3> QED BY <3>1, <3>2
  <2>4. h[b][1] = "head"
    <3>1. CASE z = 0
      BY <2>1, <2>3, <3>1, UnitFacts
    <3>2. CASE z > 0
      BY <1>4, <2>3, <3>2 DEF Holds
    <3> QED BY <1>3, <3>1, <3>2
  <2>5. h[b + e] = SkipTail(e)
    <3>1. b + e \in Addr /\ b + e \notin DOMAIN pending
      BY <1>3, <2>1, Constants
    <3>2. file[b + e] = SkipTail(e)
      BY <1>1, <1>2 DEF Ready
    <3> QED BY <1>4, <2>3, <3>1, <3>2
  <2>6. h[b + (e + 1)] = CommitTail(w)
    BY <1>5, <1>6
  <2>7. Holds(h, b, e + 2, locs, w)
    <3>1. PICK n : n = e + 2
      OBVIOUS
    <3>2. /\ n >= 4 /\ b + n - 2 = b + e /\ n - 2 = e /\ b + n - 1 = b + (e + 1) /\ n - 3 = e - 1
      BY <1>3, <3>1
    <3>3. /\ h[b + n - 2] = SkipTail(n - 2) /\ h[b + n - 1] = CommitTail(w)
          /\ w \in 1 .. n - 3 /\ Spans(locs) \subseteq 1 .. n - 3
      BY <1>3, <2>5, <2>6, <3>2
    <3>4. h[b + w] = Walk(locs)
      BY <2>1, <2>3
    <3> QED BY <1>3, <2>4, <3>1, <3>2, <3>3, <3>4 DEF Holds
  <2>8. Value' = DataAt(h, b, locs)
    <3>1. ASSUME NEW c \in Col
          PROVE  cols[c].data = [i \in 1 .. locs[c].len |-> h[b + locs[c].pos + i - 1]]
      <4>1. PICK d, q, n : d = cols[c].data /\ q = locs[c].pos /\ n = locs[c].len
        OBVIOUS
      <4>2. d \in Seq(Unit) /\ n = Len(d) /\ q \in Nat /\ n \in Nat
        BY <1>1, <1>2, <4>1, PlanFacts
      <4>3. d = [i \in 1 .. n |-> d[i]]
        BY <4>2, LenProperties
      <4>4. ASSUME NEW i \in 1 .. n PROVE h[b + q + i - 1] = d[i]
        <5>1. g[b + q + i - 1] = d[i]
          <6>1. i \in DOMAIN cols[c].data
            BY <4>1, <4>2, LenProperties
          <6> QED BY <2>1, <4>1, <6>1
        <5>2. q + i - 1 \in Spans(locs)
          <6>1. locs[c].len \in Nat /\ locs[c].pos \in Int /\ i \in 1 .. locs[c].len
            BY <4>1, <4>2
          <6>2. locs[c].pos + i - 1 \in Spans(locs)
            BY <6>1, SpansFacts
          <6> QED BY <4>1, <6>2
        <5>3. PICK p : p = q + i - 1
          OBVIOUS
        <5>4. p \in 0 .. e /\ b + q + i - 1 = b + p
          BY <1>3, <4>2, <5>2, <5>3
        <5> QED BY <2>2, <5>1, <5>4
      <4>5. [i \in 1 .. n |-> d[i]] = [i \in 1 .. n |-> h[b + q + i - 1]]
        BY <4>4
      <4> QED BY <4>1, <4>3, <4>5
    <3>2. Value' = [c \in Col |-> cols[c].data]
      BY <1>1 DEF Value
    <3> QED BY <3>1, <3>2 DEF DataAt
  <2>9. z = 0 => h[b] = Header(e + 2)
    BY <2>1, <2>3
  <2> QED BY <1>1, <1>2, <2>7, <2>8, <2>9 DEF Sealed
<1>16. Loaded' /\ Covered' /\ Apart' /\ Ready' /\ Sealable' /\ Written' /\ Told'
  <2>1. Dirty' = Dirty /\ Dirty = {}
    BY <1>1 DEF Dirty, Written
  <2> QED BY <1>1, <2>1 DEF Loaded, Covered, Apart, Ready, Sealable, Written, Told, NoWrites
<1> QED BY <1>11, <1>12, <1>13, <1>14, <1>15, <1>16

LEMMA HeadingFacts ==
  ASSUME IInv, pc = "header"
  PROVE  Put(file, Heading) = file \/ Put(file, Heading) = Put1(file, 0, Header(plan.end0 + 2))
<1>1. file \in [Addr -> Unit] /\ base \in Nat /\ base + 0 = base
  BY Constants DEF IInv, Types
<1>2. CASE mode = 1 \/ plan.end = 0
  <2>1. Heading = [x \in {base} |-> Header(plan.end0 + 2)]
    BY <1>2 DEF Heading
  <2> QED BY <1>1, <2>1 DEF Put1
<1>3. CASE ~(mode = 1 \/ plan.end = 0)
  <2>1. PICK w : w = Heading
    OBVIOUS
  <2>2. DOMAIN w = {}
    BY <1>3, <2>1 DEF Heading, NoWrites
  <2>3. Put(file, w) = [x \in Addr |-> file[x]]
    BY <2>2 DEF Put
  <2> QED BY <1>1, <2>1, <2>3
<1> QED BY <1>2, <1>3

\* Both ways the commit has been done: whether its last write fails or not.
LEMMA FinishKeeps ==
  ASSUME IInv, Finish \/ FinishFails
  PROVE  IInv'
<1> USE DEF IInv
<1>1. /\ pc = "header" /\ pc' = "idle" /\ plan' = NoPlan /\ stable' = Value
      /\ told' \in BOOLEAN /\ failed' \in BOOLEAN
      /\ \/ file' = file
         \/ file' = Put1(file, 0, Header(plan.end0 + 2))
      /\ space' = (IF mode = 1 THEN plan.next \cup {plan.end0, plan.end0 + 1} ELSE {})
      /\ UNCHANGED <<mode, base, pending, cols, rootWalk, trust>>
  <2>1. CASE Finish
    BY <2>1 DEF Finish, Returns
  <2>2. CASE FinishFails
    <3>1. pc = "header"
      BY <2>2 DEF FinishFails
    <3>2. Put(file, Heading) = file \/ Put(file, Heading) = Put1(file, 0, Header(plan.end0 + 2))
      BY <3>1, HeadingFacts
    <3> QED BY <2>2, <3>2 DEF FinishFails, Returns
  <2> QED BY <2>1, <2>2
<1>2. PICK h, b, n, w, locs :
        h = file' /\ b = base /\ n = plan.end0 + 2 /\ w = plan.walk /\ locs = plan.locs
  OBVIOUS
<1>3. /\ b \in Nat /\ b \in Addr /\ n \in Nat /\ plan.end0 \in Nat /\ plan.end0 + 1 <= MaxSize
      /\ Spans(locs) \subseteq 1 .. n - 3 /\ end = n
      /\ \A x \in Addr : x \in Nat
  <2>1. /\ b \in Nat /\ b \in Addr /\ plan.end0 \in Nat /\ MaxSize \in Nat
        /\ b + plan.end0 + 1 <= MaxSize
        /\ Spans(locs) \subseteq 1 .. plan.end0 - 1 /\ end = plan.end0 + 2
    <3>1. base \in Nat /\ base \in Addr /\ plan.end0 \in Nat /\ MaxSize \in Nat
      BY <1>1, PlanFacts, Constants DEF Types
    <3>2. base + plan.end0 + 1 <= MaxSize /\ Spans(plan.locs) \subseteq 1 .. plan.end0 - 1
      BY <1>1 DEF Planned
    <3>3. end = plan.end0 + 2
      BY <1>1 DEF Planned
    <3> QED BY <1>2, <3>1, <3>2, <3>3
  <2>2. n - 3 = plan.end0 - 1 /\ n \in Nat /\ plan.end0 + 1 <= MaxSize
    BY <1>2, <2>1
  <2> QED BY <1>2, <2>1, <2>2, Constants
<1>4. /\ file \in [Addr -> Unit] /\ FilledTo(file, b, n) /\ MarksTo(file, b, n)
      /\ Holds(file, b, n, locs, w) /\ Value = DataAt(file, b, locs)
  BY <1>1, <1>2, <1>3 DEF Types, Filled, Marks, Sealed
<1>5. b + n <= MaxSize + 1 /\ (\A x \in Addr : file[x] # None <=> x < b + n) /\ n >= 4
  BY <1>4 DEF FilledTo, Holds
<1>6. /\ h = [x \in Addr |-> h[x]]
      /\ \A x \in Addr : x # b => h[x] = file[x]
      /\ h[b] = file[b] \/ h[b] = Header(n)
  <2>1. CASE file' = Put1(file, 0, Header(plan.end0 + 2))
    <3>1. PICK v : v = [x \in {base + 0} |-> Header(n)]
      OBVIOUS
    <3>2. DOMAIN v = {b} /\ v[b] = Header(n)
      BY <1>2, <1>3, <3>1
    <3>3. DOMAIN v \subseteq Addr /\ \A x \in DOMAIN v : x < b + n
      BY <1>3, <1>5, <3>2
    <3>4. b + n \in Int
      BY <1>3
    <3>5. Put(file, v) = [x \in Addr |-> IF x \in DOMAIN v THEN v[x] ELSE file[x]]
      BY <1>5, <3>3, <3>4, PutInside
    <3>6. h = Put(file, v)
      BY <1>1, <1>2, <2>1, <3>1 DEF Put1
    <3> QED BY <1>3, <3>2, <3>5, <3>6
  <2>2. CASE file' = file
    BY <1>2, <1>4, <2>2
  <2> QED BY <1>1, <2>1, <2>2
<1>7. Header(n) \in Unit /\ Header(n) # None /\ Header(n)[1] = "head"
  <2>1. Header(n) \in Unit /\ Header(n) # None
    BY <1>3 DEF Header, Unit, None
  <2> QED BY <2>1, UnitFacts
<1>8. h \in [Addr -> Unit]
  <2>1. \A x \in Addr : h[x] \in Unit
    BY <1>3, <1>4, <1>6, <1>7
  <2> QED BY <1>6, <2>1
<1>9. h[b] # None /\ h[b][1] = "head"
  <2>1. file[b] # None /\ file[b][1] = "head"
    BY <1>3, <1>4, <1>5 DEF Holds
  <2> QED BY <1>6, <1>7, <2>1
<1>10. FilledTo(h, b, n)
  <2>1. \A x \in Addr : h[x] # None <=> x < b + n
    <3> SUFFICES ASSUME NEW x \in Addr PROVE h[x] # None <=> x < b + n
      OBVIOUS
    <3>1. CASE x = b
      BY <1>3, <1>5, <1>9, <3>1
    <3>2. CASE x # b
      BY <1>5, <1>6, <3>2
    <3> QED BY <3>1, <3>2
  <2>2. Remains(h, b)
    <3>1. ASSUME NEW x \in 0 .. b - 1 PROVE h[x] = file[x]
      <4>1. x \in Addr /\ x # b
        BY <1>3, Constants
      <4> QED BY <1>6, <4>1
    <3>2. Remains(file, b)
      BY <1>4 DEF FilledTo
    <3>3. b <= MaxSize + 1
      BY <1>3, Constants
    <3> QED BY <1>3, <1>4, <1>8, <3>1, <3>2, <3>3, RemainsKept
  <2> QED BY <1>3, <1>5, <2>1, <2>2 DEF FilledTo
<1>11. MarksTo(h, b, n)
  <2>1. ASSUME NEW x \in Addr, x >= b
        PROVE  /\ h[x][1] = "skip" => h[x] = SkipTail(x - b)
               /\ h[x][1] = "tail" => h[x][2] \in 1 .. x - b - 1
               /\ h[x][1] = "walk" => Spans(h[x][2]) \subseteq 1 .. n - 1
    <3>1. CASE x = b
      BY <1>9, <3>1
    <3>2. CASE x # b
      <4>1. h[x] = file[x]
        BY <1>6, <3>2
      <4> QED BY <1>4, <2>1, <4>1 DEF MarksTo
    <3> QED BY <3>1, <3>2
  <2> QED BY <2>1 DEF MarksTo
<1>12. Holds(h, b, n, locs, w) /\ DataAt(h, b, locs) = DataAt(file, b, locs)
  <2>1. /\ file[b + n - 2] = SkipTail(n - 2) /\ file[b + n - 1] = CommitTail(w)
        /\ w \in 1 .. n - 3 /\ file[b + w] = Walk(locs) /\ locs \in Locs
    BY <1>4 DEF Holds
  <2>2. \A p \in 1 .. n - 1 : h[b + p] = file[b + p]
    <3> SUFFICES ASSUME NEW p \in 1 .. n - 1 PROVE h[b + p] = file[b + p]
      OBVIOUS
    <3>1. b + p \in Addr /\ b + p # b
      BY <1>3, <1>5, Constants
    <3> QED BY <1>6, <3>1
  <2>3. h[b + n - 2] = SkipTail(n - 2) /\ h[b + n - 1] = CommitTail(w) /\ h[b + w] = Walk(locs)
    <3>1. /\ n - 2 \in 1 .. n - 1 /\ n - 1 \in 1 .. n - 1 /\ w \in 1 .. n - 1
          /\ b + (n - 2) = b + n - 2 /\ b + (n - 1) = b + n - 1
      BY <1>3, <1>5, <2>1
    <3>2. h[b + (n - 2)] = file[b + (n - 2)] /\ h[b + (n - 1)] = file[b + (n - 1)] /\ h[b + w] = file[b + w]
      BY <2>2, <3>1
    <3> QED BY <2>1, <3>1, <3>2
  <2>4. Holds(h, b, n, locs, w)
    BY <1>3, <1>5, <1>9, <2>1, <2>3 DEF Holds
  <2>5. ASSUME NEW c \in Col, NEW i \in 1 .. locs[c].len
        PROVE  h[b + locs[c].pos + i - 1] = file[b + locs[c].pos + i - 1]
    <3>1. PICK q, m : q = locs[c].pos /\ m = locs[c].len
      OBVIOUS
    <3>2. q \in Nat /\ m \in Nat /\ i \in 1 .. m
      BY <2>1, <2>5, <3>1, Constants DEF Locs
    <3>3. q + i - 1 \in Spans(locs)
      BY <3>1, <3>2, SpansFacts
    <3>4. q + i - 1 \in 1 .. n - 1 /\ b + (q + i - 1) = b + q + i - 1
      BY <1>3, <3>2, <3>3
    <3> QED BY <2>2, <3>1, <3>4
  <2> QED BY <2>4, <2>5 DEF DataAt
<1>13. end' = n /\ Before' = n
  <2>1. Size(h) - b = n
    BY <1>3, <1>10, EndFacts
  <2> QED BY <1>1, <1>2, <2>1 DEF end, Before
<1>14. OldLocs' = locs /\ OldWalk' = w
  <2>1. Root(h, b + n) = locs /\ WalkPos(h, b + n) = w
    BY <1>3, <1>12, OldFacts
  <2> QED BY <1>1, <1>2, <1>13, <2>1 DEF OldLocs, OldWalk
<1>15. Types'
  <2>1. \E K \in Nat : space' \subseteq 0 .. K
    <3>1. plan.next \subseteq 0 .. MaxSize + 1
      BY DEF Types, PlanType
    <3>2. plan.end0 \in 0 .. MaxSize + 1 /\ plan.end0 + 1 \in 0 .. MaxSize + 1
      BY <1>3, Constants
    <3>3. space' \subseteq 0 .. MaxSize + 1 /\ MaxSize + 1 \in Nat
      BY <1>1, <3>1, <3>2, Constants
    <3> QED BY <3>3
  <2> QED BY <1>1, <1>2, <1>8, <2>1, NoPlanTypes DEF Types
<1>16. Filled' /\ Marks'
  BY <1>1, <1>2, <1>10, <1>11, <1>13 DEF Filled, Marks
<1>17. Kept'
  BY <1>1, <1>2, <1>4, <1>5, <1>12, <1>13, <1>14 DEF Kept
<1>18. Dirty' = {} /\ \A c \in Col : cols[c].dirty = FALSE
  <2>1. Dirty = {} /\ Dirty' = Dirty
    BY <1>1 DEF Written, Dirty
  <2>2. \A c \in Col : cols[c].dirty \in BOOLEAN
    BY DEF Types
  <2> QED BY <2>1, <2>2 DEF Dirty
<1>19. Loaded'
  <2>1. ASSUME NEW c \in Col
        PROVE  /\ cols[c].data = Value[c] /\ cols[c].pos = locs[c].pos
               /\ Len(cols[c].data) = locs[c].len /\ ~cols[c].dirty
    <3>1. cols[c].data = Value[c]
      BY DEF Value
    <3>2. ~cols[c].dirty
      BY <1>18
    <3>3. plan.locs[c].len = Len(cols[c].data) /\ plan.locs[c].pos = cols[c].pos
      BY <1>1, <3>2, PlanFacts
    <3> QED BY <1>2, <3>1, <3>2, <3>3
  <2> QED BY <1>1, <1>14, <2>1 DEF Loaded
<1>20. Covered'
  <2>1. mode = 1 => Spans(locs) \cup {w} \subseteq space'
    BY <1>1, <1>2 DEF Planned
  <2>2. Spans(locs) \subseteq Unfree'
    <3>1. CASE mode = 1
      BY <1>1, <2>1, <3>1 DEF Unfree
    <3>2. CASE mode = 2
      <4>1. Spans(locs) \subseteq 0 .. n - 1
        BY <1>3
      <4> QED BY <1>1, <1>13, <3>2, <4>1 DEF Unfree
    <3> QED BY <3>1, <3>2, Constants DEF Types
  <2>3. rootWalk' = <<locs>>
    BY <1>1, <1>2 DEF Planned
  <2>4. \A l : rootWalk' = <<l>> => l = locs
    BY <2>3
  <2> QED BY <1>1, <1>14, <2>1, <2>2, <2>4 DEF Covered, Spans
<1>21. Planned' /\ Apart' /\ Ready' /\ Sealable' /\ Written' /\ Sealed' /\ Told'
  <2>1. DOMAIN pending' = {}
    BY <1>1 DEF Sealable
  <2> QED BY <1>1, <1>18, <2>1 DEF Planned, Apart, Ready, Sealable, Written, Sealed, Told
<1> QED BY <1>15, <1>16, <1>17, <1>19, <1>20, <1>21

-----------------------------------------------------------------------------
(* The theorems.                                                           *)

\* Memory that is not what the file has, and commits in it.
LEMMA ChangeLeaves ==
  ASSUME Types, Left, trust = "file", NEW c \in Col, Change(c)
  PROVE  Inv'
<1>1. UNCHANGED <<file, base, pending, pc, stable, trust>>
  BY DEF Change
<1>2. Types'
  BY ChangeTypes
<1> QED BY <1>1, <1>2 DEF Inv, Left, Cut, end

LEMMA CommitLeaves ==
  ASSUME Types, Left, trust = "file", Commit
  PROVE  Inv'
<1>1. /\ UNCHANGED <<file, base, pending, stable, trust>>
      /\ Returns(TRUE) \/ Returns(FALSE)
  BY CommitSteps
<1>2. pc' = "idle" /\ plan' = NoPlan /\ pc = "idle" /\ end \in Nat /\ (end = 0 \/ end >= 3)
  BY <1>1 DEF Returns, Left
<1>3. Types'
  BY <1>2, CommitTypes
<1>4. Left'
  BY <1>1, <1>2 DEF Left, Cut, end
<1> QED BY <1>1, <1>3, <1>4 DEF Inv

\* What any writes make of a file is a file.
LEMMA PutTypes ==
  ASSUME NEW f \in [Addr -> Unit], NEW w, \A x \in DOMAIN w : w[x] \in Unit
  PROVE  Put(f, w) \in [Addr -> Unit]
<1>1. Hole \in Unit
  BY DEF Unit
<1>2. \A x \in Addr : Put(f, w)[x] \in Unit
  BY <1>1 DEF Put
<1> QED BY <1>2 DEF Put

\* A write of the second pass fails.
LEMMA WriteFailsKeeps ==
  ASSUME IInv, WriteFails
  PROVE  Inv'
<1>1. /\ pc = "seal" /\ pc' = "idle" /\ plan' = NoPlan /\ told' = FALSE /\ failed' = TRUE
      /\ trust' = "file" /\ pending' = NoWrites /\ DOMAIN pending' = {}
      /\ UNCHANGED <<mode, base, cols, rootWalk, space, stable>>
  BY DEF WriteFails, Returns, NoWrites
<1>2. PICK S \in SUBSET DOMAIN pending : file' = After(S)
  BY DEF WriteFails, Made, After
<1>3. /\ After(S) \in [Addr -> Unit] /\ FilledTo(After(S), base, end) /\ Types
      /\ base \in Nat
  BY <1>1, PendingFacts, Constants DEF IInv, Types
<1>4. Types'
  BY <1>1, <1>2, <1>3, NoPlanTypes DEF Types
<1>5. CASE InPlace
  <2>1. Openable(After(S), base, Before, Committing)
    BY <1>5, OpenableAfter
  <2>2. Committing = stable /\ Before = plan.end /\ end = plan.end /\ plan.end > 0 /\ plan.end \in Nat
    BY <1>1, <1>5 DEF Committing, Before, IInv, Planned, InPlace, Types, PlanType
  <2>3. Holds(After(S), base, plan.end, OldLocs, OldWalk)
    BY <1>1, <2>2, PendingFacts
  <2>4. plan.end >= 4 /\ After(S)[base + plan.end - 1] = CommitTail(OldWalk)
    BY <2>3 DEF Holds
  <2>5. end' = end
    <3>1. Size(After(S)) - base = end
      BY <1>3, EndFacts
    <3> QED BY <1>1, <1>2, <3>1 DEF end
  <2>6. ~Cut'
    <3>1. After(S)[base + plan.end - 1][1] # "skip"
      BY <2>4, UnitFacts
    <3> SUFFICES ASSUME Cut' PROVE FALSE
      OBVIOUS
    <3>2. (base \in Nat /\ end \in Nat /\ Cut => end > 0 /\ file[base + end - 1][1] = "skip")'
      BY CutFacts, PTL
    <3>3. base' = base /\ end' = plan.end /\ base' \in Nat /\ end' \in Nat
      BY <1>1, <1>3, <2>2, <2>5
    <3>4. end' > 0 /\ file'[base' + end' - 1][1] = "skip"
      BY <3>2, <3>3
    <3>5. file'[base + plan.end - 1][1] = "skip"
      BY <3>3, <3>4
    <3> QED BY <1>2, <3>1, <3>5
  <2>7. Left'
    BY <1>1, <1>2, <2>1, <2>2, <2>4, <2>5, <2>6 DEF Left
  <2> QED BY <1>1, <1>4, <2>7 DEF Inv
<1>6. CASE ~InPlace
  <2>1. PICK g, b, e : g = After(S) /\ b = base /\ e = plan.end0
    OBVIOUS
  <2>2. /\ b \in Addr /\ e \in Nat /\ e >= 2 /\ b + e + 1 <= MaxSize
        /\ g \in [Addr -> Unit] /\ FilledTo(g, b, e + 1) /\ MarksTo(g, b, e + 1)
        /\ g[b + e] = SkipTail(e)
    BY <1>1, <1>6, <2>1, MarkThere
  <2>3. file' = g /\ base' = b
    BY <1>1, <1>2, <2>1
  <2>4. Left'
    BY <1>1, <2>2, <2>3, CutLeaves
  <2> QED BY <1>1, <1>4, <2>4 DEF Inv
<1> QED BY <1>5, <1>6

\* The flush fails before the commit tail is written.
LEMMA SealFailsKeeps ==
  ASSUME IInv, SealFails
  PROVE  Inv'
<1>1. /\ pc = "seal" /\ pc' = "idle" /\ plan' = NoPlan /\ told' = FALSE /\ failed' = TRUE
      /\ trust' = "none" /\ pending' = NoWrites /\ DOMAIN pending' = {}
      /\ UNCHANGED <<mode, base, cols, rootWalk, space, stable>>
  BY DEF SealFails, Returns, NoWrites
<1>2. PICK w, S : /\ w = Over(Heading, Over(Ending, pending)) /\ S \in SUBSET DOMAIN w
                  /\ file' = Put(file, Only(w, S))
  BY DEF SealFails, Made
<1>3. /\ Types /\ plan.end0 \in Nat /\ plan.walk \in Nat /\ file \in [Addr -> Unit]
      /\ \A x \in DOMAIN pending : pending[x] \in Unit
  BY Constants DEF IInv, Types, PlanType
<1>4. CommitTail(plan.walk) \in Unit /\ Header(plan.end0 + 2) \in Unit
  BY <1>3 DEF CommitTail, Header, Unit
<1>5. \A x \in DOMAIN Ending : Ending[x] \in Unit
  BY <1>4 DEF Ending
<1>6. \A x \in DOMAIN Heading : Heading[x] \in Unit
  <2>1. CASE mode = 1 \/ plan.end = 0
    BY <1>4, <2>1 DEF Heading
  <2>2. CASE ~(mode = 1 \/ plan.end = 0)
    BY <2>2 DEF Heading, NoWrites
  <2> QED BY <2>1, <2>2
<1>7. \A x \in DOMAIN w : w[x] \in Unit
  <2>1. PICK v, h, g : v = Over(g, pending) /\ h = Heading /\ g = Ending
    OBVIOUS
  <2>2. \A x \in DOMAIN v : v[x] \in Unit
    BY <1>3, <1>5, <2>1 DEF Over
  <2>3. w = Over(h, v)
    BY <1>2, <2>1
  <2> QED BY <1>6, <2>1, <2>2, <2>3 DEF Over
<1>8. PICK o : o = Only(w, S)
  OBVIOUS
<1>9. \A x \in DOMAIN o : o[x] \in Unit
  BY <1>2, <1>7, <1>8 DEF Only
<1>10. file' \in [Addr -> Unit]
  BY <1>2, <1>3, <1>8, <1>9, PutTypes
<1>11. Types'
  BY <1>1, <1>3, <1>10, NoPlanTypes DEF Types
<1> QED BY <1>1, <1>11 DEF Inv, Lost

LEMMA StutterKeeps ==
  ASSUME IInv, UNCHANGED vars
  PROVE  IInv'
<1> USE DEF IInv
<1>1. UNCHANGED <<mode, base, file, pending, cols, rootWalk, space, pc, plan, stable, told, failed,
                  trust>>
  BY DEF vars
<1>2. /\ end' = end /\ InPlace' = InPlace /\ Dirty' = Dirty /\ Value' = Value /\ Now' = Now
      /\ Before' = Before /\ OldLocs' = OldLocs /\ OldWalk' = OldWalk
  BY <1>1 DEF end, InPlace, Dirty, Value, Now, After, Before, OldLocs, OldWalk
<1>3. /\ Unfree' = Unfree /\ DirtySpans(plan.locs)' = DirtySpans(plan.locs)
      /\ \A x : Untouchable(x)' <=> Untouchable(x)
  BY <1>1, <1>2 DEF Unfree, Reserved, DirtySpans, Untouchable, Spans
<1>4. Types' /\ Filled' /\ Marks' /\ Kept' /\ Loaded'
  BY <1>1, <1>2 DEF Types, Filled, Marks, Kept, Loaded
<1>5. Covered' /\ Planned' /\ Apart'
  <2>1. Covered'
    BY <1>1, <1>2, <1>3 DEF Covered, Spans
  <2>2. Planned'
    BY <1>1, <1>2 DEF Planned, Spans
  <2>3. Apart'
    BY <1>1, <1>2, <1>3 DEF Apart
  <2> QED BY <2>1, <2>2, <2>3
<1>6. Ready' /\ Sealable' /\ Written' /\ Sealed' /\ Told'
  BY <1>1, <1>2, <1>3 DEF Ready, Sealable, Written, Sealed, Told
<1> QED BY <1>4, <1>5, <1>6

LEMMA LeftStays ==
  ASSUME Types, Left, trust = "file", UNCHANGED vars
  PROVE  Inv'
<1>1. UNCHANGED <<mode, base, file, pending, cols, space, pc, plan, stable, told, failed, trust>>
  BY DEF vars
<1>2. Types'
  BY <1>1 DEF Types
<1> QED BY <1>1, <1>2 DEF Inv, Left, Cut, end

\* While no commit is at work these are the steps.
LEMMA IdleSteps ==
  ASSUME pc = "idle", [Next]_vars
  PROVE  (\E c \in Col : Change(c)) \/ Rollback \/ Commit \/ Restart \/ UNCHANGED vars
BY DEF Next, ExtendFile, Write, Seal, Finish, ExtendFileFails, WriteFails, SealFails, FinishFails

\* With a file that nobody can rely on there are none.
LEMMA LostStays ==
  ASSUME Inv, trust = "none", [Next]_vars
  PROVE  UNCHANGED vars
<1>1. pc = "idle" /\ ~InPlace /\ ~Idle
  BY DEF Inv, Lost, InPlace, NoPlan, Idle
<1> QED BY <1>1, IdleSteps DEF Change, Rollback, Commit, Restart

LEMMA NextKeeps ==
  ASSUME Inv, [Next]_vars
  PROVE  Inv'
<1>1. IInv' /\ trust' = "all" => Inv'
  BY DEF Inv, IInv
<1>2. CASE trust = "all"
  <2>1. IInv
    BY <1>2 DEF Inv
  <2>2. CASE \E c \in Col : Change(c)
    <3>1. trust' = "all"
      BY <1>2, <2>2 DEF Change
    <3> QED BY <1>1, <2>1, <2>2, <3>1, ChangeKeeps
  <2>3. CASE Rollback
    <3>1. Left /\ Types
      BY <2>1, <2>3, IdleLeft DEF Rollback, Idle, IInv
    <3> QED BY <2>3, <3>1, RollbackKeeps
  <2>4. CASE Commit
    <3>1. trust' = "all"
      BY <1>2, <2>4 DEF Commit
    <3> QED BY <1>1, <2>1, <2>4, <3>1, CommitKeeps
  <2>5. CASE ExtendFile
    <3>1. trust' = "all"
      BY <1>2, <2>5 DEF ExtendFile
    <3> QED BY <1>1, <2>1, <2>5, <3>1, ExtendFileKeeps
  <2>6. CASE Write
    <3>1. trust' = "all"
      BY <1>2, <2>6 DEF Write
    <3> QED BY <1>1, <2>1, <2>6, <3>1, WriteKeeps
  <2>7. CASE Seal
    <3>1. trust' = "all"
      BY <1>2, <2>7 DEF Seal
    <3> QED BY <1>1, <2>1, <2>7, <3>1, SealKeeps
  <2>8. CASE Finish \/ FinishFails
    <3>1. trust' = "all"
      BY <1>2, <2>8 DEF Finish, FinishFails
    <3> QED BY <1>1, <2>1, <2>8, <3>1, FinishKeeps
  <2>9. CASE Restart
    <3>1. trust' = "all"
      BY <2>9 DEF Restart
    <3> QED BY <1>1, <2>9, <3>1, RestartKeeps
  <2>10. CASE ExtendFileFails
    BY <2>1, <2>10, ExtendFailsKeeps
  <2>11. CASE WriteFails
    BY <2>1, <2>11, WriteFailsKeeps
  <2>12. CASE SealFails
    BY <2>1, <2>12, SealFailsKeeps
  <2>13. CASE UNCHANGED vars
    <3>1. trust' = "all"
      BY <1>2, <2>13 DEF vars
    <3> QED BY <1>1, <2>1, <2>13, <3>1, StutterKeeps
  <2> QED BY <2>2, <2>3, <2>4, <2>5, <2>6, <2>7, <2>8, <2>9, <2>10, <2>11, <2>12, <2>13 DEF Next
<1>3. CASE trust = "file"
  <2>1. Types /\ Left /\ pc = "idle"
    BY <1>3 DEF Inv, Left
  <2>2. CASE \E c \in Col : Change(c)
    BY <1>3, <2>1, <2>2, ChangeLeaves
  <2>3. CASE Rollback
    BY <2>1, <2>3, RollbackKeeps
  <2>4. CASE Commit
    BY <1>3, <2>1, <2>4, CommitLeaves
  <2>5. CASE Restart
    <3>1. trust' = "all"
      BY <2>5 DEF Restart
    <3> QED BY <1>1, <2>5, <3>1, RestartKeeps
  <2>6. CASE UNCHANGED vars
    BY <1>3, <2>1, <2>6, LeftStays
  <2> QED BY <2>1, <2>2, <2>3, <2>4, <2>5, <2>6, IdleSteps
<1>4. CASE trust = "none"
  <2>1. UNCHANGED vars
    BY <1>4, LostStays
  <2>2. Types' /\ Lost' /\ trust' = "none"
    BY <1>4, <2>1 DEF Inv, Types, Lost, vars
  <2> QED BY <2>2 DEF Inv
<1> QED BY <1>2, <1>3, <1>4 DEF Inv, Types

\* The inductive invariant: what a commit has found is free, what it writes goes
\* there, and until it is done the datafile that was committed before is there; and
\* what is there when one has failed.
THEOREM Invariant == Spec => []Inv
<1>1. Init => Inv
  BY InitKeeps DEF Init, Inv, IInv
<1>2. Inv /\ [Next]_vars => Inv'
  BY NextKeeps
<1> QED BY <1>1, <1>2, PTL DEF Spec

\* The types; and nothing stays unflushed once the commit tail is being written.
THEOREM TypeCorrect == Spec => []TypeOK
<1>1. Inv => TypeOK
  <2> SUFFICES ASSUME Inv PROVE TypeOK
    OBVIOUS
  <2>1. ASSUME NEW c \in Col
        PROVE  /\ cols[c].data \in Seq(Unit) /\ Len(cols[c].data) <= MaxLen
               /\ cols[c].pos \in Addr /\ cols[c].dirty \in BOOLEAN
    BY DEF Inv, Types
  <2>2. plan.end0 \in Addr /\ plan.walk \in Addr
    BY DEF Inv, Types, PlanType
  <2>3. DOMAIN pending # {} => pc = "seal"
    <3>1. trust \in {"all", "file", "none"}
      BY DEF Inv, Types
    <3>2. CASE trust = "all"
      BY <3>2 DEF Inv, IInv, Sealable
    <3>3. CASE trust = "file"
      BY <3>3 DEF Inv, Left
    <3>4. CASE trust = "none"
      BY <3>4 DEF Inv, Lost
    <3> QED BY <3>1, <3>2, <3>3, <3>4
  <2>4. space \subseteq Nat /\ IsFiniteSet(space)
    <3>1. PICK K \in Nat : space \subseteq 0 .. K
      BY DEF Inv, Types
    <3>2. IsFiniteSet(0 .. K) /\ 0 .. K \subseteq Nat
      BY <3>1, FS_Interval
    <3>3. IsFiniteSet(space)
      BY <3>1, <3>2, FS_Subset
    <3> QED BY <3>1, <3>2, <3>3
  <2> QED BY <2>1, <2>2, <2>3, <2>4 DEF Inv, Types, TypeOK
<1> QED BY <1>1, Invariant, PTL

\* Where nothing is pending, Now is the file.
LEMMA NowFile ==
  ASSUME IInv, pc # "seal"
  PROVE  Now = file /\ \A S \in SUBSET DOMAIN pending : After(S) = file
<1>1. DOMAIN pending = {}
  BY DEF IInv, Sealable
<1>2. \A S \in SUBSET DOMAIN pending : After(S) = file
  BY <1>1, NothingPending DEF IInv
<1> QED BY <1>2 DEF Now

\* Columns that are not dirty can be read from the file, whatever the commits of
\* other columns write.
THEOREM ColumnsReadBack == Spec => []ReadsBack
<1>1. Inv => ReadsBack
  <2> SUFFICES ASSUME IInv, NEW c \in Col, ~cols[c].dirty, NEW i \in DOMAIN cols[c].data
               PROVE  Now[base + cols[c].pos + i - 1] = cols[c].data[i]
    BY DEF ReadsBack, Inv
  <2>1. /\ cols[c].data \in Seq(Unit) /\ i \in 1 .. Len(cols[c].data)
        /\ pc \in {"idle", "tail", "write", "seal", "header"}
    BY LenProperties DEF IInv, Types
  <2>2. CASE pc \in {"idle", "tail", "write"}
    <3>1. /\ cols[c].data = stable[c] /\ pc # "seal" /\ pc # "header"
          /\ Before > 0 => cols[c].pos = OldLocs[c].pos /\ Len(cols[c].data) = OldLocs[c].len
      BY <2>2 DEF IInv, Loaded
    <3>2. CASE Before = 0
      <4>1. cols[c].data = <<>>
        BY <3>1, <3>2 DEF IInv, Kept, Empty
      <4> QED BY <2>1, <4>1, EmptySeq
    <3>3. CASE Before # 0
      <4>1. Before > 0
        <5>1. Before \in Nat
          BY <3>3 DEF IInv, Filled, FilledTo, Types, PlanType, Before
        <5> QED BY <3>3, <5>1
      <4>2. stable = DataAt(file, base, OldLocs)
        BY <3>1, <3>3 DEF IInv, Kept
      <4>3. PICK q, n : q = OldLocs[c].pos /\ n = OldLocs[c].len
        OBVIOUS
      <4>4. cols[c].pos = q /\ i \in 1 .. n
        BY <2>1, <3>1, <4>1, <4>3
      <4>5. stable[c] = [j \in 1 .. n |-> file[base + q + j - 1]]
        BY <4>2, <4>3 DEF DataAt
      <4>6. Now = file
        BY <3>1, NowFile
      <4> QED BY <3>1, <4>4, <4>5, <4>6
    <3> QED BY <3>2, <3>3
  <2>3. CASE pc = "seal"
    <3>1. plan.locs[c].pos = cols[c].pos
      BY <2>3, PlanFacts
    <3> QED BY <2>3, <3>1 DEF IInv, Sealable
  <2>4. CASE pc = "header"
    <3>1. PICK q, n : q = plan.locs[c].pos /\ n = plan.locs[c].len
      OBVIOUS
    <3>2. cols[c].pos = q /\ n = Len(cols[c].data)
      BY <2>4, <3>1, PlanFacts
    <3>3. Value = DataAt(file, base, plan.locs)
      BY <2>4 DEF IInv, Sealed
    <3>4. Value[c] = [j \in 1 .. n |-> file[base + q + j - 1]] /\ Value[c] = cols[c].data
      BY <3>1, <3>3 DEF DataAt, Value
    <3>5. Now = file
      BY <2>4, NowFile
    <3> QED BY <2>1, <3>2, <3>4, <3>5
  <2> QED BY <2>1, <2>2, <2>3, <2>4
<1> QED BY <1>1, Invariant, PTL

\* The header leads to a complete datafile while memory is what the file has.
LEMMA HeaderLeadsThen == IInv => HeaderLeads
<1>1. IInv => HeaderLeads
  <2> SUFFICES ASSUME IInv, HeaderCurrent, NEW S \in SUBSET DOMAIN pending
               PROVE  /\ IsDatafile(After(S), base + file[base][2])
                      /\ DataBefore(After(S), base + file[base][2]) \in {stable, Committing}
    BY DEF HeaderLeads
  <2>1. /\ base \in Nat /\ Before \in Nat /\ plan.end0 \in Nat /\ end \in Nat
        /\ file[base][1] = "head" /\ file[base][2] = Before
    BY Constants DEF IInv, Filled, FilledTo, Types, PlanType, Before, HeaderCurrent
  <2>2. Before # 0
    <3> SUFFICES ASSUME Before = 0 PROVE FALSE
      OBVIOUS
    <3>1. pc = "header"
      BY <2>1 DEF IInv, Kept
    <3>2. plan.end = 0
      BY <3>1 DEF Before
    <3>3. file[base][2] = plan.end0 + 2
      BY <3>1, <3>2, UnitFacts DEF IInv, Sealed
    <3> QED BY <2>1, <3>3
  <2>3. ASSUME NEW locs, NEW w, Holds(After(S), base, Before, locs, w)
        PROVE  /\ IsDatafile(After(S), base + Before)
               /\ DataBefore(After(S), base + Before) = DataAt(After(S), base, locs)
    BY <2>1, <2>3, HoldsFacts
  <2>4. CASE pc = "seal"
    <3>1. /\ Before = plan.end /\ plan.end > 0
      BY <2>1, <2>2, <2>4 DEF Before
    <3>2. Holds(After(S), base, Before, OldLocs, OldWalk) /\ stable = DataAt(After(S), base, OldLocs)
      BY <2>4, <3>1, PendingFacts
    <3> QED BY <2>1, <2>3, <3>2
  <2>5. CASE pc = "header" /\ InPlace
    <3>1. After(S) = file
      BY <2>5, NowFile
    <3>2. Before = plan.end0 + 2
      <4>1. plan.end0 = plan.end - 2 /\ plan.end \in Nat
        BY <2>5 DEF IInv, Planned, Types, PlanType
      <4> QED BY <2>5, <4>1 DEF Before
    <3>3. /\ Holds(file, base, Before, plan.locs, plan.walk)
          /\ Committing = DataAt(file, base, plan.locs)
      BY <2>5, <3>2 DEF IInv, Sealed, Committing
    <3> QED BY <2>1, <2>3, <3>1, <3>3
  <2>6. CASE pc # "seal" /\ ~(pc = "header" /\ InPlace)
    <3>1. After(S) = file
      BY <2>6, NowFile
    <3>2. Holds(file, base, Before, OldLocs, OldWalk) /\ stable = DataAt(file, base, OldLocs)
      BY <2>2, <2>6 DEF IInv, Kept
    <3> QED BY <2>1, <2>3, <3>1, <3>2
  <2> QED BY <2>4, <2>5, <2>6
<1> QED BY <1>1

\* This holds, too, of what failed commits have left.
LEMMA HeaderLeadsLeft ==
  ASSUME Types, Left, ~Cut, HeaderCurrent
  PROVE  /\ IsDatafile(file, base + file[base][2])
         /\ DataBefore(file, base + file[base][2]) = stable
<1>1. /\ pc = "idle" /\ Openable(file, base, end, stable)
      /\ file[base][1] = "head" /\ file[base][2] = end
  BY DEF Left, HeaderCurrent
<1>2. base \in Addr /\ base \in Nat /\ end \in Nat /\ FilledTo(file, base, end)
  BY <1>1, Constants DEF Openable
<1>3. end # 0
  <2> SUFFICES ASSUME end = 0 PROVE FALSE
    OBVIOUS
  <2>1. base + end = base
    BY <1>2
  <2>2. file[base] # None <=> base < base + end
    BY <1>2 DEF FilledTo
  <2>3. file[base] = None
    BY <1>2, <2>1, <2>2
  <2> QED BY <1>1, <2>3, UnitFacts
<1>4. PICK locs, w : Holds(file, base, end, locs, w) /\ stable = DataAt(file, base, locs)
  BY <1>1, <1>3 DEF Openable
<1>5. IsDatafile(file, base + end) /\ DataBefore(file, base + end) = DataAt(file, base, locs)
  BY <1>2, <1>4, HoldsFacts
<1> QED BY <1>1, <1>4, <1>5

\* As long as the header leads to the end of the file, or to what was its end
\* before the commit at work, a complete datafile ends there, also when commits
\* have failed, unless the last one has done so while it extended the file or in
\* its last flush.
THEOREM HeaderLeadsThere == Spec => []HeaderLeads
<1>1. Inv => HeaderLeads
  <2> SUFFICES ASSUME Inv, trust # "none", ~Cut, HeaderCurrent, NEW S \in SUBSET DOMAIN pending
               PROVE  /\ IsDatafile(After(S), base + file[base][2])
                      /\ DataBefore(After(S), base + file[base][2]) \in {stable, Committing}
    BY DEF HeaderLeads
  <2>1. CASE trust = "all"
    <3>1. HeaderLeads
      BY <2>1, HeaderLeadsThen DEF Inv
    <3> QED BY <2>1, <3>1 DEF HeaderLeads
  <2>2. CASE trust = "file"
    <3>1. Types /\ Left /\ DOMAIN pending = {}
      BY <2>2 DEF Inv, Left
    <3>2. After(S) = file
      BY <3>1, NothingPending
    <3>3. /\ IsDatafile(file, base + file[base][2])
          /\ DataBefore(file, base + file[base][2]) = stable
      BY <3>1, HeaderLeadsLeft
    <3> QED BY <3>2, <3>3
  <2> QED BY <2>1, <2>2 DEF Inv, Types
<1> QED BY <1>1, Invariant, PTL

\* A process that opens the file after another has ended, and not in the middle of
\* a commit that extends it or after one that has failed so, finds what was last
\* committed, also when other commits have failed.
THEOREM RecoveredInPlace == Spec => []RecoversInPlace
<1>1. Inv => RecoversInPlace
  <2> SUFFICES ASSUME Inv, pc = "idle" \/ InPlace, ~Cut, trust # "none",
                      NEW S \in SUBSET DOMAIN pending
               PROVE  Found(After(S)) = Committing
    BY DEF RecoversInPlace, Recovers
  <2>1. CASE trust = "all"
    <3>1. Openable(After(S), base, Before, Committing)
      BY <2>1, OpenableAfter DEF Inv
    <3> QED BY <3>1, OpenableFound
  <2>2. CASE trust = "file"
    <3>1. /\ Types /\ pc = "idle" /\ DOMAIN pending = {}
          /\ Openable(file, base, end, stable)
      BY <2>2 DEF Inv, Left
    <3>2. After(S) = file
      BY <3>1, NothingPending
    <3>3. Found(file) = stable /\ Committing = stable
      BY <3>1, OpenableFound DEF Committing
    <3> QED BY <3>2, <3>3
  <2> QED BY <2>1, <2>2 DEF Inv, Types
<1> QED BY <1>1, Invariant, PTL

LEMMA ToldIsDone == IInv => CommitTells
<1> SUFFICES ASSUME IInv, told PROVE pc = "idle" /\ Found(file) = Value
  BY DEF CommitTells
<1>1. pc = "idle" /\ Dirty = {}
  BY DEF IInv, Told
<1>2. PICK S : S = {}
  OBVIOUS
<1>3. S \in SUBSET DOMAIN pending /\ After(S) = file
  BY <1>1, <1>2, NowFile
<1>4. Openable(file, base, Before, Committing) /\ Committing = stable
  BY <1>1, <1>3, OpenableAfter DEF Committing
<1>5. Found(file) = stable
  BY <1>4, OpenableFound
<1>6. \A c \in Col : cols[c].data = stable[c]
  BY <1>1 DEF IInv, Loaded, Types, Dirty
<1>7. stable = [c \in Col |-> stable[c]]
  BY <1>4 DEF Openable, Empty, DataAt
<1>8. Value = stable
  BY <1>6, <1>7 DEF Value
<1> QED BY <1>1, <1>5, <1>8

\* A commit that says that it succeeded has, whichever writes and flushes of others
\* have failed before, if what is on disk was loaded since; for one that follows
\* right after a failure this does not hold, as SuccessIsTrue tells.
THEOREM CommitTellsTrue == Spec => []CommitTells
<1>1. Inv => CommitTells
  BY ToldIsDone DEF Inv, CommitTells
<1> QED BY <1>1, Invariant, PTL

\* The header of a new datafile is there when the commit tail is.
LEMMA HeaderThere ==
  ASSUME IInv, pc = "header", plan.end = 0
  PROVE  Put1(file, 0, Header(plan.end0 + 2)) = file
<1>1. /\ file \in [Addr -> Unit] /\ base \in Nat /\ base \in Addr /\ FilledTo(file, base, end)
  BY Constants DEF IInv, Types, Filled
<1>2. file[base] = Header(plan.end0 + 2)
  BY DEF IInv, Sealed
<1>3. PICK v : v = [x \in {base + 0} |-> Header(plan.end0 + 2)]
  OBVIOUS
<1>4. DOMAIN v = {base} /\ v[base] = Header(plan.end0 + 2)
  BY <1>1, <1>3
<1>5. end = plan.end0 + 2 /\ plan.end0 \in Nat
  BY PlanFacts DEF IInv, Planned
<1>6. /\ DOMAIN v \subseteq Addr /\ (\A x \in DOMAIN v : x < base + end) /\ base + end \in Int
      /\ \A x \in Addr : file[x] # None <=> x < base + end
  BY <1>1, <1>4, <1>5 DEF FilledTo
<1>7. Put(file, v) = [x \in Addr |-> IF x \in DOMAIN v THEN v[x] ELSE file[x]]
  BY <1>6, PutInside
<1>8. [x \in Addr |-> IF x \in DOMAIN v THEN v[x] ELSE file[x]] = file
  BY <1>1, <1>2, <1>4
<1> QED BY <1>3, <1>7, <1>8 DEF Put1

\* Whichever writes get to the file when a flush fails in extend mode, they come
\* after what was the end.
LEMMA SealFailsAfter ==
  ASSUME IInv, SealFails, mode = 2, plan.end \in Nat, ~InPlace,
         \A x \in 0 .. base + plan.end - 1 : x \notin DOMAIN pending,
         NEW x \in 0 .. base + plan.end - 1, file[x] # None
  PROVE  file'[x] = file[x]
<1>1. base \in Nat /\ plan.end0 \in Nat /\ plan.end0 >= plan.end + 2 /\ base + plan.end0 + 1 <= MaxSize
  <2>1. pc = "seal" /\ pc # "idle"
    BY DEF SealFails
  <2> QED BY <2>1, Constants DEF IInv, Types, PlanType, Planned
<1>2. PICK w, S : w = Over(Heading, Over(Ending, pending)) /\ S \in SUBSET DOMAIN w
                  /\ file' = Put(file, Only(w, S))
  BY DEF SealFails, Made
<1>3. x \in Addr /\ x \in Nat /\ x < base + plan.end /\ x # base + plan.end0 + 1
  <2>1. PICK b, z, e : b = base /\ z = plan.end /\ e = plan.end0
    OBVIOUS
  <2>2. /\ b \in Nat /\ z \in Nat /\ e \in Nat /\ MaxSize \in Nat
        /\ e >= z + 2 /\ b + e + 1 <= MaxSize /\ x \in 0 .. b + z - 1
    BY <1>1, <2>1, Constants
  <2>3. x \in 0 .. MaxSize /\ x \in Nat /\ x < b + z /\ x # b + e + 1
    BY <2>2
  <2> QED BY <2>1, <2>3, Constants
<1>4. x \notin DOMAIN Ending
  BY <1>3 DEF Ending
<1>5. x \notin DOMAIN Heading
  <2>1. CASE plan.end = 0
    <3>1. DOMAIN Heading = {base} /\ x # base
      BY <1>1, <1>3, <2>1 DEF Heading
    <3> QED BY <3>1
  <2>2. CASE plan.end # 0
    BY <2>2 DEF Heading, NoWrites
  <2> QED BY <2>1, <2>2
<1>6. x \notin DOMAIN pending
  OBVIOUS
<1>7. x \notin DOMAIN w
  BY <1>2, <1>4, <1>5, <1>6 DEF Over
<1>8. PICK v : v = Only(w, S)
  OBVIOUS
<1>9. x \notin DOMAIN v
  BY <1>2, <1>7, <1>8 DEF Only
<1>10. Put(file, v)[x] = file[x]
  BY <1>3, <1>9, PutAt
<1> QED BY <1>2, <1>8, <1>10

\* A writer in extend mode does not disturb processes that have loaded the file by
\* the end that it had then, whatever writes fail.
THEOREM ReadersAreUndisturbed == Spec => ReadersUndisturbed
<1> DEFINE Same(f, g) == \A n \in 1 .. Size(f) : IsDatafile(f, n) =>
                           IsDatafile(g, n) /\ DataBefore(g, n) = DataBefore(f, n)
           Undisturbed == mode = 2 /\ mode' = 2 => Same(file, file')
<1>4. ASSUME Inv, trust # "all", [Next]_vars PROVE file' = file
  <2>1. CASE trust = "file"
    <3>1. Types /\ pc = "idle" /\ DOMAIN pending = {}
      BY <1>4, <2>1 DEF Inv, Left
    <3>2. CASE Restart
      <4>1. PICK S \in SUBSET DOMAIN pending : file' = After(S)
        BY <3>2 DEF Restart, After
      <4> QED BY <3>1, <4>1, NothingPending
    <3>3. CASE (\E c \in Col : Change(c)) \/ Rollback \/ Commit \/ UNCHANGED vars
      BY <3>3 DEF Change, Rollback, Commit, vars
    <3> QED BY <1>4, <3>1, <3>2, <3>3, IdleSteps
  <2>2. CASE trust = "none"
    BY <1>4, <2>2, LostStays DEF vars
  <2> QED BY <1>4, <2>1, <2>2 DEF Inv, Types
<1>1. ASSUME Inv, [Next]_vars PROVE [Undisturbed]_vars
  <2> SUFFICES ASSUME Next, mode = 2, mode' = 2, file' # file PROVE Same(file, file')
    BY <1>1
  <2>20. trust = "all" /\ IInv
    BY <1>1, <1>4 DEF Inv
  <2> USE <2>20
  <2>1. /\ file \in [Addr -> Unit] /\ base \in Nat /\ end \in Nat
        /\ FilledTo(file, base, end) /\ Size(file) = base + end /\ base + end <= MaxSize + 1
    <3>1. file \in [Addr -> Unit] /\ base \in Nat /\ FilledTo(file, base, end)
      BY Constants DEF IInv, Types, Filled
    <3> QED BY <3>1, EndFacts DEF FilledTo
  <2>2. ASSUME NEW m \in Nat, m <= end, MarksTo(file, base, m),
               \A n \in 1 .. Size(file) : IsDatafile(file, n) => n <= base + m,
               \A x \in 0 .. base + m - 1 : file'[x] = file[x]
        PROVE  Same(file, file')
    <3> SUFFICES ASSUME NEW n \in 1 .. Size(file), IsDatafile(file, n)
                 PROVE  IsDatafile(file', n) /\ DataBefore(file', n) = DataBefore(file, n)
      OBVIOUS
    <3>1. n \in Nat /\ n <= base + m /\ base + m <= MaxSize + 1
      BY <2>1, <2>2, Constants
    <3>2. Remains(file, base)
      BY <2>1 DEF FilledTo
    <3>3. PICK g, k : g = file' /\ k = base + m
      OBVIOUS
    <3>4. k \in Nat /\ k <= MaxSize + 1 /\ n <= k /\ \A x \in 0 .. k - 1 : g[x] = file[x]
      BY <2>1, <2>2, <3>1, <3>3
    <3>5. Inside(file, n, k)
      BY <2>1, <2>2, <3>1, <3>2, <3>3, ReadInside
    <3>6. IsDatafile(g, n) /\ DataBefore(g, n) = DataBefore(file, n)
      BY <2>1, <3>1, <3>4, <3>5, SameBelow
    <3> QED BY <3>3, <3>6
  <2>3. ASSUME pc = "seal"
        PROVE  /\ ~InPlace /\ plan.end \in Nat /\ plan.end <= end /\ MarksTo(file, base, plan.end)
               /\ \A x \in 0 .. base + plan.end - 1 : x \notin DOMAIN pending
               /\ \A n \in 1 .. Size(file) : IsDatafile(file, n) => n <= base + plan.end
    <3>1. /\ ~InPlace /\ end = plan.end0 + 1 /\ plan.end0 >= plan.end + 2
          /\ plan.end \in Nat /\ plan.end0 \in Nat /\ MarksTo(file, base, plan.end)
      BY <2>3, PlanFacts DEF IInv, Planned, Marks, Before
    <3>2. ASSUME NEW x \in 0 .. base + plan.end - 1, x \in DOMAIN pending PROVE FALSE
      <4>1. x \in base .. base + plan.end0 - 1 /\ ~Untouchable(x - base)
        BY <2>3, <3>2 DEF IInv, Sealable
      <4>2. x - base \in 0 .. plan.end - 1
        BY <2>1, <3>1, <3>2, <4>1
      <4> QED BY <4>1, <4>2 DEF Untouchable
    <3>3. ASSUME NEW n \in 1 .. Size(file), IsDatafile(file, n) PROVE n <= base + plan.end
      <4>1. file[n - 1][1] = "tail"
        BY <3>3 DEF IsDatafile, IsMark
      <4>2. n - 1 \in Addr
        BY <2>1, Constants
      <4>3. ~(n - 1 >= base + plan.end)
        BY <2>3, <4>1, <4>2 DEF IInv, Ready
      <4> QED BY <2>1, <3>1, <4>3
    <3>4. plan.end <= end
      BY <3>1
    <3> QED BY <3>1, <3>2, <3>3, <3>4
  <2>4. CASE ExtendFile \/ ExtendFileFails
    <3>1. /\ pc = "tail"
          /\ file' = Put1(file, plan.end0, SkipTail(plan.end0))
      BY <2>4 DEF ExtendFile, ExtendFileFails
    <3>2. file' = [x \in Addr |-> IF x = base + plan.end0 THEN SkipTail(plan.end0)
                                  ELSE IF base + plan.end <= x /\ x < base + plan.end0 THEN Hole
                                  ELSE file[x]]
      BY <3>1, Marked
    <3>3. /\ plan.end = end /\ plan.end0 >= end + 2 /\ plan.end0 \in Nat /\ MarksTo(file, base, end)
      BY <3>1, PlanFacts DEF IInv, Planned, Marks, Before
    <3>4. \A x \in 0 .. base + end - 1 : file'[x] = file[x]
      <4> SUFFICES ASSUME NEW x \in 0 .. base + end - 1 PROVE file'[x] = file[x]
        OBVIOUS
      <4>1. x \in Addr /\ x # base + plan.end0 /\ ~(base + plan.end <= x)
        BY <2>1, <3>3, Constants
      <4> QED BY <3>2, <4>1
    <3>5. \A n \in 1 .. Size(file) : IsDatafile(file, n) => n <= base + end
      BY <2>1
    <3> QED BY <2>1, <2>2, <3>3, <3>4, <3>5
  <2>5. CASE Seal
    <3>1. pc = "seal" /\ file' = Put1(Put(file, pending), plan.end0 + 1, CommitTail(plan.walk))
      BY <2>5 DEF Seal
    <3>2. /\ ~InPlace /\ end = plan.end0 + 1 /\ plan.end0 >= plan.end + 2
          /\ plan.end \in Nat /\ plan.end0 \in Nat /\ MarksTo(file, base, plan.end)
          /\ base + plan.end0 + 1 <= MaxSize
      BY <3>1, PlanFacts DEF IInv, Planned, Marks, Before
    <3>3. ASSUME NEW x \in 0 .. base + plan.end - 1 PROVE file'[x] = file[x]
      <4>1. x \in Addr /\ x \in Nat /\ x < base + plan.end /\ x # base + (plan.end0 + 1)
        <5>1. PICK b, z, e : b = base /\ z = plan.end /\ e = plan.end0
          OBVIOUS
        <5>2. /\ b \in Nat /\ z \in Nat /\ e \in Nat /\ MaxSize \in Nat
              /\ e >= z + 2 /\ b + e + 1 <= MaxSize /\ x \in 0 .. b + z - 1
          BY <2>1, <3>2, <3>3, <5>1, Constants
        <5>3. x \in 0 .. MaxSize /\ x \in Nat /\ x < b + z /\ x # b + (e + 1)
          BY <5>2
        <5> QED BY <5>1, <5>3, Constants
      <4>2. x \notin DOMAIN pending
        BY <3>1, <3>2, <3>3, <2>3
      <4>3. PICK g, v : g = Put(file, pending) /\ v = [y \in {base + (plan.end0 + 1)} |-> CommitTail(plan.walk)]
        OBVIOUS
      <4>4. g[x] = file[x] /\ file[x] # None
        <5>1. file[x] # None
          BY <2>1, <3>2, <4>1 DEF FilledTo
        <5> QED BY <4>1, <4>2, <4>3, <5>1, PutAt
      <4>5. x \notin DOMAIN v
        BY <4>1, <4>3
      <4>6. Put(g, v)[x] = g[x]
        BY <4>1, <4>4, <4>5, PutAt
      <4>7. file' = Put(g, v)
        BY <3>1, <4>3 DEF Put1
      <4> QED BY <4>4, <4>6, <4>7
    <3>4. \A n \in 1 .. Size(file) : IsDatafile(file, n) => n <= base + plan.end
      BY <2>3, <3>1
    <3>5. plan.end <= end
      BY <3>2
    <3> QED BY <2>2, <3>2, <3>3, <3>4, <3>5
  <2>6. CASE Finish \/ FinishFails
    <3>1. pc = "header"
      BY <2>6 DEF Finish, FinishFails
    <3>2. CASE plan.end = 0
      <4>1. Put1(file, 0, Header(plan.end0 + 2)) = file
        BY <3>1, <3>2, HeaderThere
      <4>2. Put(file, Heading) = file
        BY <3>1, <4>1, HeadingFacts
      <4> QED BY <2>6, <4>1, <4>2 DEF Finish, FinishFails
    <3>3. CASE plan.end # 0
      <4>1. Heading = NoWrites
        BY <3>3 DEF Heading
      <4>2. file \in [Addr -> Unit]
        BY DEF IInv, Types
      <4>3. PICK w : w = NoWrites
        OBVIOUS
      <4>4. DOMAIN w = {}
        BY <4>3 DEF NoWrites
      <4>5. Put(file, w) = file
        BY <4>2, <4>4 DEF Put
      <4>6. Put(file, Heading) = file
        BY <4>1, <4>3, <4>5
      <4>7. mode # 1
        OBVIOUS
      <4>8. file' = file
        BY <2>6, <3>3, <4>6, <4>7 DEF Finish, FinishFails
      <4> QED BY <4>8
    <3> QED BY <3>2, <3>3
  <2>7. CASE Restart \/ WriteFails
    <3>1. PICK S \in SUBSET DOMAIN pending : file' = After(S)
      BY <2>7 DEF Restart, WriteFails, Made, After
    <3>2. pc = "seal"
      <4>1. pc # "seal" => After(S) = file
        BY NowFile
      <4> QED BY <3>1, <4>1
    <3>3. /\ plan.end \in Nat /\ plan.end <= end /\ MarksTo(file, base, plan.end)
          /\ \A x \in 0 .. base + plan.end - 1 : x \notin DOMAIN pending
          /\ \A n \in 1 .. Size(file) : IsDatafile(file, n) => n <= base + plan.end
      BY <2>3, <3>2
    <3>4. ASSUME NEW x \in 0 .. base + plan.end - 1 PROVE file'[x] = file[x]
      <4>1. x \notin S /\ x \in Addr
        BY <2>1, <3>3, Constants
      <4>2. After(S) = [y \in Addr |-> IF y \in S THEN pending[y] ELSE file[y]]
        BY <3>2, PendingFacts
      <4> QED BY <3>1, <4>1, <4>2
    <3> QED BY <2>2, <3>3, <3>4
  <2>8. CASE (\E c \in Col : Change(c)) \/ Rollback \/ Commit \/ Write
    <3>1. file' = file
      BY <2>8 DEF Change, Rollback, Commit, Write
    <3> QED BY <3>1
  <2>9. CASE SealFails
    <3>1. pc = "seal"
      BY <2>9 DEF SealFails
    <3>2. /\ ~InPlace /\ plan.end \in Nat /\ plan.end <= end /\ MarksTo(file, base, plan.end)
          /\ \A x \in 0 .. base + plan.end - 1 : x \notin DOMAIN pending
          /\ \A n \in 1 .. Size(file) : IsDatafile(file, n) => n <= base + plan.end
      BY <2>3, <3>1
    <3>3. ASSUME NEW x \in 0 .. base + plan.end - 1 PROVE file'[x] = file[x]
      <4>1. file[x] # None
        <5>1. x \in Addr /\ x < base + end
          <6>1. PICK b, z, e : b = base /\ z = plan.end /\ e = end
            OBVIOUS
          <6>2. /\ b \in Nat /\ z \in Nat /\ e \in Nat /\ MaxSize \in Nat
                /\ z <= e /\ b + e <= MaxSize + 1 /\ x \in 0 .. b + z - 1
            BY <2>1, <3>2, <3>3, <6>1, Constants
          <6>3. x \in 0 .. MaxSize /\ x < b + e
            BY <6>2
          <6> QED BY <6>1, <6>3, Constants
        <5> QED BY <2>1, <5>1 DEF FilledTo
      <4> QED BY <2>9, <3>2, <4>1, SealFailsAfter
    <3> QED BY <2>2, <3>2, <3>3
  <2> QED BY <2>4, <2>5, <2>6, <2>7, <2>8, <2>9 DEF Next
<1>2. [Undisturbed]_vars <=>
        [mode = 2 /\ mode' = 2 =>
           \A n \in 1 .. Size(file) : IsDatafile(file, n) =>
             IsDatafile(file', n) /\ DataBefore(file', n) = DataBefore(file, n)]_vars
  OBVIOUS
<1> HIDE DEF Undisturbed
<1>3. Spec => [][Undisturbed]_vars
  BY <1>1, Invariant, PTL DEF Spec
<1> QED BY <1>2, <1>3, PTL DEF ReadersUndisturbed


-----------------------------------------------------------------------------
(* The datafile implements a stable store.                                 *)

LEMMA NothingWritten ==
  ASSUME IInv
  PROVE  {} \in SUBSET DOMAIN pending /\ After({}) = file
<1>1. {} \in SUBSET DOMAIN pending
  OBVIOUS
<1>2. CASE pc = "seal"
  <2>1. After({}) = [x \in Addr |-> IF x \in {} THEN pending[x] ELSE file[x]]
    BY <1>1, <1>2, PendingFacts
  <2>2. file \in [Addr -> Unit]
    BY DEF IInv, Types
  <2> QED BY <1>1, <2>1, <2>2
<1>3. CASE pc # "seal"
  BY <1>1, <1>3, NowFile
<1> QED BY <1>2, <1>3

\* What is on disk is what was last committed, or what the commit has made whose
\* commit tail is there.
LEMMA DiskIs ==
  ASSUME IInv
  PROVE  Disk = Committing
<1>1. CASE pc = "idle" \/ InPlace
  <2>1. PICK S : S = {}
    OBVIOUS
  <2>2. S \in SUBSET DOMAIN pending /\ After(S) = file
    BY <2>1, NothingWritten
  <2>3. Openable(file, base, Before, Committing)
    BY <1>1, <2>2, OpenableAfter
  <2>4. Found(file) = Committing
    BY <2>3, OpenableFound
  <2> QED BY <1>1, <2>4 DEF Disk
<1>2. CASE ~(pc = "idle" \/ InPlace)
  BY <1>2 DEF Disk
<1> QED BY <1>1, <1>2

\* Whoever opens a file has in memory what is found there.
LEMMA LoadedIs ==
  ASSUME NEW f, NEW walk, LoadAll(f, walk)
  PROVE  Value' = Found(f)
<1>1. CASE Loads(f)
  <2>1. PICK d : d = DataBefore(f, EndOfData(f))
    OBVIOUS
  <2>2. \A c \in Col : cols'[c].data = d[c]
    BY <1>1, <2>1 DEF LoadAll, Clean
  <2>3. d = [c \in Col |-> d[c]]
    BY <2>1 DEF DataBefore, DataAt
  <2>4. Found(f) = d
    BY <1>1, <2>1 DEF Found
  <2> QED BY <2>2, <2>3, <2>4 DEF Value
<1>2. CASE ~Loads(f)
  <2>1. \A c \in Col : cols'[c].data = <<>>
    BY <1>2 DEF LoadAll, Clean
  <2>2. Found(f) = [c \in Col |-> <<>>]
    BY <1>2 DEF Found, Empty
  <2> QED BY <2>1, <2>2 DEF Value
<1> QED BY <1>1, <1>2

\* A change is of one column.
LEMMA ChangeOne ==
  ASSUME Types, NEW c \in Col, Change(c)
  PROVE  Value' = [Value EXCEPT ![c] = Value'[c]]
<1>1. PICK t \in Tag, n \in 1 .. MaxLen :
        cols' = [cols EXCEPT ![c] = [data |-> Data(c, t, n), pos |-> 0, dirty |-> TRUE]]
  BY DEF Change
<1>2. cols \in [Col -> [data : Seq(Unit), pos : Addr, dirty : BOOLEAN]]
  BY DEF Types
<1>3. \A d \in Col \ {c} : cols'[d] = cols[d]
  BY <1>1, <1>2
<1> QED BY <1>3 DEF Value

\* What is in a datafile that has no length.
NothingElse ==
  /\ Loads(file) <=> end # 0
  /\ end = 0 /\ Dirty = {} => \A c \in Col : cols[c].data = <<>>

LEMMA NothingThere == IInv /\ pc = "idle" => NothingElse
<1> SUFFICES ASSUME IInv, pc = "idle" PROVE NothingElse
  OBVIOUS
<1>1. Openable(file, base, end, stable)
  BY OldOpens
<1>2. (Loads(file) <=> end # 0) /\ (end = 0 => stable = Empty)
  BY <1>1, OpenableLoads
<1>3. ASSUME end = 0, Dirty = {}, NEW c \in Col PROVE cols[c].data = <<>>
  <2>1. cols[c].dirty \in BOOLEAN
    BY DEF IInv, Types
  <2>2. ~cols[c].dirty
    BY <1>3, <2>1 DEF Dirty
  <2>3. cols[c].data = stable[c]
    BY <2>2 DEF IInv, Loaded
  <2> QED BY <1>2, <1>3, <2>3 DEF Empty
<1> QED BY <1>2, <1>3 DEF NothingElse

LEMMA NoRoom ==
  ASSUME NEW locs, \A c \in Col : locs[c].len = 0 /\ locs[c].pos \in Nat
  PROVE  Blank(<<locs>>)
<1>1. ASSUME NEW c \in Col PROVE Span(locs[c].pos, locs[c].len) = {}
  <2>1. PICK p, n : p = locs[c].pos /\ n = locs[c].len
    OBVIOUS
  <2>2. p \in Nat /\ n = 0
    BY <2>1
  <2>3. p .. (p + n - 1) = {}
    BY <2>2
  <2> QED BY <2>1, <2>3 DEF Span
<1>2. Spans(locs) = {}
  BY <1>1 DEF Spans
<1>3. <<locs>>[1] = locs
  OBVIOUS
<1> QED BY <1>2, <1>3 DEF Blank

\* While there is no datafile and no commit has just failed, no walk says that
\* columns are somewhere.
Fresh == trust = "all" /\ pc = "idle" /\ end = 0 /\ ~failed => Blank(rootWalk)

LEMMA FreshKeeps ==
  ASSUME Inv, Fresh, [Next]_vars
  PROVE  Fresh'
<1> SUFFICES ASSUME trust' = "all", pc' = "idle", end' = 0, ~failed'
             PROVE  Blank(rootWalk')
  BY DEF Fresh, Blank
<1>1. Inv' /\ IInv'
  BY NextKeeps DEF Inv
<1>2. /\ ~Loads(file')
      /\ Dirty' = {} => \A c \in Col : cols'[c].data = <<>>
  <2>1. (IInv /\ pc = "idle" => NothingElse)'
    BY NothingThere, PTL
  <2> QED BY <1>1, <2>1 DEF NothingElse
<1>3. ASSUME rootWalk' = rootWalk, file' = file, base' = base, pc = "idle", trust = "all", ~failed
      PROVE  Blank(rootWalk')
  BY <1>3 DEF Fresh, end
<1>4. ASSUME NEW c \in Col, Change(c) PROVE Blank(rootWalk')
  BY <1>3, <1>4 DEF Change, Idle
<1>5. ASSUME Rollback PROVE Blank(rootWalk')
  <2>1. Reload /\ file' = file
    BY <1>5 DEF Rollback, Forget
  <2>2. ~Loads(file)
    BY <1>2, <2>1
  <2>3. Blank(rootWalk) /\ rootWalk' = rootWalk
    BY <2>1, <2>2 DEF Reload, LoadAll
  <2> QED BY <2>3
<1>6. ASSUME Commit PROVE Blank(rootWalk')
  <2>1. /\ UNCHANGED <<base, file, cols, trust>> /\ Dirty' = Dirty /\ end' = end /\ Idle
    BY <1>6, CommitSteps DEF Dirty, end
  <2>2. \/ Returns(TRUE) /\ rootWalk' = <<Layout>>
        \/ Returns(FALSE)
        \/ pc' # "idle"
    BY <1>6, CommitSteps
  <2>3. told' = TRUE /\ rootWalk' = <<Layout>>
    BY <2>2 DEF Returns
  <2>4. Dirty = {} /\ \A c \in Col : cols[c].data = <<>>
    <3>1. Dirty' = {}
      BY <1>1, <2>3 DEF IInv, Told
    <3> QED BY <1>2, <2>1, <3>1
  <2>5. IInv /\ pc = "idle"
    BY <2>1 DEF Inv, Idle
  <2>6. ASSUME NEW c \in Col PROVE Layout[c].len = 0 /\ Layout[c].pos \in Nat
    <3>1. Layout[c] = [len |-> Len(cols[c].data), pos |-> Layout[c].pos] /\ Layout[c].pos = cols[c].pos
      BY <2>4, <2>5, LaidOut
    <3>2. cols[c].pos \in Nat
      BY <2>5, Constants DEF IInv, Types
    <3>3. Len(cols[c].data) = 0
      BY <2>4
    <3>4. PICK q, n : q = Layout[c].pos /\ n = Len(cols[c].data)
      OBVIOUS
    <3>5. Layout[c] = [len |-> n, pos |-> q]
      BY <3>1, <3>4
    <3> QED BY <3>1, <3>2, <3>3, <3>4, <3>5
  <2>7. Blank(<<Layout>>)
    BY <2>6, NoRoom
  <2> QED BY <2>3, <2>7
<1>7. ASSUME Finish PROVE Blank(rootWalk')
  <2>1. /\ pc = "header" /\ UNCHANGED <<cols, rootWalk, trust>>
    BY <1>7 DEF Finish
  <2>2. IInv /\ Dirty = {} /\ Dirty' = {}
    BY <2>1 DEF Inv, IInv, Written, Dirty
  <2>3. \A c \in Col : cols[c].data = <<>>
    BY <1>2, <2>1, <2>2
  <2>4. rootWalk' = <<plan.locs>>
    BY <2>1, <2>2 DEF IInv, Planned
  <2>5. \A c \in Col : plan.locs[c].len = 0
    <3>1. \A c \in Col : plan.locs[c].len = Len(cols[c].data)
      BY <2>1, <2>2 DEF IInv, Planned
    <3> QED BY <2>3, <3>1
  <2>6. \A c \in Col : plan.locs[c].pos \in Nat
    <3>1. plan.locs \in Locs
      BY <2>2 DEF IInv, Types, PlanType
    <3> QED BY <3>1, Constants DEF Locs
  <2> QED BY <2>4, <2>5, <2>6, NoRoom
<1>8. ASSUME Restart PROVE Blank(rootWalk')
  <2>1. LoadAll(file', <<>>)
    BY <1>8 DEF Restart
  <2>2. rootWalk' = <<>>
    BY <1>2, <2>1 DEF LoadAll
  <2> QED BY <2>2 DEF Blank
<1>9. ASSUME UNCHANGED vars PROVE Blank(rootWalk')
  BY <1>3, <1>9 DEF vars
<1>10. ~ExtendFile /\ ~Write /\ ~Seal /\ ~ExtendFileFails /\ ~WriteFails /\ ~SealFails /\ ~FinishFails
  BY DEF ExtendFile, Write, Seal, ExtendFileFails, WriteFails, SealFails, FinishFails, Returns
<1> QED BY <1>4, <1>5, <1>6, <1>7, <1>8, <1>9, <1>10 DEF Next

\* A step of the program is a step of the store, or none: while memory is what the
\* file has,
LEMMA StoreStepAll ==
  ASSUME "crash" \notin Faults, Inv, Fresh, trust = "all", [Next]_vars
  PROVE  [Store!Next]_(Store!vars)
<1>1. Inv' /\ IInv /\ Disk = Committing
  BY NextKeeps, DiskIs DEF Inv
<1>2. trust' = "all" => IInv' /\ Disk' = Committing'
  <2>1. (IInv => Disk = Committing)'
    BY DiskIs, PTL
  <2> QED BY <1>1, <2>1 DEF Inv
<1> USE <1>1
<1>3. ASSUME Value' = Value, Committing' = Committing, told' = told, failed' = failed, trust' = trust
      PROVE  UNCHANGED Store!vars
  BY <1>2, <1>3 DEF Store!vars
<1>4. ASSUME Value' = Value, Committing' = Committing, told' = FALSE, failed' \in BOOLEAN, trust' = trust
      PROVE  Store!Next
  BY <1>2, <1>4 DEF Store!Next, Store!Fail, Store!Begin
<1>5. ASSUME Value' = Value, Committing' = Value, told' \in BOOLEAN, failed' \in BOOLEAN,
             ~(told' /\ failed'), trust' = trust
      PROVE  Store!Next
  BY <1>2, <1>5 DEF Store!Next, Store!Commit
<1>6. ASSUME Value' = Committing, Committing' = Committing, told' = FALSE, failed' = FALSE, trust' = "all"
      PROVE  Store!Next
  BY <1>2, <1>6 DEF Store!Next, Store!Reopen
<1>7. ASSUME pc \in {"tail", "seal"}, cols' = cols, stable' = stable,
             told' = FALSE, failed' = TRUE, trust' = "file"
      PROVE  Store!Next
  <2>1. Left' /\ pc' = "idle"
    BY <1>7 DEF Inv, Left
  <2>2. Disk = stable /\ Disk' = Found(file') /\ Value' = Value
    BY <1>7, <2>1 DEF Committing, Disk, Value
  <2>3. Found(file') \in {stable, Empty}
    <3>1. CASE Cut'
      <4>1. Openable(file', base' + end', 0, Empty)
        BY <2>1, <3>1 DEF Left
      <4> QED BY <4>1, OpenableFound
    <3>2. CASE ~Cut'
      <4>1. Openable(file', base', end', stable)
        BY <1>7, <2>1, <3>2 DEF Left
      <4> QED BY <4>1, OpenableFound
    <3> QED BY <3>1, <3>2
  <2> QED BY <1>7, <2>2, <2>3 DEF Store!Next, Store!Break
<1>8. ASSUME NEW c \in Col, Change(c) PROVE Store!Next
  <2>1. Value' = [Value EXCEPT ![c] = Value'[c]]
    BY <1>8, ChangeOne DEF Inv
  <2>2. Committing' = Committing /\ told' = FALSE /\ UNCHANGED <<failed, trust>>
    BY <1>8 DEF Change, Idle, Committing
  <2> QED BY <1>2, <2>1, <2>2 DEF Store!Next, Store!Change
<1>9. ASSUME Rollback PROVE Store!Next
  <2>1. pc = "idle" /\ pc' = "idle" /\ told' = FALSE /\ UNCHANGED <<file, failed>>
    BY <1>9 DEF Rollback, Idle
  <2>2. Disk = Found(file) /\ Disk' = Found(file)
    BY <2>1 DEF Disk
  <2>3. CASE Reload
    <3>1. Value' = Found(file) /\ failed = FALSE
      BY <2>3, LoadedIs DEF Reload, Inv, Types
    <3>2. trust' = "all"
      <4>1. Loads(file) <=> end # 0
        BY <2>1, NothingThere DEF NothingElse
      <4>2. ~Loads(file) => Blank(rootWalk)
        BY <2>1, <3>1, <4>1 DEF Fresh
      <4> QED BY <2>3, <4>2 DEF Reload
    <3> QED BY <2>1, <2>2, <3>1, <3>2 DEF Store!Next, Store!Reopen
  <2>4. CASE Forget
    <3>1. failed /\ trust' = "file" /\ Value' = Empty
      BY <2>4 DEF Forget, Value, Clean, Empty
    <3> QED BY <2>1, <2>2, <3>1 DEF Store!Next, Store!Forget
  <2> QED BY <1>9, <2>3, <2>4 DEF Rollback
<1>10. ASSUME Commit PROVE Store!Next
  <2>1. pc = "idle" /\ UNCHANGED <<file, cols, stable, trust>> /\ Value' = Value
    BY <1>10, CommitSteps DEF Idle, Value
  <2>2. \/ Returns(TRUE)
        \/ Returns(FALSE)
        \/ pc' \in {"tail", "write"} /\ told' = FALSE /\ failed' = FALSE
    BY <1>10, CommitSteps
  <2>3. CASE Returns(TRUE)
    <3>1. told' = TRUE /\ failed' = FALSE /\ pc' = "idle"
      BY <2>3 DEF Returns
    <3>2. CommitTells'
      <4>1. (IInv => CommitTells)'
        BY ToldIsDone, PTL
      <4> QED BY <1>2, <2>1, <4>1
    <3>3. Found(file') = Value'
      BY <2>1, <3>1, <3>2 DEF CommitTells
    <3>4. Disk' = Value'
      BY <3>1, <3>3 DEF Disk
    <3> QED BY <1>2, <1>5, <2>1, <3>1, <3>4
  <2>4. CASE Returns(FALSE)
    <3>1. told' = FALSE /\ failed' = TRUE /\ pc' = "idle"
      BY <2>4 DEF Returns
    <3>2. Committing' = Committing
      BY <2>1, <3>1 DEF Committing
    <3> QED BY <1>4, <2>1, <3>1, <3>2
  <2>5. CASE pc' \in {"tail", "write"} /\ told' = FALSE /\ failed' = FALSE
    <3>1. Committing' = Committing
      BY <2>1, <2>5 DEF Committing
    <3> QED BY <1>4, <2>1, <2>5, <3>1
  <2> QED BY <2>2, <2>3, <2>4, <2>5
<1>11. ASSUME ExtendFile PROVE UNCHANGED Store!vars
  <2>1. pc = "tail" /\ pc' = "write" /\ UNCHANGED <<cols, stable, told, failed, trust>>
    BY <1>11 DEF ExtendFile
  <2>2. Value' = Value /\ Committing' = Committing
    BY <2>1 DEF Value, Committing
  <2> QED BY <1>3, <2>1, <2>2
<1>12. ASSUME Write PROVE UNCHANGED Store!vars
  <2>1. pc = "write" /\ pc' = "seal" /\ SetLocations /\ UNCHANGED <<stable, told, failed, trust>>
    BY <1>12 DEF Write
  <2>2. \A c \in Col : cols'[c].data = cols[c].data
    BY <2>1 DEF SetLocations, Clean
  <2>3. Value' = Value /\ Committing' = Committing
    BY <2>1, <2>2 DEF Value, Committing
  <2> QED BY <1>3, <2>1, <2>3
<1>13. ASSUME Seal PROVE Store!Next
  <2>1. pc' = "header" /\ UNCHANGED <<cols, told, failed, trust>>
    BY <1>13 DEF Seal
  <2>2. Value' = Value /\ Committing' = Value
    BY <2>1 DEF Value, Committing
  <2>3. told' = FALSE /\ failed' \in BOOLEAN
    BY <1>2, <2>1 DEF IInv, Types, Told
  <2> QED BY <1>5, <2>1, <2>2, <2>3
<1>14. ASSUME Finish \/ FinishFails PROVE Store!Next
  <2>1. /\ pc' = "idle" /\ UNCHANGED <<cols, trust>> /\ stable' = Value
        /\ told' \in BOOLEAN /\ failed' = ~told'
    BY <1>14 DEF Finish, FinishFails, Returns
  <2>2. Value' = Value /\ Committing' = Value
    BY <2>1 DEF Value, Committing
  <2> QED BY <1>5, <2>1, <2>2
<1>15. ASSUME ExtendFileFails PROVE Store!Next
  <2>1. /\ pc = "tail" /\ pc' = "idle" /\ UNCHANGED <<cols, stable>>
        /\ told' = FALSE /\ failed' = TRUE /\ trust' \in {"all", "file"}
    BY <1>15 DEF ExtendFileFails, Returns
  <2>2. Value' = Value /\ Committing' = Committing
    BY <2>1 DEF Value, Committing
  <2> QED BY <1>4, <1>7, <2>1, <2>2
<1>16. ASSUME WriteFails PROVE Store!Next
  <2>1. /\ pc = "seal" /\ UNCHANGED <<cols, stable>>
        /\ told' = FALSE /\ failed' = TRUE /\ trust' = "file"
    BY <1>16 DEF WriteFails, Returns
  <2> QED BY <1>7, <2>1
<1>17. ASSUME SealFails PROVE Store!Next
  <2>1. cols' = cols /\ told' = FALSE /\ failed' = TRUE /\ trust' = "none"
    BY <1>17 DEF SealFails, Returns
  <2>2. Value' = Value
    BY <2>1 DEF Value
  <2> QED BY <2>1, <2>2 DEF Store!Next, Store!Break
<1>18. ASSUME Restart PROVE Store!Next
  <2>1. /\ pc = "idle" \/ InPlace
        /\ LoadAll(file', <<>>) /\ stable' = Found(file') /\ pc' = "idle"
        /\ told' = FALSE /\ failed' = FALSE /\ trust' = "all"
    BY <1>18 DEF Restart, Idle
  <2>2. PICK S \in SUBSET DOMAIN pending : file' = After(S)
    BY <1>18 DEF Restart, After
  <2>3. Found(file') = Committing
    <3>1. Openable(file', base, Before, Committing)
      BY <2>1, <2>2, OpenableAfter
    <3> QED BY <3>1, OpenableFound
  <2>4. Value' = Found(file')
    BY <2>1, LoadedIs
  <2>5. Committing' = stable'
    BY <2>1 DEF Committing
  <2> QED BY <1>6, <2>1, <2>3, <2>4, <2>5
<1>19. ASSUME UNCHANGED vars PROVE UNCHANGED Store!vars
  BY <1>3, <1>19 DEF vars, Value, Committing
<1> QED
  BY <1>8, <1>9, <1>10, <1>11, <1>12, <1>13, <1>14, <1>15, <1>16, <1>17, <1>18, <1>19 DEF Next

\* and when it is not.
LEMMA StoreStepFile ==
  ASSUME Inv, trust = "file", [Next]_vars
  PROVE  [Store!Next]_(Store!vars)
<1>1. Types /\ Left /\ pc = "idle" /\ DOMAIN pending = {} /\ Disk = Found(file)
  BY DEF Inv, Left, Disk
<1>2. ASSUME NEW c \in Col, Change(c) PROVE Store!Next
  <2>1. Value' = [Value EXCEPT ![c] = Value'[c]]
    BY <1>1, <1>2, ChangeOne
  <2>2. pc' = "idle" /\ file' = file /\ told' = FALSE /\ UNCHANGED <<failed, trust>>
    BY <1>1, <1>2 DEF Change
  <2>3. Disk' = Disk
    BY <1>1, <2>2 DEF Disk
  <2> QED BY <2>1, <2>2, <2>3 DEF Store!Next, Store!Change
<1>3. ASSUME Rollback PROVE Store!Next
  <2>1. pc' = "idle" /\ told' = FALSE /\ UNCHANGED <<file, failed>>
    BY <1>1, <1>3 DEF Rollback
  <2>2. Disk' = Disk
    BY <1>1, <2>1 DEF Disk
  <2>3. CASE Reload
    <3>1. Value' = Found(file) /\ failed = FALSE
      BY <1>1, <2>3, LoadedIs DEF Reload, Types
    <3>2. CASE trust' = "all"
      BY <1>1, <2>1, <2>2, <3>1, <3>2 DEF Store!Next, Store!Reopen
    <3>3. CASE trust' # "all"
      <4>1. trust' = "file" /\ ~Loads(file)
        BY <2>3, <3>3 DEF Reload
      <4>2. Found(file) = Empty
        BY <4>1 DEF Found
      <4> QED BY <1>1, <2>1, <2>2, <3>1, <4>1, <4>2 DEF Store!Next, Store!Forget
    <3> QED BY <3>2, <3>3
  <2>4. CASE Forget
    <3>1. failed /\ trust' = "file" /\ Value' = Empty
      BY <2>4 DEF Forget, Value, Clean, Empty
    <3> QED BY <2>1, <2>2, <3>1 DEF Store!Next, Store!Forget
  <2> QED BY <1>3, <2>3, <2>4 DEF Rollback
<1>4. ASSUME Commit PROVE Store!Next
  <2>1. UNCHANGED <<file, cols, trust>> /\ (Returns(TRUE) \/ Returns(FALSE))
    BY <1>4, CommitSteps
  <2>2. pc' = "idle" /\ told' \in BOOLEAN /\ failed' = ~told'
    BY <2>1 DEF Returns
  <2>3. Disk' = Disk /\ Value' = Value
    BY <1>1, <2>1, <2>2 DEF Disk, Value
  <2> QED BY <2>1, <2>2, <2>3 DEF Store!Next, Store!Pretend
<1>5. ASSUME Restart PROVE Store!Next
  <2>1. /\ LoadAll(file', <<>>) /\ pc' = "idle"
        /\ told' = FALSE /\ failed' = FALSE /\ trust' = "all"
    BY <1>5 DEF Restart
  <2>2. PICK S \in SUBSET DOMAIN pending : file' = After(S)
    BY <1>5 DEF Restart, After
  <2>3. file' = file
    BY <1>1, <2>2, NothingPending
  <2>4. Value' = Found(file) /\ Disk' = Found(file)
    BY <2>1, <2>3, LoadedIs DEF Disk
  <2> QED BY <1>1, <2>1, <2>4 DEF Store!Next, Store!Reopen
<1>6. ASSUME UNCHANGED vars PROVE UNCHANGED Store!vars
  BY <1>1, <1>6 DEF vars, Value, Disk, Store!vars
<1> QED BY <1>1, <1>2, <1>3, <1>4, <1>5, <1>6, IdleSteps

LEMMA StoreStep ==
  ASSUME "crash" \notin Faults, Inv, Fresh, [Next]_vars
  PROVE  [Store!Next]_(Store!vars)
<1>1. CASE trust = "all"
  BY <1>1, StoreStepAll
<1>2. CASE trust = "file"
  BY <1>2, StoreStepFile
<1>3. CASE trust = "none"
  <2>1. UNCHANGED vars
    BY <1>3, LostStays
  <2>2. UNCHANGED <<file, cols, pc, plan, stable, told, failed, trust>>
    BY <2>1 DEF vars
  <2>3. Value' = Value /\ Disk' = Disk
    BY <2>2 DEF Value, Disk, Committing, InPlace
  <2> QED BY <2>2, <2>3 DEF Store!vars
<1> QED BY <1>1, <1>2, <1>3 DEF Inv, Types

\* A program finds in the datafile what it expects of stable storage: commits are
\* done as a whole or not at all, and rollbacks and restarts give what was last
\* committed; and of commits that fail, whichever of their writes and flushes it
\* is, it finds no worse than what the store says.  No process ends while a commit
\* extends the file.
THEOREM StoreImplemented ==
  ASSUME "crash" \notin Faults
  PROVE  Spec => ImplementsStore
<1>1. Init => Store!Init /\ Fresh
  <2> SUFFICES ASSUME Init PROVE Store!Init /\ Fresh
    OBVIOUS
  <2>1. Disk = Committing /\ Committing = Empty
    BY InitKeeps, DiskIs DEF Init, Committing
  <2>2. Value = Empty /\ told = FALSE /\ failed = FALSE /\ trust = "all" /\ rootWalk = <<>>
    BY DEF Init, Value, Clean, Empty
  <2> QED BY <2>1, <2>2 DEF Store!Init, Fresh, Blank
<1>2. Inv /\ Fresh /\ [Next]_vars => Fresh'
  BY FreshKeeps
<1>3. Inv /\ Fresh /\ [Next]_vars => [Store!Next]_(Store!vars)
  BY StoreStep
<1>4. Spec => []Inv
  BY Invariant
<1> QED BY <1>1, <1>2, <1>3, <1>4, PTL DEF Spec, ImplementsStore, Store!Spec
=============================================================================
