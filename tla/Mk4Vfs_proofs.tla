---------------------------- MODULE Mk4Vfs_proofs ----------------------------
(***************************************************************************)
(* The Metakit driver's rows, caches and positions, proved for any names,  *)
(* contents, channels and bounds, on the conditions of Distinct.           *)
(***************************************************************************)
EXTENDS Mk4Vfs, SequenceTheorems, WellFoundedInduction, TLAPS

\* What the violations of the runs case and close_after_delete show necessary:
\* names are told apart by select and by delete as they are by the caches, and
\* nobody deletes in a directory where a channel is open.
Distinct == CaseTwin = {} /\ GlobName = {} /\ DeleteUnderHandle = FALSE

-----------------------------------------------------------------------------
(* Helpers of the model: first elements, removal from sequences.           *)

\* A set of naturals that is not empty has a least element.
LEMMA LeastNatural ==
  ASSUME NEW S, S \subseteq Nat, S # {}
  PROVE  Min(S) \in S
<1>1. PICK x \in S : \A y \in S : ~ (<<y, x>> \in OpToRel(<, Nat))
  BY NatLessThanWellFounded, WFMin
<1>2. ASSUME NEW y \in S PROVE x <= y
  <2>1. x \in Nat /\ y \in Nat
    OBVIOUS
  <2>2. y < x => <<y, x>> \in OpToRel(<, Nat)
    BY <2>1 DEF OpToRel
  <2>3. ~(y < x)
    BY <1>1, <2>2
  <2> QED BY <2>1, <2>3
<1> QED BY <1>2 DEF Min

\* FirstIn is NoRow for the empty set alone, and else an element.
LEMMA FirstInFacts ==
  ASSUME NEW S, S \subseteq Nat \ {0}
  PROVE  /\ FirstIn(S) = NoRow <=> S = {}
         /\ S # {} => FirstIn(S) \in S
  BY LeastNatural DEF FirstIn, NoRow

\* RemoveAt drops one element and moves those behind it.
LEMMA RemoveAtFacts ==
  ASSUME NEW S, NEW s \in Seq(S), NEW i \in 1..Len(s)
  PROVE  /\ RemoveAt(s, i) \in Seq(S)
         /\ Len(RemoveAt(s, i)) = Len(s) - 1
         /\ \A j \in 1..(Len(s) - 1) :
              RemoveAt(s, i)[j] = IF j < i THEN s[j] ELSE s[j + 1]
<1>1. Len(s) \in Nat /\ \A j \in 1..Len(s) : s[j] \in S
  BY LenProperties, ElementOfSeq
<1> SUFFICES ASSUME NEW n \in Nat, n = Len(s), NEW a, a = SubSeq(s, 1, i - 1),
                    NEW b, b = SubSeq(s, i + 1, n)
             PROVE  /\ a \o b \in Seq(S) /\ Len(a \o b) = n - 1
                    /\ \A j \in 1..(n - 1) : (a \o b)[j] = IF j < i THEN s[j] ELSE s[j + 1]
  BY <1>1 DEF RemoveAt
<1>2. PICK m \in Nat : m = i - 1
  BY <1>1
<1>3. a \in Seq(S) /\ Len(a) = m /\ \A j \in 1..m : a[j] = s[j]
  <2>1. \A j \in 1..m : s[j] \in S
    BY <1>1, <1>2
  <2>2. /\ a \in Seq(S) /\ Len(a) = IF 1 <= m THEN m - 1 + 1 ELSE 0
        /\ \A j \in 1..(m - 1 + 1) : a[j] = s[1 + j - 1]
    BY <1>2, <2>1, SubSeqProperties
  <2>3. Len(a) = m
    BY <2>2
  <2>4. \A j \in 1..m : j \in 1..(m - 1 + 1) /\ 1 + j - 1 = j
    OBVIOUS
  <2> QED BY <2>2, <2>3, <2>4
<1>4. b \in Seq(S) /\ Len(b) = n - i /\ \A j \in 1..(n - i) : b[j] = s[i + j]
  <2>1. \A j \in (i + 1)..n : s[j] \in S
    BY <1>1
  <2>2. /\ b \in Seq(S) /\ Len(b) = IF i + 1 <= n THEN n - (i + 1) + 1 ELSE 0
        /\ \A j \in 1..(n - (i + 1) + 1) : b[j] = s[(i + 1) + j - 1]
    BY <1>1, <2>1, SubSeqProperties
  <2>3. i \in Nat /\ i <= n
    BY <1>1
  <2>4. Len(b) = n - i
    BY <2>2, <2>3
  <2>5. \A j \in 1..(n - i) : j \in 1..(n - (i + 1) + 1) /\ (i + 1) + j - 1 = i + j
    BY <2>3
  <2> QED BY <2>2, <2>4, <2>5
<1>5. i \in Nat /\ i <= n /\ m + (n - i) = n - 1
  BY <1>1, <1>2
<1>6. /\ a \o b \in Seq(S) /\ Len(a \o b) = n - 1
      /\ \A j \in 1..(n - 1) : (a \o b)[j] = IF j <= m THEN a[j] ELSE b[j - m]
  <2>1. a \in Seq(S) /\ b \in Seq(S) /\ Len(a) = m /\ Len(b) = n - i
    BY <1>3, <1>4
  <2>2. /\ a \o b \in Seq(S) /\ Len(a \o b) = Len(a) + Len(b)
        /\ \A j \in 1..(Len(a) + Len(b)) :
             (a \o b)[j] = IF j <= Len(a) THEN a[j] ELSE b[j - Len(a)]
    BY <2>1, ConcatProperties
  <2>3. Len(a) + Len(b) = n - 1
    BY <1>5, <2>1
  <2> QED BY <2>1, <2>2, <2>3
<1>7. ASSUME NEW j \in 1..(n - 1) PROVE (a \o b)[j] = IF j < i THEN s[j] ELSE s[j + 1]
  <2>1. CASE j < i
    <3>1. j \in 1..m /\ j <= m
      BY <1>2, <1>5, <2>1
    <3> QED BY <1>3, <1>6, <2>1, <3>1
  <2>2. CASE ~(j < i)
    <3>1. ~(j <= m) /\ j - m \in 1..(n - i) /\ i + (j - m) = j + 1
      BY <1>2, <1>5, <2>2
    <3>2. (a \o b)[j] = b[j - m]
      BY <1>6, <3>1
    <3> QED BY <1>4, <2>2, <3>1, <3>2
  <2> QED BY <2>1, <2>2
<1> QED BY <1>6, <1>7

\* Append adds one element and moves none.
LEMMA AppendFacts ==
  ASSUME NEW S, NEW s \in Seq(S), NEW x \in S, NEW k \in Nat, k = Len(s),
         NEW t, t = Append(s, x)
  PROVE  /\ t \in Seq(S) /\ Len(t) = k + 1 /\ t[k + 1] = x
         /\ \A i \in 1..k : t[i] = s[i]
  OBVIOUS

-----------------------------------------------------------------------------
(* The invariant.                                                          *)

DirRow == [name : Name \cup {"", "<root>"}, parent : Int]
FileRow == [name : Name \cup {""}, data : Contents]

\* A directory is in a directory, is the root, or is flagged as deleted; and
\* the root stays.
ParentsAreRows ==
  /\ \A r \in DOMAIN dirs : dirs[r].parent \in DOMAIN dirs \cup {RootParent, Deleted}
  /\ dirs[Root].parent = RootParent

\* An open channel is on the row of its file, a closed one on none.
Placed(h) ==
  IF handle[h].mode = "closed" THEN handle[h].dir = NoRow
  ELSE /\ handle[h].dir \in DOMAIN dirs
       /\ handle[h].idx \in 1..Len(files[handle[h].dir])
       /\ files[handle[h].dir][handle[h].idx].name = Last(handle[h].path)

Rows == ParentsAreRows /\ NamesUnique /\ NothingInDeleted
Caches == CacheTransparent /\ FcacheAgrees
Positions == \A h \in Handle : Placed(h)

IInv == TypeOK /\ Rows /\ Caches /\ Positions

\* The parts of TypeOK, one per variable.
DirsTyped == dirs \in Seq(DirRow) /\ Len(dirs) \in 1..(MaxRow + 1)
FilesTyped == files \in Seq(Seq(FileRow)) /\ Len(files) = Len(dirs)
CacheTyped ==
  DOMAIN cache \subseteq (DOMAIN dirs) \X Name /\ cache \in [DOMAIN cache -> DOMAIN dirs]
FcacheTyped ==
  DOMAIN fcache \subseteq DOMAIN dirs /\ fcache \in [DOMAIN fcache -> Seq(Name \cup {""})]
HandleTyped ==
  handle \in [Handle -> [mode : {"closed", "r", "w"}, dir : Nat, idx : Nat,
                         path : Path \cup {<<>>}]]

\* Together they are TypeOK, before and after a step.
LEMMA Types ==
  /\ TypeOK <=> DirsTyped /\ FilesTyped /\ CacheTyped /\ FcacheTyped /\ HandleTyped
  /\ TypeOK' <=> DirsTyped' /\ FilesTyped' /\ CacheTyped' /\ FcacheTyped' /\ HandleTyped'
<1>1. TypeOK <=> DirsTyped /\ FilesTyped /\ CacheTyped /\ FcacheTyped /\ HandleTyped
  BY DEF TypeOK, DirsTyped, FilesTyped, CacheTyped, FcacheTyped, HandleTyped, DirRow, FileRow
<1>2. TypeOK' <=> DirsTyped' /\ FilesTyped' /\ CacheTyped' /\ FcacheTyped' /\ HandleTyped'
  BY DEF TypeOK, DirsTyped, FilesTyped, CacheTyped, FcacheTyped, HandleTyped, DirRow, FileRow
<1> QED BY <1>1, <1>2

\* What the types say of single rows.
LEMMA RowFacts ==
  ASSUME TypeOK
  PROVE  /\ Len(dirs) \in Nat /\ Len(dirs) >= 1 /\ DOMAIN dirs = 1..Len(dirs)
         /\ DOMAIN dirs \subseteq Nat \ {0} /\ Root \in DOMAIN dirs
         /\ \A r \in DOMAIN dirs : dirs[r] \in DirRow
         /\ Len(files) = Len(dirs) /\ DOMAIN files = DOMAIN dirs
         /\ \A d \in DOMAIN dirs :
              /\ files[d] \in Seq(FileRow) /\ Len(files[d]) \in Nat
              /\ DOMAIN files[d] = 1..Len(files[d])
              /\ \A i \in 1..Len(files[d]) : files[d][i] \in FileRow
<1>1. dirs \in Seq(DirRow) /\ files \in Seq(Seq(FileRow)) /\ Len(files) = Len(dirs)
      /\ Len(dirs) \in 1..(MaxRow + 1)
  BY DEF TypeOK, DirRow, FileRow
<1>2. Len(dirs) \in Nat /\ DOMAIN dirs = 1..Len(dirs) /\ \A r \in 1..Len(dirs) : dirs[r] \in DirRow
  BY <1>1, LenProperties, ElementOfSeq
<1>3. DOMAIN files = 1..Len(files) /\ \A d \in 1..Len(files) : files[d] \in Seq(FileRow)
  BY <1>1, LenProperties, ElementOfSeq
<1>4. Len(dirs) >= 1
  BY <1>1, BoundAssumption
<1>5. ASSUME NEW d \in DOMAIN dirs
      PROVE  /\ files[d] \in Seq(FileRow) /\ Len(files[d]) \in Nat
             /\ DOMAIN files[d] = 1..Len(files[d])
             /\ \A i \in 1..Len(files[d]) : files[d][i] \in FileRow
  <2>1. files[d] \in Seq(FileRow)
    BY <1>1, <1>2, <1>3
  <2> QED BY <2>1, LenProperties, ElementOfSeq
<1>6. DOMAIN dirs \subseteq Nat \ {0} /\ Root \in DOMAIN dirs
  BY <1>2, <1>4 DEF Root
<1> QED BY <1>1, <1>2, <1>3, <1>4, <1>5, <1>6

-----------------------------------------------------------------------------
(* Lookups.                                                                *)

\* mk::select of a directory finds the row of that name, if there is one.
LEMMA SelectFacts ==
  ASSUME TypeOK, Distinct, NEW p, NEW n
  PROVE  /\ Select(p, n) \in 0..Len(dirs)
         /\ Select(p, n) = NoRow <=> \A r \in DOMAIN dirs : ~(dirs[r].parent = p /\ dirs[r].name = n)
         /\ Select(p, n) # NoRow =>
              /\ Select(p, n) \in DOMAIN dirs
              /\ dirs[Select(p, n)].parent = p /\ dirs[Select(p, n)].name = n
<1>1. PICK S : S = {r \in DOMAIN dirs : dirs[r].parent = p /\ dirs[r].name = n}
  OBVIOUS
<1>2. Select(p, n) = FirstIn(S)
  BY <1>1 DEF Select, SameName, Distinct
<1>3. S \subseteq Nat \ {0} /\ S \subseteq DOMAIN dirs /\ DOMAIN dirs = 1..Len(dirs) /\ Len(dirs) \in Nat
  BY <1>1, RowFacts
<1>4. (FirstIn(S) = NoRow <=> S = {}) /\ (S # {} => FirstIn(S) \in S)
  BY <1>3, FirstInFacts
<1>5. Select(p, n) \in 0..Len(dirs)
  <2>1. CASE S = {}
    BY <1>2, <1>3, <1>4, <2>1 DEF NoRow
  <2>2. CASE S # {}
    <3>1. Select(p, n) \in 1..Len(dirs)
      BY <1>2, <1>3, <1>4, <2>2
    <3> QED BY <1>3, <3>1
  <2> QED BY <2>1, <2>2
<1>6. Select(p, n) = NoRow <=> \A r \in DOMAIN dirs : ~(dirs[r].parent = p /\ dirs[r].name = n)
  BY <1>1, <1>2, <1>4
<1>7. ASSUME Select(p, n) # NoRow
      PROVE  /\ Select(p, n) \in DOMAIN dirs
             /\ dirs[Select(p, n)].parent = p /\ dirs[Select(p, n)].name = n
  <2>1. Select(p, n) \in S
    BY <1>2, <1>4, <1>7
  <2> QED BY <1>1, <2>1
<1> QED BY <1>5, <1>6, <1>7

\* Two views that have the same directories under a name give the same answer.
LEMMA SelectSame ==
  ASSUME TypeOK, Distinct, NEW p, NEW n,
         DOMAIN dirs \subseteq DOMAIN dirs',
         \A r \in DOMAIN dirs' :
           (dirs'[r].parent = p /\ dirs'[r].name = n)
             <=> (r \in DOMAIN dirs /\ dirs[r].parent = p /\ dirs[r].name = n)
  PROVE  Select(p, n)' = Select(p, n)
<1>1. {r \in DOMAIN dirs' : dirs'[r].parent = p /\ dirs'[r].name = n}
        = {r \in DOMAIN dirs : dirs[r].parent = p /\ dirs[r].name = n}
  OBVIOUS
<1>2. Select(p, n) = FirstIn({r \in DOMAIN dirs : dirs[r].parent = p /\ dirs[r].name = n})
  BY DEF Select, SameName, Distinct
<1>3. Select(p, n)' = FirstIn({r \in DOMAIN dirs' : dirs'[r].parent = p /\ dirs'[r].name = n})
  BY DEF Select, SameName, Distinct
<1> QED BY <1>1, <1>2, <1>3

\* Served by the cache or not, a lookup finds what select finds.
LEMMA LookupIsSelect ==
  ASSUME CacheTransparent, NEW p, NEW n
  PROVE  Lookup(p, n) = Select(p, n)
<1>1. CASE <<p, n>> \in DOMAIN cache
  <2>1. cache[<<p, n>>] = Select(<<p, n>>[1], <<p, n>>[2])
    BY <1>1 DEF CacheTransparent
  <2>2. <<p, n>>[1] = p /\ <<p, n>>[2] = n
    OBVIOUS
  <2> QED BY <1>1, <2>1, <2>2 DEF Lookup
<1>2. CASE <<p, n>> \notin DOMAIN cache
  BY <1>2 DEF Lookup
<1> QED BY <1>1, <1>2

\* A cached directory is there.
LEMMA CachedIsFound ==
  ASSUME TypeOK, CacheTransparent, NEW p, NEW n, <<p, n>> \in DOMAIN cache
  PROVE  Lookup(p, n) # NoRow /\ n \in Name /\ p \in DOMAIN dirs
<1>1. cache[<<p, n>>] \in DOMAIN dirs /\ <<p, n>> \in (DOMAIN dirs) \X Name
  BY DEF TypeOK
<1>2. NoRow \notin DOMAIN dirs
  BY RowFacts DEF NoRow
<1> QED BY <1>1, <1>2 DEF Lookup

\* The index of a name in the list is the position of its file's row.
LEMMA FileAtFacts ==
  ASSUME TypeOK, FcacheAgrees, NEW d \in DOMAIN dirs, NEW n
  PROVE  /\ Listed(d) = NamesOf(d)
         /\ FileAt(d, n) = NoRow <=> \A i \in 1..Len(files[d]) : files[d][i].name # n
         /\ FileAt(d, n) # NoRow =>
              FileAt(d, n) \in 1..Len(files[d]) /\ files[d][FileAt(d, n)].name = n
<1>1. Listed(d) = NamesOf(d)
  BY DEF Listed, FcacheAgrees
<1>2. Len(files[d]) \in Nat
  BY RowFacts
<1>3. Len(NamesOf(d)) = Len(files[d]) /\ \A i \in 1..Len(files[d]) : NamesOf(d)[i] = files[d][i].name
  BY <1>2 DEF NamesOf
<1>4. PICK S : S = {i \in 1..Len(files[d]) : files[d][i].name = n}
  OBVIOUS
<1>5. FileAt(d, n) = FirstIn(S)
  <2>1. {i \in 1..Len(Listed(d)) : Listed(d)[i] = n} = S
    BY <1>1, <1>3, <1>4
  <2> QED BY <2>1 DEF FileAt
<1>6. S \subseteq Nat \ {0}
  BY <1>2, <1>4
<1>7. (FirstIn(S) = NoRow <=> S = {}) /\ (S # {} => FirstIn(S) \in S)
  BY <1>6, FirstInFacts
<1>8. FileAt(d, n) = NoRow <=> \A i \in 1..Len(files[d]) : files[d][i].name # n
  BY <1>4, <1>5, <1>7
<1>9. FileAt(d, n) # NoRow =>
        FileAt(d, n) \in 1..Len(files[d]) /\ files[d][FileAt(d, n)].name = n
  <2>1. FileAt(d, n) # NoRow => FileAt(d, n) \in S
    BY <1>5, <1>7
  <2> QED BY <1>4, <2>1
<1> QED BY <1>1, <1>8, <1>9

\* A path has a last component, and its components are names.
LEMMA PathFacts ==
  ASSUME NEW path \in Path
  PROVE  /\ path \in Seq(Name) /\ Len(path) \in Nat /\ Len(path) >= 1
         /\ Last(path) \in Name
         /\ \A i \in 1..Len(path) : path[i] \in Name
<1>1. PICK n \in 1..MaxDepth : path \in [1..n -> Name]
  BY DEF Path
<1>2. n \in Nat /\ n >= 1
  BY <1>1, BoundAssumption
<1>3. path \in Seq(Name)
  BY <1>1, <1>2, SeqDef
<1>4. Len(path) \in Nat /\ DOMAIN path = 1..Len(path)
  BY <1>3, LenProperties
<1>5. 1 \in 1..Len(path)
  BY <1>1, <1>2, <1>4
<1>6. Len(path) >= 1 /\ Len(path) \in 1..Len(path)
  BY <1>4, <1>5
<1>7. \A i \in 1..Len(path) : path[i] \in Name
  BY <1>3, ElementOfSeq
<1> QED BY <1>3, <1>4, <1>6, <1>7 DEF Last

\* A walk ends nowhere or in a live directory, and what it puts in the cache
\* is what it found.
LEMMA WalkFacts ==
  ASSUME TypeOK, Distinct, CacheTransparent, ParentsAreRows,
         NEW path \in Path, NEW w \in Walks(path)
  PROVE  /\ Parent(path, w) \in 0..Len(dirs)
         /\ Parent(path, w) # NoRow =>
              Parent(path, w) \in DOMAIN dirs /\ dirs[Parent(path, w)].parent # Deleted
         /\ WalkKeys(path, w) \subseteq (DOMAIN dirs) \X Name
         /\ \A k \in WalkKeys(path, w) : Lookup(k[1], k[2]) # NoRow
<1>1. /\ Len(path) \in Nat /\ Len(path) >= 1 /\ \A i \in 1..Len(path) : path[i] \in Name
      /\ Len(dirs) \in Nat /\ DOMAIN dirs = 1..Len(dirs) /\ Root \in DOMAIN dirs
  BY PathFacts, RowFacts
<1>2. PICK n \in Nat : n = Len(path) - 1
  BY <1>1
<1>3. /\ w \in [0..n -> 0..Len(dirs)] /\ w[0] = Root
      /\ \A i \in 1..n : w[i] = Lookup(w[i - 1], path[i])
  BY <1>2 DEF Walks
<1>4. ASSUME NEW i \in 1..n, w[i] # NoRow
      PROVE  /\ w[i - 1] \in DOMAIN dirs /\ path[i] \in Name /\ Lookup(w[i - 1], path[i]) # NoRow
             /\ w[i] \in DOMAIN dirs /\ dirs[w[i]].parent # Deleted
  <2>1. w[i] = Select(w[i - 1], path[i])
    BY <1>3, LookupIsSelect
  <2>2. w[i] \in DOMAIN dirs /\ dirs[w[i]].parent = w[i - 1]
    BY <1>4, <2>1, SelectFacts
  <2>3. i - 1 \in 0..n /\ i \in 1..Len(path)
    BY <1>1, <1>2
  <2>4. w[i - 1] \in 0..Len(dirs)
    BY <1>3, <2>3
  <2>5. dirs[w[i]].parent \in DOMAIN dirs \cup {RootParent, Deleted}
    BY <2>2 DEF ParentsAreRows
  <2>6. w[i - 1] \in DOMAIN dirs /\ w[i - 1] # Deleted
    BY <1>1, <2>2, <2>4, <2>5 DEF RootParent, Deleted
  <2> QED BY <1>1, <1>3, <1>4, <2>2, <2>3, <2>6
<1>5. Parent(path, w) = w[n] /\ Parent(path, w) \in 0..Len(dirs)
  <2>1. Parent(path, w) = w[n]
    BY <1>2 DEF Parent
  <2>2. n \in 0..n
    OBVIOUS
  <2> QED BY <1>3, <2>1, <2>2
<1>6. ASSUME Parent(path, w) # NoRow
      PROVE  Parent(path, w) \in DOMAIN dirs /\ dirs[Parent(path, w)].parent # Deleted
  <2>1. CASE n = 0
    BY <1>1, <1>3, <1>5, <2>1 DEF ParentsAreRows, RootParent, Deleted
  <2>2. CASE n # 0
    <3>1. n \in 1..n
      BY <2>2
    <3> QED BY <1>4, <1>5, <1>6, <3>1
  <2> QED BY <2>1, <2>2
<1>7. ASSUME NEW k \in WalkKeys(path, w)
      PROVE  k \in (DOMAIN dirs) \X Name /\ Lookup(k[1], k[2]) # NoRow
  <2>1. PICK i \in 1..n : w[i] # NoRow /\ k = <<w[i - 1], path[i]>>
    BY <1>2 DEF WalkKeys
  <2> QED BY <1>4, <2>1
<1> QED BY <1>5, <1>6, <1>7

\* So is all that stat puts in the cache.
LEMMA StatKeysFacts ==
  ASSUME TypeOK, Distinct, CacheTransparent, ParentsAreRows,
         NEW path \in Path, NEW w \in Walks(path)
  PROVE  /\ StatKeys(path, w) \subseteq (DOMAIN dirs) \X Name
         /\ \A k \in StatKeys(path, w) : Lookup(k[1], k[2]) # NoRow
<1> SUFFICES ASSUME NEW k \in StatKeys(path, w)
             PROVE  k \in (DOMAIN dirs) \X Name /\ Lookup(k[1], k[2]) # NoRow
  OBVIOUS
<1>1. CASE k \in WalkKeys(path, w)
  BY <1>1, WalkFacts
<1>2. CASE k \notin WalkKeys(path, w)
  <2>1. k = <<Parent(path, w), Last(path)>> /\ IsDir(Parent(path, w), Last(path))
    BY <1>2 DEF StatKeys
  <2>2. Parent(path, w) # NoRow /\ Lookup(Parent(path, w), Last(path)) # NoRow
    BY <2>1 DEF IsDir
  <2> QED BY <2>1, <2>2, WalkFacts, PathFacts
<1> QED BY <1>1, <1>2

\* Remembering what lookups found leaves the cache sound.
LEMMA RememberFacts ==
  ASSUME TypeOK, Distinct, CacheTransparent,
         NEW K \in SUBSET ((DOMAIN dirs) \X Name), \A k \in K : Lookup(k[1], k[2]) # NoRow
  PROVE  /\ DOMAIN Remember(K) = DOMAIN cache \cup K
         /\ DOMAIN Remember(K) \subseteq (DOMAIN dirs) \X Name
         /\ Remember(K) \in [DOMAIN Remember(K) -> DOMAIN dirs]
         /\ \A k \in DOMAIN Remember(K) : Remember(K)[k] = Select(k[1], k[2])
<1>1. DOMAIN Remember(K) = DOMAIN cache \cup K
  BY DEF Remember
<1>2. DOMAIN Remember(K) \subseteq (DOMAIN dirs) \X Name
  BY <1>1 DEF TypeOK
<1>3. ASSUME NEW k \in DOMAIN Remember(K)
      PROVE  Remember(K)[k] = Select(k[1], k[2]) /\ Remember(K)[k] \in DOMAIN dirs
  <2>1. Remember(K)[k] = Lookup(k[1], k[2])
    BY <1>1, <1>3 DEF Remember
  <2>2. Lookup(k[1], k[2]) = Select(k[1], k[2])
    BY LookupIsSelect
  <2>3. Lookup(k[1], k[2]) # NoRow
    <3>1. CASE k \in K
      BY <3>1
    <3>2. CASE k \in DOMAIN cache
      <4>1. k = <<k[1], k[2]>>
        BY <1>2, <1>3
      <4> QED BY <3>2, <4>1, CachedIsFound
    <3> QED BY <1>1, <1>3, <3>1, <3>2
  <2> QED BY <2>1, <2>2, <2>3, SelectFacts
<1>4. Remember(K) = [k \in DOMAIN Remember(K) |-> Remember(K)[k]]
  BY <1>1 DEF Remember
<1>5. Remember(K) \in [DOMAIN Remember(K) -> DOMAIN dirs]
  BY <1>3, <1>4
<1> QED BY <1>1, <1>2, <1>3, <1>5

-----------------------------------------------------------------------------
(* Parts of steps.                                                         *)

NamesIn(rows) == [i \in 1..Len(rows) |-> rows[i].name]

\* The names of rows are a sequence of names.
LEMMA NamesInFacts ==
  ASSUME NEW rows \in Seq(FileRow)
  PROVE  /\ NamesIn(rows) \in Seq(Name \cup {""}) /\ Len(NamesIn(rows)) = Len(rows)
         /\ \A i \in 1..Len(rows) : NamesIn(rows)[i] = rows[i].name
<1>1. Len(rows) \in Nat /\ \A i \in 1..Len(rows) : rows[i] \in FileRow
  BY LenProperties, ElementOfSeq
<1>2. PICK n \in Nat : n = Len(rows)
  BY <1>1
<1>3. NamesIn(rows) \in [1..n -> Name \cup {""}]
  BY <1>1, <1>2 DEF NamesIn, FileRow
<1>4. NamesIn(rows) \in Seq(Name \cup {""})
  <2>1. PICK S : S = Name \cup {""}
    OBVIOUS
  <2>2. Seq(S) = UNION {[1..k -> S] : k \in Nat}
    BY SeqDef
  <2>3. NamesIn(rows) \in [1..n -> S]
    BY <1>3, <2>1
  <2>4. NamesIn(rows) \in Seq(S)
    BY <2>2, <2>3
  <2> QED BY <2>1, <2>4
<1>5. Len(NamesIn(rows)) = n
  BY <1>2 DEF NamesIn
<1>6. \A i \in 1..Len(rows) : NamesIn(rows)[i] = rows[i].name
  BY DEF NamesIn
<1> QED BY <1>2, <1>4, <1>5, <1>6

\* They are the only such sequence.
LEMMA NamesInUnique ==
  ASSUME NEW rows \in Seq(FileRow), NEW s \in Seq(Name \cup {""}), Len(s) = Len(rows),
         \A i \in 1..Len(rows) : s[i] = rows[i].name
  PROVE  s = NamesIn(rows)
<1>1. /\ NamesIn(rows) \in Seq(Name \cup {""}) /\ Len(s) = Len(NamesIn(rows))
      /\ \A i \in 1..Len(s) : s[i] = NamesIn(rows)[i]
  BY NamesInFacts
<1> QED BY <1>1, SeqEqual

\* A name cache that holds the names of rows is typed, and agrees.
LEMMA ListsFacts ==
  ASSUME DirsTyped', FilesTyped', NEW D \in SUBSET DOMAIN dirs',
         fcache' = [d \in D |-> fcache'[d]],
         \A d \in D : fcache'[d] = NamesIn(files'[d])
  PROVE  FcacheTyped' /\ FcacheAgrees'
<1>1. DOMAIN fcache' = D
  OBVIOUS
<1>2. DOMAIN files' = DOMAIN dirs' /\ \A d \in DOMAIN files' : files'[d] \in Seq(FileRow)
  <2>1. files' \in Seq(Seq(FileRow)) /\ dirs' \in Seq(DirRow) /\ Len(files') = Len(dirs')
    BY DEF FilesTyped, DirsTyped
  <2>2. DOMAIN files' = 1..Len(files') /\ DOMAIN dirs' = 1..Len(dirs')
    BY <2>1, LenProperties
  <2> QED BY <2>1, <2>2, ElementOfSeq
<1>3. \A d \in D : fcache'[d] \in Seq(Name \cup {""})
  BY <1>2, NamesInFacts
<1>4. FcacheTyped'
  BY <1>1, <1>3 DEF FcacheTyped
<1>5. FcacheAgrees'
  BY <1>1 DEF FcacheAgrees, NamesOf, NamesIn
<1> QED BY <1>4, <1>5

\* What stat leaves in the name cache is the names of rows.
LEMMA StatFcachesFacts ==
  ASSUME TypeOK, FcacheAgrees, NEW p \in 0..Len(dirs), NEW n, NEW f \in StatFcaches(p, n)
  PROVE  /\ DOMAIN f \subseteq DOMAIN dirs /\ f = [d \in DOMAIN f |-> f[d]]
         /\ \A d \in DOMAIN f : f[d] = NamesIn(files[d])
<1>1. CASE f = fcache
  BY <1>1 DEF TypeOK, FcacheAgrees, NamesOf, NamesIn
<1>2. CASE f # fcache
  <2>1. PICK kept \in Kept : p # NoRow /\ f = Load(p, kept)
    BY <1>2 DEF StatFcaches
  <2>2. p \in DOMAIN dirs /\ kept \subseteq DOMAIN fcache /\ kept \subseteq DOMAIN dirs
    <3>1. DOMAIN dirs = 1..Len(dirs) /\ Len(dirs) \in Nat
      BY RowFacts
    <3>2. p \in DOMAIN dirs
      BY <2>1, <3>1 DEF NoRow
    <3>3. kept \subseteq DOMAIN fcache
      BY DEF Kept
    <3> QED BY <3>2, <3>3 DEF TypeOK
  <2>3. f = [d \in kept \cup {p} |-> IF d = p THEN NamesOf(p) ELSE fcache[d]]
    BY <2>1 DEF Load
  <2> QED BY <2>2, <2>3 DEF FcacheAgrees, NamesOf, NamesIn
<1> QED BY <1>1, <1>2

\* A lookup leaves the directory cache sound.
LEMMA CacheStep ==
  ASSUME TypeOK, Distinct, CacheTransparent, ParentsAreRows,
         NEW path \in Path, NEW w \in Walks(path),
         dirs' = dirs, cache' = Remember(StatKeys(path, w))
  PROVE  CacheTyped' /\ CacheTransparent'
<1>1. /\ DOMAIN cache' \subseteq (DOMAIN dirs) \X Name
      /\ cache' \in [DOMAIN cache' -> DOMAIN dirs]
      /\ \A k \in DOMAIN cache' : cache'[k] = Select(k[1], k[2])
  BY StatKeysFacts, RememberFacts
<1>2. \A k : Select(k[1], k[2])' = Select(k[1], k[2])
  BY DEF Select
<1> QED BY <1>1, <1>2 DEF CacheTyped, CacheTransparent

\* A lookup leaves the name cache sound.
LEMMA FcacheStep ==
  ASSUME TypeOK, FcacheAgrees, NEW p \in 0..Len(dirs), NEW n,
         dirs' = dirs, files' = files, fcache' \in StatFcaches(p, n)
  PROVE  FcacheTyped' /\ FcacheAgrees'
<1>1. /\ DOMAIN fcache' \subseteq DOMAIN dirs /\ fcache' = [d \in DOMAIN fcache' |-> fcache'[d]]
      /\ \A d \in DOMAIN fcache' : fcache'[d] = NamesIn(files[d])
  BY StatFcachesFacts
<1>2. DirsTyped' /\ FilesTyped'
  BY Types DEF DirsTyped, FilesTyped
<1> QED BY <1>1, <1>2, ListsFacts

\* Rows that no step touches stay as they are.
LEMMA RowsStep ==
  ASSUME TypeOK, Rows, dirs' = dirs, files' = files
  PROVE  DirsTyped' /\ FilesTyped' /\ Rows'
<1>1. DirsTyped' /\ FilesTyped'
  BY Types DEF DirsTyped, FilesTyped
<1>2. Rows'
  BY DEF Rows, ParentsAreRows, NamesUnique, NothingInDeleted, Children
<1> QED BY <1>1, <1>2

\* A channel stays on its file as long as the rows up to its own keep their
\* names.
LEMMA PlacedStep ==
  ASSUME NEW h \in Handle, Placed(h), handle'[h] = handle[h],
         handle[h].mode # "closed" =>
           \A d \in DOMAIN dirs : d = handle[h].dir =>
             /\ d \in DOMAIN dirs'
             /\ \A i \in 1..Len(files[d]) :
                  i \in 1..Len(files'[d]) /\ files'[d][i].name = files[d][i].name
  PROVE  Placed(h)'
  BY DEF Placed

\* A channel that is opened on a row is typed and placed.
LEMMA OpenStep ==
  ASSUME TypeOK, NEW h \in Handle, NEW path \in Path, NEW m \in {"r", "w"},
         NEW d \in DOMAIN dirs', NEW i \in Nat, d \in Nat, i \in 1..Len(files'[d]),
         files'[d][i].name = Last(path),
         handle' = [handle EXCEPT ![h] = [mode |-> m, dir |-> d, idx |-> i, path |-> path]]
  PROVE  HandleTyped' /\ Placed(h)' /\ \A g \in Handle \ {h} : handle'[g] = handle[g]
<1>1. HandleTyped
  BY Types
<1>2. handle'[h] = [mode |-> m, dir |-> d, idx |-> i, path |-> path]
  BY <1>1 DEF HandleTyped
<1>3. HandleTyped'
  BY <1>1 DEF HandleTyped
<1>4. Placed(h)'
  BY <1>2 DEF Placed
<1>5. \A g \in Handle \ {h} : handle'[g] = handle[g]
  BY <1>1 DEF HandleTyped
<1> QED BY <1>3, <1>4, <1>5

\* A channel that is closed is typed and placed.
LEMMA CloseStep ==
  ASSUME TypeOK, NEW h \in Handle, handle' = [handle EXCEPT ![h] = Closed]
  PROVE  HandleTyped' /\ Placed(h)' /\ \A g \in Handle \ {h} : handle'[g] = handle[g]
<1>1. HandleTyped
  BY Types
<1>2. handle'[h] = Closed
  BY <1>1 DEF HandleTyped
<1>3. HandleTyped'
  BY <1>1 DEF HandleTyped, Closed, NoRow
<1>4. Placed(h)'
  BY <1>2 DEF Placed, Closed
<1>5. \A g \in Handle \ {h} : handle'[g] = handle[g]
  BY <1>1 DEF HandleTyped
<1> QED BY <1>3, <1>4, <1>5

\* Changing the files of one directory.
LEMMA FilesUpdate ==
  ASSUME TypeOK, NEW d \in DOMAIN dirs, NEW rows \in Seq(FileRow),
         dirs' = dirs, files' = [files EXCEPT ![d] = rows]
  PROVE  /\ DirsTyped' /\ FilesTyped' /\ files'[d] = rows
         /\ \A e \in DOMAIN dirs \ {d} : files'[e] = files[e]
<1>1. DirsTyped /\ files \in Seq(Seq(FileRow)) /\ Len(files) = Len(dirs)
  BY Types DEF FilesTyped
<1>2. d \in 1..Len(files) /\ DOMAIN dirs = 1..Len(files)
  BY RowFacts
<1>3. /\ files' \in Seq(Seq(FileRow)) /\ Len(files') = Len(files)
      /\ \A e \in 1..Len(files) : files'[e] = IF e = d THEN rows ELSE files[e]
  BY <1>1, <1>2, ExceptSeq
<1>4. DirsTyped'
  BY <1>1 DEF DirsTyped
<1> QED BY <1>1, <1>2, <1>3, <1>4 DEF FilesTyped

\* What a lookup that ends at a file has found.
LEMMA IsFileFacts ==
  ASSUME TypeOK, Distinct, Caches, ParentsAreRows,
         NEW path \in Path, NEW w \in Walks(path), NEW p, p = Parent(path, w),
         NEW n, n = Last(path), IsFile(p, n)
  PROVE  /\ p \in DOMAIN dirs /\ p \in Nat /\ dirs[p].parent # Deleted
         /\ FileAt(p, n) \in 1..Len(files[p]) /\ FileAt(p, n) \in Nat
         /\ files[p][FileAt(p, n)].name = n
<1>1. p # NoRow /\ FileAt(p, n) # NoRow
  BY DEF IsFile
<1>2. p \in DOMAIN dirs /\ dirs[p].parent # Deleted /\ p \in Nat
  BY <1>1, WalkFacts, RowFacts DEF Caches
<1>3. FileAt(p, n) \in 1..Len(files[p]) /\ files[p][FileAt(p, n)].name = n
  BY <1>1, <1>2, FileAtFacts DEF Caches
<1>4. Len(files[p]) \in Nat
  BY <1>2, RowFacts
<1>5. FileAt(p, n) \in Nat
  BY <1>3, <1>4
<1> QED BY <1>2, <1>3, <1>5

\* What a lookup that finds nothing has found: no file and no directory.
LEMMA IsAbsentFacts ==
  ASSUME TypeOK, Distinct, Caches, ParentsAreRows,
         NEW path \in Path, NEW w \in Walks(path), NEW p, p = Parent(path, w),
         NEW n, n = Last(path), IsAbsent(p, n)
  PROVE  /\ p \in DOMAIN dirs /\ p \in Nat /\ dirs[p].parent # Deleted /\ n \in Name
         /\ \A i \in 1..Len(files[p]) : files[p][i].name # n
         /\ \A r \in DOMAIN dirs : ~(dirs[r].parent = p /\ dirs[r].name = n)
         /\ <<p, n>> \notin DOMAIN cache
<1>1. p # NoRow /\ ~IsFile(p, n) /\ Lookup(p, n) = NoRow
  BY DEF IsAbsent
<1>2. p \in DOMAIN dirs /\ dirs[p].parent # Deleted /\ p \in Nat /\ n \in Name
  BY <1>1, WalkFacts, PathFacts, RowFacts DEF Caches
<1>3. <<p, n>> \notin DOMAIN cache
  BY <1>1, CachedIsFound DEF Caches
<1>4. \A i \in 1..Len(files[p]) : files[p][i].name # n
  BY <1>1, <1>2, <1>3, FileAtFacts DEF Caches, IsFile
<1>5. \A r \in DOMAIN dirs : ~(dirs[r].parent = p /\ dirs[r].name = n)
  BY <1>1, LookupIsSelect, SelectFacts DEF Caches
<1> QED BY <1>2, <1>3, <1>4, <1>5

\* What a lookup that ends at a directory has found.
LEMMA IsDirFacts ==
  ASSUME TypeOK, Distinct, Caches, ParentsAreRows,
         NEW path \in Path, NEW w \in Walks(path), NEW p, p = Parent(path, w),
         NEW n, n = Last(path), IsDir(p, n)
  PROVE  /\ p \in DOMAIN dirs /\ n \in Name
         /\ Lookup(p, n) \in DOMAIN dirs
         /\ dirs[Lookup(p, n)].parent = p /\ dirs[Lookup(p, n)].name = n
<1>1. p # NoRow /\ Lookup(p, n) # NoRow
  BY DEF IsDir
<1>2. p \in DOMAIN dirs /\ n \in Name
  BY <1>1, WalkFacts, PathFacts DEF Caches
<1> QED BY <1>1, <1>2, LookupIsSelect, SelectFacts DEF Caches

-----------------------------------------------------------------------------
(* Steps.                                                                  *)

\* A step that changes no row and moves no other channel keeps the invariant.
LEMMA ReadOnlyKeeps ==
  ASSUME IInv, dirs' = dirs, files' = files, CacheTyped', CacheTransparent',
         FcacheTyped', FcacheAgrees', HandleTyped',
         \A g \in Handle : handle'[g] = handle[g] \/ Placed(g)'
  PROVE  IInv'
<1>1. DirsTyped' /\ FilesTyped' /\ Rows'
  BY RowsStep DEF IInv
<1>2. Positions'
  <2> SUFFICES ASSUME NEW g \in Handle, handle'[g] = handle[g] PROVE Placed(g)'
    BY DEF Positions
  <2> QED BY DEF IInv, Positions, Placed
<1> QED BY <1>1, <1>2, Types DEF IInv, Caches

\* Looking up.
LEMMA StatKeeps ==
  ASSUME IInv, Distinct, NEW path \in Path, NEW w \in Walks(path), Stat(path, w)
  PROVE  IInv'
<1>1. dirs' = dirs /\ files' = files /\ handle' = handle
      /\ cache' = Remember(StatKeys(path, w))
      /\ fcache' \in StatFcaches(Parent(path, w), Last(path))
  BY DEF Stat
<1>2. CacheTyped' /\ CacheTransparent'
  BY <1>1, CacheStep DEF IInv, Rows, Caches
<1>3. FcacheTyped' /\ FcacheAgrees'
  BY <1>1, WalkFacts, FcacheStep DEF IInv, Rows, Caches
<1>4. HandleTyped'
  BY <1>1, Types DEF IInv, HandleTyped
<1> QED BY <1>1, <1>2, <1>3, <1>4, ReadOnlyKeeps

\* Opening a file that exists.
LEMMA OpenKeeps ==
  ASSUME IInv, Distinct, NEW path \in Path, NEW w \in Walks(path), NEW h \in Handle,
         OpenRead(h, path, w) \/ OpenWrite(h, path, w)
  PROVE  IInv'
<1> SUFFICES ASSUME NEW p, p = Parent(path, w), NEW n, n = Last(path) PROVE IInv'
  OBVIOUS
<1>1. /\ dirs' = dirs /\ files' = files /\ IsFile(p, n)
      /\ cache' = Remember(StatKeys(path, w)) /\ fcache' \in StatFcaches(p, n)
  BY DEF OpenRead, OpenWrite
<1>2. PICK m \in {"r", "w"} :
        handle' = [handle EXCEPT ![h] = [mode |-> m, dir |-> p, idx |-> FileAt(p, n), path |-> path]]
  BY DEF OpenRead, OpenWrite
<1>3. /\ p \in DOMAIN dirs /\ p \in Nat /\ FileAt(p, n) \in 1..Len(files[p])
      /\ FileAt(p, n) \in Nat /\ files[p][FileAt(p, n)].name = n
  BY <1>1, IsFileFacts DEF IInv, Rows
<1>4. HandleTyped' /\ Placed(h)' /\ \A g \in Handle \ {h} : handle'[g] = handle[g]
  BY <1>1, <1>2, <1>3, OpenStep DEF IInv
<1>5. CacheTyped' /\ CacheTransparent'
  BY <1>1, CacheStep DEF IInv, Rows, Caches
<1>6. FcacheTyped' /\ FcacheAgrees'
  BY <1>1, WalkFacts, FcacheStep DEF IInv, Rows, Caches
<1> QED BY <1>1, <1>4, <1>5, <1>6, ReadOnlyKeeps

\* Closing a channel opened for reading.
LEMMA CloseReadKeeps ==
  ASSUME IInv, NEW h \in Handle, CloseRead(h)
  PROVE  IInv'
<1>1. /\ dirs' = dirs /\ files' = files /\ cache' = cache /\ fcache' = fcache
      /\ handle' = [handle EXCEPT ![h] = Closed]
  BY DEF CloseRead
<1>2. HandleTyped' /\ Placed(h)' /\ \A g \in Handle \ {h} : handle'[g] = handle[g]
  BY <1>1, CloseStep DEF IInv
<1>3. CacheTyped' /\ FcacheTyped'
  BY <1>1, Types DEF IInv, CacheTyped, FcacheTyped
<1>4. CacheTransparent' /\ FcacheAgrees'
  BY <1>1 DEF IInv, Caches, CacheTransparent, Select, FcacheAgrees, NamesOf
<1> QED BY <1>1, <1>2, <1>3, <1>4, ReadOnlyKeeps

\* The name cache emptied by another mount.
LEMMA EvictKeeps ==
  ASSUME IInv, EvictFcache
  PROVE  IInv'
<1>1. /\ dirs' = dirs /\ files' = files /\ cache' = cache /\ fcache' = NoEntries
      /\ handle' = handle
  BY DEF EvictFcache
<1>2. CacheTyped' /\ HandleTyped'
  BY <1>1, Types DEF IInv, CacheTyped, HandleTyped
<1>3. CacheTransparent'
  BY <1>1 DEF IInv, Caches, CacheTransparent, Select
<1>4. FcacheTyped' /\ FcacheAgrees'
  BY <1>1 DEF FcacheTyped, FcacheAgrees, NoEntries
<1> QED BY <1>1, <1>2, <1>3, <1>4, ReadOnlyKeeps

\* Mounting again.
LEMMA RemountKeeps ==
  ASSUME IInv, Remount
  PROVE  IInv'
<1>1. /\ dirs' = dirs /\ files' = files /\ cache' = NoEntries /\ fcache' = NoEntries
      /\ handle' = [h \in Handle |-> Closed]
  BY DEF Remount
<1>2. CacheTyped' /\ CacheTransparent' /\ FcacheTyped' /\ FcacheAgrees'
  BY <1>1 DEF CacheTyped, CacheTransparent, FcacheTyped, FcacheAgrees, NoEntries
<1>3. HandleTyped' /\ \A g \in Handle : Placed(g)'
  BY <1>1 DEF HandleTyped, Placed, Closed, NoRow
<1> QED BY <1>1, <1>2, <1>3, ReadOnlyKeeps

\* Changing the files of one live directory, without two entries of one name.
LEMMA OneDirRows ==
  ASSUME TypeOK, Rows, NEW d \in DOMAIN dirs, dirs[d].parent # Deleted, dirs' = dirs,
         \A e \in DOMAIN dirs \ {d} : files'[e] = files[e],
         \A i, j \in DOMAIN files'[d] : files'[d][i].name = files'[d][j].name => i = j,
         \A r \in Children(d), i \in DOMAIN files'[d] : dirs[r].name # files'[d][i].name
  PROVE  Rows'
<1>1. ParentsAreRows'
  BY DEF Rows, ParentsAreRows
<1>2. \A e : Children(e)' = Children(e)
  BY DEF Children
<1>3. NamesUnique'
  <2> SUFFICES ASSUME NEW e \in DOMAIN dirs
               PROVE  /\ \A i, j \in DOMAIN files'[e] : files'[e][i].name = files'[e][j].name => i = j
                      /\ \A r, t \in Children(e) : dirs[r].name = dirs[t].name => r = t
                      /\ \A r \in Children(e), i \in DOMAIN files'[e] : dirs[r].name # files'[e][i].name
    BY <1>2 DEF NamesUnique
  <2>1. CASE e = d
    BY <2>1 DEF Rows, NamesUnique
  <2>2. CASE e # d
    BY <2>2 DEF Rows, NamesUnique
  <2> QED BY <2>1, <2>2
<1>4. NothingInDeleted'
  BY <1>2 DEF Rows, NothingInDeleted
<1> QED BY <1>1, <1>3, <1>4 DEF Rows

\* A new file is the last of its directory, and the last of the list.
LEMMA OpenCreateKeeps ==
  ASSUME IInv, Distinct, NEW path \in Path, NEW w \in Walks(path), NEW h \in Handle,
         OpenCreate(h, path, w)
  PROVE  IInv'
<1> SUFFICES ASSUME NEW p, p = Parent(path, w), NEW n, n = Last(path),
                    NEW x, x = [name |-> n, data |-> Empty] PROVE IInv'
  OBVIOUS
<1>0. TypeOK /\ Rows /\ Caches /\ Positions /\ ParentsAreRows
  BY DEF IInv, Rows
<1>1. /\ IsAbsent(p, n) /\ dirs' = dirs
      /\ files' = [files EXCEPT ![p] = Append(files[p], x)]
      /\ cache' = Remember(StatKeys(path, w))
      /\ fcache' \in {Enter(f, p, n) : f \in StatFcaches(p, n)}
      /\ handle' = [handle EXCEPT ![h] =
                      [mode |-> "w", dir |-> p, idx |-> Len(files[p]) + 1, path |-> path]]
  BY DEF OpenCreate
<1>2. /\ p \in DOMAIN dirs /\ p \in Nat /\ dirs[p].parent # Deleted /\ n \in Name
      /\ \A i \in 1..Len(files[p]) : files[p][i].name # n
      /\ \A r \in DOMAIN dirs : ~(dirs[r].parent = p /\ dirs[r].name = n)
  BY <1>0, <1>1, IsAbsentFacts
<1>3. /\ files[p] \in Seq(FileRow) /\ Len(files[p]) \in Nat
      /\ DOMAIN files[p] = 1..Len(files[p]) /\ \A i \in 1..Len(files[p]) : files[p][i] \in FileRow
  BY <1>0, <1>2, RowFacts
<1>4. x \in FileRow
  BY <1>2 DEF FileRow, Contents
<1>5. PICK k \in Nat : k = Len(files[p])
  BY <1>3
<1>6. /\ Append(files[p], x) \in Seq(FileRow) /\ Len(Append(files[p], x)) = k + 1
      /\ \A i \in 1..k : Append(files[p], x)[i] = files[p][i]
      /\ Append(files[p], x)[k + 1] = x
  BY <1>3, <1>4, <1>5
<1>7. /\ DirsTyped' /\ FilesTyped' /\ files'[p] = Append(files[p], x)
      /\ \A e \in DOMAIN dirs \ {p} : files'[e] = files[e]
  <2>1. PICK rows \in Seq(FileRow) : rows = Append(files[p], x)
    BY <1>6
  <2>2. files' = [files EXCEPT ![p] = rows] /\ dirs' = dirs
    BY <1>1, <2>1
  <2> QED BY <1>0, <1>2, <2>1, <2>2, FilesUpdate
<1>8. DOMAIN files'[p] = 1..(k + 1) /\ \A i \in 1..(k + 1) : i \in 1..k \/ i = k + 1
  BY <1>6, <1>7, LenProperties
<1>9. Rows'
  <2>1. \A i, j \in DOMAIN files'[p] : files'[p][i].name = files'[p][j].name => i = j
    <3> SUFFICES ASSUME NEW i \in 1..(k + 1), NEW j \in 1..(k + 1),
                        files'[p][i].name = files'[p][j].name
                 PROVE  i = j
      BY <1>8
    <3>1. CASE i \in 1..k /\ j \in 1..k
      BY <1>0, <1>2, <1>3, <1>5, <1>6, <1>7, <3>1 DEF Rows, NamesUnique
    <3>2. CASE ~(i \in 1..k /\ j \in 1..k)
      <4>1. x.name = n
        OBVIOUS
      <4> QED BY <1>2, <1>5, <1>6, <1>7, <1>8, <3>2, <4>1
    <3> QED BY <3>1, <3>2
  <2>2. \A r \in Children(p), i \in DOMAIN files'[p] : dirs[r].name # files'[p][i].name
    <3> SUFFICES ASSUME NEW r \in Children(p), NEW i \in 1..(k + 1)
                 PROVE  dirs[r].name # files'[p][i].name
      BY <1>8
    <3>1. CASE i \in 1..k
      BY <1>0, <1>2, <1>3, <1>5, <1>6, <1>7, <3>1 DEF Rows, NamesUnique
    <3>2. CASE i = k + 1
      BY <1>2, <1>6, <1>7, <3>2 DEF Children
    <3> QED BY <1>8, <3>1, <3>2
  <2> QED BY <1>0, <1>1, <1>2, <1>7, <2>1, <2>2, OneDirRows
<1>10. CacheTyped' /\ CacheTransparent'
  BY <1>0, <1>1, CacheStep DEF Caches
<1>11. FcacheTyped' /\ FcacheAgrees'
  <2>1. PICK f \in StatFcaches(p, n) : fcache' = Enter(f, p, n)
    BY <1>1
  <2>2. /\ DOMAIN f \subseteq DOMAIN dirs /\ f = [d \in DOMAIN f |-> f[d]]
        /\ \A d \in DOMAIN f : f[d] = NamesIn(files[d])
    BY <1>0, WalkFacts, StatFcachesFacts DEF Caches
  <2>3. fcache' = [e \in DOMAIN f |-> IF e = p THEN Append(f[e], n) ELSE f[e]]
    BY <2>1 DEF Enter
  <2>4. Append(NamesIn(files[p]), n) = NamesIn(files'[p])
    <3>1. /\ NamesIn(files[p]) \in Seq(Name \cup {""}) /\ Len(NamesIn(files[p])) = k
          /\ \A i \in 1..k : NamesIn(files[p])[i] = files[p][i].name
      BY <1>3, <1>5, NamesInFacts
    <3>2. PICK s : s = Append(NamesIn(files[p]), n)
      OBVIOUS
    <3>3. /\ s \in Seq(Name \cup {""}) /\ Len(s) = k + 1 /\ s[k + 1] = n
          /\ \A i \in 1..k : s[i] = files[p][i].name
      <4>1. PICK N : N = Name \cup {""}
        OBVIOUS
      <4>2. PICK names \in Seq(N) : names = NamesIn(files[p])
        BY <3>1, <4>1
      <4>3. n \in N /\ k = Len(names) /\ s = Append(names, n)
        BY <1>2, <3>1, <3>2, <4>1, <4>2
      <4>4. /\ s \in Seq(N) /\ Len(s) = k + 1 /\ s[k + 1] = n
            /\ \A i \in 1..k : s[i] = names[i]
        BY <4>3, AppendFacts
      <4> QED BY <3>1, <4>1, <4>2, <4>4
    <3>4. ASSUME NEW i \in 1..(k + 1) PROVE s[i] = files'[p][i].name
      <4>1. CASE i \in 1..k
        BY <1>6, <1>7, <3>3, <4>1
      <4>2. CASE i = k + 1
        <5>1. files'[p][k + 1] = x /\ x.name = n
          BY <1>6, <1>7
        <5> QED BY <3>3, <4>2, <5>1
      <4> QED BY <1>8, <4>1, <4>2
    <3>5. files'[p] \in Seq(FileRow) /\ Len(files'[p]) = k + 1
      BY <1>6, <1>7
    <3> QED BY <3>2, <3>3, <3>4, <3>5, NamesInUnique
  <2>5. \A d \in DOMAIN f : fcache'[d] = NamesIn(files'[d])
    BY <1>7, <2>2, <2>3, <2>4
  <2>6. fcache' = [d \in DOMAIN f |-> fcache'[d]]
    BY <2>3
  <2> QED BY <1>1, <1>7, <2>2, <2>5, <2>6, ListsFacts
<1>12. HandleTyped' /\ Placed(h)' /\ \A g \in Handle \ {h} : handle'[g] = handle[g]
  <2>1. k + 1 \in Nat /\ k + 1 \in 1..Len(files'[p]) /\ files'[p][k + 1].name = Last(path)
    BY <1>6, <1>7
  <2> QED BY <1>0, <1>1, <1>2, <1>5, <2>1, OpenStep
<1>13. Positions'
  <2> SUFFICES ASSUME NEW g \in Handle \ {h} PROVE Placed(g)'
    BY <1>12 DEF Positions
  <2>1. ASSUME NEW d \in DOMAIN dirs
        PROVE  \A i \in 1..Len(files[d]) :
                 i \in 1..Len(files'[d]) /\ files'[d][i].name = files[d][i].name
    <3>1. CASE d = p
      <4> SUFFICES ASSUME NEW i \in 1..k
                   PROVE  i \in 1..(k + 1) /\ files'[p][i].name = files[p][i].name
        BY <1>5, <1>6, <1>7, <3>1
      <4> QED BY <1>6, <1>7
    <3>2. CASE d # p
      BY <1>7, <3>2
    <3> QED BY <3>1, <3>2
  <2> QED BY <1>0, <1>1, <1>12, <2>1, PlacedStep DEF Positions
<1> QED BY <1>7, <1>9, <1>10, <1>11, <1>12, <1>13, Types DEF IInv, Caches

\* The contents of a row are replaced, its position and its name are not.
LEMMA SetDataFacts ==
  ASSUME NEW rows \in Seq(FileRow), NEW i \in 1..Len(rows), NEW x \in Contents
  PROVE  /\ SetData(rows, i, x) \in Seq(FileRow) /\ Len(SetData(rows, i, x)) = Len(rows)
         /\ \A j \in 1..Len(rows) : SetData(rows, i, x)[j].name = rows[j].name
         /\ \A j \in 1..Len(rows) : j # i => SetData(rows, i, x)[j] = rows[j]
<1>1. PICK n \in Nat : n = Len(rows)
  BY LenProperties
<1>2. \A j \in 1..n : rows[j] \in FileRow
  BY <1>1, ElementOfSeq
<1>3. ~(i > Len(rows)) /\ \A j \in 1..n : j <= Len(rows)
  BY <1>1
<1>4. PICK s : s = SetData(rows, i, x)
  OBVIOUS
<1>5. s = [j \in 1..n |-> [name |-> rows[j].name, data |-> IF j = i THEN x ELSE rows[j].data]]
  BY <1>1, <1>3, <1>4 DEF SetData
<1>6. s \in [1..n -> FileRow]
  BY <1>2, <1>5 DEF FileRow
<1>7. s \in Seq(FileRow) /\ Len(s) = n
  BY <1>1, <1>6, SeqDef
<1>8. \A j \in 1..n : s[j].name = rows[j].name
  BY <1>5
<1>9. ASSUME NEW j \in 1..n, j # i PROVE s[j] = rows[j]
  <2>1. s[j] = [name |-> rows[j].name, data |-> rows[j].data]
    BY <1>5, <1>9
  <2> QED BY <1>2, <2>1 DEF FileRow
<1> QED BY <1>1, <1>4, <1>7, <1>8, <1>9

\* A channel opened for writing is closed: only contents change.
LEMMA DoCloseKeeps ==
  ASSUME IInv, NEW h \in Handle, NEW x \in Data, DoClose(h, x)
  PROVE  IInv'
<1> SUFFICES ASSUME NEW d, d = handle[h].dir, NEW i, i = handle[h].idx PROVE IInv'
  OBVIOUS
<1>0. TypeOK /\ Rows /\ Caches /\ Positions
  BY DEF IInv
<1>1. /\ dirs' = dirs /\ cache' = cache /\ fcache' = fcache
      /\ files' = [files EXCEPT ![d] = SetData(files[d], i, x)]
      /\ handle' = [handle EXCEPT ![h] = Closed]
  BY DEF DoClose
<1>2. d \in DOMAIN dirs /\ i \in 1..Len(files[d])
  BY <1>0 DEF DoClose, Positions, Placed
<1>3. files[d] \in Seq(FileRow) /\ Len(files[d]) \in Nat /\ DOMAIN files[d] = 1..Len(files[d])
  BY <1>0, <1>2, RowFacts
<1>4. PICK rows \in Seq(FileRow) :
        /\ rows = SetData(files[d], i, x) /\ Len(rows) = Len(files[d])
        /\ \A j \in 1..Len(files[d]) : rows[j].name = files[d][j].name
  BY <1>2, <1>3, SetDataFacts DEF Contents
<1>5. /\ DirsTyped' /\ FilesTyped' /\ files'[d] = rows
      /\ \A e \in DOMAIN dirs \ {d} : files'[e] = files[e]
  BY <1>0, <1>1, <1>2, <1>4, FilesUpdate
<1>6. DOMAIN files'[d] = 1..Len(files[d])
  BY <1>4, <1>5, LenProperties
<1>7. Rows'
  <2>1. dirs[d].parent # Deleted
    <3>1. files[d] # <<>>
      BY <1>2, <1>3
    <3> QED BY <1>0, <1>2, <3>1 DEF Rows, NothingInDeleted
  <2>2. /\ \A j, k \in DOMAIN files'[d] : files'[d][j].name = files'[d][k].name => j = k
        /\ \A r \in Children(d), j \in DOMAIN files'[d] : dirs[r].name # files'[d][j].name
    BY <1>0, <1>2, <1>3, <1>4, <1>5, <1>6 DEF Rows, NamesUnique
  <2> QED BY <1>0, <1>1, <1>2, <1>5, <2>1, <2>2, OneDirRows
<1>8. CacheTyped' /\ CacheTransparent'
  BY <1>0, <1>1, Types DEF CacheTyped, Caches, CacheTransparent, Select
<1>9. FcacheTyped' /\ FcacheAgrees'
  <2>1. NamesIn(rows) = NamesIn(files[d])
    BY <1>4 DEF NamesIn
  <2>2. PICK D \in SUBSET DOMAIN dirs : D = DOMAIN fcache /\ fcache = [e \in D |-> fcache[e]]
    BY <1>0 DEF TypeOK
  <2>3. \A e \in D : fcache[e] = NamesIn(files[e])
    BY <1>0, <2>2 DEF Caches, FcacheAgrees, NamesOf, NamesIn
  <2>4. \A e \in D : fcache'[e] = NamesIn(files'[e])
    BY <1>1, <1>5, <2>1, <2>2, <2>3
  <2> QED BY <1>1, <1>5, <2>2, <2>4, ListsFacts
<1>10. HandleTyped' /\ Placed(h)' /\ \A g \in Handle \ {h} : handle'[g] = handle[g]
  BY <1>0, <1>1, CloseStep
<1>11. Positions'
  <2> SUFFICES ASSUME NEW g \in Handle \ {h} PROVE Placed(g)'
    BY <1>10 DEF Positions
  <2>1. ASSUME NEW e \in DOMAIN dirs
        PROVE  \A j \in 1..Len(files[e]) :
                 j \in 1..Len(files'[e]) /\ files'[e][j].name = files[e][j].name
    BY <1>4, <1>5
  <2> QED BY <1>0, <1>1, <1>10, <2>1, PlacedStep DEF Positions
<1> QED BY <1>5, <1>7, <1>8, <1>9, <1>10, <1>11, Types DEF IInv, Caches

\* A new directory is the last row, with no files and nothing below it.
LEMMA MkdirKeeps ==
  ASSUME IInv, Distinct, NEW path \in Path, NEW w \in Walks(path), Mkdir(path, w)
  PROVE  IInv'
<1> SUFFICES ASSUME NEW p, p = Parent(path, w), NEW n, n = Last(path),
                    NEW x, x = [name |-> n, parent |-> p] PROVE IInv'
  OBVIOUS
<1>0. TypeOK /\ Rows /\ Caches /\ Positions /\ ParentsAreRows
  BY DEF IInv, Rows
<1>1. /\ IsAbsent(p, n) /\ Len(dirs) < MaxRow
      /\ dirs' = Append(dirs, x) /\ files' = Append(files, <<>>)
      /\ fcache' \in StatFcaches(p, n) /\ cache' = cache /\ handle' = handle
  BY DEF Mkdir
<1>2. /\ p \in DOMAIN dirs /\ p \in Nat /\ dirs[p].parent # Deleted /\ n \in Name
      /\ \A i \in 1..Len(files[p]) : files[p][i].name # n
      /\ \A r \in DOMAIN dirs : ~(dirs[r].parent = p /\ dirs[r].name = n)
      /\ <<p, n>> \notin DOMAIN cache
  BY <1>0, <1>1, IsAbsentFacts
<1>3. PICK k \in Nat : k = Len(dirs)
  BY <1>0, RowFacts
<1>4. /\ DOMAIN dirs = 1..k /\ Len(files) = k /\ DOMAIN files = 1..k /\ k >= 1 /\ Root \in 1..k
  BY <1>0, <1>3, RowFacts
<1>5. /\ dirs' \in Seq(DirRow) /\ Len(dirs') = k + 1 /\ dirs'[k + 1] = x
      /\ \A i \in 1..k : dirs'[i] = dirs[i]
  <2>1. x \in DirRow
    <3>1. n \in Name \cup {"", "<root>"} /\ p \in Int
      <4>1. n \in Name /\ p \in Nat
        BY <1>2
      <4>2. p \in Int
        BY <4>1
      <4> QED BY <4>1, <4>2
    <3>2. \A A, B : n \in A /\ p \in B => [name |-> n, parent |-> p] \in [name : A, parent : B]
      OBVIOUS
    <3> QED BY <3>1, <3>2 DEF DirRow
  <2>2. dirs \in Seq(DirRow)
    BY <1>0, Types DEF DirsTyped
  <2> QED BY <1>1, <1>3, <2>1, <2>2, AppendFacts
<1>6. /\ files' \in Seq(Seq(FileRow)) /\ Len(files') = k + 1 /\ files'[k + 1] = <<>>
      /\ \A i \in 1..k : files'[i] = files[i]
  <2>1. PICK T : T = Seq(FileRow)
    OBVIOUS
  <2>2. PICK e \in T : e = <<>>
    BY <2>1, EmptySeq
  <2>3. files \in Seq(T)
    BY <1>0, <2>1, Types DEF FilesTyped
  <2>4. /\ files' \in Seq(T) /\ Len(files') = k + 1 /\ files'[k + 1] = e
        /\ \A i \in 1..k : files'[i] = files[i]
    BY <1>1, <1>4, <2>2, <2>3, AppendFacts
  <2> QED BY <2>1, <2>2, <2>4
<1>7. DOMAIN dirs' = 1..(k + 1) /\ DOMAIN files' = 1..(k + 1)
      /\ \A r \in 1..(k + 1) : r \in 1..k \/ r = k + 1
  BY <1>5, <1>6, LenProperties
<1>8. DirsTyped' /\ FilesTyped'
  <2>1. k + 1 \in 1..(MaxRow + 1)
    BY <1>1, <1>3, BoundAssumption
  <2> QED BY <1>5, <1>6, <2>1 DEF DirsTyped, FilesTyped
<1>9. x.parent = p /\ x.name = n /\ k + 1 \notin 1..k /\ (1..k) \subseteq 1..(k + 1)
  BY <1>3
<1>10. \A r \in 1..k : dirs[r].parent # k + 1
  <2>1. \A r \in 1..k : dirs[r].parent \in (1..k) \cup {RootParent, Deleted}
    BY <1>0, <1>4 DEF ParentsAreRows
  <2>2. k + 1 # RootParent /\ k + 1 # Deleted
    BY <1>3 DEF RootParent, Deleted
  <2> QED BY <1>9, <2>1, <2>2
<1>11. /\ Children(p)' = Children(p) \cup {k + 1} /\ Children(k + 1)' = {}
       /\ \A e \in 1..k : e # p => Children(e)' = Children(e)
  <2>0. \A e : Children(e)' = {s \in 1..(k + 1) : dirs'[s].parent = e}
    BY <1>7 DEF Children
  <2>00. \A e : Children(e) = {s \in 1..k : dirs[s].parent = e}
    BY <1>4 DEF Children
  <2>1. p # k + 1
    BY <1>2, <1>4, <1>9
  <2>2. Children(k + 1)' = {}
    BY <2>0, <2>1, <1>5, <1>7, <1>9, <1>10
  <2>3. \A e : e # p => {s \in 1..(k + 1) : dirs'[s].parent = e} = {s \in 1..k : dirs[s].parent = e}
    BY <1>5, <1>7, <1>9
  <2>4. {s \in 1..(k + 1) : dirs'[s].parent = p} = {s \in 1..k : dirs[s].parent = p} \cup {k + 1}
    BY <1>5, <1>7, <1>9
  <2> QED BY <2>0, <2>00, <2>2, <2>3, <2>4
<1>12. Rows'
  <2>1. ParentsAreRows'
    <3>1. \A r \in 1..k : dirs'[r].parent \in (1..(k + 1)) \cup {RootParent, Deleted}
      BY <1>0, <1>4, <1>5, <1>9 DEF ParentsAreRows
    <3>2. dirs'[k + 1].parent \in 1..(k + 1)
      BY <1>2, <1>4, <1>5, <1>9
    <3>3. dirs'[Root].parent = RootParent
      BY <1>0, <1>4, <1>5 DEF ParentsAreRows
    <3> QED BY <1>7, <3>1, <3>2, <3>3 DEF ParentsAreRows
  <2>2. NamesUnique'
    <3> SUFFICES ASSUME NEW e \in 1..(k + 1)
                 PROVE  /\ \A i, j \in DOMAIN files'[e] : files'[e][i].name = files'[e][j].name => i = j
                        /\ \A s, t \in Children(e)' : dirs'[s].name = dirs'[t].name => s = t
                        /\ \A s \in Children(e)', i \in DOMAIN files'[e] : dirs'[s].name # files'[e][i].name
      BY <1>7 DEF NamesUnique
    <3>1. CASE e = k + 1
      BY <1>6, <1>11, <3>1
    <3>2. CASE e \in 1..k /\ e # p
      <4>1. Children(e)' = Children(e) /\ Children(e) \subseteq 1..k
        BY <1>4, <1>11, <3>2 DEF Children
      <4>2. files'[e] = files[e] /\ \A s \in Children(e) : dirs'[s] = dirs[s]
        BY <1>5, <1>6, <3>2, <4>1
      <4> QED BY <1>0, <1>4, <3>2, <4>1, <4>2 DEF Rows, NamesUnique
    <3>3. CASE e = p
      <4>1. files'[p] = files[p] /\ DOMAIN files[p] = 1..Len(files[p])
        BY <1>0, <1>2, <1>4, <1>6, RowFacts
      <4>2. Children(p) \subseteq 1..k /\ \A s \in Children(p) : dirs[s].parent = p
        BY <1>4 DEF Children
      <4>3. \A s \in Children(p) : dirs'[s] = dirs[s] /\ dirs[s].name # n
        BY <1>2, <1>4, <1>5, <4>2
      <4>4. dirs'[k + 1].name = n
        BY <1>5, <1>9
      <4>5. \A i, j \in DOMAIN files'[p] : files'[p][i].name = files'[p][j].name => i = j
        BY <1>0, <1>2, <4>1 DEF Rows, NamesUnique
      <4>6. \A s, t \in Children(p) \cup {k + 1} : dirs'[s].name = dirs'[t].name => s = t
        BY <1>0, <1>2, <4>3, <4>4 DEF Rows, NamesUnique
      <4>7. \A s \in Children(p) \cup {k + 1}, i \in DOMAIN files'[p] : dirs'[s].name # files'[p][i].name
        BY <1>0, <1>2, <4>1, <4>3, <4>4 DEF Rows, NamesUnique
      <4> QED BY <1>11, <3>3, <4>5, <4>6, <4>7
    <3> QED BY <1>7, <3>1, <3>2, <3>3
  <2>3. NothingInDeleted'
    <3> SUFFICES ASSUME NEW e \in 1..(k + 1), dirs'[e].parent = Deleted
                 PROVE  files'[e] = <<>> /\ Children(e)' = {}
      BY <1>7 DEF NothingInDeleted
    <3>1. CASE e = k + 1
      BY <1>6, <1>11, <3>1
    <3>2. CASE e \in 1..k
      <4>1. dirs[e].parent = Deleted /\ e # p
        BY <1>2, <1>5, <3>2
      <4> QED BY <1>0, <1>4, <1>6, <1>11, <3>2, <4>1 DEF Rows, NothingInDeleted
    <3> QED BY <1>7, <3>1, <3>2
  <2> QED BY <2>1, <2>2, <2>3 DEF Rows
<1>13. CacheTyped' /\ CacheTransparent'
  <2>1. DOMAIN cache \subseteq (1..k) \X Name /\ cache \in [DOMAIN cache -> 1..k]
    BY <1>0, <1>4 DEF TypeOK
  <2>2. CacheTyped'
    BY <1>1, <1>7, <1>9, <2>1 DEF CacheTyped
  <2>3. ASSUME NEW c \in DOMAIN cache PROVE Select(c[1], c[2])' = Select(c[1], c[2])
    <3>1. c = <<c[1], c[2]>>
      BY <2>1
    <3>2. ~(c[1] = p /\ c[2] = n)
      BY <1>2, <2>3, <3>1
    <3>3. \A r \in 1..(k + 1) :
            (dirs'[r].parent = c[1] /\ dirs'[r].name = c[2])
              <=> (r \in 1..k /\ dirs[r].parent = c[1] /\ dirs[r].name = c[2])
      BY <1>5, <1>7, <1>9, <3>2
    <3> QED BY <1>0, <1>4, <1>7, <1>9, <3>3, SelectSame
  <2> QED BY <1>0, <1>1, <2>2, <2>3 DEF Caches, CacheTransparent
<1>14. FcacheTyped' /\ FcacheAgrees'
  <2>1. /\ DOMAIN fcache' \subseteq DOMAIN dirs /\ fcache' = [d \in DOMAIN fcache' |-> fcache'[d]]
        /\ \A d \in DOMAIN fcache' : fcache'[d] = NamesIn(files[d])
    BY <1>0, <1>1, WalkFacts, StatFcachesFacts DEF Caches
  <2>2. PICK D \in SUBSET DOMAIN dirs' : D = DOMAIN fcache'
    BY <1>4, <1>7, <1>9, <2>1
  <2>3. fcache' = [d \in D |-> fcache'[d]] /\ \A d \in D : fcache'[d] = NamesIn(files'[d])
    BY <1>4, <1>6, <2>1, <2>2
  <2> QED BY <1>8, <2>2, <2>3, ListsFacts
<1>15. HandleTyped'
  BY <1>0, <1>1, Types DEF HandleTyped
<1>16. Positions'
  <2> SUFFICES ASSUME NEW g \in Handle PROVE Placed(g)'
    BY DEF Positions
  <2>1. \A d \in DOMAIN dirs : d \in DOMAIN dirs' /\ files'[d] = files[d]
    BY <1>4, <1>6, <1>7, <1>9
  <2> QED BY <1>0, <1>1, <2>1, PlacedStep DEF Positions
<1> QED BY <1>8, <1>12, <1>13, <1>14, <1>15, <1>16, Types DEF IInv, Caches

\* A file is removed: those behind it move up, in the view and in the list.
LEMMA DeleteFileKeeps ==
  ASSUME IInv, Distinct, NEW path \in Path, NEW w \in Walks(path), DeleteFile(path, w)
  PROVE  IInv'
<1> SUFFICES ASSUME NEW p, p = Parent(path, w), NEW n, n = Last(path),
                    NEW i, i = FileAt(p, n) PROVE IInv'
  OBVIOUS
<1>0. TypeOK /\ Rows /\ Caches /\ Positions /\ ParentsAreRows
  BY DEF IInv, Rows
<1>1. /\ IsFile(p, n) /\ dirs' = dirs /\ handle' = handle
      /\ files' = [files EXCEPT ![p] = RemoveAt(files[p], i)]
      /\ cache' = Remember(StatKeys(path, w))
      /\ fcache' \in {Leave(f, p, i) : f \in StatFcaches(p, n)}
      /\ \A g \in Handle : handle[g].dir # p
  BY DEF DeleteFile, Undisturbed, Distinct
<1>2. p \in DOMAIN dirs /\ dirs[p].parent # Deleted /\ i \in 1..Len(files[p])
  BY <1>0, <1>1, IsFileFacts
<1>3. files[p] \in Seq(FileRow) /\ DOMAIN files[p] = 1..Len(files[p]) /\ Len(files[p]) \in Nat
  BY <1>0, <1>2, RowFacts
<1>4. PICK k \in Nat : k = Len(files[p])
  BY <1>3
<1>5. PICK rows \in Seq(FileRow) :
        /\ rows = RemoveAt(files[p], i) /\ Len(rows) = k - 1
        /\ \A j \in 1..(k - 1) : rows[j] = IF j < i THEN files[p][j] ELSE files[p][j + 1]
  <2>1. PICK s \in Seq(FileRow) : s = files[p]
    BY <1>3
  <2>2. i \in 1..Len(s)
    BY <1>2, <2>1
  <2>3. /\ RemoveAt(s, i) \in Seq(FileRow) /\ Len(RemoveAt(s, i)) = Len(s) - 1
        /\ \A j \in 1..(Len(s) - 1) :
             RemoveAt(s, i)[j] = IF j < i THEN s[j] ELSE s[j + 1]
    BY <2>2, RemoveAtFacts
  <2> QED BY <1>4, <2>1, <2>3
<1>6. /\ DirsTyped' /\ FilesTyped' /\ files'[p] = rows
      /\ \A e \in DOMAIN dirs \ {p} : files'[e] = files[e]
  BY <1>0, <1>1, <1>2, <1>5, FilesUpdate
<1>7. /\ DOMAIN rows = 1..(k - 1) /\ i \in 1..k
      /\ \A j \in 1..(k - 1) : j \in 1..k /\ j + 1 \in 1..k
  BY <1>2, <1>4, <1>5, LenProperties
<1>8. Rows'
  <2>1. ASSUME NEW a \in 1..(k - 1), NEW b \in 1..(k - 1), rows[a].name = rows[b].name
        PROVE  a = b
    <3>1. PICK a1 \in 1..k : a1 = IF a < i THEN a ELSE a + 1
      BY <1>7
    <3>2. PICK b1 \in 1..k : b1 = IF b < i THEN b ELSE b + 1
      BY <1>7
    <3>3. rows[a] = files[p][a1] /\ rows[b] = files[p][b1]
      BY <1>5, <3>1, <3>2
    <3>4. a1 = b1
      BY <1>0, <1>2, <1>3, <1>4, <2>1, <3>3 DEF Rows, NamesUnique
    <3> QED BY <1>7, <3>1, <3>2, <3>4
  <2>2. ASSUME NEW r \in Children(p), NEW a \in 1..(k - 1) PROVE dirs[r].name # rows[a].name
    <3>1. PICK a1 \in 1..k : rows[a] = files[p][a1]
      BY <1>5, <1>7
    <3> QED BY <1>0, <1>2, <1>3, <1>4, <3>1 DEF Rows, NamesUnique
  <2>3. /\ \A a, b \in DOMAIN files'[p] : files'[p][a].name = files'[p][b].name => a = b
        /\ \A r \in Children(p), a \in DOMAIN files'[p] : dirs[r].name # files'[p][a].name
    BY <1>6, <1>7, <2>1, <2>2
  <2> QED BY <1>0, <1>1, <1>2, <1>6, <2>3, OneDirRows
<1>9. CacheTyped' /\ CacheTransparent'
  BY <1>0, <1>1, CacheStep DEF Caches
<1>10. FcacheTyped' /\ FcacheAgrees'
  <2>1. PICK f \in StatFcaches(p, n) : fcache' = Leave(f, p, i)
    BY <1>1
  <2>2. /\ DOMAIN f \subseteq DOMAIN dirs /\ f = [d \in DOMAIN f |-> f[d]]
        /\ \A d \in DOMAIN f : f[d] = NamesIn(files[d])
    BY <1>0, WalkFacts, StatFcachesFacts DEF Caches
  <2>3. fcache' = [e \in DOMAIN f |-> IF e = p THEN RemoveAt(f[e], i) ELSE f[e]]
    BY <2>1 DEF Leave
  <2>4. RemoveAt(NamesIn(files[p]), i) = NamesIn(rows)
    <3>1. PICK N : N = Name \cup {""}
      OBVIOUS
    <3>2. PICK s \in Seq(N) :
            s = NamesIn(files[p]) /\ Len(s) = k /\ \A j \in 1..k : s[j] = files[p][j].name
      BY <1>3, <1>4, <3>1, NamesInFacts
    <3>3. i \in 1..Len(s)
      BY <1>7, <3>2
    <3>4. PICK t \in Seq(N) :
            /\ t = RemoveAt(s, i) /\ Len(t) = k - 1
            /\ \A j \in 1..(k - 1) : t[j] = IF j < i THEN s[j] ELSE s[j + 1]
      <4>1. /\ RemoveAt(s, i) \in Seq(N) /\ Len(RemoveAt(s, i)) = Len(s) - 1
            /\ \A j \in 1..(Len(s) - 1) :
                 RemoveAt(s, i)[j] = IF j < i THEN s[j] ELSE s[j + 1]
        BY <3>3, RemoveAtFacts
      <4> QED BY <3>2, <4>1
    <3>5. ASSUME NEW j \in 1..(k - 1) PROVE t[j] = rows[j].name
      <4>1. CASE j < i
        <5>1. t[j] = s[j] /\ rows[j] = files[p][j]
          BY <1>5, <3>4, <4>1
        <5> QED BY <1>7, <3>2, <5>1
      <4>2. CASE ~(j < i)
        <5>1. t[j] = s[j + 1] /\ rows[j] = files[p][j + 1]
          BY <1>5, <3>4, <4>2
        <5> QED BY <1>7, <3>2, <5>1
      <4> QED BY <4>1, <4>2
    <3>6. t = NamesIn(rows)
      BY <1>5, <3>1, <3>4, <3>5, NamesInUnique
    <3> QED BY <3>2, <3>4, <3>6
  <2>5. \A d \in DOMAIN f : fcache'[d] = NamesIn(files'[d])
    BY <1>6, <2>2, <2>3, <2>4
  <2>6. fcache' = [d \in DOMAIN f |-> fcache'[d]]
    BY <2>3
  <2> QED BY <1>1, <1>6, <2>2, <2>5, <2>6, ListsFacts
<1>11. HandleTyped'
  BY <1>0, <1>1, Types DEF HandleTyped
<1>12. Positions'
  <2> SUFFICES ASSUME NEW g \in Handle PROVE Placed(g)'
    BY DEF Positions
  <2>1. \A d \in DOMAIN dirs : d = handle[g].dir => d \in DOMAIN dirs' /\ files'[d] = files[d]
    BY <1>1, <1>6
  <2> QED BY <1>0, <1>1, <2>1, PlacedStep DEF Positions
<1> QED BY <1>6, <1>8, <1>9, <1>10, <1>11, <1>12, Types DEF IInv, Caches

\* A subtree is closed under going down, and the root is in no other's.
LEMMA SubtreeFacts ==
  ASSUME TypeOK, ParentsAreRows, NEW r \in DOMAIN dirs
  PROVE  /\ Subtree(r) \subseteq DOMAIN dirs /\ r \in Subtree(r)
         /\ \A d \in Subtree(r) : Children(d) \subseteq Subtree(r)
         /\ dirs[r].parent # RootParent => Root \notin Subtree(r)
<1>1. Subtree(r) \subseteq DOMAIN dirs /\ r \in Subtree(r)
  BY DEF Subtree
<1>2. ASSUME NEW d \in Subtree(r), NEW s \in Children(d) PROVE s \in Subtree(r)
  <2> SUFFICES ASSUME NEW C \in SUBSET DOMAIN dirs, r \in C, \A e \in C : Children(e) \subseteq C
               PROVE  s \in C
    BY DEF Subtree, Children
  <2>1. d \in C
    BY DEF Subtree
  <2> QED BY <1>2, <2>1
<1>3. ASSUME dirs[r].parent # RootParent PROVE Root \notin Subtree(r)
  <2>1. PICK C \in SUBSET DOMAIN dirs : C = DOMAIN dirs \ {Root}
    OBVIOUS
  <2>2. r \in C
    BY <1>3, <2>1 DEF ParentsAreRows
  <2>3. Root \notin UNION {Children(e) : e \in DOMAIN dirs}
    <3>1. DOMAIN dirs \subseteq Nat
      BY RowFacts
    <3>2. RootParent \notin DOMAIN dirs
      BY <3>1 DEF RootParent
    <3> QED BY <3>2 DEF ParentsAreRows, Children
  <2>4. \A e \in C : Children(e) \subseteq C
    BY <2>1, <2>3 DEF Children
  <2> QED BY <2>1, <2>2, <2>4 DEF Subtree
<1> QED BY <1>1, <1>2, <1>3

\* A directory is deleted with all that is below it.
LEMMA DeleteDirKeeps ==
  ASSUME IInv, Distinct, NEW path \in Path, NEW w \in Walks(path), NEW recursive \in BOOLEAN,
         DeleteDir(path, w, recursive)
  PROVE  IInv'
<1> SUFFICES ASSUME NEW p, p = Parent(path, w), NEW n, n = Last(path),
                    NEW r, r = Lookup(p, n) PROVE IInv'
  OBVIOUS
<1>a. PICK gone, U, K, V :
        /\ gone = Subtree(r) /\ U = UnsetKeys(gone, r, n) /\ K = StatKeys(path, w)
        /\ V = {<<dirs[s].parent, dirs[s].name>> : s \in gone \ {r}}
  OBVIOUS
<1>b. PICK x : x = [name |-> "", parent |-> Deleted]
  OBVIOUS
<1>0. TypeOK /\ Rows /\ Caches /\ Positions /\ ParentsAreRows
  BY DEF IInv, Rows
<1>1. /\ IsDir(p, n) /\ handle' = handle /\ \A g \in Handle : handle[g].dir \notin gone
      /\ dirs' = [s \in DOMAIN dirs |-> IF s \in gone THEN x ELSE dirs[s]]
      /\ files' = [s \in DOMAIN files |-> IF s \in gone THEN <<>> ELSE files[s]]
      /\ cache' = [k \in DOMAIN Remember(K \cup V) \ U |-> Remember(K \cup V)[k]]
      /\ \E D \in SUBSET (DOMAIN fcache \cup gone \cup {p}) :
           fcache' = [d \in D |-> IF d \in gone THEN <<>> ELSE Listed(d)]
  BY <1>a, <1>b DEF DeleteDir, Undisturbed, Distinct
<1>2. /\ p \in DOMAIN dirs /\ r \in DOMAIN dirs
      /\ dirs[r].parent = p /\ dirs[r].name = n
  BY <1>0, <1>1, IsDirFacts
<1>3. DOMAIN dirs \subseteq Nat \ {0} /\ DOMAIN files = DOMAIN dirs /\ Root \in DOMAIN dirs
  BY <1>0, RowFacts
<1>4. RootParent \notin DOMAIN dirs /\ Deleted \notin DOMAIN dirs
  BY <1>3 DEF RootParent, Deleted
<1>5. /\ gone \subseteq DOMAIN dirs /\ r \in gone /\ Root \notin gone
      /\ \A d \in gone : Children(d) \subseteq gone
  BY <1>0, <1>2, <1>4, <1>a, SubtreeFacts
<1>6. PICK k \in Nat : k = Len(dirs) /\ k = Len(files) /\ DOMAIN dirs = 1..k
  BY <1>0, RowFacts
<1>7. DirsTyped'
  <2>1. x \in DirRow
    <3>1. "" \in Name \cup {"", "<root>"} /\ Deleted \in Int
      BY DEF Deleted
    <3>2. \A A, B, m, q : m \in A /\ q \in B => [name |-> m, parent |-> q] \in [name : A, parent : B]
      OBVIOUS
    <3> QED BY <1>b, <3>1, <3>2 DEF DirRow
  <2>2. \A s \in 1..k : dirs[s] \in DirRow
    BY <1>0, <1>6, RowFacts
  <2>3. dirs' \in [1..k -> DirRow]
    BY <1>1, <1>6, <2>1, <2>2
  <2>4. dirs' \in Seq(DirRow) /\ Len(dirs') = k
    BY <2>3, SeqDef
  <2> QED BY <1>0, <1>6, <2>4, Types DEF DirsTyped
<1>8. FilesTyped'
  <2>1. \A s \in 1..k : files[s] \in Seq(FileRow)
    BY <1>0, <1>6, RowFacts
  <2>2. <<>> \in Seq(FileRow)
    BY EmptySeq
  <2>3. PICK T : T = Seq(FileRow)
    OBVIOUS
  <2>4. files' \in [1..k -> T]
    BY <1>1, <1>3, <1>6, <2>1, <2>2, <2>3
  <2>5. files' \in Seq(T) /\ Len(files') = k
    BY <2>4, SeqDef
  <2>6. Len(dirs') = k
    BY <1>1, <1>6
  <2> QED BY <2>3, <2>5, <2>6 DEF FilesTyped
<1>9. /\ DOMAIN dirs' = DOMAIN dirs
      /\ \A s \in gone : dirs'[s] = x /\ files'[s] = <<>>
      /\ \A s \in DOMAIN dirs \ gone : dirs'[s] = dirs[s] /\ files'[s] = files[s]
  BY <1>1, <1>3, <1>5
<1>9a. \A s \in gone : dirs'[s].parent = Deleted
  <2>1. x.parent = Deleted
    BY <1>b
  <2> QED BY <1>9, <2>1
<1>10. \A e \in DOMAIN dirs : Children(e)' \subseteq Children(e) \ gone
  BY <1>4, <1>9, <1>9a DEF Children
<1>11. Rows'
  <2>1. ParentsAreRows'
    <3>2. \A s \in DOMAIN dirs : dirs'[s].parent \in DOMAIN dirs \cup {RootParent, Deleted}
      BY <1>0, <1>9, <1>9a DEF ParentsAreRows
    <3>3. dirs'[Root].parent = RootParent
      BY <1>0, <1>3, <1>5, <1>9 DEF ParentsAreRows
    <3> QED BY <1>9, <3>2, <3>3 DEF ParentsAreRows
  <2>2. NamesUnique'
    <3> SUFFICES ASSUME NEW e \in DOMAIN dirs
                 PROVE  /\ \A i, j \in DOMAIN files'[e] : files'[e][i].name = files'[e][j].name => i = j
                        /\ \A s, t \in Children(e)' : dirs'[s].name = dirs'[t].name => s = t
                        /\ \A s \in Children(e)', i \in DOMAIN files'[e] : dirs'[s].name # files'[e][i].name
      BY <1>9 DEF NamesUnique
    <3>1. Children(e)' \subseteq Children(e) /\ \A s \in Children(e)' : dirs'[s] = dirs[s]
      BY <1>9, <1>10 DEF Children
    <3>2. CASE e \in gone
      BY <1>0, <1>9, <3>1, <3>2 DEF Rows, NamesUnique
    <3>3. CASE e \notin gone
      BY <1>0, <1>9, <3>1, <3>3 DEF Rows, NamesUnique
    <3> QED BY <3>2, <3>3
  <2>3. NothingInDeleted'
    <3> SUFFICES ASSUME NEW e \in DOMAIN dirs, dirs'[e].parent = Deleted
                 PROVE  files'[e] = <<>> /\ Children(e)' = {}
      BY <1>9 DEF NothingInDeleted
    <3>1. CASE e \in gone
      BY <1>5, <1>9, <1>10, <3>1
    <3>2. CASE e \notin gone
      BY <1>0, <1>9, <1>10, <3>2 DEF Rows, NothingInDeleted
    <3> QED BY <3>1, <3>2
  <2> QED BY <2>1, <2>2, <2>3 DEF Rows
<1>12. CacheTyped' /\ CacheTransparent'
  <2>1. U = {<<dirs[s].parent, dirs[s].name>> : s \in gone}
    <3>1. \A s \in gone : (IF s = r THEN n ELSE dirs[s].name) = dirs[s].name
      BY <1>2
    <3> QED BY <1>a, <3>1 DEF UnsetKeys, Distinct
  <2>2. DOMAIN cache' \subseteq (DOMAIN cache \cup K) /\ DOMAIN cache' \cap U = {}
    <3>1. V \subseteq U
      BY <1>a, <2>1
    <3> QED BY <1>1, <3>1 DEF Remember
  <2>3. PICK M : M = Remember(K)
    OBVIOUS
  <2>4. /\ DOMAIN M = DOMAIN cache \cup K /\ DOMAIN M \subseteq (DOMAIN dirs) \X Name
        /\ M \in [DOMAIN M -> DOMAIN dirs]
        /\ \A c \in DOMAIN M : M[c] = Select(c[1], c[2])
    <3>1. K \subseteq (DOMAIN dirs) \X Name /\ \A c \in K : Lookup(c[1], c[2]) # NoRow
      BY <1>0, <1>a, StatKeysFacts DEF Caches
    <3> QED BY <1>0, <2>3, <3>1, RememberFacts DEF Caches
  <2>5. \A c \in DOMAIN cache' : cache'[c] = M[c]
    BY <1>1, <2>2, <2>3 DEF Remember
  <2>6. ASSUME NEW c \in DOMAIN cache' PROVE Select(c[1], c[2])' = Select(c[1], c[2])
    <3>1. c = <<c[1], c[2]>> /\ c[1] \in DOMAIN dirs
      BY <2>2, <2>4
    <3>2. \A s \in gone : ~(dirs[s].parent = c[1] /\ dirs[s].name = c[2])
      BY <2>1, <2>2, <3>1
    <3>3. \A s \in gone : dirs'[s].parent # c[1]
      BY <1>4, <1>9a, <3>1
    <3>4. \A s \in DOMAIN dirs' :
            (dirs'[s].parent = c[1] /\ dirs'[s].name = c[2])
              <=> (s \in DOMAIN dirs /\ dirs[s].parent = c[1] /\ dirs[s].name = c[2])
      BY <1>9, <3>2, <3>3
    <3> QED BY <1>0, <1>9, <3>4, SelectSame
  <2>7. CacheTransparent'
    BY <2>2, <2>4, <2>5, <2>6 DEF CacheTransparent
  <2>8. CacheTyped'
    <3>1. cache' = [c \in DOMAIN cache' |-> cache'[c]]
      BY <1>1
    <3> QED BY <1>9, <2>2, <2>4, <2>5, <3>1 DEF CacheTyped
  <2> QED BY <2>7, <2>8
<1>13. FcacheTyped' /\ FcacheAgrees'
  <2>1. PICK D \in SUBSET (DOMAIN fcache \cup gone \cup {p}) :
          fcache' = [d \in D |-> IF d \in gone THEN <<>> ELSE Listed(d)]
    BY <1>1
  <2>2. D \subseteq DOMAIN dirs'
    BY <1>0, <1>2, <1>5, <1>9, <2>1 DEF TypeOK
  <2>3. NamesIn(<<>>) = <<>>
    <3>1. <<>> \in Seq(FileRow) /\ <<>> \in Seq(Name \cup {""}) /\ Len(<<>>) = 0
      BY EmptySeq
    <3>2. \A i \in 1..Len(<<>>) : FALSE
      BY <3>1
    <3> QED BY <3>1, <3>2, NamesInUnique
  <2>4. ASSUME NEW d \in D PROVE fcache'[d] = NamesIn(files'[d])
    <3>1. CASE d \in gone
      BY <1>9, <2>1, <2>3, <3>1
    <3>2. CASE d \notin gone
      <4>1. Listed(d) = NamesOf(d)
        BY <1>0 DEF Caches, Listed, FcacheAgrees
      <4> QED BY <1>9, <2>1, <2>2, <3>2, <4>1 DEF NamesOf, NamesIn
    <3> QED BY <3>1, <3>2
  <2>5. fcache' = [d \in D |-> fcache'[d]]
    BY <2>1
  <2> QED BY <1>7, <1>8, <2>2, <2>4, <2>5, ListsFacts
<1>14. HandleTyped'
  BY <1>0, <1>1, Types DEF HandleTyped
<1>15. Positions'
  <2> SUFFICES ASSUME NEW g \in Handle PROVE Placed(g)'
    BY DEF Positions
  <2>1. \A d \in DOMAIN dirs : d = handle[g].dir => d \in DOMAIN dirs' /\ files'[d] = files[d]
    BY <1>1, <1>9
  <2> QED BY <1>0, <1>1, <2>1, PlacedStep DEF Positions
<1> QED BY <1>7, <1>8, <1>11, <1>12, <1>13, <1>14, <1>15, Types DEF IInv, Caches

-----------------------------------------------------------------------------
(* The invariant holds.                                                    *)

\* The empty datafile.
LEMMA InitIInv ==
  ASSUME Init
  PROVE  IInv
<1>1. PICK x \in DirRow : x = [name |-> "<root>", parent |-> RootParent]
  <2>1. RootParent \in Int /\ "<root>" \in Name \cup {"", "<root>"}
    BY DEF RootParent
  <2>2. \A A, B, m, q : m \in A /\ q \in B => [name |-> m, parent |-> q] \in [name : A, parent : B]
    OBVIOUS
  <2> QED BY <2>1, <2>2 DEF DirRow
<1>2. /\ dirs = <<x>> /\ files = << <<>> >> /\ cache = NoEntries /\ fcache = NoEntries
      /\ handle = [h \in Handle |-> Closed]
  BY <1>1 DEF Init
<1>3. dirs \in Seq(DirRow) /\ Len(dirs) = 1 /\ DOMAIN dirs = {1} /\ dirs[1] = x
  BY <1>2
<1>4. DirsTyped
  BY <1>3, BoundAssumption DEF DirsTyped
<1>5. FilesTyped /\ files[1] = <<>>
  <2>1. PICK T : T = Seq(FileRow)
    OBVIOUS
  <2>2. PICK e \in T : e = <<>>
    BY <2>1, EmptySeq
  <2>3. files = <<e>>
    BY <1>2, <2>2
  <2>4. files \in Seq(T) /\ Len(files) = 1 /\ files[1] = e
    BY <2>3
  <2> QED BY <1>3, <2>1, <2>2, <2>4 DEF FilesTyped
<1>6. CacheTyped /\ FcacheTyped /\ Caches
  BY <1>2 DEF CacheTyped, FcacheTyped, Caches, CacheTransparent, FcacheAgrees, NoEntries
<1>7. HandleTyped /\ Positions
  BY <1>2 DEF HandleTyped, Positions, Placed, Closed, NoRow
<1>8. Rows
  <2>1. x.parent = RootParent /\ RootParent # 1 /\ RootParent # Deleted
    BY <1>1 DEF RootParent, Deleted
  <2>2. \A e : Children(e) \subseteq {1}
    BY <1>3 DEF Children
  <2>3. Children(1) = {}
    BY <1>3, <2>1, <2>2 DEF Children
  <2>4. DOMAIN files[1] = {}
    BY <1>5
  <2>5. ParentsAreRows
    BY <1>3, <2>1 DEF ParentsAreRows, Root
  <2>6. NamesUnique
    BY <1>3, <2>3, <2>4 DEF NamesUnique
  <2>7. NothingInDeleted
    BY <1>3, <2>1 DEF NothingInDeleted
  <2> QED BY <2>5, <2>6, <2>7 DEF Rows
<1> QED BY <1>4, <1>5, <1>6, <1>7, <1>8, Types DEF IInv

\* Every step keeps the invariant.
LEMMA NextIInv ==
  ASSUME IInv, Distinct, [Next]_vars
  PROVE  IInv'
<1>1. ASSUME NEW path \in Path, NEW w \in Walks(path), Operation(path, w) PROVE IInv'
  <2>1. CASE Stat(path, w)
    BY <2>1, StatKeeps
  <2>2. CASE Mkdir(path, w)
    BY <2>2, MkdirKeeps
  <2>3. CASE DeleteFile(path, w)
    BY <2>3, DeleteFileKeeps
  <2>4. CASE \E recursive \in BOOLEAN : DeleteDir(path, w, recursive)
    BY <2>4, DeleteDirKeeps
  <2>5. CASE \E h \in Handle : OpenRead(h, path, w)
    BY <2>5, OpenKeeps
  <2>6. CASE \E h \in Handle : OpenWrite(h, path, w)
    BY <2>6, OpenKeeps
  <2>7. CASE \E h \in Handle : OpenCreate(h, path, w)
    BY <2>7, OpenCreateKeeps
  <2> QED BY <1>1, <2>1, <2>2, <2>3, <2>4, <2>5, <2>6, <2>7 DEF Operation
<1>2. CASE \E h \in Handle, x \in Data : DoClose(h, x)
  BY <1>2, DoCloseKeeps
<1>3. CASE \E h \in Handle : CloseRead(h)
  BY <1>3, CloseReadKeeps
<1>4. CASE EvictFcache
  BY <1>4, EvictKeeps
<1>5. CASE Remount
  BY <1>5, RemountKeeps
<1>6. CASE UNCHANGED vars
  <2>1. dirs' = dirs /\ files' = files /\ cache' = cache /\ fcache' = fcache /\ handle' = handle
    BY <1>6 DEF vars
  <2>2. CacheTyped' /\ FcacheTyped' /\ HandleTyped'
    BY <2>1, Types DEF IInv, CacheTyped, FcacheTyped, HandleTyped
  <2>3. CacheTransparent' /\ FcacheAgrees'
    BY <2>1 DEF IInv, Caches, CacheTransparent, Select, FcacheAgrees, NamesOf
  <2> QED BY <2>1, <2>2, <2>3, ReadOnlyKeeps
<1> QED BY <1>1, <1>2, <1>3, <1>4, <1>5, <1>6 DEF Next

\* On the conditions of Distinct, rows, caches and open channels agree in every
\* state: the invariant the theorems below are read off.
THEOREM IInvHolds ==
  ASSUME Distinct
  PROVE  Spec => []IInv
<1>1. Init => IInv
  BY InitIInv
<1>2. IInv /\ [Next]_vars => IInv'
  BY NextIInv
<1> QED BY <1>1, <1>2, PTL DEF Spec

-----------------------------------------------------------------------------
(* What it says of the driver.                                             *)

\* The view, the two arrays and the channels keep their types.
THEOREM TypesHold ==
  ASSUME Distinct
  PROVE  Spec => []TypeOK
<1>1. IInv => TypeOK
  BY DEF IInv
<1> QED BY <1>1, IInvHolds, PTL

\* v::cache answers as mk::select would, whatever is made and deleted.
THEOREM CachesHold ==
  ASSUME Distinct
  PROVE  Spec => []CacheTransparent
<1>1. IInv => CacheTransparent
  BY DEF IInv, Caches
<1> QED BY <1>1, IInvHolds, PTL

\* v::fcache lists the names of a directory in the order of its rows.
THEOREM ListsHold ==
  ASSUME Distinct
  PROVE  Spec => []FcacheAgrees
<1>1. IInv => FcacheAgrees
  BY DEF IInv, Caches
<1> QED BY <1>1, IInvHolds, PTL

\* An open channel is on the row of the file it was opened on.
THEOREM ChannelsHold ==
  ASSUME Distinct
  PROVE  Spec => []HandleOnOwnFile
<1>1. IInv => HandleOnOwnFile
  <2> SUFFICES ASSUME IInv, NEW h \in Handle, handle[h].mode # "closed"
               PROVE  /\ handle[h].idx <= Len(files[handle[h].dir])
                      /\ files[handle[h].dir][handle[h].idx].name = Last(handle[h].path)
    BY DEF HandleOnOwnFile
  <2>1. /\ handle[h].dir \in DOMAIN dirs /\ handle[h].idx \in 1..Len(files[handle[h].dir])
        /\ files[handle[h].dir][handle[h].idx].name = Last(handle[h].path)
    BY DEF IInv, Positions, Placed
  <2>2. Len(files[handle[h].dir]) \in Nat
    BY <2>1, RowFacts DEF IInv
  <2> QED BY <2>1, <2>2
<1> QED BY <1>1, IInvHolds, PTL

\* No two entries of a directory have one name.
THEOREM NamesHold ==
  ASSUME Distinct
  PROVE  Spec => []NamesUnique
<1>1. IInv => NamesUnique
  BY DEF IInv, Rows
<1> QED BY <1>1, IInvHolds, PTL

\* A deleted directory keeps no file and no directory below it.
THEOREM DeletedHold ==
  ASSUME Distinct
  PROVE  Spec => []NothingInDeleted
<1>1. IInv => NothingInDeleted
  BY DEF IInv, Rows
<1> QED BY <1>1, IInvHolds, PTL

\* All of a subtree but its top is below something in it.
LEMMA SubtreeBelowTop ==
  ASSUME TypeOK, NEW r \in DOMAIN dirs
  PROVE  \A s \in Subtree(r) \ {r} : dirs[s].parent \in Subtree(r)
<1> SUFFICES ASSUME NEW s \in Subtree(r), s # r, dirs[s].parent \notin Subtree(r)
             PROVE  FALSE
  OBVIOUS
<1>1. PICK C \in SUBSET DOMAIN dirs : C = Subtree(r) \ {s}
  BY DEF Subtree
<1>2. r \in C
  BY <1>1 DEF Subtree
<1>3. ASSUME NEW d \in C, NEW e \in Children(d) PROVE e \in C
  <2>1. e \in DOMAIN dirs /\ dirs[e].parent = d
    BY DEF Children
  <2>2. e \in Subtree(r)
    <3> SUFFICES ASSUME NEW D \in SUBSET DOMAIN dirs, r \in D, \A f \in D : Children(f) \subseteq D
                 PROVE  e \in D
      BY <2>1 DEF Subtree
    <3>1. d \in D
      BY <1>1 DEF Subtree
    <3> QED BY <1>3, <3>1
  <2>3. e # s
    BY <1>1, <2>1
  <2> QED BY <1>1, <2>2, <2>3
<1>4. s \in C
  BY <1>2, <1>3 DEF Subtree
<1> QED BY <1>1, <1>4

\* What delete of a directory does to the rows: those it flags were not flagged yet
\* and are a directory with all that is below it, and it leaves the others and their
\* files.
LEMMA DeleteDirRows ==
  ASSUME IInv, Distinct, NEW path \in Path, NEW w \in Walks(path), NEW recursive \in BOOLEAN,
         DeleteDir(path, w, recursive)
  PROVE  \E gone \in SUBSET DOMAIN dirs :
           /\ \A d \in gone : /\ Children(d) \subseteq gone
                              /\ dirs[d].parent # Deleted /\ dirs'[d].parent = Deleted
           /\ \E top \in gone : \A d \in gone \ {top} : dirs[d].parent \in gone
           /\ \A d \in DOMAIN dirs \ gone : dirs'[d] = dirs[d] /\ files'[d] = files[d]
<1> SUFFICES ASSUME NEW p, p = Parent(path, w), NEW n, n = Last(path),
                    NEW r, r = Lookup(p, n)
             PROVE  \E gone \in SUBSET DOMAIN dirs :
                      /\ \A d \in gone : /\ Children(d) \subseteq gone
                                         /\ dirs[d].parent # Deleted /\ dirs'[d].parent = Deleted
                      /\ \E top \in gone : \A d \in gone \ {top} : dirs[d].parent \in gone
                      /\ \A d \in DOMAIN dirs \ gone : dirs'[d] = dirs[d] /\ files'[d] = files[d]
  OBVIOUS
<1>0. TypeOK /\ Caches /\ ParentsAreRows
  BY DEF IInv, Rows
<1>1. PICK gone : gone = Subtree(r)
  OBVIOUS
<1>2. PICK x : x.parent = Deleted /\ x = [name |-> "", parent |-> Deleted]
  <2>1. [name |-> "", parent |-> Deleted].parent = Deleted
    OBVIOUS
  <2> QED BY <2>1
<1>3. /\ IsDir(p, n)
      /\ dirs' = [s \in DOMAIN dirs |-> IF s \in gone THEN x ELSE dirs[s]]
      /\ files' = [s \in DOMAIN files |-> IF s \in gone THEN <<>> ELSE files[s]]
  BY <1>1, <1>2 DEF DeleteDir
<1>4. r \in DOMAIN dirs /\ dirs[r].parent \in DOMAIN dirs
  BY <1>0, <1>3, IsDirFacts
<1>5. gone \subseteq DOMAIN dirs /\ r \in gone /\ \A d \in gone : Children(d) \subseteq gone
  BY <1>0, <1>1, <1>4, SubtreeFacts
<1>6. DOMAIN files = DOMAIN dirs /\ DOMAIN dirs \subseteq Nat
  BY <1>0, RowFacts
<1>7. \A d \in gone : dirs'[d].parent = Deleted
  BY <1>2, <1>3, <1>5
<1>8. \A d \in DOMAIN dirs \ gone : dirs'[d] = dirs[d] /\ files'[d] = files[d]
  BY <1>3, <1>6
<1>9. \A d \in gone \ {r} : dirs[d].parent \in gone
  BY <1>0, <1>1, <1>4, SubtreeBelowTop
<1>10. Deleted \notin DOMAIN dirs
  BY <1>6 DEF Deleted
<1>11. \A d \in gone : dirs[d].parent # Deleted
  BY <1>4, <1>5, <1>9, <1>10
<1> QED BY <1>5, <1>7, <1>8, <1>9, <1>11

\* Every other step leaves the directories there are as they are.
LEMMA DirsStay ==
  ASSUME IInv, Distinct, [Next]_vars,
         ~ \E path \in Path : \E w \in Walks(path) : \E recursive \in BOOLEAN :
             DeleteDir(path, w, recursive)
  PROVE  \A r \in DOMAIN dirs : dirs'[r] = dirs[r]
<1>1. CASE dirs' = dirs
  BY <1>1
<1>2. CASE \E x : dirs' = Append(dirs, x)
  <2>1. PICK x : dirs' = Append(dirs, x)
    BY <1>2
  <2>2. dirs \in Seq(DirRow) /\ DOMAIN dirs = 1..Len(dirs) /\ Len(dirs) \in Nat
    BY RowFacts, Types DEF IInv, DirsTyped
  <2> QED BY <2>1, <2>2
<1>3. dirs' = dirs \/ \E x : dirs' = Append(dirs, x)
  <2>1. ASSUME NEW path \in Path, NEW w \in Walks(path), Operation(path, w)
        PROVE  dirs' = dirs \/ \E x : dirs' = Append(dirs, x)
    BY <2>1 DEF Operation, Stat, Mkdir, DeleteFile, OpenRead, OpenWrite, OpenCreate
  <2>2. CASE UNCHANGED vars
    BY <2>2 DEF vars
  <2> QED BY <2>1, <2>2 DEF Next, DoClose, CloseRead, EvictFcache, Remount
<1> QED BY <1>1, <1>2, <1>3

\* A delete flags one entry with all that is below it, and neither it nor any other
\* step touches what is beside.
THEOREM DeletesAreLocal ==
  ASSUME Distinct
  PROVE  Spec => DeleteIsLocal
<1> DEFINE Gone == {r \in DOMAIN dirs : dirs[r].parent # Deleted /\ dirs'[r].parent = Deleted}
           Local ==
             /\ \A r \in DOMAIN dirs \ Gone : dirs'[r] = dirs[r]
             /\ Gone # {} =>
                  /\ \A r \in Gone : Children(r) \subseteq Gone
                  /\ \E top \in Gone : \A r \in Gone \ {top} : dirs[r].parent \in Gone
                  /\ \A r \in DOMAIN files \ Gone : files'[r] = files[r]
<1>1. IInv /\ [Next]_vars => Local
  <2> SUFFICES ASSUME IInv, [Next]_vars PROVE Local
    OBVIOUS
  <2>1. ASSUME NEW path \in Path, NEW w \in Walks(path), NEW recursive \in BOOLEAN,
               DeleteDir(path, w, recursive)
        PROVE  Local
    <3>1. PICK gone \in SUBSET DOMAIN dirs :
            /\ \A d \in gone : /\ Children(d) \subseteq gone
                               /\ dirs[d].parent # Deleted /\ dirs'[d].parent = Deleted
            /\ \E top \in gone : \A d \in gone \ {top} : dirs[d].parent \in gone
            /\ \A d \in DOMAIN dirs \ gone : dirs'[d] = dirs[d] /\ files'[d] = files[d]
      BY <2>1, DeleteDirRows
    <3>2. Gone = gone
      BY <3>1
    <3>3. DOMAIN files = DOMAIN dirs
      BY RowFacts DEF IInv
    <3> HIDE DEF Gone
    <3> QED BY <3>1, <3>2, <3>3
  <2>2. CASE ~ \E path \in Path : \E w \in Walks(path) : \E recursive \in BOOLEAN :
                 DeleteDir(path, w, recursive)
    BY <2>2, DirsStay
  <2> QED BY <2>1, <2>2
<1> QED BY <1>1, IInvHolds, PTL DEF Spec, DeleteIsLocal

\* Closing a channel changes no file of another name than its own.
THEOREM ClosesAreOwn ==
  ASSUME Distinct
  PROVE  Spec => CloseKeepsOtherFiles
<1> DEFINE Own ==
      \A h \in Handle :
        (handle[h].mode = "w" /\ handle'[h].mode = "closed") =>
          \A d \in DOMAIN files : \A i \in DOMAIN files[d] :
            files[d][i].name = Last(handle[h].path) \/ files'[d][i] = files[d][i]
<1>1. IInv /\ [Next]_vars => Own
  <2> SUFFICES ASSUME IInv, [Next]_vars, NEW h \in Handle,
                      handle[h].mode = "w", handle'[h].mode = "closed",
                      NEW d \in DOMAIN files, NEW i \in DOMAIN files[d]
               PROVE  files[d][i].name = Last(handle[h].path) \/ files'[d][i] = files[d][i]
    OBVIOUS
  <2>1. handle' # handle
    OBVIOUS
  <2>2. HandleTyped
    BY Types DEF IInv
  <2>3. ASSUME NEW path \in Path, NEW w \in Walks(path), Operation(path, w) PROVE FALSE
    <3>1. ~ (Stat(path, w) \/ Mkdir(path, w) \/ DeleteFile(path, w)
               \/ \E recursive \in BOOLEAN : DeleteDir(path, w, recursive))
      BY <2>1 DEF Stat, Mkdir, DeleteFile, DeleteDir
    <3>2. ASSUME NEW g \in Handle, OpenRead(g, path, w) \/ OpenWrite(g, path, w) \/ OpenCreate(g, path, w)
          PROVE  FALSE
      <4>1. handle[g] = Closed
        BY <3>2 DEF OpenRead, OpenWrite, OpenCreate
      <4>2. PICK y : handle' = [handle EXCEPT ![g] = y]
        BY <3>2 DEF OpenRead, OpenWrite, OpenCreate
      <4>3. g # h
        BY <4>1 DEF Closed
      <4>4. handle'[h] = handle[h]
        BY <2>2, <4>2, <4>3 DEF HandleTyped
      <4> QED BY <4>4
    <3> QED BY <2>3, <3>1, <3>2 DEF Operation
  <2>4. ASSUME NEW g \in Handle, NEW x \in Data, DoClose(g, x)
        PROVE  files[d][i].name = Last(handle[h].path) \/ files'[d][i] = files[d][i]
    <3>1. /\ handle' = [handle EXCEPT ![g] = Closed]
          /\ files' = [files EXCEPT ![handle[g].dir] = SetData(files[handle[g].dir], handle[g].idx, x)]
      BY <2>4 DEF DoClose
    <3>2. g = h
      BY <2>2, <3>1 DEF HandleTyped
    <3>3. /\ handle[h].dir \in DOMAIN dirs /\ handle[h].idx \in 1..Len(files[handle[h].dir])
          /\ files[handle[h].dir][handle[h].idx].name = Last(handle[h].path)
      BY DEF IInv, Positions, Placed
    <3>4. CASE d # handle[h].dir
      BY <3>1, <3>2, <3>4
    <3>5. CASE d = handle[h].dir
      <4>1. files[d] \in Seq(FileRow) /\ DOMAIN files[d] = 1..Len(files[d])
        BY <3>3, <3>5, RowFacts DEF IInv
      <4>2. files'[d] = SetData(files[d], handle[h].idx, x)
        BY <3>1, <3>2, <3>5
      <4>3. \A j \in 1..Len(files[d]) : j # handle[h].idx => files'[d][j] = files[d][j]
        <5>1. PICK rows \in Seq(FileRow) : rows = files[d]
          BY <4>1
        <5>2. handle[h].idx \in 1..Len(rows) /\ x \in Contents
          BY <3>3, <3>5, <5>1 DEF Contents
        <5>3. \A j \in 1..Len(rows) : j # handle[h].idx => SetData(rows, handle[h].idx, x)[j] = rows[j]
          BY <5>2, SetDataFacts
        <5> QED BY <4>2, <5>1, <5>3
      <4> QED BY <3>3, <3>5, <4>1, <4>3
    <3> QED BY <3>4, <3>5
  <2>5. ~ \E g \in Handle : CloseRead(g)
    <3> SUFFICES ASSUME NEW g \in Handle, CloseRead(g) PROVE FALSE
      OBVIOUS
    <3>1. handle[g].mode = "r" /\ handle' = [handle EXCEPT ![g] = Closed]
      BY DEF CloseRead
    <3>2. g # h
      BY <3>1
    <3> QED BY <2>2, <3>1, <3>2 DEF HandleTyped
  <2>6. CASE EvictFcache \/ Remount
    BY <2>6 DEF EvictFcache, Remount
  <2>7. ~ UNCHANGED vars
    BY <2>1 DEF vars
  <2> QED BY <2>3, <2>4, <2>5, <2>6, <2>7 DEF Next
<1> QED BY <1>1, IInvHolds, PTL DEF Spec, CloseKeepsOtherFiles
=============================================================================
