-------------------------- MODULE Mk4VfsTree_proofs --------------------------
(***************************************************************************)
(* The Metakit driver implements the tree of paths (FileTree), proved for  *)
(* any names, contents, channels and bounds, on the conditions of Distinct *)
(* of Mk4Vfs_proofs.                                                       *)
(***************************************************************************)
EXTENDS Mk4VfsTree, Mk4Vfs_proofs

\* What a row can be called.
Label == Name \cup {"", "<root>"}

\* A set of naturals that is not empty has an element no other is below.
LEMMA LeastOf ==
  ASSUME NEW S, S \subseteq Nat, S # {}
  PROVE  \E x \in S : \A y \in S : x <= y
<1>1. PICK x \in S : \A y \in S : ~ (<<y, x>> \in OpToRel(<, Nat))
  BY NatLessThanWellFounded, WFMin
<1>2. ASSUME NEW y \in S PROVE x <= y
  <2>1. x \in Nat /\ y \in Nat
    OBVIOUS
  <2>2. y < x => <<y, x>> \in OpToRel(<, Nat)
    BY <2>1 DEF OpToRel
  <2>3. ~(y < x)
    BY <1>1, <2>2
  <2> QED BY <2>1, <2>3
<1> QED BY <1>2

-----------------------------------------------------------------------------
(* Paths as sequences.                                                     *)

\* Taking the last component off undoes appending it.
LEMMA FrontOfAppend ==
  ASSUME NEW S, NEW t \in Seq(S), NEW e \in S
  PROVE  Front(Append(t, e)) = t /\ Last(Append(t, e)) = e
<1> SUFFICES ASSUME NEW s, s = Append(t, e), NEW n \in Nat, n = Len(t)
             PROVE  Front(s) = t /\ Last(s) = e
  BY LenProperties
<1>1. /\ s \in Seq(S) /\ Len(s) = n + 1 /\ s[n + 1] = e
      /\ \A i \in 1..n : s[i] = t[i]
  BY AppendProperties
<1>2. Len(s) - 1 = n
  BY <1>1
<1>3. SubSeq(s, 1, n) = t
  <2>1. \A i \in 1..n : s[i] \in S
    BY <1>1, ElementOfSeq
  <2>2. /\ SubSeq(s, 1, n) \in Seq(S)
        /\ Len(SubSeq(s, 1, n)) = IF 1 <= n THEN n - 1 + 1 ELSE 0
        /\ \A i \in 1..(n - 1 + 1) : SubSeq(s, 1, n)[i] = s[1 + i - 1]
    BY <2>1, SubSeqProperties
  <2>3. Len(SubSeq(s, 1, n)) = n
    BY <2>2
  <2>4. \A i \in 1..n : i \in 1..(n - 1 + 1) /\ 1 + i - 1 = i
    OBVIOUS
  <2>5. \A i \in 1..Len(t) : SubSeq(s, 1, n)[i] = t[i]
    BY <1>1, <2>2, <2>4
  <2> QED BY <2>2, <2>3, <2>5, SeqEqual
<1> QED BY <1>1, <1>2, <1>3 DEF Front, Last

\* A path that is not empty is its front with its last component.
LEMMA FrontAndLast ==
  ASSUME NEW S, NEW s \in Seq(S), s # <<>>
  PROVE  Front(s) \in Seq(S) /\ Last(s) \in S /\ Append(Front(s), Last(s)) = s
<1>1. PICK t \in Seq(S), e \in S : s = Append(t, e)
  BY SequenceEmptyOrAppend
<1> QED BY <1>1, FrontOfAppend

\* One sequence begins with another if it has its elements.
LEMMA PrefixIs ==
  ASSUME NEW S, NEW p \in Seq(S), NEW t \in Seq(S)
  PROVE  IsPrefix(p, t) <=> Len(p) <= Len(t) /\ \A i \in 1..Len(p) : p[i] = t[i]
<1>1. PICK m \in Nat : m = Len(p)
  BY LenProperties
<1>2. ASSUME m <= Len(t)
      PROVE  SubSeq(p, 1, m) = SubSeq(t, 1, m) <=> \A i \in 1..m : p[i] = t[i]
  <2>1. SubSeq(p, 1, m) = p
    BY <1>1, SubSeqFull
  <2>2. \A i \in 1..m : t[i] \in S
    <3>1. Len(t) \in Nat
      BY LenProperties
    <3>2. \A i \in 1..m : i \in 1..Len(t)
      BY <1>2, <3>1
    <3> QED BY <3>2, ElementOfSeq
  <2>3. /\ SubSeq(t, 1, m) \in Seq(S)
        /\ Len(SubSeq(t, 1, m)) = IF 1 <= m THEN m - 1 + 1 ELSE 0
        /\ \A i \in 1..(m - 1 + 1) : SubSeq(t, 1, m)[i] = t[1 + i - 1]
    BY <2>2, SubSeqProperties
  <2>4. Len(SubSeq(t, 1, m)) = m
    BY <2>3
  <2>5. \A i \in 1..m : i \in 1..(m - 1 + 1) /\ 1 + i - 1 = i
    OBVIOUS
  <2>6. \A i \in 1..m : SubSeq(t, 1, m)[i] = t[i]
    BY <2>3, <2>5
  <2> QED BY <1>1, <2>1, <2>3, <2>4, <2>6, SeqEqual
<1> QED BY <1>1, <1>2 DEF IsPrefix

\* What a path begins with that is one component longer.
LEMMA PrefixAppend ==
  ASSUME NEW S, NEW p \in Seq(S), NEW t \in Seq(S), NEW e \in S
  PROVE  IsPrefix(p, Append(t, e)) <=> IsPrefix(p, t) \/ p = Append(t, e)
<1> SUFFICES ASSUME NEW s, s = Append(t, e), NEW m \in Nat, m = Len(p), NEW n \in Nat, n = Len(t)
             PROVE  IsPrefix(p, s) <=> IsPrefix(p, t) \/ p = s
  BY LenProperties
<1>1. s \in Seq(S) /\ Len(s) = n + 1 /\ \A i \in 1..n : s[i] = t[i]
  BY AppendProperties
<1>2. IsPrefix(p, s) <=> m <= n + 1 /\ \A i \in 1..m : p[i] = s[i]
  <2>1. s \in Seq(S) /\ Len(s) = n + 1
    BY <1>1
  <2>2. IsPrefix(p, s) <=> Len(p) <= Len(s) /\ \A i \in 1..Len(p) : p[i] = s[i]
    BY <2>1, PrefixIs
  <2> QED BY <2>1, <2>2
<1>3. IsPrefix(p, t) <=> m <= n /\ \A i \in 1..m : p[i] = t[i]
  BY PrefixIs
<1>4. CASE m <= n
  <2>1. \A i \in 1..m : s[i] = t[i]
    <3>1. \A i \in 1..m : i \in 1..n
      BY <1>4
    <3> QED BY <1>1, <3>1
  <2>2. p # s /\ m <= n + 1
    <3>1. m # n + 1 /\ m <= n + 1
      BY <1>4
    <3> QED BY <1>1, <3>1
  <2> QED BY <1>2, <1>3, <1>4, <2>1, <2>2
<1>5. CASE ~(m <= n)
  <2>1. m <= n + 1 <=> m = n + 1
    BY <1>5
  <2>2. p = s <=> m = n + 1 /\ \A i \in 1..m : p[i] = s[i]
    BY <1>1, SeqEqual
  <2> QED BY <1>2, <1>3, <1>5, <2>1, <2>2
<1> QED BY <1>4, <1>5

LEMMA PrefixEnds ==
  ASSUME NEW S, NEW p \in Seq(S)
  PROVE  IsPrefix(p, p) /\ (IsPrefix(p, <<>>) => p = <<>>)
<1>1. PICK m \in Nat : m = Len(p)
  BY LenProperties
<1>2. IsPrefix(p, p)
  BY <1>1, PrefixIs
<1>3. ASSUME IsPrefix(p, <<>>) PROVE p = <<>>
  <2>1. Len(p) <= Len(<<>>)
    BY <1>3 DEF IsPrefix
  <2>2. Len(<<>>) = 0
    OBVIOUS
  <2>3. m = 0
    BY <1>1, <2>1, <2>2
  <2> QED BY <1>1, <2>3, EmptySeq
<1> QED BY <1>2, <1>3

-----------------------------------------------------------------------------
(* The paths of rows.                                                      *)

\* A live directory is in a live one, made before it.
Above ==
  /\ Root \in Live
  /\ \A r \in Live \ {Root} :
       /\ dirs[r].parent \in Live
       /\ dirs[r].parent < r

Solves(g) ==
  g = [r \in Live |-> IF r = Root THEN <<>> ELSE Append(g[dirs[r].parent], dirs[r].name)]

\* The parents of the live rows define a path for each.
HavePaths == Above /\ \E g : Solves(g)

LEMMA LiveFacts ==
  TypeOK => Live \subseteq Nat /\ \A r \in Live : r \in DOMAIN dirs /\ dirs[r].name \in Label
<1> SUFFICES ASSUME TypeOK
             PROVE  Live \subseteq Nat /\ \A r \in Live : r \in DOMAIN dirs /\ dirs[r].name \in Label
  OBVIOUS
<1> QED BY RowFacts DEF Live, DirRow, Label

\* There is one solution, pathOf.
LEMMA PathsUnique ==
  TypeOK /\ HavePaths => Solves(pathOf) /\ \A g : Solves(g) => g = pathOf
<1> SUFFICES ASSUME TypeOK, HavePaths PROVE Solves(pathOf) /\ \A g : Solves(g) => g = pathOf
  OBVIOUS
<1>1. Solves(pathOf)
  BY DEF HavePaths, Solves, pathOf
<1>2. ASSUME NEW g, Solves(g) PROVE g = pathOf
  <2>1. PICK S : S = {r \in Live : g[r] # pathOf[r]}
    OBVIOUS
  <2>2. ASSUME S # {} PROVE FALSE
    <3>1. S \subseteq Nat
      BY <2>1, LiveFacts
    <3>2. PICK r \in S : \A s \in S : r <= s
      BY <2>2, <3>1, LeastOf
    <3>3. r \in Live /\ r # Root
      BY <1>1, <1>2, <2>1 DEF Solves
    <3>4. dirs[r].parent \in Live /\ dirs[r].parent < r
      BY <3>3 DEF HavePaths, Above
    <3>5. r \in Nat /\ dirs[r].parent \in Nat
      BY <3>3, <3>4, LiveFacts
    <3>6. dirs[r].parent \notin S
      BY <3>2, <3>4, <3>5
    <3>7. g[dirs[r].parent] = pathOf[dirs[r].parent]
      BY <2>1, <3>4, <3>6
    <3>8. g[r] = pathOf[r]
      BY <1>1, <1>2, <3>3, <3>7 DEF Solves
    <3> QED BY <2>1, <3>8
  <2>3. \A r \in Live : g[r] = pathOf[r]
    BY <2>1, <2>2
  <2> QED BY <1>1, <1>2, <2>3 DEF Solves
<1> QED BY <1>1, <1>2

\* Where a path begins, how it goes on, and that it leads to one row.
LEMMA PathsOfRows ==
  TypeOK /\ NamesUnique /\ HavePaths =>
    /\ pathOf = [r \in Live |-> pathOf[r]] /\ pathOf[Root] = <<>>
    /\ \A r \in Live \ {Root} : pathOf[r] = Append(pathOf[dirs[r].parent], dirs[r].name)
    /\ \A r \in Live : pathOf[r] \in Seq(Label)
    /\ \A r, s \in Live : pathOf[r] = pathOf[s] => r = s
<1> SUFFICES ASSUME TypeOK, NamesUnique, HavePaths
             PROVE  /\ pathOf = [r \in Live |-> pathOf[r]] /\ pathOf[Root] = <<>>
                    /\ \A r \in Live \ {Root} :
                         pathOf[r] = Append(pathOf[dirs[r].parent], dirs[r].name)
                    /\ \A r \in Live : pathOf[r] \in Seq(Label)
                    /\ \A r, s \in Live : pathOf[r] = pathOf[s] => r = s
  OBVIOUS
<1>1. /\ Root \in Live /\ Live \subseteq Nat
      /\ \A r \in Live : r \in DOMAIN dirs /\ dirs[r].name \in Label
      /\ \A r \in Live \ {Root} : dirs[r].parent \in Live /\ dirs[r].parent < r
  BY LiveFacts DEF HavePaths, Above
<1>2. Solves(pathOf)
  BY PathsUnique
<1>3. /\ pathOf = [r \in Live |-> pathOf[r]] /\ pathOf[Root] = <<>>
      /\ \A r \in Live \ {Root} : pathOf[r] = Append(pathOf[dirs[r].parent], dirs[r].name)
  BY <1>1, <1>2 DEF Solves
<1>4. \A r \in Live : pathOf[r] \in Seq(Label)
  <2>1. PICK S : S = {r \in Live : pathOf[r] \notin Seq(Label)}
    OBVIOUS
  <2>2. ASSUME S # {} PROVE FALSE
    <3>1. S \subseteq Nat
      BY <1>1, <2>1
    <3>2. PICK r \in S : \A s \in S : r <= s
      BY <2>2, <3>1, LeastOf
    <3>3. r \in Live /\ pathOf[r] \notin Seq(Label)
      BY <2>1
    <3>4. r # Root
      BY <1>3, <3>3, EmptySeq
    <3>5. dirs[r].parent \in Live /\ dirs[r].parent < r /\ dirs[r].name \in Label
      BY <1>1, <3>3, <3>4
    <3>6. r \in Nat /\ dirs[r].parent \in Nat
      BY <1>1, <3>3, <3>5
    <3>7. pathOf[dirs[r].parent] \in Seq(Label)
      BY <2>1, <3>2, <3>5, <3>6
    <3>8. pathOf[r] \in Seq(Label)
      BY <1>3, <3>3, <3>4, <3>5, <3>7, AppendProperties
    <3> QED BY <3>3, <3>8
  <2> QED BY <2>1, <2>2
<1>5. \A r, s \in Live : pathOf[r] = pathOf[s] => r = s
  <2>1. PICK S : S = {r \in Live : \E s \in Live : s # r /\ pathOf[s] = pathOf[r]}
    OBVIOUS
  <2>2. ASSUME S # {} PROVE FALSE
    <3>1. S \subseteq Nat
      BY <1>1, <2>1
    <3>2. PICK r \in S : \A s \in S : r <= s
      BY <2>2, <3>1, LeastOf
    <3>3. PICK s \in Live : s # r /\ pathOf[s] = pathOf[r]
      BY <2>1
    <3>4. r \in Live
      BY <2>1
    <3>5. r # Root /\ s # Root
      <4>1. ASSUME NEW q \in Live \ {Root} PROVE pathOf[q] # <<>>
        <5>1. pathOf[dirs[q].parent] \in Seq(Label) /\ dirs[q].name \in Label
          BY <1>1, <1>4
        <5>2. Append(pathOf[dirs[q].parent], dirs[q].name) # <<>>
          BY <5>1, AppendProperties
        <5> QED BY <1>3, <5>2
      <4> QED BY <1>3, <3>3, <3>4, <4>1
    <3>6. /\ dirs[r].parent \in Live /\ dirs[r].parent < r /\ dirs[r].name \in Label
          /\ dirs[s].parent \in Live /\ dirs[s].name \in Label
          /\ r \in Nat /\ dirs[r].parent \in Nat
      BY <1>1, <3>3, <3>4, <3>5
    <3>7. dirs[r].parent \notin S
      BY <3>2, <3>6
    <3>8. pathOf[dirs[r].parent] = pathOf[dirs[s].parent] /\ dirs[r].name = dirs[s].name
      <4>1. pathOf[dirs[r].parent] \in Seq(Label) /\ pathOf[dirs[s].parent] \in Seq(Label)
        BY <1>4, <3>6
      <4>2. Append(pathOf[dirs[r].parent], dirs[r].name)
              = Append(pathOf[dirs[s].parent], dirs[s].name)
        BY <1>3, <3>3, <3>4, <3>5
      <4>3. PICK a, b, e, f : /\ a = pathOf[dirs[r].parent] /\ e = dirs[r].name
                              /\ b = pathOf[dirs[s].parent] /\ f = dirs[s].name
        OBVIOUS
      <4>4. a \in Seq(Label) /\ b \in Seq(Label) /\ e \in Label /\ f \in Label
        BY <3>6, <4>1, <4>3
      <4>5. Append(a, e) = Append(b, f)
        BY <4>2, <4>3
      <4>6. a = b /\ e = f
        BY <4>4, <4>5, AppendInjective
      <4> QED BY <4>3, <4>6
    <3>9. dirs[r].parent = dirs[s].parent
      BY <2>1, <3>6, <3>7, <3>8
    <3>10. dirs[r].parent \in DOMAIN dirs /\ r \in DOMAIN dirs /\ s \in DOMAIN dirs
      BY <1>1, <3>3, <3>4, <3>6
    <3> QED BY <3>3, <3>8, <3>9, <3>10 DEF NamesUnique, Children
  <2> QED BY <2>1, <2>2
<1> QED BY <1>3, <1>4, <1>5

-----------------------------------------------------------------------------
(* The invariant.                                                          *)

\* An open channel is in the directory its path leads to.
Reached ==
  \A h \in Handle : handle[h].mode # "closed" =>
    /\ handle[h].path \in Path /\ handle[h].dir \in Live
    /\ pathOf[handle[h].dir] = Front(handle[h].path)

TreeInv == IInv /\ HavePaths /\ Reached

LEMMA TreeInvFacts ==
  TreeInv => /\ TypeOK /\ Rows /\ Caches /\ Positions /\ ParentsAreRows /\ NamesUnique
             /\ NothingInDeleted /\ HavePaths /\ Reached
  BY DEF TreeInv, IInv, Rows

\* Rows that do not change have the paths they had.
LEMMA PathsStay ==
  ASSUME HavePaths, dirs' = dirs
  PROVE  Live' = Live /\ pathOf' = pathOf /\ HavePaths'
<1>1. Live' = Live
  BY DEF Live
<1>2. pathOf' = pathOf
  BY <1>1 DEF pathOf
<1>3. Above'
  BY <1>1 DEF HavePaths, Above
<1>4. \E g : Solves(g)'
  BY <1>1 DEF HavePaths, Solves
<1> QED BY <1>1, <1>2, <1>3, <1>4 DEF HavePaths

-----------------------------------------------------------------------------
(* What the tree has.                                                      *)

Entry(q, x) ==
  \/ \E r \in Live \ {Root} : q = pathOf[r] /\ x = "directory"
  \/ \E r \in Live : \E i \in DOMAIN files[r] :
       q = Append(pathOf[r], files[r][i].name) /\ x = files[r][i].data

\* An entry's path tells its directory and its name.
LEMMA PathTells ==
  TreeInv => \A r, s \in Live : \A m, n \in Label :
               Append(pathOf[r], m) = Append(pathOf[s], n) => r = s /\ m = n
<1> SUFFICES ASSUME TreeInv, NEW r \in Live, NEW s \in Live, NEW m \in Label, NEW n \in Label,
                    Append(pathOf[r], m) = Append(pathOf[s], n)
             PROVE  r = s /\ m = n
  OBVIOUS
<1>1. pathOf[r] \in Seq(Label) /\ pathOf[s] \in Seq(Label) /\ (pathOf[r] = pathOf[s] => r = s)
  BY PathsOfRows, TreeInvFacts
<1>2. PICK a, b : a = pathOf[r] /\ b = pathOf[s]
  OBVIOUS
<1>3. a \in Seq(Label) /\ b \in Seq(Label) /\ Append(a, m) = Append(b, n)
  BY <1>1, <1>2
<1>4. a = b /\ m = n
  BY <1>3, AppendInjective
<1> QED BY <1>1, <1>2, <1>4

\* The rows of a live directory, as a lemma on their names and contents.
LEMMA FileRowFacts ==
  TreeInv => \A r \in Live :
    /\ r \in DOMAIN dirs /\ r \in DOMAIN files /\ Len(files[r]) \in Nat
    /\ DOMAIN files[r] = 1..Len(files[r]) /\ files[r] \in Seq(FileRow)
    /\ \A i \in DOMAIN files[r] : files[r][i].name \in Label /\ files[r][i].data \in Contents
<1> SUFFICES ASSUME TreeInv, NEW r \in Live
             PROVE  /\ r \in DOMAIN dirs /\ r \in DOMAIN files /\ Len(files[r]) \in Nat
                    /\ DOMAIN files[r] = 1..Len(files[r]) /\ files[r] \in Seq(FileRow)
                    /\ \A i \in DOMAIN files[r] :
                         files[r][i].name \in Label /\ files[r][i].data \in Contents
  OBVIOUS
<1>1. TypeOK /\ r \in DOMAIN dirs
  BY TreeInvFacts, LiveFacts
<1>2. /\ r \in DOMAIN files /\ Len(files[r]) \in Nat /\ files[r] \in Seq(FileRow)
      /\ DOMAIN files[r] = 1..Len(files[r]) /\ \A i \in DOMAIN files[r] : files[r][i] \in FileRow
  BY <1>1, RowFacts
<1> QED BY <1>1, <1>2 DEF FileRow, Label

\* No path is both a directory's and a file's, or two files'.
LEMMA EntriesDiffer ==
  TreeInv => \A q, x, y : Entry(q, x) /\ Entry(q, y) => x = y
<1> SUFFICES ASSUME TreeInv PROVE \A q, x, y : Entry(q, x) /\ Entry(q, y) => x = y
  OBVIOUS
<1>1. ASSUME NEW r \in Live \ {Root}, NEW s \in Live, NEW i \in DOMAIN files[s],
             pathOf[r] = Append(pathOf[s], files[s][i].name)
      PROVE  FALSE
  <2>1. /\ pathOf[r] = Append(pathOf[dirs[r].parent], dirs[r].name)
        /\ dirs[r].parent \in Live /\ dirs[r].name \in Label /\ files[s][i].name \in Label
    BY TreeInvFacts, PathsOfRows, LiveFacts, FileRowFacts DEF HavePaths, Above
  <2>2. dirs[r].parent = s /\ dirs[r].name = files[s][i].name
    <3>1. PICK p \in Live, m \in Label, n \in Label :
            p = dirs[r].parent /\ m = dirs[r].name /\ n = files[s][i].name
      BY <2>1
    <3>2. Append(pathOf[p], m) = Append(pathOf[s], n)
      BY <1>1, <2>1, <3>1
    <3>3. p = s /\ m = n
      BY <3>2, PathTells
    <3> QED BY <3>1, <3>3
  <2>3. s \in DOMAIN dirs /\ r \in Children(s)
    BY <2>2, TreeInvFacts, LiveFacts DEF Children
  <2> QED BY <1>1, <2>2, <2>3, TreeInvFacts DEF NamesUnique
<1>2. ASSUME NEW r \in Live, NEW j \in DOMAIN files[r], NEW s \in Live, NEW i \in DOMAIN files[s],
             Append(pathOf[r], files[r][j].name) = Append(pathOf[s], files[s][i].name)
      PROVE  files[r][j].data = files[s][i].data
  <2>1. files[r][j].name \in Label /\ files[s][i].name \in Label /\ r \in DOMAIN dirs
    BY FileRowFacts
  <2>2. r = s /\ files[r][j].name = files[s][i].name
    BY <1>2, <2>1, PathTells
  <2>3. i = j
    BY <2>1, <2>2, TreeInvFacts DEF NamesUnique
  <2> QED BY <2>2, <2>3
<1> QED BY <1>1, <1>2 DEF Entry

\* The tree has the entries, and no others.
LEMMA TreeIs ==
  TreeInv => /\ tree = [q \in DOMAIN tree |-> tree[q]]
             /\ \A q, x : Entry(q, x) <=> (q \in DOMAIN tree /\ tree[q] = x)
<1> SUFFICES ASSUME TreeInv
             PROVE  /\ tree = [q \in DOMAIN tree |-> tree[q]]
                    /\ \A q, x : Entry(q, x) <=> (q \in DOMAIN tree /\ tree[q] = x)
  OBVIOUS
<1>1. PICK E : E = DirEntries(pathOf) \cup FileEntries(pathOf)
  OBVIOUS
<1>2. tree = [q \in {e[1] : e \in E} |-> (CHOOSE e \in E : e[1] = q)[2]]
  BY <1>1 DEF tree
<1>3. DOMAIN pathOf = Live
  BY TreeInvFacts, PathsOfRows
<1>4. \A e : e \in E <=> \E q, x : e = <<q, x>> /\ Entry(q, x)
  <2>1. \A e : e \in DirEntries(pathOf) <=> \E r \in Live \ {Root} : e = <<pathOf[r], "directory">>
    BY <1>3 DEF DirEntries
  <2>2. \A e : e \in FileEntries(pathOf) <=>
                 \E r \in Live : \E i \in DOMAIN files[r] :
                   e = <<Append(pathOf[r], files[r][i].name), files[r][i].data>>
    BY <1>3 DEF FileEntries, ToSet
  <2> QED BY <1>1, <2>1, <2>2 DEF Entry
<1>5. ASSUME NEW q, NEW x, Entry(q, x)
      PROVE  q \in DOMAIN tree /\ tree[q] = x
  <2>1. <<q, x>> \in E /\ <<q, x>>[1] = q
    BY <1>4, <1>5
  <2>2. q \in {e[1] : e \in E}
    BY <2>1
  <2>3. PICK e \in E : e = (CHOOSE d \in E : d[1] = q) /\ e[1] = q
    BY <2>1
  <2>4. PICK y : e = <<q, y>> /\ Entry(q, y)
    <3>1. PICK p, y : e = <<p, y>> /\ Entry(p, y)
      BY <1>4
    <3> QED BY <2>3, <3>1
  <2>5. y = x
    BY <1>5, <2>4, EntriesDiffer
  <2>6. tree[q] = e[2]
    BY <1>2, <2>2, <2>3
  <2> QED BY <1>2, <2>2, <2>4, <2>5, <2>6
<1>6. ASSUME NEW q \in DOMAIN tree PROVE Entry(q, tree[q])
  <2>1. PICK e \in E : e[1] = q
    BY <1>2
  <2>2. PICK x : Entry(q, x)
    BY <1>4, <2>1
  <2> QED BY <1>5, <2>2
<1>7. tree = [q \in DOMAIN tree |-> tree[q]]
  BY <1>2
<1>8. ASSUME NEW q, NEW x, q \in DOMAIN tree, tree[q] = x PROVE Entry(q, x)
  BY <1>6, <1>8
<1> QED BY <1>5, <1>7, <1>8

-----------------------------------------------------------------------------
(* Where walks lead.                                                       *)

\* The driver's walk over all components but the last ends where the paths of
\* the rows say, or nowhere.
LEMMA WalkLeads ==
  ASSUME TreeInv, Distinct, NEW path \in Path, NEW w \in Walks(path), Parent(path, w) # NoRow
  PROVE  Parent(path, w) \in Live /\ pathOf[Parent(path, w)] = Front(path)
<1>0. TypeOK /\ ParentsAreRows /\ CacheTransparent /\ NamesUnique /\ HavePaths
  BY TreeInvFacts DEF Caches
<1>1. /\ path \in Seq(Name) /\ Len(path) \in Nat /\ Len(path) >= 1
      /\ \A i \in 1..Len(path) : path[i] \in Name
      /\ DOMAIN dirs = 1..Len(dirs) /\ Len(dirs) \in Nat /\ Root \in Live
  BY <1>0, PathFacts, RowFacts DEF HavePaths, Above
<1>2. PICK n \in Nat : n = Len(path) - 1
  BY <1>1
<1>3. /\ w \in [0..n -> 0..Len(dirs)] /\ w[0] = Root
      /\ \A i \in 1..n : w[i] = Lookup(w[i - 1], path[i])
  BY <1>2 DEF Walks
<1>4. PICK S : S = {i \in 0..n : /\ w[i] # NoRow
                                /\ ~(w[i] \in Live /\ pathOf[w[i]] = SubSeq(path, 1, i))}
  OBVIOUS
<1>5. ASSUME S # {} PROVE FALSE
  <2>1. S \subseteq Nat
    BY <1>4
  <2>2. PICK j \in S : \A i \in S : j <= i
    BY <1>5, <2>1, LeastOf
  <2>3. /\ j \in 0..n /\ w[j] # NoRow
        /\ ~(w[j] \in Live /\ pathOf[w[j]] = SubSeq(path, 1, j))
    BY <1>4
  <2>4. j # 0
    <3>1. SubSeq(path, 1, 0) = <<>>
      BY SubSeqEmpty
    <3>2. pathOf[Root] = <<>>
      BY <1>0, PathsOfRows
    <3> QED BY <1>1, <1>3, <2>3, <3>1, <3>2
  <2>5. j \in 1..n /\ j - 1 \in 0..n /\ j \in 1..Len(path) /\ 1 \in 1..Len(path) /\ j \in Nat
    BY <1>2, <2>3, <2>4
  <2>6. w[j] = Select(w[j - 1], path[j])
    BY <1>0, <1>3, <2>5, LookupIsSelect
  <2>7. w[j] \in DOMAIN dirs /\ dirs[w[j]].parent = w[j - 1] /\ dirs[w[j]].name = path[j]
    BY <1>0, <2>3, <2>6, SelectFacts
  <2>8. w[j - 1] \in DOMAIN dirs
    <3>1. w[j - 1] \in 0..Len(dirs)
      BY <1>3, <2>5
    <3>2. dirs[w[j]].parent \in DOMAIN dirs \cup {RootParent, Deleted}
      BY <1>0, <2>7 DEF ParentsAreRows
    <3> QED BY <1>1, <2>7, <3>1, <3>2 DEF RootParent, Deleted
  <2>9. w[j - 1] # NoRow /\ w[j - 1] # Deleted /\ w[j - 1] # RootParent
    BY <1>1, <2>8 DEF NoRow, Deleted, RootParent
  <2>10. j - 1 \notin S
    BY <2>2, <2>5
  <2>11. w[j - 1] \in Live /\ pathOf[w[j - 1]] = SubSeq(path, 1, j - 1)
    BY <1>4, <2>5, <2>9, <2>10
  <2>12. w[j] \in Live \ {Root}
    BY <1>0, <2>7, <2>9 DEF Live, ParentsAreRows
  <2>13. pathOf[w[j]] = Append(SubSeq(path, 1, j - 1), path[j])
    BY <1>0, <2>7, <2>11, <2>12, PathsOfRows
  <2>14. Append(SubSeq(path, 1, j - 1), path[j]) = SubSeq(path, 1, j)
    <3>1. SubSeq(path, 1, j) = SubSeq(path, 1, j - 1) \o <<path[j]>>
      <4>1. 1 \in 1..Len(path) /\ j \in 1..Len(path)
        BY <2>5
      <4> QED BY <1>1, <4>1, SubSeqRecursiveSecond
    <3>2. SubSeq(path, 1, j - 1) \in Seq(Name)
      <4>1. \A i \in 1..(j - 1) : i \in 1..Len(path)
        BY <1>1, <2>5
      <4>2. \A i \in 1..(j - 1) : path[i] \in Name
        BY <1>1, <4>1
      <4>3. j - 1 \in Int /\ 1 \in Int
        BY <2>5
      <4> QED BY <4>2, <4>3, SubSeqProperties
    <3>3. path[j] \in Name
      BY <1>1, <2>5
    <3> QED BY <3>1, <3>2, <3>3, AppendIsConcat
  <2> QED BY <2>3, <2>12, <2>13, <2>14
<1>6. Parent(path, w) = w[n] /\ n \in 0..n /\ Front(path) = SubSeq(path, 1, n)
  BY <1>2 DEF Parent, Front
<1> QED BY <1>4, <1>5, <1>6

-----------------------------------------------------------------------------
(* Parts of steps.                                                         *)

\* The same facts of the state after a step.
LEMMA PathsUniqueNext ==
  (TypeOK /\ HavePaths => Solves(pathOf) /\ \A g : Solves(g) => g = pathOf)'
  BY PathsUnique, PTL

LEMMA TreeIsNext ==
  (TreeInv => /\ tree = [q \in DOMAIN tree |-> tree[q]]
              /\ \A q, x : Entry(q, x) <=> (q \in DOMAIN tree /\ tree[q] = x))'
  BY TreeIs, PTL

\* A function is told by its values.
LEMMA SameFunction ==
  ASSUME NEW f, NEW g, f = [q \in DOMAIN f |-> f[q]], g = [q \in DOMAIN g |-> g[q]],
         \A q, x : (q \in DOMAIN f /\ f[q] = x) <=> (q \in DOMAIN g /\ g[q] = x)
  PROVE  f = g
<1>1. DOMAIN f = DOMAIN g
  OBVIOUS
<1>2. \A q \in DOMAIN f : f[q] = g[q]
  OBVIOUS
<1> QED BY <1>1, <1>2

\* The tree is changed at one path.
LEMMA TreeWith ==
  ASSUME TreeInv, TreeInv', NEW p, NEW x,
         \A q, y : Entry(q, y)' <=> IF q = p THEN y = x ELSE Entry(q, y)
  PROVE  tree' = Tree!With(p, x)
<1>1. /\ tree' = [q \in DOMAIN tree' |-> tree'[q]]
      /\ \A q, y : Entry(q, y)' <=> (q \in DOMAIN tree' /\ tree'[q] = y)
  BY TreeIsNext
<1>2. \A q, y : Entry(q, y) <=> (q \in DOMAIN tree /\ tree[q] = y)
  BY TreeIs
<1>3. PICK g : g = [q \in DOMAIN tree \cup {p} |-> IF q = p THEN x ELSE tree[q]]
  OBVIOUS
<1>4. g = [q \in DOMAIN g |-> g[q]]
  BY <1>3
<1>5. \A q, y : (q \in DOMAIN g /\ g[q] = y) <=> IF q = p THEN y = x ELSE Entry(q, y)
  BY <1>2, <1>3
<1>6. PICK f : f = tree'
  OBVIOUS
<1>7. \A q, y : (q \in DOMAIN f /\ f[q] = y) <=> (q \in DOMAIN g /\ g[q] = y)
  BY <1>1, <1>5, <1>6
<1>8. f = [q \in DOMAIN f |-> f[q]]
  BY <1>1, <1>6
<1>9. f = g
  BY <1>4, <1>7, <1>8, SameFunction
<1> QED BY <1>3, <1>6, <1>9 DEF Tree!With

\* The tree loses the entries at some paths.
LEMMA TreeWithout ==
  ASSUME TreeInv, TreeInv', NEW D,
         \A q, y : Entry(q, y)' <=> Entry(q, y) /\ q \notin D
  PROVE  tree' = Tree!Without(D)
<1>1. /\ tree' = [q \in DOMAIN tree' |-> tree'[q]]
      /\ \A q, y : Entry(q, y)' <=> (q \in DOMAIN tree' /\ tree'[q] = y)
  BY TreeIsNext
<1>2. \A q, y : Entry(q, y) <=> (q \in DOMAIN tree /\ tree[q] = y)
  BY TreeIs
<1>3. PICK g : g = [q \in DOMAIN tree \ D |-> tree[q]]
  OBVIOUS
<1>4. g = [q \in DOMAIN g |-> g[q]]
  BY <1>3
<1>5. \A q, y : (q \in DOMAIN g /\ g[q] = y) <=> Entry(q, y) /\ q \notin D
  BY <1>2, <1>3
<1>6. PICK f : f = tree'
  OBVIOUS
<1>7. \A q, y : (q \in DOMAIN f /\ f[q] = y) <=> (q \in DOMAIN g /\ g[q] = y)
  BY <1>1, <1>5, <1>6
<1>8. f = [q \in DOMAIN f |-> f[q]]
  BY <1>1, <1>6
<1>9. f = g
  BY <1>4, <1>7, <1>8, SameFunction
<1> QED BY <1>3, <1>6, <1>9 DEF Tree!Without, Tree!Restrict

\* Rows that do not change have the tree they had.
LEMMA TreeStays ==
  ASSUME HavePaths, dirs' = dirs, files' = files
  PROVE  tree' = tree
  BY PathsStay DEF tree, DirEntries, FileEntries

\* A channel is opened or closed, and its directory stays where it was.
LEMMA ChannelStep ==
  ASSUME TreeInv, NEW h \in Handle, NEW v, handle' = [handle EXCEPT ![h] = v],
         Live' = Live, pathOf' = pathOf,
         v.mode # "closed" =>
           v.path \in Path /\ v.dir \in Live /\ pathOf[v.dir] = Front(v.path),
         NEW u, u = IF v.mode = "w" THEN v.path ELSE <<>>
  PROVE  Reached' /\ writing' = [writing EXCEPT ![h] = u]
<1>1. handle'[h] = v /\ \A g \in Handle \ {h} : handle'[g] = handle[g]
  BY TreeInvFacts DEF TypeOK
<1>2. Reached'
  BY <1>1, TreeInvFacts DEF Reached
<1>3. writing' = [writing EXCEPT ![h] = u]
  <2>1. PICK f, g : f = writing /\ g = writing'
    OBVIOUS
  <2>2. f = [k \in Handle |-> f[k]] /\ g = [k \in Handle |-> g[k]]
    BY <2>1 DEF writing
  <2>3. g[h] = u
    BY <1>1, <2>1 DEF writing
  <2>4. \A k \in Handle \ {h} : g[k] = f[k]
    BY <1>1, <2>1 DEF writing
  <2>5. g = [f EXCEPT ![h] = u]
    BY <2>2, <2>3, <2>4
  <2> QED BY <2>1, <2>5
<1> QED BY <1>2, <1>3

\* No channel is opened or closed, and those that are open have live directories.
LEMMA NoChannelStep ==
  ASSUME TreeInv, handle' = handle,
         \A h \in Handle : handle[h].mode # "closed" =>
           handle[h].dir \in Live' /\ pathOf'[handle[h].dir] = pathOf[handle[h].dir]
  PROVE  Reached' /\ writing' = writing
  BY TreeInvFacts DEF Reached, writing

-----------------------------------------------------------------------------
(* Steps that leave the rows alone.                                        *)

\* What a walk to a file says of the tree.
LEMMA FileInTree ==
  ASSUME TreeInv, Distinct, NEW path \in Path, NEW w \in Walks(path),
         NEW p, p = Parent(path, w), NEW n, n = Last(path), IsFile(p, n)
  PROVE  /\ p \in Live /\ pathOf[p] = Front(path) /\ path = Append(pathOf[p], n) /\ n \in Label
         /\ FileAt(p, n) \in DOMAIN files[p] /\ files[p][FileAt(p, n)].name = n
         /\ path \in DOMAIN tree /\ tree[path] # "directory"
<1>1. p \in Live /\ pathOf[p] = Front(path)
  BY WalkLeads DEF IsFile
<1>2. path = Append(pathOf[p], n) /\ n \in Label
  <2>1. path \in Seq(Name) /\ path # <<>> /\ n \in Name
    BY PathFacts
  <2> QED BY <1>1, <2>1, FrontAndLast DEF Label
<1>3. FileAt(p, n) \in DOMAIN files[p] /\ files[p][FileAt(p, n)].name = n
  <2>1. FileAt(p, n) \in 1..Len(files[p]) /\ files[p][FileAt(p, n)].name = n
    BY TreeInvFacts, IsFileFacts
  <2> QED BY <1>1, <2>1, FileRowFacts
<1>4. Entry(path, files[p][FileAt(p, n)].data)
  BY <1>1, <1>2, <1>3 DEF Entry
<1>5. files[p][FileAt(p, n)].data # "directory"
  BY <1>1, <1>3, FileRowFacts, DirectoryAssumption
<1> QED BY <1>1, <1>2, <1>3, <1>4, <1>5, TreeIs

\* Looking up, opening for reading, closing what was open for reading and the
\* eviction by another mount are no steps of the tree.
LEMMA StatTree ==
  ASSUME TreeInv, dirs' = dirs, files' = files, handle' = handle
  PROVE  HavePaths' /\ Reached' /\ UNCHANGED <<tree, writing>>
<1>1. HavePaths' /\ Live' = Live /\ pathOf' = pathOf /\ tree' = tree
  BY TreeInvFacts, PathsStay, TreeStays
<1>2. Reached' /\ writing' = writing
  BY <1>1, TreeInvFacts, NoChannelStep DEF Reached
<1> QED BY <1>1, <1>2

LEMMA OpenReadTree ==
  ASSUME TreeInv, Distinct, NEW path \in Path, NEW w \in Walks(path), NEW h \in Handle,
         OpenRead(h, path, w)
  PROVE  HavePaths' /\ Reached' /\ UNCHANGED <<tree, writing>>
<1> SUFFICES ASSUME NEW p, p = Parent(path, w), NEW n, n = Last(path),
                    NEW v, v = [mode |-> "r", dir |-> p, idx |-> FileAt(p, n), path |-> path]
             PROVE  HavePaths' /\ Reached' /\ UNCHANGED <<tree, writing>>
  OBVIOUS
<1>1. /\ dirs' = dirs /\ files' = files /\ IsFile(p, n) /\ handle[h] = Closed
      /\ handle' = [handle EXCEPT ![h] = v]
  BY DEF OpenRead
<1>2. HavePaths' /\ Live' = Live /\ pathOf' = pathOf /\ tree' = tree
  BY <1>1, TreeInvFacts, PathsStay, TreeStays
<1>3. Reached' /\ writing' = [writing EXCEPT ![h] = <<>>]
  <2>1. p \in Live /\ pathOf[p] = Front(path)
    BY <1>1, FileInTree
  <2>2. v.mode = "r" /\ v.path = path /\ v.dir = p
    OBVIOUS
  <2>3. <<>> = IF v.mode = "w" THEN v.path ELSE <<>>
    BY <2>2
  <2> QED BY <1>1, <1>2, <2>1, <2>2, <2>3, ChannelStep
<1>4. writing' = writing
  BY <1>1, <1>3 DEF writing, Closed
<1> QED BY <1>2, <1>3, <1>4

LEMMA CloseReadTree ==
  ASSUME TreeInv, NEW h \in Handle, CloseRead(h)
  PROVE  HavePaths' /\ Reached' /\ UNCHANGED <<tree, writing>>
<1>1. dirs' = dirs /\ files' = files /\ handle[h].mode = "r" /\ handle' = [handle EXCEPT ![h] = Closed]
  BY DEF CloseRead
<1>2. HavePaths' /\ Live' = Live /\ pathOf' = pathOf /\ tree' = tree
  BY <1>1, TreeInvFacts, PathsStay, TreeStays
<1>3. Reached' /\ writing' = [writing EXCEPT ![h] = <<>>]
  <2>1. Closed.mode = "closed" /\ <<>> = IF Closed.mode = "w" THEN Closed.path ELSE <<>>
    BY DEF Closed
  <2> QED BY <1>1, <1>2, <2>1, ChannelStep
<1>4. writing' = writing
  BY <1>1, <1>3 DEF writing
<1> QED BY <1>2, <1>3, <1>4

\* Mounting again is the tree's own step.
LEMMA RemountTree ==
  ASSUME TreeInv, Remount
  PROVE  HavePaths' /\ Reached' /\ Tree!Remount
<1>1. dirs' = dirs /\ files' = files /\ handle' = [h \in Handle |-> Closed]
  BY DEF Remount
<1>2. HavePaths' /\ tree' = tree
  BY <1>1, TreeInvFacts, PathsStay, TreeStays
<1>3. Reached' /\ writing' = [h \in Handle |-> <<>>]
  BY <1>1 DEF Reached, writing, Closed
<1> QED BY <1>2, <1>3 DEF Tree!Remount

\* Opening a file that exists for writing.
LEMMA OpenWriteTree ==
  ASSUME TreeInv, Distinct, NEW path \in Path, NEW w \in Walks(path), NEW h \in Handle,
         OpenWrite(h, path, w)
  PROVE  HavePaths' /\ Reached' /\ Tree!Open(h, path)
<1> SUFFICES ASSUME NEW p, p = Parent(path, w), NEW n, n = Last(path),
                    NEW v, v = [mode |-> "w", dir |-> p, idx |-> FileAt(p, n), path |-> path]
             PROVE  HavePaths' /\ Reached' /\ Tree!Open(h, path)
  OBVIOUS
<1>1. /\ dirs' = dirs /\ files' = files /\ IsFile(p, n) /\ handle[h] = Closed
      /\ handle' = [handle EXCEPT ![h] = v]
  BY DEF OpenWrite
<1>2. HavePaths' /\ Live' = Live /\ pathOf' = pathOf /\ tree' = tree
  BY <1>1, TreeInvFacts, PathsStay, TreeStays
<1>3. p \in Live /\ pathOf[p] = Front(path) /\ path \in DOMAIN tree /\ tree[path] # "directory"
  BY <1>1, FileInTree
<1>4. Reached' /\ writing' = [writing EXCEPT ![h] = path]
  <2>1. v.mode = "w" /\ v.path = path /\ v.dir = p
    OBVIOUS
  <2>2. path = IF v.mode = "w" THEN v.path ELSE <<>>
    BY <2>1
  <2>3. v.mode # "closed" => v.path \in Path /\ v.dir \in Live /\ pathOf[v.dir] = Front(v.path)
    BY <1>3, <2>1
  <2> QED BY <1>1, <1>2, <2>2, <2>3, ChannelStep
<1>5. writing[h] = <<>>
  BY <1>1 DEF writing, Closed
<1> QED BY <1>2, <1>3, <1>4, <1>5 DEF Tree!Open, Tree!Dir

-----------------------------------------------------------------------------
(* Steps that change the files of one directory.                           *)

\* Directory r has a file called m with contents y.
Has(r, m, y) == \E i \in DOMAIN files[r] : files[r][i].name = m /\ files[r][i].data = y
DirAt(q) == \E r \in Live \ {Root} : q = pathOf[r]

LEMMA EntryIs ==
  ASSUME NEW q, NEW y
  PROVE  /\ Entry(q, y) <=> \/ DirAt(q) /\ y = "directory"
                            \/ \E r \in Live : \E m : q = Append(pathOf[r], m) /\ Has(r, m, y)
         /\ Entry(q, y)' <=> \/ DirAt(q)' /\ y = "directory"
                             \/ \E r \in Live' : \E m : q = Append(pathOf'[r], m) /\ Has(r, m, y)'
<1>1. Entry(q, y) <=> \/ DirAt(q) /\ y = "directory"
                      \/ \E r \in Live : \E m : q = Append(pathOf[r], m) /\ Has(r, m, y)
  BY DEF Entry, DirAt, Has
<1>2. Entry(q, y)' <=> \/ DirAt(q)' /\ y = "directory"
                       \/ \E r \in Live' : \E m : q = Append(pathOf'[r], m) /\ Has(r, m, y)'
  BY DEF Entry, DirAt, Has
<1> QED BY <1>1, <1>2

\* A step changes which contents directory p has under the name n, which is
\* not a directory's, to X.
Replaced(p, n, X) ==
  /\ dirs' = dirs
  /\ \A r \in Live \ {p} : files'[r] = files[r]
  /\ \A y : Has(p, n, y)' <=> y \in X
  /\ \A m, y : m # n => (Has(p, m, y)' <=> Has(p, m, y))

\* It changes the tree at the path of that name.
LEMMA FilesChange ==
  ASSUME TreeInv, NEW p \in Live, NEW n \in Label, NEW X, Replaced(p, n, X),
         NEW path, path = Append(pathOf[p], n), ~DirAt(path)
  PROVE  /\ \A y : Entry(path, y)' <=> y \in X
         /\ \A q, y : q # path => (Entry(q, y)' <=> Entry(q, y))
<1>0. /\ dirs' = dirs /\ \A r \in Live \ {p} : files'[r] = files[r]
      /\ \A y : Has(p, n, y)' <=> y \in X
      /\ \A m, y : m # n => (Has(p, m, y)' <=> Has(p, m, y))
  BY DEF Replaced
<1>1. Live' = Live /\ pathOf' = pathOf
  BY <1>0, TreeInvFacts, PathsStay
<1>2. \A q : DirAt(q)' <=> DirAt(q)
  BY <1>1 DEF DirAt
<1>3. \A r \in Live \ {p} : \A m, y : Has(r, m, y)' <=> Has(r, m, y)
  BY <1>0 DEF Has
<1>4. \A r \in Live : \A m, y : Has(r, m, y) => m \in Label
  BY FileRowFacts DEF Has
<1>5. \A q, y : Entry(q, y)' <=> \/ DirAt(q) /\ y = "directory"
                                 \/ \E r \in Live : \E m : q = Append(pathOf[r], m) /\ Has(r, m, y)'
  BY <1>1, <1>2, EntryIs
<1>6. ASSUME NEW y PROVE Entry(path, y)' <=> y \in X
  <2>1. ASSUME y \in X PROVE Entry(path, y)'
    <3>1. Has(p, n, y)'
      BY <1>0, <2>1
    <3> QED BY <1>5, <3>1
  <2>2. ASSUME Entry(path, y)' PROVE y \in X
    <3>1. PICK r \in Live : \E m : path = Append(pathOf[r], m) /\ Has(r, m, y)'
      BY <1>5, <2>2
    <3>2. PICK m : path = Append(pathOf[r], m) /\ Has(r, m, y)'
      BY <3>1
    <3>3. m \in Label
      <4>1. CASE r = p
        BY <1>0, <1>4, <3>2, <4>1
      <4>2. CASE r # p
        BY <1>3, <1>4, <3>2, <4>2
      <4> QED BY <4>1, <4>2
    <3>4. r = p /\ m = n
      <4>1. Append(pathOf[r], m) = Append(pathOf[p], n)
        BY <3>2
      <4> QED BY <3>3, <4>1, PathTells
    <3> QED BY <1>0, <3>2, <3>4
  <2> QED BY <2>1, <2>2
<1>7. ASSUME NEW q, NEW y, q # path PROVE Entry(q, y)' <=> Entry(q, y)
  <2>1. ASSUME NEW r \in Live, NEW m, q = Append(pathOf[r], m)
        PROVE  Has(r, m, y)' <=> Has(r, m, y)
    <3>1. CASE r = p
      <4>1. m # n
        BY <1>7, <2>1, <3>1
      <4> QED BY <1>0, <3>1, <4>1
    <3>2. CASE r # p
      BY <1>3, <3>2
    <3> QED BY <3>1, <3>2
  <2> QED BY <1>5, <2>1, EntryIs
<1> QED BY <1>6, <1>7

\* What a walk to nothing says of the tree.
LEMMA NothingInTree ==
  ASSUME TreeInv, Distinct, NEW path \in Path, NEW w \in Walks(path),
         NEW p, p = Parent(path, w), NEW n, n = Last(path), IsAbsent(p, n)
  PROVE  /\ p \in Live /\ pathOf[p] = Front(path) /\ path = Append(pathOf[p], n) /\ n \in Label
         /\ \A y : ~Has(p, n, y)
         /\ ~DirAt(path) /\ path \notin DOMAIN tree /\ Tree!IsDir(Front(path))
<1>1. p \in Live /\ pathOf[p] = Front(path)
  BY WalkLeads DEF IsAbsent
<1>2. path = Append(pathOf[p], n) /\ n \in Label
  <2>1. path \in Seq(Name) /\ path # <<>> /\ n \in Name
    BY PathFacts
  <2> QED BY <1>1, <2>1, FrontAndLast DEF Label
<1>3. /\ \A i \in 1..Len(files[p]) : files[p][i].name # n
      /\ \A r \in DOMAIN dirs : ~(dirs[r].parent = p /\ dirs[r].name = n)
  BY TreeInvFacts, IsAbsentFacts
<1>4. \A y : ~Has(p, n, y)
  BY <1>1, <1>3, FileRowFacts DEF Has
<1>5. ASSUME DirAt(path) PROVE FALSE
  <2>1. PICK r \in Live \ {Root} : path = pathOf[r]
    BY <1>5 DEF DirAt
  <2>2. /\ pathOf[r] = Append(pathOf[dirs[r].parent], dirs[r].name)
        /\ dirs[r].parent \in Live /\ dirs[r].name \in Label /\ r \in DOMAIN dirs
    BY TreeInvFacts, PathsOfRows, LiveFacts DEF HavePaths, Above
  <2>3. PICK d \in Live, m \in Label : d = dirs[r].parent /\ m = dirs[r].name
    BY <2>2
  <2>4. Append(pathOf[p], n) = Append(pathOf[d], m)
    BY <1>2, <2>1, <2>2, <2>3
  <2>5. p = d /\ n = m
    BY <1>1, <1>2, <2>4, PathTells
  <2> QED BY <1>3, <2>2, <2>3, <2>5
<1>6. ASSUME path \in DOMAIN tree PROVE FALSE
  <2>1. Entry(path, tree[path])
    BY <1>6, TreeIs
  <2>2. PICK r \in Live : \E m : path = Append(pathOf[r], m) /\ Has(r, m, tree[path])
    BY <1>5, <2>1, EntryIs
  <2>3. PICK m : path = Append(pathOf[r], m) /\ Has(r, m, tree[path])
    BY <2>2
  <2>4. m \in Label
    BY <2>3, FileRowFacts DEF Has
  <2>5. p = r /\ n = m
    BY <1>1, <1>2, <2>3, <2>4, PathTells
  <2> QED BY <1>4, <2>3, <2>5
<1>7. Tree!IsDir(Front(path))
  <2>1. CASE p = Root
    <3>1. pathOf[Root] = <<>>
      BY TreeInvFacts, PathsOfRows
    <3> QED BY <1>1, <2>1, <3>1 DEF Tree!IsDir
  <2>2. CASE p # Root
    <3>1. Entry(Front(path), "directory")
      BY <1>1, <2>2 DEF Entry
    <3> QED BY <3>1, TreeIs DEF Tree!IsDir, Tree!Dir
  <2> QED BY <2>1, <2>2
<1> QED BY <1>1, <1>2, <1>4, <1>5, <1>6, <1>7

\* Opening a new file for writing.
LEMMA OpenCreateTree ==
  ASSUME TreeInv, Distinct, IInv', NEW path \in Path, NEW w \in Walks(path), NEW h \in Handle,
         OpenCreate(h, path, w)
  PROVE  TreeInv' /\ Tree!Open(h, path)
<1> SUFFICES ASSUME NEW p, p = Parent(path, w), NEW n, n = Last(path),
                    NEW x, x = [name |-> n, data |-> Empty],
                    NEW v, v = [mode |-> "w", dir |-> p, idx |-> Len(files[p]) + 1, path |-> path]
             PROVE  TreeInv' /\ Tree!Open(h, path)
  OBVIOUS
<1>1. /\ dirs' = dirs /\ IsAbsent(p, n) /\ handle[h] = Closed
      /\ files' = [files EXCEPT ![p] = Append(files[p], x)]
      /\ handle' = [handle EXCEPT ![h] = v]
  BY DEF OpenCreate
<1>2. HavePaths' /\ Live' = Live /\ pathOf' = pathOf
  BY <1>1, TreeInvFacts, PathsStay
<1>3. /\ p \in Live /\ pathOf[p] = Front(path) /\ path = Append(pathOf[p], n) /\ n \in Label
      /\ \A y : ~Has(p, n, y)
      /\ ~DirAt(path) /\ path \notin DOMAIN tree /\ Tree!IsDir(Front(path))
  BY <1>1, NothingInTree
<1>4. Reached' /\ writing' = [writing EXCEPT ![h] = path]
  <2>1. v.mode = "w" /\ v.path = path /\ v.dir = p
    OBVIOUS
  <2>2. path = IF v.mode = "w" THEN v.path ELSE <<>>
    BY <2>1
  <2>3. v.mode # "closed" => v.path \in Path /\ v.dir \in Live /\ pathOf[v.dir] = Front(v.path)
    BY <1>3, <2>1
  <2> QED BY <1>1, <1>2, <2>2, <2>3, ChannelStep
<1>5. TreeInv'
  BY <1>2, <1>4 DEF TreeInv
<1>6. writing[h] = <<>>
  BY <1>1 DEF writing, Closed
<1>7. \A r \in Live \ {p} : files'[r] = files[r]
  BY <1>1, <1>3, FileRowFacts
<1>a. PICK X : X = {Empty}
  OBVIOUS
<1>8. /\ \A y : Has(p, n, y)' <=> y \in X
      /\ \A m, y : m # n => (Has(p, m, y)' <=> Has(p, m, y))
  <2>1. PICK s, t, k : s = files[p] /\ t = files'[p] /\ k = Len(s)
    OBVIOUS
  <2>2. s \in Seq(FileRow) /\ k \in Nat /\ DOMAIN s = 1..k /\ p \in DOMAIN files
    BY <1>3, <2>1, FileRowFacts
  <2>3. t = Append(s, x)
    BY <1>1, <2>1, <2>2
  <2>4. DOMAIN t = 1..(k + 1) /\ t[k + 1] = x /\ \A i \in 1..k : t[i] = s[i]
    BY <2>1, <2>2, <2>3
  <2>5. x.name = n /\ x.data = Empty
    OBVIOUS
  <2>6. \A m, y : Has(p, m, y) <=> \E i \in 1..k : s[i].name = m /\ s[i].data = y
    BY <2>1, <2>2 DEF Has
  <2>7. \A m, y : Has(p, m, y)' <=> \E i \in 1..(k + 1) : t[i].name = m /\ t[i].data = y
    BY <2>1, <2>4 DEF Has
  <2>8. \A i : i \in 1..(k + 1) <=> i \in 1..k \/ i = k + 1
    BY <2>2
  <2>9. \A m, y : Has(p, m, y)' <=> Has(p, m, y) \/ (n = m /\ Empty = y)
    BY <2>4, <2>5, <2>6, <2>7, <2>8
  <2> QED BY <1>3, <1>a, <2>9
<1>9. /\ \A y : Entry(path, y)' <=> y \in X
      /\ \A q, y : q # path => (Entry(q, y)' <=> Entry(q, y))
  <2>1. dirs' = dirs /\ p \in Live /\ n \in Label /\ path = Append(pathOf[p], n) /\ ~DirAt(path)
    BY <1>1, <1>3
  <2>2. Replaced(p, n, X)
    BY <1>7, <1>8, <2>1 DEF Replaced
  <2> QED BY <2>1, <2>2, FilesChange
<1>10. tree' = Tree!With(path, Empty)
  <2>1. \A q, y : Entry(q, y)' <=> IF q = path THEN y = Empty ELSE Entry(q, y)
    BY <1>9, <1>a
  <2> QED BY <1>5, <2>1, TreeWith
<1>11. Tree!Open(h, path)
  <2>1. Tree!IsDir(Tree!Front(path))
    BY <1>3 DEF Tree!Front, Front
  <2> QED BY <1>3, <1>4, <1>6, <1>10, <2>1 DEF Tree!Open
<1> QED BY <1>5, <1>11

\* A file's path is not a directory's.
LEMMA FileNoDir ==
  ASSUME TreeInv, NEW r \in Live, NEW i \in DOMAIN files[r],
         NEW path, path = Append(pathOf[r], files[r][i].name)
  PROVE  ~DirAt(path) /\ path \in DOMAIN tree /\ tree[path] # "directory"
<1>1. Entry(path, files[r][i].data)
  BY DEF Entry
<1>2. files[r][i].data # "directory"
  BY FileRowFacts, DirectoryAssumption
<1>3. DirAt(path) => Entry(path, "directory")
  BY DEF DirAt, Entry
<1>4. ~DirAt(path)
  BY <1>1, <1>2, <1>3, EntriesDiffer
<1>5. path \in DOMAIN tree /\ tree[path] = files[r][i].data
  BY <1>1, TreeIs
<1> QED BY <1>2, <1>4, <1>5

\* Closing a channel opened for writing.
LEMMA DoCloseTree ==
  ASSUME TreeInv, IInv', NEW h \in Handle, NEW x \in Data, DoClose(h, x)
  PROVE  TreeInv' /\ Tree!Close(h, x)
<1>0. PICK p, i, path, n : /\ p = handle[h].dir /\ i = handle[h].idx
                           /\ path = handle[h].path /\ n = Last(path)
  OBVIOUS
<1>1. /\ dirs' = dirs /\ handle[h].mode = "w" /\ handle' = [handle EXCEPT ![h] = Closed]
      /\ files' = [files EXCEPT ![p] = SetData(files[p], i, x)]
  BY <1>0 DEF DoClose
<1>2. HavePaths' /\ Live' = Live /\ pathOf' = pathOf
  BY <1>1, TreeInvFacts, PathsStay
<1>3. path \in Path /\ p \in Live /\ pathOf[p] = Front(path)
  BY <1>0, <1>1, TreeInvFacts DEF Reached
<1>4. path = Append(pathOf[p], n) /\ n \in Label /\ path # <<>>
  <2>1. path \in Seq(Name) /\ path # <<>> /\ n \in Name
    BY <1>0, <1>3, PathFacts
  <2> QED BY <1>0, <1>3, <2>1, FrontAndLast DEF Label
<1>5. /\ p \in DOMAIN dirs /\ p \in DOMAIN files /\ files[p] \in Seq(FileRow)
      /\ DOMAIN files[p] = 1..Len(files[p])
  BY <1>3, FileRowFacts
<1>6. i \in DOMAIN files[p] /\ files[p][i].name = n
  BY <1>0, <1>1, <1>5, TreeInvFacts DEF Positions, Placed
<1>7. ~DirAt(path) /\ path \in DOMAIN tree
  BY <1>3, <1>4, <1>6, FileNoDir
<1>8. Reached' /\ writing' = [writing EXCEPT ![h] = <<>>]
  <2>1. Closed.mode = "closed" /\ <<>> = IF Closed.mode = "w" THEN Closed.path ELSE <<>>
    BY DEF Closed
  <2> QED BY <1>1, <1>2, <2>1, ChannelStep
<1>9. TreeInv'
  BY <1>2, <1>8 DEF TreeInv
<1>10. writing[h] = path
  BY <1>0, <1>1 DEF writing
<1>11. \A r \in Live \ {p} : files'[r] = files[r]
  BY <1>1, <1>3, FileRowFacts
<1>12. PICK X : X = {x}
  OBVIOUS
<1>13. /\ \A y : Has(p, n, y)' <=> y \in X
       /\ \A m, y : m # n => (Has(p, m, y)' <=> Has(p, m, y))
  <2>1. PICK s, t, k : s = files[p] /\ t = files'[p] /\ k = Len(s)
    OBVIOUS
  <2>2. s \in Seq(FileRow) /\ DOMAIN s = 1..k /\ i \in 1..k /\ s[i].name = n /\ x \in Contents
    BY <1>5, <1>6, <2>1 DEF Contents
  <2>3. t = SetData(s, i, x)
    BY <1>1, <1>5, <2>1
  <2>4. /\ t \in Seq(FileRow) /\ Len(t) = k /\ \A j \in 1..k : t[j].name = s[j].name
        /\ \A j \in 1..k : j # i => t[j] = s[j]
    <3>1. s \in Seq(FileRow) /\ i \in 1..Len(s) /\ x \in Contents
      BY <2>1, <2>2
    <3>2. /\ SetData(s, i, x) \in Seq(FileRow) /\ Len(SetData(s, i, x)) = Len(s)
          /\ \A j \in 1..Len(s) : SetData(s, i, x)[j].name = s[j].name
          /\ \A j \in 1..Len(s) : j # i => SetData(s, i, x)[j] = s[j]
      BY <3>1, SetDataFacts
    <3> QED BY <2>1, <2>3, <3>2
  <2>5. DOMAIN t = 1..k
    BY <2>4, LenProperties
  <2>6. t[i].data = x
    BY <2>2, <2>3, <2>5 DEF SetData
  <2>7. \A j \in 1..k : s[j].name = n => j = i
    BY <1>5, <2>1, <2>2, TreeInvFacts DEF NamesUnique
  <2>8. \A m, y : Has(p, m, y) <=> \E j \in 1..k : s[j].name = m /\ s[j].data = y
    BY <2>1, <2>2 DEF Has
  <2>9. \A m, y : Has(p, m, y)' <=> \E j \in 1..k : t[j].name = m /\ t[j].data = y
    BY <2>1, <2>5 DEF Has
  <2>10. \A y : Has(p, n, y)' <=> y \in X
    BY <1>12, <2>2, <2>4, <2>6, <2>7, <2>9
  <2>11. ASSUME NEW m, NEW y, m # n PROVE Has(p, m, y)' <=> Has(p, m, y)
    BY <2>2, <2>4, <2>8, <2>9, <2>11
  <2> QED BY <2>10, <2>11
<1>14. /\ \A y : Entry(path, y)' <=> y \in X
       /\ \A q, y : q # path => (Entry(q, y)' <=> Entry(q, y))
  <2>1. dirs' = dirs /\ p \in Live /\ n \in Label /\ path = Append(pathOf[p], n)
    BY <1>1, <1>3, <1>4
  <2>2. ~DirAt(path)
    BY <1>7
  <2>3. Replaced(p, n, X)
    BY <1>11, <1>13, <2>1 DEF Replaced
  <2> QED BY <2>1, <2>2, <2>3, FilesChange
<1>15. tree' = Tree!With(path, x)
  <2>1. \A q, y : Entry(q, y)' <=> IF q = path THEN y = x ELSE Entry(q, y)
    BY <1>12, <1>14
  <2> QED BY <1>9, <2>1, TreeWith
<1>16. Tree!Close(h, x)
  BY <1>4, <1>7, <1>8, <1>10, <1>15 DEF Tree!Close
<1> QED BY <1>9, <1>16

\* Deleting a file.
LEMMA DeleteFileTree ==
  ASSUME TreeInv, Distinct, IInv', NEW path \in Path, NEW w \in Walks(path), DeleteFile(path, w)
  PROVE  /\ TreeInv' /\ writing' = writing
         /\ path \in DOMAIN tree /\ Tree!DeleteFile(path)
<1> SUFFICES ASSUME NEW p, p = Parent(path, w), NEW n, n = Last(path),
                    NEW i, i = FileAt(p, n)
             PROVE  /\ TreeInv' /\ writing' = writing
                    /\ path \in DOMAIN tree /\ Tree!DeleteFile(path)
  OBVIOUS
<1>1. /\ dirs' = dirs /\ handle' = handle /\ IsFile(p, n)
      /\ files' = [files EXCEPT ![p] = RemoveAt(files[p], i)]
  BY DEF DeleteFile
<1>2. HavePaths' /\ Live' = Live /\ pathOf' = pathOf
  BY <1>1, TreeInvFacts, PathsStay
<1>3. /\ p \in Live /\ pathOf[p] = Front(path) /\ path = Append(pathOf[p], n) /\ n \in Label
      /\ i \in DOMAIN files[p] /\ files[p][i].name = n
      /\ path \in DOMAIN tree /\ tree[path] # "directory"
  BY <1>1, FileInTree
<1>4. ~DirAt(path)
  BY <1>3, FileNoDir
<1>5. /\ p \in DOMAIN dirs /\ p \in DOMAIN files /\ files[p] \in Seq(FileRow)
      /\ DOMAIN files[p] = 1..Len(files[p]) /\ Len(files[p]) \in Nat
  BY <1>3, FileRowFacts
<1>6. Reached' /\ writing' = writing
  BY <1>1, <1>2, TreeInvFacts, NoChannelStep DEF Reached
<1>7. TreeInv'
  BY <1>2, <1>6 DEF TreeInv
<1>8. \A r \in Live \ {p} : files'[r] = files[r]
  BY <1>1, <1>3, FileRowFacts
<1>9. PICK X : X = {}
  OBVIOUS
<1>10. /\ \A y : Has(p, n, y)' <=> y \in X
       /\ \A m, y : m # n => (Has(p, m, y)' <=> Has(p, m, y))
  <2>1. PICK s, t, k : s = files[p] /\ t = files'[p] /\ k = Len(s)
    OBVIOUS
  <2>2. s \in Seq(FileRow) /\ k \in Nat /\ DOMAIN s = 1..k /\ i \in 1..k /\ s[i].name = n
    BY <1>3, <1>5, <2>1
  <2>3. t = RemoveAt(s, i)
    BY <1>1, <1>5, <2>1
  <2>4. /\ t \in Seq(FileRow) /\ Len(t) = k - 1
        /\ \A j \in 1..(k - 1) : t[j] = IF j < i THEN s[j] ELSE s[j + 1]
    BY <2>1, <2>2, <2>3, RemoveAtFacts
  <2>5. DOMAIN t = 1..(k - 1)
    BY <2>4, LenProperties
  <2>6. \A j \in 1..k : s[j].name = n => j = i
    BY <1>5, <2>1, <2>2, TreeInvFacts DEF NamesUnique
  <2>7. \A m, y : Has(p, m, y) <=> \E j \in 1..k : s[j].name = m /\ s[j].data = y
    BY <2>1, <2>2 DEF Has
  <2>8. \A m, y : Has(p, m, y)' <=> \E j \in 1..(k - 1) : t[j].name = m /\ t[j].data = y
    BY <2>1, <2>5 DEF Has
  <2>9. ASSUME NEW j \in 1..(k - 1) PROVE \E l \in 1..k : l # i /\ t[j] = s[l]
    <3>1. CASE j < i
      <4>1. j \in 1..k /\ j # i
        BY <2>2, <3>1
      <4> QED BY <2>4, <3>1, <4>1
    <3>2. CASE ~(j < i)
      <4>1. j + 1 \in 1..k /\ j + 1 # i
        BY <2>2, <3>2
      <4> QED BY <2>4, <3>2, <4>1
    <3> QED BY <3>1, <3>2
  <2>10. ASSUME NEW l \in 1..k, l # i PROVE \E j \in 1..(k - 1) : t[j] = s[l]
    <3>1. CASE l < i
      <4>1. l \in 1..(k - 1)
        BY <2>2, <3>1
      <4> QED BY <2>4, <3>1, <4>1
    <3>2. CASE ~(l < i)
      <4>1. l - 1 \in 1..(k - 1) /\ ~(l - 1 < i) /\ (l - 1) + 1 = l
        BY <2>2, <2>10, <3>2
      <4> QED BY <2>4, <4>1
    <3> QED BY <3>1, <3>2
  <2>11. ASSUME NEW y PROVE Has(p, n, y)' <=> y \in X
    BY <1>9, <2>6, <2>8, <2>9
  <2>12. ASSUME NEW m, NEW y, m # n PROVE Has(p, m, y)' <=> Has(p, m, y)
    <3>1. Has(p, m, y)' => Has(p, m, y)
      BY <2>7, <2>8, <2>9
    <3>2. ASSUME Has(p, m, y) PROVE Has(p, m, y)'
      <4>1. PICK l \in 1..k : s[l].name = m /\ s[l].data = y
        BY <2>7, <3>2
      <4>2. l # i
        BY <2>2, <2>12, <4>1
      <4> QED BY <2>8, <2>10, <4>1, <4>2
    <3> QED BY <3>1, <3>2
  <2> QED BY <2>11, <2>12
<1>11. /\ \A y : Entry(path, y)' <=> y \in X
       /\ \A q, y : q # path => (Entry(q, y)' <=> Entry(q, y))
  <2>1. dirs' = dirs /\ p \in Live /\ n \in Label /\ path = Append(pathOf[p], n)
    BY <1>1, <1>3
  <2>2. Replaced(p, n, X)
    BY <1>8, <1>10, <2>1 DEF Replaced
  <2> QED BY <1>4, <2>1, <2>2, FilesChange
<1>12. tree' = Tree!Without({path})
  <2>1. PICK D : D = {path}
    OBVIOUS
  <2>2. \A q, y : Entry(q, y)' <=> Entry(q, y) /\ q \notin D
    BY <1>9, <1>11, <2>1
  <2>3. tree' = Tree!Without(D)
    BY <1>7, <2>2, TreeWithout
  <2> QED BY <2>1, <2>3
<1> QED BY <1>3, <1>6, <1>7, <1>12 DEF Tree!DeleteFile, Tree!Dir

-----------------------------------------------------------------------------
(* Steps that change which directories there are.                          *)

\* A solution after the step is the paths after the step.
LEMMA NewPaths ==
  ASSUME IInv', Above', NEW g, Solves(g)'
  PROVE  HavePaths' /\ pathOf' = g
<1>1. HavePaths'
  BY DEF HavePaths
<1>2. TypeOK'
  BY DEF IInv
<1> QED BY <1>1, <1>2, PathsUniqueNext

\* A new directory.
LEMMA MkdirTree ==
  ASSUME TreeInv, Distinct, IInv', NEW path \in Path, NEW w \in Walks(path), Mkdir(path, w)
  PROVE  /\ TreeInv' /\ writing' = writing
         /\ path \notin DOMAIN tree /\ Tree!CreateDirectory(path)
<1> SUFFICES ASSUME NEW p, p = Parent(path, w), NEW n, n = Last(path),
                    NEW x, x = [name |-> n, parent |-> p]
             PROVE  /\ TreeInv' /\ writing' = writing
                    /\ path \notin DOMAIN tree /\ Tree!CreateDirectory(path)
  OBVIOUS
<1>1. /\ IsAbsent(p, n) /\ handle' = handle
      /\ dirs' = Append(dirs, x) /\ files' = Append(files, <<>>)
  BY DEF Mkdir
<1>2. /\ p \in Live /\ path = Append(pathOf[p], n) /\ n \in Label
      /\ path \notin DOMAIN tree /\ Tree!IsDir(Front(path))
  BY <1>1, NothingInTree
<1>3. PICK k \in Nat : k = Len(dirs)
  BY TreeInvFacts, RowFacts
<1>4. /\ DOMAIN dirs = 1..k /\ DOMAIN dirs' = 1..(k + 1) /\ k >= 1 /\ p \in 1..k
      /\ dirs'[k + 1] = x /\ \A i \in 1..k : dirs'[i] = dirs[i]
  <2>1. /\ DOMAIN dirs = 1..k /\ k >= 1 /\ p \in 1..k
    BY <1>2, <1>3, TreeInvFacts, RowFacts, LiveFacts
  <2>2. dirs \in Seq(DirRow)
    BY TreeInvFacts, Types DEF DirsTyped
  <2> QED BY <1>1, <1>3, <2>1, <2>2
<1>5. /\ DOMAIN files'[k + 1] = {} /\ \A i \in 1..k : files'[i] = files[i]
  <2>1. PICK T : T = Seq(FileRow)
    OBVIOUS
  <2>2. files \in Seq(T) /\ Len(files) = k
    BY <1>3, <2>1, TreeInvFacts, Types DEF FilesTyped
  <2>3. files'[k + 1] = <<>> /\ \A i \in 1..k : files'[i] = files[i]
    BY <1>1, <2>2
  <2> QED BY <2>3
<1>6. x.parent = p /\ x.name = n /\ p # Deleted /\ k + 1 \notin 1..k /\ Root # k + 1
  BY <1>4 DEF Deleted, Root
<1>7. /\ Live' = Live \cup {k + 1} /\ k + 1 \notin Live
      /\ \A r \in Live : dirs'[r] = dirs[r]
  <2>1. \A r : r \in 1..(k + 1) <=> r \in 1..k \/ r = k + 1
    OBVIOUS
  <2> QED BY <1>4, <1>6, <2>1 DEF Live
<1>8. Root \in Live /\ \A r \in Live \ {Root} : dirs[r].parent \in Live /\ dirs[r].parent < r
  BY TreeInvFacts DEF HavePaths, Above
<1>9. Above'
  <2>1. p < k + 1
    BY <1>4
  <2> QED BY <1>2, <1>4, <1>6, <1>7, <1>8, <2>1 DEF Above
<1>10. PICK g : g = [r \in Live' |-> IF r = k + 1 THEN path ELSE pathOf[r]]
  OBVIOUS
<1>11. Solves(g)'
  <2>1. /\ pathOf[Root] = <<>>
        /\ \A r \in Live \ {Root} : pathOf[r] = Append(pathOf[dirs[r].parent], dirs[r].name)
    BY TreeInvFacts, PathsOfRows
  <2>2. g[Root] = <<>>
    BY <1>6, <1>7, <1>8, <1>10, <2>1
  <2>3. \A r \in Live : g[r] = pathOf[r]
    BY <1>7, <1>10
  <2>4. \A r \in Live \ {Root} : g[r] = Append(g[dirs'[r].parent], dirs'[r].name)
    BY <1>7, <1>8, <2>1, <2>3
  <2>5. g[k + 1] = Append(g[dirs'[k + 1].parent], dirs'[k + 1].name)
    BY <1>2, <1>4, <1>6, <1>7, <1>10, <2>3
  <2>6. g = [r \in Live' |->
               IF r = Root THEN <<>> ELSE Append(g[dirs'[r].parent], dirs'[r].name)]
    BY <1>7, <1>10, <2>2, <2>4, <2>5
  <2> QED BY <2>6 DEF Solves
<1>12. HavePaths' /\ pathOf' = g
  BY <1>9, <1>11, NewPaths
<1>13. pathOf'[k + 1] = path /\ \A r \in Live : pathOf'[r] = pathOf[r]
  BY <1>7, <1>10, <1>12
<1>14. Reached' /\ writing' = writing
  <2>1. \A h \in Handle : handle[h].mode # "closed" =>
          handle[h].dir \in Live' /\ pathOf'[handle[h].dir] = pathOf[handle[h].dir]
    BY <1>7, <1>13, TreeInvFacts DEF Reached
  <2> QED BY <1>1, <2>1, NoChannelStep
<1>15. TreeInv'
  BY <1>12, <1>14 DEF TreeInv
<1>16. \A q : DirAt(q)' <=> DirAt(q) \/ q = path
  BY <1>6, <1>7, <1>13 DEF DirAt
<1>17. /\ \A r \in Live : \A m, y : Has(r, m, y)' <=> Has(r, m, y)
       /\ \A m, y : ~Has(k + 1, m, y)'
  <2>1. \A r \in Live : files'[r] = files[r]
    BY <1>4, <1>5 DEF Live
  <2> QED BY <1>5, <2>1 DEF Has
<1>18. ASSUME NEW q, NEW y
       PROVE  Entry(q, y)' <=> Entry(q, y) \/ (q = path /\ y = "directory")
  BY <1>7, <1>13, <1>16, <1>17, EntryIs
<1>19. \A y : ~Entry(path, y)
  BY <1>2, TreeIs
<1>20. tree' = Tree!With(path, "directory")
  <2>1. \A q, y : Entry(q, y)' <=> IF q = path THEN y = "directory" ELSE Entry(q, y)
    BY <1>18, <1>19
  <2> QED BY <1>15, <2>1, TreeWith
<1>21. Tree!CreateDirectory(path)
  <2>1. Tree!IsDir(Tree!Front(path))
    BY <1>2 DEF Tree!Front, Front
  <2> QED BY <1>20, <2>1 DEF Tree!CreateDirectory, Tree!Dir
<1> QED BY <1>2, <1>14, <1>15, <1>21

\* The subtree of a directory is what has its path as a prefix.
LEMMA SubtreePaths ==
  ASSUME TreeInv, NEW r \in Live \ {Root}
  PROVE  \A s \in Live : s \in Subtree(r) <=> IsPrefix(pathOf[r], pathOf[s])
<1>1. /\ \A s \in Live : s \in DOMAIN dirs /\ pathOf[s] \in Seq(Label) /\ dirs[s].name \in Label
      /\ Live \subseteq Nat
  BY TreeInvFacts, LiveFacts, PathsOfRows
<1>2. PICK p \in Seq(Label) : p = pathOf[r]
  BY <1>1
<1>3. /\ pathOf[Root] = <<>>
      /\ \A s \in Live \ {Root} : pathOf[s] = Append(pathOf[dirs[s].parent], dirs[s].name)
      /\ \A s, d \in Live : pathOf[s] = pathOf[d] => s = d
  BY TreeInvFacts, PathsOfRows
<1>4. Root \in Live /\ \A s \in Live \ {Root} : dirs[s].parent \in Live /\ dirs[s].parent < s
  BY TreeInvFacts DEF HavePaths, Above
<1>5. \A s \in Live \ {Root} :
        IsPrefix(p, pathOf[s]) <=> IsPrefix(p, pathOf[dirs[s].parent]) \/ p = pathOf[s]
  <2> SUFFICES ASSUME NEW s \in Live \ {Root}, NEW d \in Live, d = dirs[s].parent
               PROVE  IsPrefix(p, pathOf[s]) <=> IsPrefix(p, pathOf[d]) \/ p = pathOf[s]
    BY <1>4
  <2>1. PICK t \in Seq(Label), e \in Label : t = pathOf[d] /\ e = dirs[s].name
    BY <1>1
  <2>2. pathOf[s] = Append(t, e)
    BY <1>3, <2>1
  <2>3. IsPrefix(p, Append(t, e)) <=> IsPrefix(p, t) \/ p = Append(t, e)
    BY PrefixAppend
  <2> QED BY <2>1, <2>2, <2>3
<1>6. /\ r \in Subtree(r) /\ \A d \in Subtree(r) : Children(d) \subseteq Subtree(r)
      /\ r \in DOMAIN dirs
  BY <1>1, TreeInvFacts, SubtreeFacts
<1>7. ASSUME NEW s \in Live, s \in Subtree(r) PROVE IsPrefix(p, pathOf[s])
  <2>1. PICK C \in SUBSET DOMAIN dirs :
          C = {d \in DOMAIN dirs : d \notin Live \/ IsPrefix(p, pathOf[d])}
    OBVIOUS
  <2>2. r \in C
    BY <1>2, <1>6, <2>1, PrefixEnds
  <2>3. ASSUME NEW d \in C, NEW c \in Children(d) PROVE c \in C
    <3>1. c \in DOMAIN dirs /\ dirs[c].parent = d /\ d \in DOMAIN dirs
      BY <2>1 DEF Children
    <3>2. c # Root
      <4>1. RootParent \notin DOMAIN dirs
        BY TreeInvFacts, RowFacts DEF RootParent
      <4> QED BY <3>1, <4>1, TreeInvFacts DEF ParentsAreRows
    <3>3. CASE c \in Live
      <4>1. d \in Live
        BY <1>4, <3>1, <3>2, <3>3
      <4>2. IsPrefix(p, pathOf[d])
        BY <2>1, <4>1
      <4> QED BY <1>5, <2>1, <3>1, <3>2, <3>3, <4>2
    <3> QED BY <2>1, <3>1, <3>3
  <2>4. s \in C
    BY <1>7, <2>2, <2>3 DEF Subtree
  <2> QED BY <2>1, <2>4
<1>8. PICK S : S = {s \in Live : IsPrefix(p, pathOf[s]) /\ s \notin Subtree(r)}
  OBVIOUS
<1>9. ASSUME S # {} PROVE FALSE
  <2>1. S \subseteq Nat
    BY <1>1, <1>8
  <2>2. PICK s \in S : \A d \in S : s <= d
    BY <1>9, <2>1, LeastOf
  <2>3. s \in Live /\ IsPrefix(p, pathOf[s]) /\ s \notin Subtree(r)
    BY <1>8
  <2>4. s # Root
    <3>1. ASSUME s = Root PROVE FALSE
      <4>1. p = <<>>
        BY <1>3, <2>3, <3>1, PrefixEnds
      <4> QED BY <1>2, <1>3, <1>4, <4>1
    <3> QED BY <3>1
  <2>5. dirs[s].parent \in Live /\ dirs[s].parent < s /\ s \in Nat /\ dirs[s].parent \in Nat
    BY <1>1, <1>4, <2>3, <2>4
  <2>6. dirs[s].parent \notin S
    BY <2>2, <2>5
  <2>7. CASE IsPrefix(p, pathOf[dirs[s].parent])
    <3>1. dirs[s].parent \in Subtree(r)
      BY <1>8, <2>5, <2>6, <2>7
    <3>2. s \in Children(dirs[s].parent)
      BY <1>1, <2>3 DEF Children
    <3> QED BY <1>6, <2>3, <3>1, <3>2
  <2>8. CASE p = pathOf[s]
    BY <1>2, <1>3, <1>6, <2>3, <2>8
  <2> QED BY <1>5, <2>3, <2>4, <2>7, <2>8
<1> QED BY <1>2, <1>7, <1>8, <1>9

\* Deleting a directory with all that is in it.
LEMMA DeleteDirTree ==
  ASSUME TreeInv, Distinct, IInv', NEW path \in Path, NEW w \in Walks(path),
         NEW recursive \in BOOLEAN, DeleteDir(path, w, recursive)
  PROVE  /\ TreeInv' /\ writing' = writing
         /\ path \in DOMAIN tree /\ Tree!RemoveDirectory(path, TRUE)
<1> SUFFICES ASSUME NEW p, p = Parent(path, w), NEW n, n = Last(path),
                    NEW r, r = Lookup(p, n), NEW gone, gone = Subtree(r)
             PROVE  /\ TreeInv' /\ writing' = writing
                    /\ path \in DOMAIN tree /\ Tree!RemoveDirectory(path, TRUE)
  OBVIOUS
<1>a. PICK x : x = [name |-> "", parent |-> Deleted]
  OBVIOUS
<1>1. /\ IsDir(p, n) /\ handle' = handle /\ \A g \in Handle : handle[g].dir \notin gone
      /\ dirs' = [s \in DOMAIN dirs |-> IF s \in gone THEN x ELSE dirs[s]]
      /\ files' = [s \in DOMAIN files |-> IF s \in gone THEN <<>> ELSE files[s]]
  BY <1>a DEF DeleteDir, Undisturbed, Distinct
<1>2. r \in DOMAIN dirs /\ p \in DOMAIN dirs /\ dirs[r].parent = p /\ dirs[r].name = n
  BY <1>1, TreeInvFacts, IsDirFacts
<1>3. p \in Live /\ pathOf[p] = Front(path)
  BY <1>1, WalkLeads DEF IsDir
<1>4. r \in Live \ {Root}
  <2>1. p \in Nat
    BY <1>3, LiveFacts, TreeInvFacts
  <2> QED BY <1>2, <2>1, TreeInvFacts DEF Live, ParentsAreRows, Deleted, RootParent
<1>5. path = pathOf[r] /\ path \in Seq(Label)
  <2>1. path \in Seq(Name) /\ path # <<>>
    BY PathFacts
  <2>2. Append(Front(path), n) = path
    BY <2>1, FrontAndLast
  <2>3. /\ pathOf[r] = Append(pathOf[dirs[r].parent], dirs[r].name)
        /\ pathOf[r] \in Seq(Label)
    BY <1>4, TreeInvFacts, PathsOfRows
  <2>4. path = pathOf[r]
    BY <1>2, <1>3, <2>2, <2>3
  <2> QED BY <2>3, <2>4
<1>6. \A s \in Live : s \in gone <=> IsPrefix(path, pathOf[s])
  BY <1>4, <1>5, SubtreePaths
<1>7. /\ gone \subseteq DOMAIN dirs /\ Root \notin gone
      /\ \A d \in gone : Children(d) \subseteq gone
  <2>1. p \in Nat
    BY <1>3, LiveFacts, TreeInvFacts
  <2>2. dirs[r].parent # RootParent
    BY <1>2, <2>1 DEF RootParent
  <2> QED BY <1>2, <2>2, TreeInvFacts, SubtreeFacts
<1>8. /\ DOMAIN dirs' = DOMAIN dirs /\ \A s \in gone : dirs'[s].parent = Deleted
      /\ \A s \in DOMAIN dirs \ gone : dirs'[s] = dirs[s] /\ files'[s] = files[s]
  <2>1. x.parent = Deleted
    BY <1>a
  <2>2. DOMAIN files = DOMAIN dirs
    BY TreeInvFacts, RowFacts
  <2>3. DOMAIN dirs' = DOMAIN dirs /\ \A s \in gone : dirs'[s] = x
    BY <1>1, <1>7
  <2>4. \A s \in DOMAIN dirs \ gone : dirs'[s] = dirs[s] /\ files'[s] = files[s]
    BY <1>1, <2>2
  <2> QED BY <2>1, <2>3, <2>4
<1>9. /\ Live' = Live \ gone
      /\ \A s \in Live' : dirs'[s] = dirs[s] /\ files'[s] = files[s]
  <2>1. Live' = Live \ gone
    BY <1>7, <1>8 DEF Live
  <2> QED BY <1>8, <2>1 DEF Live
<1>10. Root \in Live /\ \A s \in Live \ {Root} : dirs[s].parent \in Live /\ dirs[s].parent < s
  BY TreeInvFacts DEF HavePaths, Above
<1>11. \A s \in Live' \ {Root} : dirs[s].parent \in Live'
  <2>1. ASSUME NEW s \in Live' \ {Root} PROVE dirs[s].parent \in Live'
    <3>1. s \in Live /\ s \notin gone /\ dirs[s].parent \in Live /\ s \in DOMAIN dirs
      BY <1>9, <1>10 DEF Live
    <3>2. s \in Children(dirs[s].parent)
      BY <3>1 DEF Children
    <3>3. dirs[s].parent \notin gone
      BY <1>7, <3>1, <3>2
    <3> QED BY <1>9, <3>1, <3>3
  <2> QED BY <2>1
<1>12. Above'
  BY <1>7, <1>9, <1>10, <1>11 DEF Above
<1>13. PICK g : g = [s \in Live' |-> pathOf[s]]
  OBVIOUS
<1>14. Solves(g)'
  <2>1. /\ pathOf[Root] = <<>>
        /\ \A s \in Live \ {Root} : pathOf[s] = Append(pathOf[dirs[s].parent], dirs[s].name)
    BY TreeInvFacts, PathsOfRows
  <2>2. g[Root] = <<>>
    BY <1>7, <1>9, <1>10, <1>13, <2>1
  <2>3. \A s \in Live' \ {Root} : g[s] = Append(g[dirs'[s].parent], dirs'[s].name)
    BY <1>9, <1>11, <1>13, <2>1
  <2>4. g = [s \in Live' |->
               IF s = Root THEN <<>> ELSE Append(g[dirs'[s].parent], dirs'[s].name)]
    BY <1>13, <2>2, <2>3
  <2> QED BY <2>4 DEF Solves
<1>15. HavePaths' /\ pathOf' = g
  BY <1>12, <1>14, NewPaths
<1>16. \A s \in Live' : pathOf'[s] = pathOf[s]
  BY <1>13, <1>15
<1>17. Reached' /\ writing' = writing
  <2>1. \A h \in Handle : handle[h].mode # "closed" =>
          handle[h].dir \in Live' /\ pathOf'[handle[h].dir] = pathOf[handle[h].dir]
    BY <1>1, <1>9, <1>16, TreeInvFacts DEF Reached
  <2> QED BY <1>1, <2>1, NoChannelStep
<1>18. TreeInv'
  BY <1>15, <1>17 DEF TreeInv
<1>19. Entry(path, "directory")
  BY <1>4, <1>5 DEF Entry
<1>20. \A s \in Live, m \in Label :
         IsPrefix(path, Append(pathOf[s], m)) <=> s \in gone \/ path = Append(pathOf[s], m)
  <2> SUFFICES ASSUME NEW s \in Live, NEW m \in Label
               PROVE  IsPrefix(path, Append(pathOf[s], m)) <=>
                        s \in gone \/ path = Append(pathOf[s], m)
    OBVIOUS
  <2>1. PICK t \in Seq(Label) : t = pathOf[s]
    BY TreeInvFacts, PathsOfRows
  <2>2. IsPrefix(path, Append(t, m)) <=> IsPrefix(path, t) \/ path = Append(t, m)
    BY <1>5, PrefixAppend
  <2> QED BY <1>6, <2>1, <2>2
<1>21. \A s \in Live : \A m, y : Has(s, m, y) => m \in Label /\ y # "directory"
  <2> SUFFICES ASSUME NEW s \in Live, NEW m, NEW y, Has(s, m, y)
               PROVE  m \in Label /\ y # "directory"
    OBVIOUS
  <2>1. m \in Label /\ y \in Contents
    BY FileRowFacts DEF Has
  <2> QED BY <2>1, DirectoryAssumption
<1>22. /\ \A q : DirAt(q)' <=> DirAt(q) /\ ~IsPrefix(path, q)
       /\ \A s \in Live' : \A m, y : Has(s, m, y)' <=> Has(s, m, y)
  <2>1. \A q : DirAt(q)' <=> DirAt(q) /\ ~IsPrefix(path, q)
    <3>1. \A s : s \in Live' \ {Root} <=> s \in Live \ {Root} /\ ~IsPrefix(path, pathOf[s])
      BY <1>6, <1>9
    <3> QED BY <1>16, <3>1 DEF DirAt
  <2>2. \A s \in Live' : \A m, y : Has(s, m, y)' <=> Has(s, m, y)
    BY <1>9 DEF Has
  <2> QED BY <2>1, <2>2
<1>23. \A q, y : Entry(q, y)' <=>
         \/ DirAt(q) /\ ~IsPrefix(path, q) /\ y = "directory"
         \/ \E s \in Live \ gone : \E m : q = Append(pathOf[s], m) /\ Has(s, m, y)
  BY <1>9, <1>16, <1>22, EntryIs
<1>24. ASSUME NEW q, NEW y PROVE Entry(q, y)' <=> Entry(q, y) /\ ~IsPrefix(path, q)
  <2>1. ASSUME Entry(q, y)' PROVE Entry(q, y) /\ ~IsPrefix(path, q)
    <3>1. CASE DirAt(q) /\ ~IsPrefix(path, q) /\ y = "directory"
      BY <3>1, EntryIs
    <3>2. ASSUME NEW s \in Live \ gone, NEW m, q = Append(pathOf[s], m), Has(s, m, y)
          PROVE  Entry(q, y) /\ ~IsPrefix(path, q)
      <4>1. Entry(q, y)
        BY <3>2, EntryIs
      <4>2. m \in Label /\ y # "directory"
        BY <1>21, <3>2
      <4>3. path # q
        BY <1>19, <4>1, <4>2, EntriesDiffer
      <4> QED BY <1>20, <3>2, <4>1, <4>2, <4>3
    <3> QED BY <1>23, <2>1, <3>1, <3>2
  <2>2. ASSUME Entry(q, y), ~IsPrefix(path, q) PROVE Entry(q, y)'
    <3>1. CASE DirAt(q) /\ y = "directory"
      BY <1>23, <2>2, <3>1
    <3>2. ASSUME NEW s \in Live, NEW m, q = Append(pathOf[s], m), Has(s, m, y)
          PROVE  Entry(q, y)'
      <4>1. m \in Label
        BY <1>21, <3>2
      <4>2. s \notin gone
        BY <1>20, <2>2, <3>2, <4>1
      <4> QED BY <1>23, <3>2, <4>2
    <3> QED BY <2>2, <3>1, <3>2, EntryIs
  <2> QED BY <2>1, <2>2
<1>25. PICK D : D = Tree!Below(path)
  OBVIOUS
<1>26. \A q : q \in D <=> q \in DOMAIN tree /\ IsPrefix(path, q)
  BY <1>25 DEF Tree!Below, Tree!IsPrefix, IsPrefix
<1>27. \A q, y : Entry(q, y) => q \in DOMAIN tree
  BY TreeIs
<1>28. \A q, y : Entry(q, y)' <=> Entry(q, y) /\ q \notin D
  BY <1>24, <1>26, <1>27
<1>29. tree' = Tree!Without(D)
  BY <1>18, <1>28, TreeWithout
<1>30. path \in DOMAIN tree /\ tree[path] = "directory"
  BY <1>19, TreeIs
<1> QED BY <1>17, <1>18, <1>25, <1>29, <1>30 DEF Tree!RemoveDirectory, Tree!Dir

-----------------------------------------------------------------------------
(* The refinement.                                                         *)

\* An empty datafile is an empty tree.
LEMMA InitTree ==
  ASSUME Init
  PROVE  TreeInv /\ Tree!Init
<1>1. PICK x : x = [name |-> "<root>", parent |-> RootParent]
  OBVIOUS
<1>2. /\ dirs = <<x>> /\ files = << <<>> >> /\ x.parent # Deleted
      /\ handle = [h \in Handle |-> Closed]
  BY <1>1 DEF Init, RootParent, Deleted
<1>3. IInv
  BY InitIInv
<1>4. Live = {Root} /\ DOMAIN files[Root] = {}
  BY <1>2 DEF Live, Root
<1>5. PICK g : g = [r \in Live |-> <<>>]
  OBVIOUS
<1>6. HavePaths
  <2>1. g = [r \in Live |-> IF r = Root THEN <<>> ELSE Append(g[dirs[r].parent], dirs[r].name)]
    BY <1>4, <1>5
  <2> QED BY <1>4, <2>1 DEF HavePaths, Above, Solves
<1>7. TreeInv
  BY <1>2, <1>3, <1>6 DEF TreeInv, Reached, Closed
<1>8. \A q, y : ~Entry(q, y)
  BY <1>4 DEF Entry
<1>9. tree = <<>>
  <2>1. tree = [q \in DOMAIN tree |-> tree[q]] /\ DOMAIN tree = {}
    BY <1>7, <1>8, TreeIs
  <2>2. PICK f : f = tree
    OBVIOUS
  <2>3. f \in [1..0 -> {}]
    BY <2>1, <2>2
  <2>4. f \in Seq({}) /\ Len(f) = 0
    BY <2>3, SeqDef
  <2>5. f = <<>>
    BY <2>4, EmptySeq
  <2> QED BY <2>2, <2>5
<1>10. writing = [h \in Handle |-> <<>>]
  BY <1>2 DEF writing, Closed
<1> QED BY <1>7, <1>9, <1>10 DEF Tree!Init

\* Every step of the driver is a step of the tree, or leaves it as it is.
LEMMA NextTree ==
  ASSUME TreeInv, Distinct, [Next]_vars
  PROVE  TreeInv' /\ [Tree!Next]_(Tree!vars)
<1>1. IInv'
  BY NextIInv DEF TreeInv
<1>2. HavePaths' /\ Reached' => TreeInv'
  BY <1>1 DEF TreeInv
<1>3. UNCHANGED <<tree, writing>> => [Tree!Next]_(Tree!vars)
  BY DEF Tree!vars
<1>4. ASSUME NEW path \in Path, NEW w \in Walks(path), Operation(path, w)
      PROVE  TreeInv' /\ [Tree!Next]_(Tree!vars)
  <2>0. path \in Tree!Path
    BY DEF Path, Tree!Path
  <2>1. CASE Stat(path, w)
    BY <1>2, <1>3, <2>1, StatTree DEF Stat
  <2>2. CASE Mkdir(path, w)
    <3>1. /\ TreeInv' /\ writing' = writing
          /\ path \notin DOMAIN tree /\ Tree!CreateDirectory(path)
      BY <1>1, <2>2, MkdirTree
    <3> QED BY <2>0, <3>1 DEF Tree!Next
  <2>3. CASE DeleteFile(path, w)
    <3>1. /\ TreeInv' /\ writing' = writing
          /\ path \in DOMAIN tree /\ Tree!DeleteFile(path)
      BY <1>1, <2>3, DeleteFileTree
    <3> QED BY <3>1 DEF Tree!Next
  <2>4. ASSUME NEW recursive \in BOOLEAN, DeleteDir(path, w, recursive)
        PROVE  TreeInv' /\ [Tree!Next]_(Tree!vars)
    <3>1. /\ TreeInv' /\ writing' = writing
          /\ path \in DOMAIN tree /\ Tree!RemoveDirectory(path, TRUE)
      BY <1>1, <2>4, DeleteDirTree
    <3> QED BY <3>1 DEF Tree!Next
  <2>5. ASSUME NEW h \in Handle, OpenRead(h, path, w)
        PROVE  TreeInv' /\ [Tree!Next]_(Tree!vars)
    BY <1>2, <1>3, <2>5, OpenReadTree
  <2>6. ASSUME NEW h \in Handle, OpenWrite(h, path, w)
        PROVE  TreeInv' /\ [Tree!Next]_(Tree!vars)
    <3>1. HavePaths' /\ Reached' /\ Tree!Open(h, path)
      BY <2>6, OpenWriteTree
    <3> QED BY <1>2, <2>0, <3>1 DEF Tree!Next
  <2>7. ASSUME NEW h \in Handle, OpenCreate(h, path, w)
        PROVE  TreeInv' /\ [Tree!Next]_(Tree!vars)
    <3>1. TreeInv' /\ Tree!Open(h, path)
      BY <1>1, <2>7, OpenCreateTree
    <3> QED BY <2>0, <3>1 DEF Tree!Next
  <2> QED BY <1>4, <2>1, <2>2, <2>3, <2>4, <2>5, <2>6, <2>7 DEF Operation
<1>5. ASSUME NEW h \in Handle, NEW x \in Data, DoClose(h, x)
      PROVE  TreeInv' /\ [Tree!Next]_(Tree!vars)
  <2>1. TreeInv' /\ Tree!Close(h, x)
    BY <1>1, <1>5, DoCloseTree
  <2> QED BY <2>1 DEF Tree!Next
<1>6. ASSUME NEW h \in Handle, CloseRead(h)
      PROVE  TreeInv' /\ [Tree!Next]_(Tree!vars)
  BY <1>2, <1>3, <1>6, CloseReadTree
<1>7. CASE EvictFcache
  BY <1>2, <1>3, <1>7, StatTree DEF EvictFcache
<1>8. CASE Remount
  BY <1>2, <1>8, RemountTree DEF Tree!Next
<1>9. CASE UNCHANGED vars
  BY <1>2, <1>3, <1>9, StatTree DEF vars
<1> QED BY <1>4, <1>5, <1>6, <1>7, <1>8, <1>9 DEF Next

\* On the conditions of Distinct the driver, with its rows, positions and
\* caches, does to the tree of paths what the handler API promises, whatever
\* names, contents and channels there are, and for any sizes.
THEOREM TreeImplemented ==
  ASSUME Distinct
  PROVE  Spec => ImplementsTree
<1>1. Init => TreeInv /\ Tree!Init
  BY InitTree
<1>2. TreeInv /\ [Next]_vars => TreeInv' /\ [Tree!Next]_(Tree!vars)
  BY NextTree
<1> QED BY <1>1, <1>2, PTL DEF Spec, ImplementsTree, Tree!Spec
=============================================================================
