---------------------------- MODULE Mk4File_proofs ----------------------------
(***************************************************************************)
(* What a reader gets of a file, proved for any bytes, length of texts and *)
(* compression whose result is not empty, and what more it gets as long as *)
(* mk4vfs::compress keeps one value.                                       *)
(***************************************************************************)
EXTENDS Mk4File, SequenceTheorems, TLAPS

\* Nothing is owed while an mk::channel writes the row.
ChannelOwesNothing == writer.how = "channel" => row.want = {}

IInv == TypeOK /\ ReadsWhatWasStored /\ ChannelOwesNothing

Sound(r) == r.want # {} => Read(r) = r.want

\* Texts are the sequences of bytes of bounded length.
LEMMA TextFacts ==
  /\ <<>> \in Text
  /\ \A t \in Text : Len(t) \in 0..MaxLen /\ Len(t) \in Nat /\ ZLen(t) \in Nat \ {0}
  /\ \A t \in Text, b \in Byte : Len(t) < MaxLen => Append(t, b) \in Text
<1>1. MaxLen \in Nat
  BY Assumption
<1>2. \A t : t \in Text <=> t \in Seq(Byte) /\ Len(t) <= MaxLen
  <2>1. Text = UNION {[1..m -> Byte] : m \in 0..MaxLen}
    BY DEF Text, BoundedSeq, SeqOf
  <2>2. ASSUME NEW t \in Text PROVE t \in Seq(Byte) /\ Len(t) <= MaxLen
    <3>1. PICK m \in 0..MaxLen : t \in [1..m -> Byte]
      BY <2>1
    <3>2. m \in Nat /\ m <= MaxLen
      BY <1>1
    <3>3. t \in Seq(Byte) /\ Len(t) = m
      BY <3>1, <3>2, SeqDef
    <3> QED BY <3>2, <3>3
  <2>3. ASSUME NEW t \in Seq(Byte), Len(t) <= MaxLen PROVE t \in Text
    <3>1. Len(t) \in Nat /\ t \in [1..Len(t) -> Byte]
      BY LenProperties, ElementOfSeq
    <3>2. Len(t) \in 0..MaxLen
      BY <1>1, <2>3, <3>1
    <3> QED BY <2>1, <3>1, <3>2
  <2> QED BY <2>2, <2>3
<1>3. \A t \in Text : Len(t) \in 0..MaxLen /\ Len(t) \in Nat
  BY <1>1, <1>2, LenProperties
<1>4. \A t \in Text : ZLen(t) \in Nat \ {0}
  BY Assumption DEF Text
<1>5. ASSUME NEW t \in Text, NEW b \in Byte, Len(t) < MaxLen PROVE Append(t, b) \in Text
  <2>1. t \in Seq(Byte) /\ Len(t) \in Nat
    BY <1>2, <1>3
  <2>2. Append(t, b) \in Seq(Byte) /\ Len(Append(t, b)) = Len(t) + 1
    BY <2>1, AppendProperties
  <2>3. Len(t) + 1 <= MaxLen
    BY <1>1, <1>5, <2>1
  <2> QED BY <1>2, <2>2, <2>3
<1>6. <<>> \in Text
  <2>1. <<>> \in Seq(Byte) /\ Len(<<>>) = 0
    BY EmptySeq
  <2>2. Len(<<>>) <= MaxLen
    BY <1>1, <2>1
  <2> QED BY <1>2, <2>1, <2>2
<1> QED BY <1>3, <1>4, <1>5, <1>6

\* What do_close stores is read back: lengths that differ say compressed.
LEMMA StoreFacts ==
  ASSUME NEW t \in Text
  PROVE  /\ StoreZip(t) \in Row /\ Sound(StoreZip(t))
         /\ StoreRaw(t) \in Row /\ Sound(StoreRaw(t))
<1>1. Len(t) \in Nat /\ ZLen(t) \in Nat
  BY TextFacts
<1>2. StoreZip(t) \in Row /\ StoreRaw(t) \in Row
  BY <1>1 DEF StoreZip, StoreRaw, Row
<1>3. Sound(StoreZip(t))
  <2>1. PICK r : r = StoreZip(t)
    OBVIOUS
  <2>2. r.size = Len(t) /\ r.text = t /\ r.want = {t} /\ r.z = (ZLen(t) < Len(t))
    BY <2>1 DEF StoreZip
  <2>3. CASE ZLen(t) < Len(t)
    <3>a. r.z
      BY <2>2, <2>3
    <3>1. r.z = TRUE /\ Csize(r) = ZLen(t) /\ ZLen(t) # Len(t)
      <4>1. Csize(r) = ZLen(t)
        BY <2>2, <3>a DEF Csize
      <4>2. ZLen(t) # Len(t)
        BY <1>1, <2>3
      <4>3. r.z = TRUE
        BY <2>2, <2>3
      <4> QED BY <4>1, <4>2, <4>3
    <3> QED BY <2>1, <2>2, <3>1 DEF Sound, Read
  <2>4. CASE ~(ZLen(t) < Len(t))
    <3>1. r.z = FALSE /\ Csize(r) = Len(t)
      <4>1. r.z = FALSE
        <5>1. (ZLen(t) < Len(t)) = FALSE
          BY <2>4
        <5> QED BY <2>2, <5>1
      <4> QED BY <2>2, <4>1 DEF Csize
    <3> QED BY <2>1, <2>2, <3>1 DEF Sound, Read
  <2> QED BY <2>3, <2>4
<1>4. Sound(StoreRaw(t))
  BY DEF StoreRaw, Sound, Read, Csize
<1> QED BY <1>2, <1>3, <1>4

\* The row of a new file.
LEMMA InitIInv ==
  ASSUME Init
  PROVE  IInv
<1>1. row = StoreRaw(<<>>) /\ disk = row
  BY EmptySeq DEF Init, StoreRaw
<1>2. row \in Row /\ Sound(row)
  BY <1>1, TextFacts, StoreFacts
<1>3. compress \in BOOLEAN
  BY Assumption DEF Init
<1>4. writer = [how |-> "none", text |-> <<>>, flushed |-> 0] /\ reader = FALSE
  BY DEF Init, NoWriter
<1>5. writer \in [how : {"none", "zip", "channel", "memchan"}, text : Text, flushed : 0..MaxLen]
  BY <1>4, TextFacts, Assumption
<1>6. TypeOK
  BY <1>1, <1>2, <1>3, <1>4, <1>5 DEF TypeOK
<1>7. ReadsWhatWasStored
  BY <1>1, <1>2 DEF ReadsWhatWasStored, Sound
<1>8. ChannelOwesNothing
  BY <1>4 DEF ChannelOwesNothing
<1> QED BY <1>6, <1>7, <1>8 DEF IInv

\* The parts of the invariant after a step: it is enough that rows are typed
\* and sound and that a channel owes nothing.
LEMMA Rebuild ==
  ASSUME compress' \in BOOLEAN, reader' \in BOOLEAN,
         row' \in Row, disk' \in Row, Sound(row'), Sound(disk'),
         writer' \in [how : {"none", "zip", "channel", "memchan"}, text : Text, flushed : 0..MaxLen],
         writer'.how = "channel" => row'.want = {}
  PROVE  IInv'
<1>1. TypeOK'
  BY DEF TypeOK
<1>2. ReadsWhatWasStored'
  <2> SUFFICES ASSUME NEW r \in {row', disk'}, r.want # {} PROVE Read(r)' = r.want
    BY DEF ReadsWhatWasStored
  <2>1. Read(r)' = Read(r)
    BY DEF Read, Csize
  <2> QED BY <2>1 DEF Sound
<1>3. ChannelOwesNothing'
  BY DEF ChannelOwesNothing
<1> QED BY <1>1, <1>2, <1>3 DEF IInv

\* Every step keeps the invariant.
LEMMA NextIInv ==
  ASSUME IInv, [Next]_vars
  PROVE  IInv'
<1> DEFINE Writers == [how : {"none", "zip", "channel", "memchan"}, text : Text, flushed : 0..MaxLen]
<1>1. /\ compress \in BOOLEAN /\ reader \in BOOLEAN /\ row \in Row /\ disk \in Row
      /\ writer \in Writers /\ Sound(row) /\ Sound(disk)
      /\ writer.how = "channel" => row.want = {}
  BY DEF IInv, TypeOK, ReadsWhatWasStored, Sound, ChannelOwesNothing
<1>2. NoWriter \in Writers /\ NoWriter.how = "none"
  BY TextFacts, Assumption DEF NoWriter
<1>3. CompressValue \subseteq BOOLEAN
  BY Assumption
<1>4. ASSUME NEW b \in CompressValue, SetCompress(b) PROVE IInv'
  <2>1. compress' \in BOOLEAN /\ row' = row /\ disk' = disk /\ writer' = writer /\ reader' = reader
    BY <1>3, <1>4 DEF SetCompress
  <2> QED BY <1>1, <2>1, Rebuild
<1>5. CASE OpenW
  <2>1. compress' = compress /\ disk' = disk /\ reader' = reader
    BY <1>5 DEF OpenW
  <2>2. CASE compress
    <3>1. row' = row
      BY <1>5, <2>2 DEF OpenW
    <3>2. writer' = [NoWriter EXCEPT !.how = "zip"]
      BY <1>5, <2>2 DEF OpenW
    <3>3. writer' \in Writers /\ writer'.how = "zip"
      BY <1>2, <3>2
    <3> QED BY <1>1, <2>1, <3>1, <3>3, Rebuild
  <2>3. CASE ~compress
    <3>1. row' = [row EXCEPT !.text = <<>>, !.z = FALSE, !.want = {}]
      BY <1>5, <2>3 DEF OpenW
    <3>2. writer' = [NoWriter EXCEPT !.how = "channel"]
      BY <1>5, <2>3 DEF OpenW
    <3>3. writer' \in Writers
      BY <1>2, <3>2
    <3>4. row' \in Row /\ row'.want = {}
      BY <1>1, <3>1, TextFacts DEF Row
    <3> QED BY <1>1, <2>1, <3>3, <3>4, Rebuild DEF Sound
  <2> QED BY <2>2, <2>3
<1>6. CASE OpenA
  <2>1. compress' = compress /\ row' = row /\ disk' = disk /\ reader' = reader
    BY <1>6 DEF OpenA
  <2>2. PICK m \in {"zip", "memchan"} : writer' = [how |-> m, text |-> row.text, flushed |-> 0]
    BY <1>6 DEF OpenA
  <2>3. row.text \in Text /\ 0 \in 0..MaxLen
    BY <1>1, Assumption DEF Row
  <2>4. writer' \in Writers /\ writer'.how # "channel"
    BY <2>2, <2>3
  <2> QED BY <1>1, <2>1, <2>4, Rebuild
<1>7. ASSUME NEW b \in Byte, Write(b) PROVE IInv'
  <2>1. compress' = compress /\ row' = row /\ disk' = disk /\ reader' = reader
    BY <1>7 DEF Write
  <2>2. writer' = [writer EXCEPT !.text = Append(writer.text, b)] /\ Len(writer.text) < MaxLen
    BY <1>7 DEF Write
  <2>3. Append(writer.text, b) \in Text
    BY <1>1, <2>2, TextFacts
  <2>4. writer' \in Writers /\ writer'.how = writer.how
    BY <1>1, <2>2, <2>3
  <2> QED BY <1>1, <2>1, <2>4, Rebuild
<1>8. CASE Flush
  <2>1. /\ compress' = compress /\ disk' = disk /\ reader' = reader /\ writer.how = "channel"
        /\ row' = [row EXCEPT !.text = writer.text]
        /\ writer' = [writer EXCEPT !.flushed = Len(writer.text)]
    BY <1>8 DEF Flush
  <2>2. writer.text \in Text /\ Len(writer.text) \in 0..MaxLen
    BY <1>1, TextFacts
  <2>3. row' \in Row /\ row'.want = {}
    BY <1>1, <2>1, <2>2 DEF Row
  <2>4. writer' \in Writers
    BY <1>1, <2>1, <2>2
  <2> QED BY <1>1, <2>1, <2>3, <2>4, Rebuild DEF Sound
<1>9. CASE DoClose
  <2>1. compress' = compress /\ disk' = disk /\ reader' = reader /\ writer' = NoWriter
    BY <1>9 DEF DoClose
  <2>2. writer.text \in Text
    BY <1>1
  <2>3. row' \in Row /\ Sound(row')
    <3>1. CASE row' = StoreZip(writer.text) \/ row' = StoreRaw(writer.text)
      BY <2>2, <3>1, StoreFacts
    <3>2. CASE row' = StoreNothing(row)
      <4>1. row' = [row EXCEPT !.size = Csize(row), !.want = {}]
        BY <3>2 DEF StoreNothing
      <4>2. Csize(row) \in Nat
        BY <1>1, TextFacts DEF Csize, Row
      <4> QED BY <1>1, <4>1, <4>2 DEF Row, Sound
    <3> QED BY <1>9, <3>1, <3>2 DEF DoClose
  <2> QED BY <1>1, <1>2, <2>1, <2>3, Rebuild
<1>10. CASE OpenReader \/ CloseReader
  <2>1. /\ compress' = compress /\ row' = row /\ disk' = disk /\ writer' = writer
        /\ reader' \in BOOLEAN
    BY <1>10 DEF OpenReader, CloseReader
  <2> QED BY <1>1, <2>1, Rebuild
<1>11. CASE Commit
  <2>1. /\ compress' = compress /\ row' = row /\ disk' = row /\ writer' = writer
        /\ reader' = reader
    BY <1>11 DEF Commit
  <2> QED BY <1>1, <2>1, Rebuild
<1>12. CASE Crash
  <2>1. /\ compress' \in BOOLEAN /\ row' = disk /\ disk' = disk /\ writer' = NoWriter
        /\ reader' = FALSE
    BY <1>3, <1>12 DEF Crash
  <2> QED BY <1>1, <1>2, <2>1, Rebuild
<1>13. CASE UNCHANGED vars
  <2>1. /\ compress' = compress /\ row' = row /\ disk' = disk /\ writer' = writer
        /\ reader' = reader
    BY <1>13 DEF vars
  <2> QED BY <1>1, <2>1, Rebuild
<1> QED BY <1>4, <1>5, <1>6, <1>7, <1>8, <1>9, <1>10, <1>11, <1>12, <1>13 DEF Next

\* Rows, writers and settings keep their types.
THEOREM TypesHold == Spec => []TypeOK
<1>1. IInv => TypeOK
  BY DEF IInv
<1> QED BY <1>1, InitIInv, NextIInv, PTL DEF Spec

\* What the last close stored is what open r delivers, of the row in memory and
\* of the one on disk, although nothing but two lengths says how it is stored.
THEOREM StoredIsRead == Spec => []ReadsWhatWasStored
<1>1. IInv => ReadsWhatWasStored
  BY DEF IInv
<1> QED BY <1>1, InitIInv, NextIInv, PTL DEF Spec

-----------------------------------------------------------------------------
(* What else holds as long as mk4vfs::compress keeps one value.             *)

\* Of channels opened while compression is on, none is closed by StoreNothing.
AllCollected == compress = TRUE /\ writer.how \in {"none", "zip"}

\* With compression always on, as it is unless a program sets it, closing a
\* channel stores what was written to it, be it opened by w or by a.  (With
\* compression off what is appended is lost, whatever the row held.)
THEOREM CompressedCloses ==
  ASSUME CompressValue = {TRUE}
  PROVE  Spec => CloseStoresText
<1> DEFINE Both == IInv /\ AllCollected
<1>1. ASSUME Init PROVE Both
  BY <1>1, InitIInv DEF Init, NoWriter, AllCollected
<1>2. ASSUME Both, [Next]_vars PROVE Both'
  <2>1. IInv'
    BY <1>2, NextIInv
  <2>2. AllCollected'
    <3>a. compress = TRUE /\ writer.how \in {"none", "zip"} /\ NoWriter.how = "none"
      BY <1>2 DEF AllCollected, NoWriter
    <3>b. writer \in [how : {"none", "zip", "channel", "memchan"}, text : Text, flushed : 0..MaxLen]
      BY <1>2 DEF IInv, TypeOK
    <3>1. CASE OpenW
      BY <3>a, <3>1 DEF OpenW, AllCollected, NoWriter
    <3>2. CASE OpenA
      <4>1. writer'.how = "zip" /\ compress' = compress
        BY <3>a, <3>2 DEF OpenA
      <4> QED BY <3>a, <4>1 DEF AllCollected
    <3>3. ASSUME NEW b \in Byte, Write(b) PROVE AllCollected'
      BY <3>a, <3>b, <3>3 DEF Write, AllCollected
    <3>4. CASE Flush
      BY <3>a, <3>4 DEF Flush
    <3>5. CASE DoClose \/ Crash
      BY <3>a, <3>5 DEF DoClose, Crash, AllCollected
    <3>6. CASE \E b \in CompressValue : SetCompress(b)
      BY <3>a, <3>6 DEF SetCompress, AllCollected
    <3>7. CASE OpenReader \/ CloseReader \/ Commit \/ UNCHANGED vars
      BY <3>a, <3>7 DEF OpenReader, CloseReader, Commit, vars, AllCollected
    <3> QED BY <1>2, <3>1, <3>2, <3>3, <3>4, <3>5, <3>6, <3>7 DEF Next
  <2> QED BY <2>1, <2>2
<1>3. ASSUME Both, DoClose PROVE Read(row') = {writer.text}
  <2>1. row' = StoreZip(writer.text)
    BY <1>3 DEF DoClose, AllCollected
  <2>2. writer.text \in Text
    BY <1>3 DEF IInv, TypeOK
  <2>3. Sound(StoreZip(writer.text)) /\ StoreZip(writer.text).want = {writer.text}
    BY <2>2, StoreFacts DEF StoreZip
  <2> QED BY <2>1, <2>3 DEF Sound
<1>4. Both /\ [Next]_vars => [DoClose => Read(row') = {writer.text}]_vars
  BY <1>3
<1> HIDE DEF Both
<1> QED BY <1>1, <1>2, <1>4, PTL DEF Spec, CloseStoresText

\* Of channels opened while compression is off, none collects text to deflate.
NothingDeflated ==
  compress = FALSE /\ ~row.z /\ ~disk.z /\ writer.how \in {"none", "channel", "memchan"}

\* With compression always off no row is ever compressed, so that an open
\* mk::channel shows a reader the text of the file, whoever writes it
\* meanwhile.  (With compression on a writer may deflate it under the reader.)
THEOREM PlainReads ==
  ASSUME CompressValue = {FALSE}
  PROVE  Spec => []ReaderGetsText
<1> DEFINE Both == IInv /\ NothingDeflated
<1>1. ASSUME Init PROVE Both
  BY <1>1, InitIInv DEF Init, NoWriter, NothingDeflated
<1>2. ASSUME Both, [Next]_vars PROVE Both'
  <2>1. IInv'
    BY <1>2, NextIInv
  <2>2. NothingDeflated'
    <3>a. /\ compress = FALSE /\ ~row.z /\ ~disk.z /\ NoWriter.how = "none"
          /\ writer.how \in {"none", "channel", "memchan"}
      BY <1>2 DEF NothingDeflated, NoWriter
    <3>b. /\ writer \in [how : {"none", "zip", "channel", "memchan"}, text : Text, flushed : 0..MaxLen]
          /\ row \in Row
      BY <1>2 DEF IInv, TypeOK
    <3>1. CASE OpenW
      <4>1. writer'.how = "channel"
        BY <3>a, <3>1 DEF OpenW, NoWriter
      <4>2. row' = [row EXCEPT !.text = <<>>, !.z = FALSE, !.want = {}]
        BY <3>a, <3>1 DEF OpenW
      <4>3. ~row'.z
        BY <3>b, <4>2 DEF Row
      <4>4. compress' = compress /\ disk' = disk
        BY <3>1 DEF OpenW
      <4> QED BY <3>a, <4>1, <4>3, <4>4 DEF NothingDeflated
    <3>2. CASE OpenA
      <4>1. writer'.how = "memchan"
        <5>1. PICK zipped \in BOOLEAN :
                 /\ row.z = zipped
                 /\ writer' = [how |-> IF zipped \/ compress THEN "zip" ELSE "memchan",
                               text |-> row.text, flushed |-> 0]
          BY <3>2 DEF OpenA
        <5>2. ~zipped /\ ~compress
          BY <3>a, <5>1
        <5> QED BY <5>1, <5>2
      <4>2. compress' = compress /\ row' = row /\ disk' = disk
        BY <3>2 DEF OpenA
      <4> QED BY <3>a, <4>1, <4>2 DEF NothingDeflated
    <3>3. ASSUME NEW b \in Byte, Write(b) PROVE NothingDeflated'
      BY <3>a, <3>b, <3>3 DEF Write, NothingDeflated
    <3>4. CASE Flush
      <4>1. writer'.how = writer.how /\ ~row'.z
        BY <3>a, <3>b, <3>4 DEF Flush, Row
      <4>2. compress' = compress /\ disk' = disk
        BY <3>4 DEF Flush
      <4> QED BY <3>a, <4>1, <4>2 DEF NothingDeflated
    <3>5. CASE DoClose
      <4>1. row' = StoreRaw(writer.text) \/ row' = StoreNothing(row)
        BY <3>a, <3>5 DEF DoClose
      <4>2. ~row'.z
        <5>1. ~StoreRaw(writer.text).z
          BY DEF StoreRaw
        <5>2. PICK n : n = Csize(row)
          OBVIOUS
        <5>3. StoreNothing(row) = [row EXCEPT !.size = n, !.want = {}]
          BY <5>2 DEF StoreNothing
        <5>4. ~StoreNothing(row).z
          BY <3>a, <3>b, <5>3 DEF Row
        <5> QED BY <4>1, <5>1, <5>4
      <4>3. compress' = compress /\ disk' = disk /\ writer' = NoWriter
        BY <3>5 DEF DoClose
      <4> QED BY <3>a, <4>2, <4>3 DEF NothingDeflated
    <3>6. CASE Crash \/ \E b \in CompressValue : SetCompress(b)
      BY <3>a, <3>6 DEF Crash, SetCompress, NothingDeflated
    <3>7. CASE OpenReader \/ CloseReader \/ Commit \/ UNCHANGED vars
      BY <3>a, <3>7 DEF OpenReader, CloseReader, Commit, vars, NothingDeflated
    <3> QED BY <1>2, <3>1, <3>2, <3>3, <3>4, <3>5, <3>6, <3>7 DEF Next
  <2> QED BY <2>1, <2>2
<1>3. Both => ReaderGetsText
  BY DEF NothingDeflated, ReaderGetsText
<1> HIDE DEF Both
<1> QED BY <1>1, <1>2, <1>3, PTL DEF Spec
=============================================================================
