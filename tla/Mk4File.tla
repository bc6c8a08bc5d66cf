------------------------------- MODULE Mk4File -------------------------------
(***************************************************************************)
(* The contents of one file of a Metakit virtual file system: the size and *)
(* contents properties of its row (8.x/tclvfs/library/mk4vfs.tcl: open,    *)
(* do_close), as writers, a reader, commits and crashes come and go.       *)
(*                                                                         *)
(* A row does not say whether its contents are compressed.  The driver     *)
(* takes them for compressed whenever their length differs from the size   *)
(* property, so every path that stores contents has to keep that true.     *)
(* One writer at a time (of two, the one closed last would win).           *)
(***************************************************************************)
EXTENDS Integers, Sequences, SequencesExt

CONSTANTS
  Byte,          \* the bytes texts are made of
  MaxLen,        \* bound: length of a text
  ZLen(_),       \* length of a text once compressed
  CompressValue  \* values mk4vfs::compress takes: {TRUE} unless a program sets it

ASSUME Assumption ==
  /\ MaxLen \in Nat
  /\ CompressValue \in (SUBSET BOOLEAN) \ {{}}
  /\ \A t \in BoundedSeq(Byte, MaxLen) : ZLen(t) \in Nat \ {0}

Text == BoundedSeq(Byte, MaxLen)

VARIABLES
  compress,  \* mk4vfs::compress
  row,       \* the row in memory: size, text, z: is the text held compressed?
             \* want (a ghost): {t} when a reader is owed the text t
  disk,      \* the row as of the last commit
  writer,    \* the channel open for writing: how, its text, the part flushed
  reader     \* is an mk::channel open for reading?

vars == <<compress, row, disk, writer, reader>>

Row == [size : Nat, text : Text, z : BOOLEAN, want : SUBSET Text]
NoWriter == [how |-> "none", text |-> <<>>, flushed |-> 0]

TypeOK ==
  /\ compress \in BOOLEAN /\ reader \in BOOLEAN
  /\ row \in Row /\ disk \in Row
  /\ writer \in [how : {"none", "zip", "channel", "memchan"}, text : Text, flushed : 0..MaxLen]

\* sb(csize): mk::get -size contents
Csize(r) == IF r.z THEN ZLen(r.text) ELSE Len(r.text)

\* What open r delivers: one text, or none when what is inflated was not
\* deflated or what is delivered as it is was.
Read(r) == IF (Csize(r) # r.size) = r.z THEN {r.text} ELSE {}

\* do_close of a text to be compressed: the shorter form is kept, and of two
\* forms of one length the text itself.  (The other way round, open r would
\* take it for uncompressed.)
StoreZipTie(t) == [size |-> Len(t), text |-> t, z |-> ZLen(t) <= Len(t), want |-> {t}]
StoreZip(t) == [size |-> Len(t), text |-> t, z |-> ZLen(t) < Len(t), want |-> {t}]

\* do_close of an mk::channel, whose text is in the row once it is flushed.
StoreRaw(t) == [size |-> Len(t), text |-> t, z |-> FALSE, want |-> {t}]

\* do_close of a memchan that is not to be compressed: the text stays in the
\* memchan, the size becomes the length the contents have.  (First it is set
\* to -1, which must not last.)
StoreNothingUnsized(r) == [r EXCEPT !.size = -1, !.want = {}]
StoreNothing(r) == [r EXCEPT !.size = Csize(r), !.want = {}]

Init ==
  /\ compress \in CompressValue
  /\ row = [size |-> 0, text |-> <<>>, z |-> FALSE, want |-> {<<>>}]
  /\ disk = row
  /\ writer = NoWriter /\ reader = FALSE

SetCompress(b) ==
  /\ compress' = b
  /\ UNCHANGED <<row, disk, writer, reader>>

\* open w collects the text in a memchan if it is to be compressed; else it
\* opens an mk::channel on the row, which empties the contents at once and
\* leaves the size as it was.
OpenW ==
  /\ writer = NoWriter
  /\ writer' = [NoWriter EXCEPT !.how = IF compress THEN "zip" ELSE "channel"]
  /\ row' = IF compress THEN row
            ELSE [row EXCEPT !.text = <<>>, !.z = FALSE, !.want = {}]
  /\ UNCHANGED <<compress, disk, reader>>

\* open a starts from what the row holds, in a memchan in either case.  Text
\* that does not inflate makes open fail; deflated text taken for plain would
\* be appended to as it is, which ReadsWhatWasStored excludes.
OpenA ==
  /\ writer = NoWriter
  /\ LET zipped == Csize(row) # row.size /\ Csize(row) > 0
     IN  /\ row.z = zipped
         /\ writer' = [how |-> IF zipped \/ compress THEN "zip" ELSE "memchan",
                       text |-> row.text, flushed |-> 0]
  /\ UNCHANGED <<compress, row, disk, reader>>

Write(b) ==
  /\ writer # NoWriter /\ Len(writer.text) < MaxLen
  /\ writer' = [writer EXCEPT !.text = Append(@, b)]
  /\ UNCHANGED <<compress, row, disk, reader>>

\* The Tcl channel layer passes buffered text on to the mk::channel.
Flush ==
  /\ writer.how = "channel" /\ writer.flushed < Len(writer.text)
  /\ row' = [row EXCEPT !.text = writer.text]
  /\ writer' = [writer EXCEPT !.flushed = Len(writer.text)]
  /\ UNCHANGED <<compress, disk, reader>>

DoClose ==
  /\ writer # NoWriter
  /\ \/ writer.how = "zip" /\ row' = StoreZip(writer.text)
     \/ writer.how = "channel" /\ row' = StoreRaw(writer.text)
     \/ writer.how = "memchan" /\ row' = StoreNothing(row)
  /\ writer' = NoWriter
  /\ UNCHANGED <<compress, disk, reader>>

\* open r of contents not taken for compressed: the channel reads the row.
OpenReader ==
  /\ ~reader /\ Csize(row) = row.size
  /\ reader' = TRUE
  /\ UNCHANGED <<compress, row, disk, writer>>

CloseReader ==
  /\ reader
  /\ reader' = FALSE
  /\ UNCHANGED <<compress, row, disk, writer>>

\* periodicCommit, at any time between two events.
Commit ==
  /\ disk # row
  /\ disk' = row
  /\ UNCHANGED <<compress, row, writer, reader>>

\* The process ends, and the datafile is mounted by another one.
Crash ==
  /\ row' = disk
  /\ writer' = NoWriter /\ reader' = FALSE
  /\ compress' \in CompressValue
  /\ UNCHANGED disk

Next ==
  \/ \E b \in CompressValue : SetCompress(b)
  \/ OpenW
  \/ OpenA
  \/ \E b \in Byte : Write(b)
  \/ Flush
  \/ DoClose
  \/ OpenReader
  \/ CloseReader
  \/ Commit
  \/ Crash

Spec == Init /\ [][Next]_vars

-----------------------------------------------------------------------------

\* What was stored by the last close is what a reader gets, now and after any
\* commit and crash, also while a writer of compressed text has the file open,
\* however mk4vfs::compress was set then and is set now.  Nothing is owed while
\* a channel writing uncompressed text has emptied the row, and of a row last
\* closed by StoreNothing.
ReadsWhatWasStored ==
  \A r \in {row, disk} : r.want # {} => Read(r) = r.want

\* Closing a channel stores what was written to it.
CloseStoresText == [][DoClose => Read(row') = {writer.text}]_vars

\* A reader gets the text of the file, never its compressed form.
ReaderGetsText == reader => ~row.z
=============================================================================
