-------------------------------- MODULE Rechan --------------------------------
(***************************************************************************)
(* The reflecting channels of rechan.c: channels whose driver calls a Tcl  *)
(* command.  They have no device to wait for, so a timer of 5 ms stands in *)
(* for it: while anybody is interested in a channel its timer is queued,   *)
(* and each time it fires the handlers of the channel are called.          *)
(*                                                                         *)
(* One thread.  Its timer queue and the generic channel layer are Tcl's    *)
(* own; they are modelled by what rechan.c relies on.  The handlers        *)
(* are scripts that may do anything to any channel, close it, or enter the *)
(* event loop again: stack holds the channels whose handlers are running.  *)
(* The commands behind the driver are those of vfslib.tcl, which neither   *)
(* enter the event loop nor close the channel they serve, so that each     *)
(* driver call is one step.                                                *)
(***************************************************************************)
EXTENDS Integers, Sequences, SequencesExt

CONSTANTS Chan,      \* the channels that are ever made
          MaxNest    \* bound: event loops entered from within each other

ASSUME NestAssumption == MaxNest \in Nat \ {0}

Event == {"readable", "writable"}
\* The modes channels are made with: vfs::memchan 6, vfs::zstream 2.
Mode == {Event, {"readable"}}

VARIABLES
  state,     \* "new", "open", or "freed" once closed
  valid,     \* _validMask
  watch,     \* _watchMask
  timer,     \* is _timer not NULL?
  queued,    \* timer handlers queued for the channel
  interest,  \* Tcl: the events the channel has handlers for
  buffered,  \* Tcl: is there input read from the driver but not consumed?
  synth,     \* Tcl: is the timer of the channel layer itself queued?
  stack      \* Tcl: the channels whose handlers are running, outermost first

vars == <<state, valid, watch, timer, queued, interest, buffered, synth, stack>>

TypeOK ==
  /\ state \in [Chan -> {"new", "open", "freed"}]
  /\ valid \in [Chan -> Mode]
  /\ watch \in [Chan -> SUBSET Event] /\ \A c \in Chan : watch[c] \subseteq valid[c]
  /\ timer \in [Chan -> BOOLEAN] /\ queued \in [Chan -> Nat]
  /\ interest \in [Chan -> SUBSET Event] /\ \A c \in Chan : interest[c] \subseteq valid[c]
  /\ buffered \in [Chan -> BOOLEAN] /\ synth \in [Chan -> BOOLEAN]
  /\ stack \in Seq(Chan) /\ Len(stack) <= MaxNest

Init ==
  /\ state = [c \in Chan |-> "new"]
  /\ valid \in [Chan -> Mode]
  /\ watch = [c \in Chan |-> {}]
  /\ timer = [c \in Chan |-> FALSE] /\ queued = [c \in Chan |-> 0]
  /\ interest = [c \in Chan |-> {}]
  /\ buffered = [c \in Chan |-> FALSE] /\ synth = [c \in Chan |-> FALSE]
  /\ stack = <<>>

-----------------------------------------------------------------------------
(* The driver.                                                             *)

\* Tcl_DeleteTimerHandler of _timer; a token that fired deletes nothing.
DeletesNone(c) == queued
Deleted(c) == [queued EXCEPT ![c] = IF timer[c] THEN @ - 1 ELSE @]

\* rcWatchChannel.  Nothing to watch for deletes the timer and leaves the mask
\* as it is, here w: what the driver call just before made of it.
WatchChannel(c, mask, w) ==
  IF mask = {}
  THEN /\ watch' = [watch EXCEPT ![c] = w]
       /\ timer' = [timer EXCEPT ![c] = FALSE]
       /\ queued' = Deleted(c)
  ELSE LET m == mask \cap valid[c] IN
       /\ watch' = [watch EXCEPT ![c] = m]
       /\ timer' = [timer EXCEPT ![c] = @ \/ m # {}]
       /\ queued' = [queued EXCEPT ![c] = IF m # {} /\ ~timer[c] THEN @ + 1 ELSE @]

\* The mask after rcInput returned n: the end of input switches readable off.
AfterInput(c, n) == IF n = 0 THEN watch[c] \ {"readable"} ELSE watch[c]

\* The mask after rcOutput and rcSeek: all the channel can do.  (Not all there
\* is: vfs::zstream cannot be written to.)
AfterSeekAny(c) == Event
AfterSeek(c) == valid[c]

\* rcTimerProc, up to the call of Tcl_NotifyChannel.  (A token kept would keep
\* rcWatchChannel from making another.)
FiredKept(c) == timer
Fired(c) == [timer EXCEPT ![c] = FALSE]

-----------------------------------------------------------------------------
(* Steps.                                                                  *)

\* UpdateInterest of the generic layer: whenever it has read, called handlers
\* or changed them, it tells the driver what to watch for.  For input it holds
\* already it has a timer of its own.
UpdateInterest(c, mask, held, w) ==
  /\ WatchChannel(c, IF held THEN mask \ {"readable"} ELSE mask, w)
  /\ interest' = [interest EXCEPT ![c] = mask]
  /\ buffered' = [buffered EXCEPT ![c] = held]
  /\ synth' = [synth EXCEPT ![c] = @ \/ (held /\ "readable" \in mask)]

\* rechan, the command.
Create(c) ==
  /\ state[c] = "new"
  /\ state' = [state EXCEPT ![c] = "open"]
  /\ UNCHANGED <<valid, watch, timer, queued, interest, buffered, synth, stack>>

\* fileevent: handlers come and go.  Tcl refuses an event the channel's mode
\* rules out.
SetInterest(c, mask) ==
  /\ state[c] = "open" /\ mask \subseteq valid[c]
  /\ UpdateInterest(c, mask, buffered[c], watch[c])
  /\ UNCHANGED <<state, valid, stack>>

\* read and gets that input held already can answer.
ReadHeld(c, held) ==
  /\ state[c] = "open" /\ buffered[c]
  /\ UpdateInterest(c, interest[c], held, watch[c])
  /\ UNCHANGED <<state, valid, stack>>

\* Those that call rcInput: an error, the end of input, or data.
Input(c, n, held) ==
  /\ state[c] = "open" /\ (held => n = 1)
  /\ UpdateInterest(c, interest[c], held, AfterInput(c, n))
  /\ UNCHANGED <<state, valid, stack>>

\* rcOutput of what is written, at once: there is no buffering.  A write that
\* fails changes nothing.
Output(c) ==
  /\ state[c] = "open" /\ "writable" \in valid[c]
  /\ watch' = [watch EXCEPT ![c] = valid[c]]
  /\ UNCHANGED <<state, valid, timer, queued, interest, buffered, synth, stack>>

\* rcSeek, for seek, which drops the input held, and for tell.  A seek that
\* fails leaves the mask.
Seek(c, held) ==
  /\ state[c] = "open" /\ (held => buffered[c])
  /\ watch' \in {watch, [watch EXCEPT ![c] = AfterSeek(c)]}
  /\ buffered' = [buffered EXCEPT ![c] = held]
  /\ UNCHANGED <<state, valid, timer, queued, interest, synth, stack>>

\* The timer fires, in the main event loop or one entered from a handler, and
\* the handlers of the channel are called - unless the mask is empty.
TimerFires(c) ==
  /\ queued[c] > 0 /\ Len(stack) < MaxNest
  /\ queued' = [queued EXCEPT ![c] = @ - 1]
  /\ timer' = Fired(c)
  /\ stack' = IF watch[c] = {} THEN stack ELSE Append(stack, c)
  /\ UNCHANGED <<state, valid, watch, interest, buffered, synth>>

\* The timer of the channel layer fires.
SynthFires(c) ==
  /\ synth[c] /\ Len(stack) < MaxNest
  /\ IF buffered[c] /\ "readable" \in interest[c]
     THEN /\ stack' = Append(stack, c)
          /\ UNCHANGED <<watch, timer, queued, synth>>
     ELSE /\ WatchChannel(c, interest[c], watch[c])
          /\ synth' = [synth EXCEPT ![c] = FALSE]
          /\ UNCHANGED stack
  /\ UNCHANGED <<state, valid, interest, buffered>>

\* The handlers are done.  If they left the channel open, the layer tells the
\* driver what it is interested in now.
HandlersReturn ==
  /\ stack # <<>>
  /\ stack' = Front(stack)
  /\ LET c == Last(stack) IN
       IF state[c] = "open"
       THEN UpdateInterest(c, interest[c], buffered[c], watch[c])
       ELSE UNCHANGED <<watch, timer, queued, interest, buffered, synth>>
  /\ UNCHANGED <<state, valid>>

\* close: the layer drops handlers and timer, rcClose its own timer and the
\* channel.
Close(c) ==
  /\ state[c] = "open"
  /\ state' = [state EXCEPT ![c] = "freed"]
  /\ queued' = Deleted(c) /\ timer' = [timer EXCEPT ![c] = FALSE]
  /\ interest' = [interest EXCEPT ![c] = {}]
  /\ buffered' = [buffered EXCEPT ![c] = FALSE]
  /\ synth' = [synth EXCEPT ![c] = FALSE]
  /\ UNCHANGED <<valid, watch, stack>>

Next ==
  \/ \E c \in Chan : Create(c)
  \/ \E c \in Chan : \E mask \in SUBSET Event : SetInterest(c, mask)
  \/ \E c \in Chan, held \in BOOLEAN : ReadHeld(c, held)
  \/ \E c \in Chan, n \in {-1, 0, 1}, held \in BOOLEAN : Input(c, n, held)
  \/ \E c \in Chan : Output(c)
  \/ \E c \in Chan, held \in BOOLEAN : Seek(c, held)
  \/ \E c \in Chan : TimerFires(c)
  \/ \E c \in Chan : SynthFires(c)
  \/ HandlersReturn
  \/ \E c \in Chan : Close(c)

Spec == Init /\ [][Next]_vars

\* A queued timer is overtaken by others for a while only, as the queue is in
\* the order of their times; handlers return.
FairSpec ==
  /\ Spec
  /\ WF_vars(HandlersReturn)
  /\ \A c \in Chan : SF_vars(TimerFires(c)) /\ SF_vars(SynthFires(c))

-----------------------------------------------------------------------------
(* What must hold.                                                         *)

\* _timer says whether a timer is queued, and never two are, however handlers
\* of several channels read, write, close and wait within each other.
OneTimer == \A c \in Chan : queued[c] = IF timer[c] THEN 1 ELSE 0

\* No timer is queued for a channel that was closed, also from a handler of
\* its own: rcTimerProc would be called with memory that is freed.
FreedIsQuiet == \A c \in Chan : state[c] # "open" => queued[c] = 0

\* A channel has a timer queued for every event anyone is interested in.
Awaited(c) ==
  \A e \in interest[c] :
    (queued[c] > 0 /\ e \in watch[c]) \/ (synth[c] /\ e = "readable")

\* No wakeup is lost: outside of its handlers, a channel has a timer queued
\* for every event anyone is interested in, whatever rcInput, rcOutput and
\* rcSeek made of its mask.
WakeupQueued ==
  \A c \in Chan : (state[c] = "open" /\ c \notin ToSet(stack)) => Awaited(c)

\* As long as anybody is interested, handlers of the channel are called.
EventuallyCalled ==
  \A c \in Chan :
    (state[c] = "open" /\ interest[c] # {})
      ~> (c \in ToSet(stack) \/ interest[c] = {} \/ state[c] # "open")
=============================================================================
