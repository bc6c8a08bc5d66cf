---------------------------- MODULE Rechan_proofs ----------------------------
(***************************************************************************)
(* Reflecting channels lose no wakeup and leave no timer behind, proved    *)
(* for any number of channels and any depth of nested event loops.         *)
(***************************************************************************)
EXTENDS Rechan, SequenceTheorems, TLAPS

\* A queued timer finds events to call handlers for.
TimerHasMask == \A c \in Chan : timer[c] => watch[c] # {}

\* The channel layer is interested in open channels only.
OthersAreIdle == \A c \in Chan : state[c] # "open" => interest[c] = {} /\ ~synth[c]

IInv ==
  TypeOK /\ OneTimer /\ FreedIsQuiet /\ WakeupQueued /\ TimerHasMask /\ OthersAreIdle

\* The types of what concerns single channels.
ChanTypes ==
  /\ state \in [Chan -> {"new", "open", "freed"}]
  /\ valid \in [Chan -> Mode]
  /\ watch \in [Chan -> SUBSET Event] /\ \A c \in Chan : watch[c] \subseteq valid[c]
  /\ timer \in [Chan -> BOOLEAN] /\ queued \in [Chan -> Nat]
  /\ interest \in [Chan -> SUBSET Event] /\ \A c \in Chan : interest[c] \subseteq valid[c]
  /\ buffered \in [Chan -> BOOLEAN] /\ synth \in [Chan -> BOOLEAN]

\* Every channel can do something, of the two things there are.
LEMMA Modes == \A m \in Mode : m # {} /\ m \subseteq Event /\ m \in SUBSET Event
  BY DEF Mode, Event

\* No channel is made yet, and none has a timer: the invariant holds.
LEMMA InitIInv == Init => IInv
<1> SUFFICES ASSUME Init PROVE IInv
  OBVIOUS
<1>1. TypeOK
  BY NestAssumption DEF Init, TypeOK
<1>2. OneTimer /\ FreedIsQuiet /\ WakeupQueued /\ TimerHasMask /\ OthersAreIdle
  BY DEF Init, OneTimer, FreedIsQuiet, WakeupQueued, Awaited, TimerHasMask, OthersAreIdle
<1> QED BY <1>1, <1>2 DEF IInv

\* rcWatchChannel (rechan.c:216-231): whatever the mask was and whether a timer
\* is there, afterwards there is one exactly if there is something to watch
\* for, and the mask holds that.
LEMMA WatchArms ==
  ASSUME NEW c \in Chan, NEW mask, NEW w, TypeOK, OneTimer,
         mask \subseteq valid[c], w \subseteq valid[c], WatchChannel(c, mask, w)
  PROVE  /\ watch' \in [Chan -> SUBSET Event]
         /\ timer' \in [Chan -> BOOLEAN] /\ queued' \in [Chan -> Nat]
         /\ watch'[c] \subseteq valid[c]
         /\ timer'[c] = (mask # {})
         /\ queued'[c] = IF mask # {} THEN 1 ELSE 0
         /\ mask # {} => watch'[c] = mask
         /\ \A d \in Chan \ {c} :
              watch'[d] = watch[d] /\ timer'[d] = timer[d] /\ queued'[d] = queued[d]
<1>1. /\ valid[c] \subseteq Event /\ watch \in [Chan -> SUBSET Event]
      /\ timer \in [Chan -> BOOLEAN] /\ timer[c] \in BOOLEAN
      /\ queued \in [Chan -> Nat]
  BY Modes DEF TypeOK
<1>0. queued[c] = IF timer[c] THEN 1 ELSE 0
  BY DEF OneTimer
<1>2. CASE mask = {}
  <2>1. /\ watch' = [watch EXCEPT ![c] = w]
        /\ timer' = [timer EXCEPT ![c] = FALSE]
        /\ queued' = [queued EXCEPT ![c] = IF timer[c] THEN queued[c] - 1 ELSE queued[c]]
    BY <1>2 DEF WatchChannel, Deleted
  <2>2. queued' = [queued EXCEPT ![c] = 0]
    <3>1. CASE timer[c]
      BY <1>0, <2>1, <3>1
    <3>2. CASE ~timer[c]
      BY <1>0, <2>1, <3>2
    <3> QED BY <3>1, <3>2
  <2>3. w \in SUBSET Event
    BY <1>1
  <2>4. watch' \in [Chan -> SUBSET Event] /\ watch'[c] = w
        /\ \A d \in Chan \ {c} : watch'[d] = watch[d]
    BY <1>1, <2>1, <2>3
  <2>5. timer' \in [Chan -> BOOLEAN] /\ timer'[c] = FALSE
        /\ \A d \in Chan \ {c} : timer'[d] = timer[d]
    BY <1>1, <2>1
  <2>6. queued' \in [Chan -> Nat] /\ queued'[c] = 0
        /\ \A d \in Chan \ {c} : queued'[d] = queued[d]
    BY <1>1, <2>2
  <2> QED BY <1>2, <2>4, <2>5, <2>6
<1>3. CASE mask # {}
  <2>1. mask \cap valid[c] = mask
    OBVIOUS
  <2>2. /\ watch' = [watch EXCEPT ![c] = mask]
        /\ timer' = [timer EXCEPT ![c] = TRUE]
        /\ queued' = [queued EXCEPT ![c] = IF ~timer[c] THEN queued[c] + 1 ELSE queued[c]]
    BY <1>3, <2>1 DEF WatchChannel, TypeOK
  <2>3. queued' = [queued EXCEPT ![c] = 1]
    <3>1. CASE timer[c]
      BY <1>0, <2>2, <3>1
    <3>2. CASE ~timer[c]
      BY <1>0, <2>2, <3>2
    <3> QED BY <3>1, <3>2
  <2>4. mask \in SUBSET Event
    BY <1>1
  <2>5. watch' \in [Chan -> SUBSET Event] /\ watch'[c] = mask
        /\ \A d \in Chan \ {c} : watch'[d] = watch[d]
    BY <1>1, <2>2, <2>4
  <2>6. timer' \in [Chan -> BOOLEAN] /\ timer'[c] = TRUE
        /\ \A d \in Chan \ {c} : timer'[d] = timer[d]
    BY <1>1, <2>2
  <2>7. queued' \in [Chan -> Nat] /\ queued'[c] = 1
        /\ \A d \in Chan \ {c} : queued'[d] = queued[d]
    BY <1>1, <2>3
  <2> QED BY <1>3, <2>5, <2>6, <2>7
<1> QED BY <1>2, <1>3

\* Whatever the layer has just done to an open channel, once it tells the
\* driver its interest the channel is waited for, and no other is disturbed.
LEMMA UpdateAwaits ==
  ASSUME IInv, NEW c \in Chan, NEW mask, NEW held \in BOOLEAN, NEW w,
         state[c] = "open", mask \subseteq valid[c], w \subseteq valid[c],
         UpdateInterest(c, mask, held, w), UNCHANGED <<state, valid>>
  PROVE  /\ ChanTypes' /\ OneTimer' /\ FreedIsQuiet' /\ TimerHasMask' /\ OthersAreIdle'
         /\ Awaited(c)'
         /\ \A d \in Chan \ {c} : Awaited(d) => Awaited(d)'
<1> DEFINE asked == IF held THEN mask \ {"readable"} ELSE mask
<1>1. TypeOK /\ OneTimer /\ asked \subseteq valid[c] /\ WatchChannel(c, asked, w)
  BY DEF IInv, UpdateInterest
<1>2. /\ watch' \in [Chan -> SUBSET Event]
      /\ timer' \in [Chan -> BOOLEAN] /\ queued' \in [Chan -> Nat]
      /\ watch'[c] \subseteq valid[c]
      /\ timer'[c] = (asked # {})
      /\ queued'[c] = IF asked # {} THEN 1 ELSE 0
      /\ asked # {} => watch'[c] = asked
      /\ \A d \in Chan \ {c} :
           watch'[d] = watch[d] /\ timer'[d] = timer[d] /\ queued'[d] = queued[d]
  BY <1>1, WatchArms
<1>3. /\ interest' = [interest EXCEPT ![c] = mask]
      /\ buffered' = [buffered EXCEPT ![c] = held]
      /\ synth' = [synth EXCEPT ![c] = synth[c] \/ (held /\ "readable" \in mask)]
      /\ state' = state /\ valid' = valid
  BY DEF UpdateInterest
<1>4. ChanTypes'
  <2>1. valid[c] \subseteq Event
    BY <1>1, Modes DEF TypeOK
  <2>2. watch' \in [Chan -> SUBSET Event] /\ \A d \in Chan : watch'[d] \subseteq valid'[d]
    BY <1>1, <1>2, <1>3 DEF TypeOK
  <2>3. interest' \in [Chan -> SUBSET Event] /\ \A d \in Chan : interest'[d] \subseteq valid'[d]
    BY <1>1, <1>3, <2>1 DEF TypeOK
  <2>4. buffered' \in [Chan -> BOOLEAN] /\ synth' \in [Chan -> BOOLEAN]
    BY <1>1, <1>3 DEF TypeOK
  <2> QED BY <1>1, <1>2, <1>3, <2>2, <2>3, <2>4 DEF TypeOK, ChanTypes
<1>5. OneTimer' /\ FreedIsQuiet' /\ TimerHasMask'
  BY <1>1, <1>2, <1>3 DEF IInv, OneTimer, FreedIsQuiet, TimerHasMask
<1>6. OthersAreIdle'
  BY <1>1, <1>3 DEF IInv, TypeOK, OthersAreIdle
<1>7. Awaited(c)'
  <2>1. synth'[c] = (synth[c] \/ (held /\ "readable" \in mask)) /\ interest'[c] = mask
    BY <1>1, <1>3 DEF TypeOK
  <2> SUFFICES ASSUME NEW e \in mask
               PROVE  (queued'[c] > 0 /\ e \in watch'[c]) \/ (synth'[c] /\ e = "readable")
    BY <2>1 DEF Awaited
  <2>2. CASE e \in asked
    BY <1>2, <2>2
  <2>3. CASE e \notin asked
    BY <2>1, <2>3
  <2> QED BY <2>2, <2>3
<1>8. \A d \in Chan \ {c} : Awaited(d) => Awaited(d)'
  BY <1>1, <1>2, <1>3 DEF TypeOK, Awaited
<1> QED BY <1>4, <1>5, <1>6, <1>7, <1>8

\* A step that leaves the channels' handlers where they are, and each channel
\* awaited that was, loses no wakeup.
LEMMA SameStack ==
  ASSUME WakeupQueued, NEW c \in Chan, stack' = stack, state' = state,
         Awaited(c)', \A d \in Chan \ {c} : Awaited(d) => Awaited(d)'
  PROVE  WakeupQueued'
  BY DEF WakeupQueued

\* What the handlers of the innermost channel being done does to the stack.
LEMMA Popped ==
  ASSUME NEW s \in Seq(Chan), s # <<>>
  PROVE  /\ Front(s) \in Seq(Chan) /\ Len(Front(s)) <= Len(s) /\ Last(s) \in Chan
         /\ \A d \in ToSet(s) : d # Last(s) => d \in ToSet(Front(s))
<1>1. Len(s) \in Nat \ {0} /\ Front(s) = SubSeq(s, 1, Len(s) - 1) /\ Last(s) = s[Len(s)]
  BY DEF Front, Last
<1>2. /\ Front(s) \in Seq(Chan) /\ Len(Front(s)) = Len(s) - 1
      /\ \A i \in 1..(Len(s) - 1) : Front(s)[i] = s[i]
  <2>1. PICK n \in Nat : n = Len(s) - 1
    BY <1>1
  <2>2. \A i \in 1..n : s[i] \in Chan
    BY <1>1, <2>1
  <2>3. /\ SubSeq(s, 1, n) \in Seq(Chan)
        /\ Len(SubSeq(s, 1, n)) = IF 1 <= n THEN n - 1 + 1 ELSE 0
        /\ \A i \in 1..(n - 1 + 1) : SubSeq(s, 1, n)[i] = s[1 + i - 1]
    BY <2>2, SubSeqProperties
  <2>4. Len(SubSeq(s, 1, n)) = n
    <3>1. CASE n = 0
      BY <2>3, <3>1
    <3>2. CASE n # 0
      BY <2>3, <3>2
    <3> QED BY <3>1, <3>2
  <2>5. \A i \in 1..n : SubSeq(s, 1, n)[i] = s[i]
    <3> SUFFICES ASSUME NEW i \in 1..n PROVE SubSeq(s, 1, n)[i] = s[i]
      OBVIOUS
    <3>1. i \in 1..(n - 1 + 1) /\ 1 + i - 1 = i
      OBVIOUS
    <3> QED BY <2>3, <3>1
  <2>6. Front(s) = SubSeq(s, 1, n)
    BY <1>1, <2>1
  <2> QED BY <2>1, <2>3, <2>4, <2>5, <2>6
<1>3. ASSUME NEW d \in ToSet(s), d # Last(s) PROVE d \in ToSet(Front(s))
  <2>1. PICK i \in 1..Len(s) : s[i] = d
    BY <1>3 DEF ToSet
  <2>2. i \in 1..(Len(s) - 1)
    BY <1>1, <1>3, <2>1
  <2> QED BY <1>2, <2>1, <2>2 DEF ToSet
<1> QED BY <1>1, <1>2, <1>3

\* Calling handlers, with a channel on top of the stack.
LEMMA Pushed ==
  ASSUME NEW s \in Seq(Chan), NEW c \in Chan
  PROVE  /\ Append(s, c) \in Seq(Chan) /\ Len(Append(s, c)) = Len(s) + 1
         /\ c \in ToSet(Append(s, c)) /\ ToSet(s) \subseteq ToSet(Append(s, c))
<1>1. /\ Append(s, c) \in Seq(Chan) /\ Len(Append(s, c)) = Len(s) + 1
      /\ Append(s, c)[Len(s) + 1] = c
      /\ \A i \in 1..Len(s) : Append(s, c)[i] = s[i]
  OBVIOUS
<1> QED BY <1>1 DEF ToSet

\* Every step keeps the invariant.
LEMMA NextIInv == IInv /\ [Next]_vars => IInv'
<1> SUFFICES ASSUME IInv, [Next]_vars PROVE IInv'
  OBVIOUS
<1>0. /\ TypeOK /\ OneTimer /\ FreedIsQuiet /\ WakeupQueued /\ TimerHasMask /\ OthersAreIdle
      /\ ChanTypes /\ \A c \in Chan : valid[c] # {} /\ valid[c] \subseteq Event
  BY Modes DEF IInv, TypeOK, ChanTypes
\* What is left to show of a step that only tells the driver the interest.
<1>A. ASSUME NEW c \in Chan, NEW mask, NEW held \in BOOLEAN, NEW w,
             state[c] = "open", mask \subseteq valid[c], w \subseteq valid[c],
             UpdateInterest(c, mask, held, w), UNCHANGED <<state, valid, stack>>
      PROVE  IInv'
  <2>1. /\ ChanTypes' /\ OneTimer' /\ FreedIsQuiet' /\ TimerHasMask' /\ OthersAreIdle'
        /\ Awaited(c)' /\ \A d \in Chan \ {c} : Awaited(d) => Awaited(d)'
    BY <1>A, UpdateAwaits
  <2>2. WakeupQueued'
    BY <1>0, <1>A, <2>1, SameStack
  <2> QED BY <1>0, <1>A, <2>1, <2>2 DEF IInv, TypeOK, ChanTypes
<1>1. ASSUME NEW c \in Chan, Create(c) PROVE IInv'
  <2>1. state' = [state EXCEPT ![c] = "open"] /\ state[c] = "new"
    BY <1>1 DEF Create
  <2>2. TypeOK' /\ OneTimer' /\ FreedIsQuiet' /\ TimerHasMask' /\ OthersAreIdle'
    BY <1>0, <1>1, <2>1
    DEF Create, TypeOK, OneTimer, FreedIsQuiet, TimerHasMask, OthersAreIdle
  <2>3. interest[c] = {}
    BY <1>0, <2>1 DEF OthersAreIdle
  <2>4. WakeupQueued'
    BY <1>0, <1>1, <2>1, <2>3 DEF Create, TypeOK, WakeupQueued, Awaited
  <2> QED BY <2>2, <2>4 DEF IInv
<1>2. ASSUME NEW c \in Chan, NEW mask \in SUBSET Event, SetInterest(c, mask) PROVE IInv'
  BY <1>0, <1>2, <1>A DEF SetInterest, TypeOK
<1>3. ASSUME NEW c \in Chan, NEW held \in BOOLEAN, ReadHeld(c, held) PROVE IInv'
  BY <1>0, <1>3, <1>A DEF ReadHeld, TypeOK
<1>4. ASSUME NEW c \in Chan, NEW n \in {-1, 0, 1}, NEW held \in BOOLEAN, Input(c, n, held)
      PROVE  IInv'
  <2>1. AfterInput(c, n) \subseteq valid[c]
    BY <1>0 DEF AfterInput, TypeOK
  <2> QED BY <1>0, <1>4, <2>1, <1>A DEF Input, TypeOK
<1>5. ASSUME NEW c \in Chan, watch' \in {watch, [watch EXCEPT ![c] = valid[c]]},
             buffered' \in [Chan -> BOOLEAN],
             UNCHANGED <<state, valid, timer, queued, interest, synth, stack>>
      PROVE  IInv'
  <2>1. /\ watch' \in [Chan -> SUBSET Event]
        /\ \A d \in Chan : watch[d] \subseteq watch'[d] /\ watch'[d] \subseteq valid[d]
        /\ \A d \in Chan : valid[d] # {}
    <3>1. CASE watch' = watch
      BY <1>0, <1>5, <3>1, Modes DEF TypeOK
    <3>2. CASE watch' = [watch EXCEPT ![c] = valid[c]]
      BY <1>0, <1>5, <3>2, Modes DEF TypeOK
    <3> QED BY <1>5, <3>1, <3>2
  <2>2. TypeOK'
    BY <1>0, <1>5, <2>1 DEF TypeOK
  <2>3. OneTimer' /\ FreedIsQuiet' /\ TimerHasMask' /\ OthersAreIdle'
    BY <1>0, <1>5, <2>1 DEF OneTimer, FreedIsQuiet, TimerHasMask, OthersAreIdle
  <2>4. WakeupQueued'
    <3>1. \A d \in Chan : watch[d] \subseteq watch'[d]
      BY <1>0, <1>5, <2>1 DEF TypeOK
    <3>2. \A d \in Chan : Awaited(d) => Awaited(d)'
      BY <1>5, <3>1 DEF Awaited
    <3> QED BY <1>0, <1>5, <3>2 DEF WakeupQueued
  <2> QED BY <2>2, <2>3, <2>4 DEF IInv
<1>6. ASSUME NEW c \in Chan, Output(c) PROVE IInv'
  BY <1>0, <1>5, <1>6 DEF Output, TypeOK
<1>7. ASSUME NEW c \in Chan, NEW held \in BOOLEAN, Seek(c, held) PROVE IInv'
  <2>1. buffered' \in [Chan -> BOOLEAN]
    BY <1>0, <1>7 DEF Seek, TypeOK
  <2> QED BY <1>5, <1>7, <2>1 DEF Seek, AfterSeek
<1>8. ASSUME NEW c \in Chan, TimerFires(c) PROVE IInv'
  <2>1. queued[c] = 1 /\ timer[c] /\ state[c] = "open" /\ watch[c] # {}
    BY <1>0, <1>8 DEF TimerFires, TypeOK, OneTimer, FreedIsQuiet, TimerHasMask
  <2>2. /\ queued' = [queued EXCEPT ![c] = 0]
        /\ timer' = [timer EXCEPT ![c] = FALSE]
        /\ stack' = Append(stack, c) /\ Len(stack) < MaxNest
        /\ UNCHANGED <<state, valid, watch, interest, buffered, synth>>
    BY <1>8, <2>1 DEF TimerFires, Fired
  <2>3. /\ stack \in Seq(Chan) /\ Len(stack) \in Nat
        /\ stack' \in Seq(Chan) /\ Len(stack') = Len(stack) + 1
        /\ c \in ToSet(stack') /\ ToSet(stack) \subseteq ToSet(stack')
    BY <1>0, <2>2, Pushed DEF TypeOK
  <2>4. TypeOK'
    BY <1>0, <2>2, <2>3, NestAssumption DEF TypeOK
  <2>5. OneTimer' /\ FreedIsQuiet' /\ TimerHasMask' /\ OthersAreIdle'
    BY <1>0, <2>2 DEF TypeOK, OneTimer, FreedIsQuiet, TimerHasMask, OthersAreIdle
  <2>6. WakeupQueued'
    BY <1>0, <2>2, <2>3 DEF TypeOK, WakeupQueued, Awaited
  <2> QED BY <2>4, <2>5, <2>6 DEF IInv
<1>9. ASSUME NEW c \in Chan, SynthFires(c) PROVE IInv'
  <2>1. state[c] = "open"
    BY <1>0, <1>9 DEF SynthFires, OthersAreIdle
  <2>2. CASE buffered[c] /\ "readable" \in interest[c]
    <3>1. /\ stack' = Append(stack, c) /\ Len(stack) < MaxNest
          /\ UNCHANGED <<state, valid, watch, timer, queued, interest, buffered, synth>>
      BY <1>9, <2>2 DEF SynthFires
    <3>2. /\ stack \in Seq(Chan) /\ Len(stack) \in Nat
          /\ stack' \in Seq(Chan) /\ Len(stack') = Len(stack) + 1
          /\ ToSet(stack) \subseteq ToSet(stack')
      BY <1>0, <3>1, Pushed DEF TypeOK
    <3>3. TypeOK'
      BY <1>0, <3>1, <3>2, NestAssumption DEF TypeOK
    <3>4. OneTimer' /\ FreedIsQuiet' /\ TimerHasMask' /\ OthersAreIdle'
      BY <1>0, <3>1 DEF OneTimer, FreedIsQuiet, TimerHasMask, OthersAreIdle
    <3>5. WakeupQueued'
      BY <1>0, <3>1, <3>2 DEF WakeupQueued, Awaited
    <3> QED BY <3>3, <3>4, <3>5 DEF IInv
  <2>3. CASE ~(buffered[c] /\ "readable" \in interest[c])
    <3>1. /\ WatchChannel(c, interest[c], watch[c])
          /\ synth' = [synth EXCEPT ![c] = FALSE]
          /\ UNCHANGED <<state, valid, interest, buffered, stack>>
      BY <1>9, <2>3 DEF SynthFires
    <3>2. /\ watch' \in [Chan -> SUBSET Event]
          /\ timer' \in [Chan -> BOOLEAN] /\ queued' \in [Chan -> Nat]
          /\ watch'[c] \subseteq valid[c]
          /\ timer'[c] = (interest[c] # {})
          /\ queued'[c] = IF interest[c] # {} THEN 1 ELSE 0
          /\ interest[c] # {} => watch'[c] = interest[c]
          /\ \A d \in Chan \ {c} :
               watch'[d] = watch[d] /\ timer'[d] = timer[d] /\ queued'[d] = queued[d]
      <4>1. interest[c] \subseteq valid[c] /\ watch[c] \subseteq valid[c]
        BY <1>0 DEF TypeOK
      <4> QED BY <1>0, <3>1, <4>1, WatchArms
    <3>3. TypeOK'
      BY <1>0, <3>1, <3>2 DEF TypeOK
    <3>4. OneTimer' /\ FreedIsQuiet' /\ TimerHasMask'
      BY <1>0, <2>1, <3>1, <3>2 DEF OneTimer, FreedIsQuiet, TimerHasMask
    <3>5. OthersAreIdle'
      BY <1>0, <2>1, <3>1 DEF TypeOK, OthersAreIdle
    <3>6. Awaited(c)' /\ \A d \in Chan \ {c} : Awaited(d) => Awaited(d)'
      BY <1>0, <3>1, <3>2 DEF TypeOK, Awaited
    <3> QED BY <1>0, <3>1, <3>3, <3>4, <3>5, <3>6, SameStack DEF IInv
  <2> QED BY <2>2, <2>3
<1>10. ASSUME HandlersReturn PROVE IInv'
  <2>1. /\ stack' = Front(stack) /\ UNCHANGED <<state, valid>>
        /\ stack \in Seq(Chan) /\ stack # <<>> /\ Len(stack) \in Nat
    BY <1>0, <1>10 DEF HandlersReturn, TypeOK
  <2> SUFFICES ASSUME NEW c \in Chan, c = Last(stack) PROVE IInv'
    BY <2>1, Popped
  <2>2. /\ stack' \in Seq(Chan) /\ Len(stack') <= Len(stack) /\ Len(stack') \in Nat
        /\ \A d \in ToSet(stack) : d # c => d \in ToSet(stack')
    BY <2>1, Popped
  <2>3. CASE state[c] = "open"
    <3>1. UpdateInterest(c, interest[c], buffered[c], watch[c])
      BY <1>10, <2>3 DEF HandlersReturn
    <3>2. interest[c] \subseteq valid[c] /\ watch[c] \subseteq valid[c] /\ buffered[c] \in BOOLEAN
      BY <1>0, <2>2 DEF TypeOK
    <3>3. /\ ChanTypes' /\ OneTimer' /\ FreedIsQuiet' /\ TimerHasMask' /\ OthersAreIdle'
          /\ Awaited(c)' /\ \A d \in Chan \ {c} : Awaited(d) => Awaited(d)'
      BY <2>1, <2>2, <2>3, <3>1, <3>2, UpdateAwaits
    <3>4. WakeupQueued'
      BY <1>0, <2>1, <2>2, <3>3 DEF WakeupQueued
    <3>5. TypeOK'
      BY <1>0, <2>1, <2>2, <3>3, NestAssumption DEF TypeOK, ChanTypes
    <3> QED BY <3>3, <3>4, <3>5 DEF IInv
  <2>4. CASE state[c] # "open"
    <3>1. UNCHANGED <<watch, timer, queued, interest, buffered, synth>>
      BY <1>10, <2>4 DEF HandlersReturn
    <3>2. WakeupQueued'
      BY <1>0, <2>1, <2>2, <2>4, <3>1 DEF WakeupQueued, Awaited
    <3>3. TypeOK'
      BY <1>0, <2>1, <2>2, <3>1, NestAssumption DEF TypeOK
    <3> QED
      BY <1>0, <2>1, <3>1, <3>2, <3>3
      DEF IInv, OneTimer, FreedIsQuiet, TimerHasMask, OthersAreIdle
  <2> QED BY <2>3, <2>4
<1>11. ASSUME NEW c \in Chan, Close(c) PROVE IInv'
  <2>1. queued' = [queued EXCEPT ![c] = 0]
    <3>1. queued' = [queued EXCEPT ![c] = IF timer[c] THEN queued[c] - 1 ELSE queued[c]]
      BY <1>11 DEF Close, Deleted
    <3>2. queued[c] = IF timer[c] THEN 1 ELSE 0
      BY <1>0 DEF OneTimer
    <3>3. CASE timer[c]
      BY <3>1, <3>2, <3>3
    <3>4. CASE ~timer[c]
      BY <3>1, <3>2, <3>4
    <3> QED BY <3>3, <3>4
  <2>2. /\ state' = [state EXCEPT ![c] = "freed"]
        /\ timer' = [timer EXCEPT ![c] = FALSE]
        /\ interest' = [interest EXCEPT ![c] = {}]
        /\ buffered' = [buffered EXCEPT ![c] = FALSE]
        /\ synth' = [synth EXCEPT ![c] = FALSE]
        /\ UNCHANGED <<valid, watch, stack>>
    BY <1>11 DEF Close
  <2>3. TypeOK'
    BY <1>0, <2>1, <2>2 DEF TypeOK
  <2>4. OneTimer' /\ FreedIsQuiet' /\ TimerHasMask' /\ OthersAreIdle'
    BY <1>0, <2>1, <2>2 DEF TypeOK, OneTimer, FreedIsQuiet, TimerHasMask, OthersAreIdle
  <2>5. WakeupQueued'
    BY <1>0, <2>1, <2>2 DEF TypeOK, WakeupQueued, Awaited
  <2> QED BY <2>3, <2>4, <2>5 DEF IInv
<1>12. ASSUME UNCHANGED vars PROVE IInv'
  BY <1>0, <1>12
  DEF vars, IInv, TypeOK, OneTimer, FreedIsQuiet, WakeupQueued, Awaited, TimerHasMask,
      OthersAreIdle
<1> QED
  BY <1>1, <1>2, <1>3, <1>4, <1>6, <1>7, <1>8, <1>9, <1>10, <1>11, <1>12 DEF Next

\* The inductive invariant holds in every state.
THEOREM IInvHolds == Spec => []IInv
  BY InitIInv, NextIInv, PTL DEF Spec

\* Types: the driver never watches for an event the channel was not made for.
THEOREM TypesHold == Spec => []TypeOK
  BY IInvHolds, PTL DEF IInv

\* _timer and the timer queue agree: no second timer is created, none is lost
\* (rechan.c:205-231).
THEOREM TimerMatches == Spec => []OneTimer
  BY IInvHolds, PTL DEF IInv

\* rcTimerProc is never called for a channel rcClose has freed (rechan.c:99-109).
THEOREM NoTimerAfterClose == Spec => []FreedIsQuiet
  BY IInvHolds, PTL DEF IInv

\* No wakeup is lost, whatever handlers do within handlers.
THEOREM NoLostWakeup == Spec => []WakeupQueued
  BY IInvHolds, PTL DEF IInv
===============================================================================
