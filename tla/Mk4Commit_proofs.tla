--------------------------- MODULE Mk4Commit_proofs ---------------------------
(***************************************************************************)
(* The timer discipline of Mk4Commit, proved for any number of mounts,     *)
(* changes and writers.                                                    *)
(***************************************************************************)
EXTENDS Mk4Commit, TLAPS

\* OneTimerPerDb and ClosedIsQuiet need each other, and both need that a tag
\* in use is not among those that were unmounted.
TagIsFresh == mounted => seq \notin closed

IInv == TypeOK /\ OneTimerPerDb /\ ClosedIsQuiet /\ PlainMountIsArmed /\ TagIsFresh

\* The program starts with no mounts and no timers: the invariant holds.
LEMMA InitIInv == Init => IInv
<1> SUFFICES ASSUME Init PROVE IInv
  OBVIOUS
<1>1. TypeOK
  <2>1. seq \in 0..MaxMount /\ mem \in Version /\ disk \in Version
        /\ writers \in 0..MaxWriter
    BY BoundAssumption DEF Init, Version
  <2>2. pending \in [Db -> Nat]
    BY DEF Init
  <2>3. ~mounted /\ mounted \in BOOLEAN /\ auto \in BOOLEAN
    BY DEF Init
  <2> QED BY <2>1, <2>2, <2>3 DEF Init, TypeOK
<1>2. OneTimerPerDb /\ ClosedIsQuiet
  BY DEF Init, OneTimerPerDb, ClosedIsQuiet
<1>3. PlainMountIsArmed /\ TagIsFresh
  BY DEF Init, PlainMountIsArmed, TagIsFresh
<1> QED BY <1>1, <1>2, <1>3 DEF IInv

\* What a commit makes of the file is a version, or spoiled; so is what a change
\* makes of the memory.
LEMMA SavedTyped ==
  ASSUME TypeOK, NEW v \in Version
  PROVE  Saved(v) \subseteq Version /\ (v < MaxChange => Newer(v) \in Version)
  BY BoundAssumption DEF TypeOK, Saved, Newer, Version, Spoiled

\* setupCommits, whatever it does, keeps a timer per db and arms no tag that
\* was unmounted (mk4vfs.tcl:495-500).
LEMMA SetupKeeps ==
  ASSUME IInv, mounted, mode' \in State, mem' \in Version, SetupCommits,
         UNCHANGED <<seq, mounted, opened, closed, left>>, writers' \in 0..MaxWriter
  PROVE  IInv'
<1>1. seq \in Db /\ seq \in 1..seq /\ seq \notin closed
  BY BoundAssumption DEF IInv, TypeOK, TagIsFresh, Db
<1>2. CASE NeedsTimer(mode')
  <2>1. /\ timer' = timer \cup {seq} /\ pending' = [pending EXCEPT ![seq] = @ + 1]
        /\ disk' \in Version /\ auto' \in BOOLEAN
        /\ auto => auto'
    BY <1>2, SavedTyped DEF SetupCommits, Arm, IInv, TypeOK
  <2>2. pending[seq] = 0
    BY <1>1, <1>2 DEF NeedsTimer, IInv, OneTimerPerDb
  <2>3. TypeOK'
    BY <1>1, <2>1 DEF IInv, TypeOK
  <2>4. OneTimerPerDb'
    BY <1>1, <2>1, <2>2 DEF IInv, TypeOK, OneTimerPerDb
  <2>5. ClosedIsQuiet'
    BY <1>1, <2>1 DEF IInv, TypeOK, ClosedIsQuiet
  <2>6. (PlainMountIsArmed /\ TagIsFresh)'
    BY <1>1, <2>1 DEF IInv, PlainMountIsArmed, TagIsFresh
  <2> QED BY <2>3, <2>4, <2>5, <2>6 DEF IInv
<1>3. CASE ~NeedsTimer(mode')
  BY <1>1, <1>3
  DEF SetupCommits, IInv, TypeOK, OneTimerPerDb, ClosedIsQuiet, PlainMountIsArmed, TagIsFresh
<1> QED BY <1>2, <1>3

\* Every step keeps the invariant.
LEMMA NextIInv == IInv /\ [Next]_vars => IInv'
<1> SUFFICES ASSUME IInv, [Next]_vars PROVE IInv'
  OBVIOUS
<1> USE DEF IInv
<1>1. ASSUME NEW opt \in Option, Mount(opt) PROVE IInv'
  <2>1. seq + 1 \in Db /\ seq \in Nat /\ seq + 1 \notin timer /\ seq + 1 \notin closed
    BY <1>1, BoundAssumption DEF Mount, TypeOK, Db
  <2>2. TypeOK'
    <3>1. /\ timer' \subseteq 1..(seq + 1) /\ closed' \subseteq 1..(seq + 1)
          /\ pending' \in [Db -> Nat]
      <4>1. CASE ArmsAtOnce(opt)
        <5>1. timer' = timer \cup {seq + 1} /\ pending' = [pending EXCEPT ![seq + 1] = @ + 1]
          BY <1>1, <4>1 DEF Mount, Arm
        <5> QED BY <5>1, <1>1, <2>1 DEF Mount, TypeOK
      <4>2. CASE ~ArmsAtOnce(opt)
        <5>1. timer' = timer /\ pending' = pending
          BY <1>1, <4>2 DEF Mount
        <5> QED BY <5>1, <1>1, <2>1 DEF Mount, TypeOK
      <4> QED BY <4>1, <4>2
    <3>2. mode' \in State
      BY <1>1 DEF Mount, StartMode, State
    <3>3. /\ seq' \in 0..MaxMount /\ seq' \in Db /\ mounted' \in BOOLEAN
          /\ auto' \in BOOLEAN /\ opened' \in Option
          /\ mem' \in Version
      BY <1>1, <2>1, BoundAssumption DEF Mount, TypeOK, Db, Version
    <3>4. left' \subseteq 1..seq'
      BY <1>1, <2>1 DEF Mount, TypeOK
    <3> QED BY <1>1, <3>1, <3>2, <3>3, <3>4 DEF Mount, TypeOK
  <2>3. OneTimerPerDb'
    BY <1>1, <2>1 DEF Mount, TypeOK, Arm, OneTimerPerDb
  <2>4. ClosedIsQuiet'
    <3>1. closed \subseteq Db
      BY <1>1, BoundAssumption DEF Mount, TypeOK, Db
    <3> QED BY <1>1, <2>1, <3>1 DEF Mount, TypeOK, Arm, ClosedIsQuiet
  <2>5. (PlainMountIsArmed /\ TagIsFresh)'
    BY <1>1, <2>1 DEF Mount, Arm, ArmsAtOnce, PlainMountIsArmed, TagIsFresh
  <2> QED BY <2>2, <2>3, <2>4, <2>5
<1>2. ASSUME MountFails PROVE IInv'
  <2>1. seq + 1 \in Db /\ seq \in Nat /\ seq + 1 \notin timer /\ seq + 1 \notin closed
    BY <1>2, BoundAssumption DEF MountFails, TypeOK, Db
  <2>2. TypeOK'
    <3>1. left' \subseteq 1..(seq + 1) /\ timer' \subseteq 1..(seq + 1) /\ closed' \subseteq 1..(seq + 1)
      <4>1. seq + 1 \in 1..(seq + 1) /\ 1..seq \subseteq 1..(seq + 1)
        BY <2>1
      <4>2. /\ left' \subseteq left \cup {seq + 1}
            /\ timer' = timer \cup {seq + 1} /\ closed' = closed
        BY <1>2 DEF MountFails, Arm
      <4> QED BY <4>1, <4>2 DEF TypeOK
    <3> QED BY <1>2, <2>1, <3>1 DEF MountFails, TypeOK, Arm, Db
  <2>3. OneTimerPerDb' /\ ClosedIsQuiet'
    BY <1>2, <2>1 DEF MountFails, TypeOK, Arm, OneTimerPerDb, ClosedIsQuiet
  <2>4. (PlainMountIsArmed /\ TagIsFresh)'
    BY <1>2 DEF MountFails, PlainMountIsArmed, TagIsFresh
  <2> QED BY <2>2, <2>3, <2>4
<1>3. ASSUME OpenWrite PROVE IInv'
  BY <1>3, BoundAssumption, SavedTyped
  DEF OpenWrite, TypeOK, OneTimerPerDb, ClosedIsQuiet, PlainMountIsArmed, TagIsFresh
<1>4. ASSUME DoClose PROVE IInv'
  <2>1. mounted /\ mode \in State /\ Newer(mem) \in Version /\ writers - 1 \in 0..MaxWriter
    BY <1>4, BoundAssumption, SavedTyped DEF DoClose, TypeOK
  <2> QED BY <1>4, <2>1, SetupKeeps DEF DoClose
<1>5. ASSUME Change PROVE IInv'
  <2>1. mounted /\ mode \in State /\ Newer(mem) \in Version
    BY <1>5, BoundAssumption, SavedTyped DEF Change, TypeOK
  <2> QED BY <1>5, <2>1, SetupKeeps DEF Change, TypeOK
<1>6. ASSUME Utime PROVE IInv'
  BY <1>6, BoundAssumption, SavedTyped
  DEF Utime, TypeOK, OneTimerPerDb, ClosedIsQuiet, PlainMountIsArmed, TagIsFresh
<1>7. ASSUME NEW val \in State, SetState(val) PROVE IInv'
  BY <1>7, SetupKeeps DEF SetState, TypeOK
<1>8. ASSUME NEW d \in Db, Fire(d), disk' \in Version, mem' \in Version, left' \subseteq left
      PROVE  IInv'
  <2>1. d \in timer
    BY <1>8 DEF Fire, OneTimerPerDb
  <2>2. timer' = timer
    BY <1>8, <2>1 DEF Fire
  <2> QED
    BY <1>8, <2>2
    DEF Fire, TypeOK, OneTimerPerDb, ClosedIsQuiet, PlainMountIsArmed, TagIsFresh
<1>9. ASSUME NEW d \in Db, TimerCommit(d) PROVE IInv'
  <2>1. disk' \in Version
    BY <1>9, SavedTyped DEF TimerCommit, TypeOK
  <2> QED BY <1>9, <2>1, <1>8 DEF TimerCommit, TypeOK
<1>14. ASSUME NEW d \in Db, LeftCommits(d) PROVE IInv'
  <2>1. disk' \in Version /\ mem' \in Version
    BY <1>14, BoundAssumption DEF LeftCommits, TypeOK, Version
  <2> QED BY <1>14, <2>1, <1>8 DEF LeftCommits
<1>10. ASSUME NEW d \in Db, TimerFails(d) PROVE IInv'
  BY <1>10, <1>8 DEF TimerFails, TypeOK
<1>11. ASSUME Umount PROVE IInv'
  <2>1. seq \in Db /\ seq \in 1..seq
    BY <1>11, BoundAssumption DEF Umount, TypeOK, Db
  <2>2. pending' = [pending EXCEPT ![seq] = 0]
    <3>1. pending[seq] = IF seq \in timer THEN 1 ELSE 0
      BY <2>1 DEF OneTimerPerDb
    <3>2. pending' = [pending EXCEPT ![seq] = IF seq \in timer THEN pending[seq] - 1
                                                             ELSE pending[seq]]
      BY <1>11 DEF Umount, Cancelled
    <3> QED BY <3>1, <3>2
  <2>3. TypeOK'
    <3>1. /\ timer' \subseteq 1..seq /\ closed' \subseteq 1..seq
          /\ pending' \in [Db -> Nat]
      BY <1>11, <2>1, <2>2 DEF Umount, TypeOK
    <3>2. disk' \in Version /\ writers' \in 0..MaxWriter
      BY <1>11, BoundAssumption, SavedTyped DEF Umount, TypeOK
    <3> QED BY <1>11, <3>1, <3>2 DEF Umount, TypeOK
  <2>4. OneTimerPerDb' /\ ClosedIsQuiet'
    BY <1>11, <2>1, <2>2 DEF Umount, TypeOK, OneTimerPerDb, ClosedIsQuiet, Db
  <2>5. (PlainMountIsArmed /\ TagIsFresh)'
    BY <1>11 DEF Umount, PlainMountIsArmed, TagIsFresh
  <2> QED BY <2>3, <2>4, <2>5
<1>12. ASSUME Crash PROVE IInv'
  <2>1. seq' \in 0..MaxMount /\ mem' \in Version /\ disk' \in Version
        /\ writers' \in 0..MaxWriter
    BY <1>12, BoundAssumption DEF Crash, TypeOK
  <2>2. pending' \in [Db -> Nat] /\ \A d \in Db : pending'[d] = 0
    BY <1>12 DEF Crash
  <2>3. ~mounted' /\ mounted' \in BOOLEAN /\ auto' \in BOOLEAN
    BY <1>12 DEF Crash
  <2>4. TypeOK'
    BY <1>12, <2>1, <2>2, <2>3 DEF Crash, TypeOK
  <2> QED
    BY <1>12, <2>2, <2>3, <2>4
    DEF Crash, OneTimerPerDb, ClosedIsQuiet, PlainMountIsArmed, TagIsFresh
<1>13. ASSUME UNCHANGED vars PROVE IInv'
  BY <1>13
  DEF vars, TypeOK, OneTimerPerDb, ClosedIsQuiet, PlainMountIsArmed, TagIsFresh
<1> QED
  BY <1>1, <1>2, <1>3, <1>4, <1>5, <1>6, <1>7, <1>9, <1>10, <1>11, <1>12, <1>13,
     <1>14 DEF Next

\* The inductive invariant holds in every state of the driver.
THEOREM IInvHolds == Spec => []IInv
  BY InitIInv, NextIInv, PTL DEF Spec

\* Every variable of the driver keeps its type: v::mode is one of vfs::states,
\* v::timer holds tags that were given out, no timer is cancelled twice.
THEOREM TypesHold == Spec => []TypeOK
  BY IInvHolds, PTL DEF IInv

\* v::timer and the event queue agree on every db: never two events, never an
\* event nobody can cancel (mk4vfs.tcl:354-368, 495-500).
THEOREM TimersMatch == Spec => []OneTimerPerDb
  BY IInvHolds, PTL DEF IInv

\* After _umount nothing runs for that db any more.
THEOREM UnmountedIsQuiet == Spec => []ClosedIsQuiet
  BY IInvHolds, PTL DEF IInv

\* A plain mount is committed by its timer and when it is closed for as long
\* as it is mounted.
THEOREM PlainMountStaysArmed == Spec => []PlainMountIsArmed
  BY IInvHolds, PTL DEF IInv
===============================================================================
