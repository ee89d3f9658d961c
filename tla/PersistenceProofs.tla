------------------------- MODULE PersistenceProofs -------------------------
(***************************************************************************)
(* Theorems about Persistence: type correctness, the bound on the data a   *)
(* power cut can take, the shadow copy of XPRAM, and clean stops.          *)
(*                                                                         *)
(* LossBounded, SettingSaved and CleanStop are not inductive.  The bounds  *)
(* follow from how the executing time since a change relates to the clocks *)
(* of the code and to the time since the last loop (WriteAge, SettingAge); *)
(* a clean stop from what holds at each point on the way to it (OnTheWay,  *)
(* ClockSaved).                                                            *)
(***************************************************************************)
EXTENDS Persistence, TLAPS

\* What SMT needs of the bounds: they are positive.
Bounds ==
  /\ FlushEvery \in Nat /\ FlushEvery > 0
  /\ IdleFlush \in Nat /\ IdleFlush > 0
  /\ XpramEvery \in Nat /\ XpramEvery > 0
  /\ Quantum \in Nat /\ Quantum > 0

LEMMA BoundsHold == Bounds
  BY PersistenceAssumption DEF Bounds

\* A count that stays within its bound grows by one at most.
LEMMA CountRange ==
  ASSUME NEW bound \in Nat, NEW n \in 0..bound
  PROVE  Count(n, bound) \in 0..bound /\ Count(n, bound) <= n + 1 /\ Count(n, bound) >= n
  BY DEF Count

-----------------------------------------------------------------------------
(* Type correctness. *)

LEMMA BoundsNat ==
  /\ FlushEvery \in Nat /\ IdleFlush \in Nat /\ XpramEvery \in Nat /\ Quantum \in Nat
  /\ AgeBound \in Nat /\ QuietBound \in Nat /\ XageBound \in Nat /\ MaxDate \in Nat
  BY PersistenceAssumption, BoundsHold DEF Bounds, AgeBound, QuietBound, XageBound

\* Where every clock of a model starts.
LEMMA Zeros ==
  /\ [h \in Handle |-> 0] \in [Handle -> 0..AgeBound]
  /\ 0 \in 0..FlushEvery /\ 0 \in 0..IdleFlush /\ 0 \in 0..XpramEvery /\ 0 \in 0..Quantum
  /\ 0 \in 0..QuietBound /\ 0 \in 0..XageBound /\ 0 \in 0..MaxDate
  BY BoundsNat

LEMMA SettingFacts == Default \in Setting /\ None \notin Setting /\ Torn \notin Setting /\ None # Torn
  BY PersistenceAssumption

LEMMA TypeInit == Init => TypeOK
  BY Zeros, SettingFacts DEF Init, TypeOK, CtlType, DiskType, XpramType, ClockType

\* Saving the clock keeps its variables typed.
LEMMA ClockTyped ==
  ASSUME TypeOK, NEW force \in BOOLEAN, SaveClock(force)
  PROVE  /\ date' \in 0..MaxDate /\ nvs' \in 0..MaxDate
         /\ clock_dirty' \in BOOLEAN /\ tried' \in BOOLEAN /\ late' \in BOOLEAN
  BY DEF TypeOK, CtlType, DiskType, XpramType, ClockType, SaveClock, CommitClock, clockvars

\* Flushing keeps the variables of the disks typed.
LEMMA FlushTyped ==
  ASSUME TypeOK, FlushDirty
  PROVE  /\ dirty' \subseteq Handle /\ since_write' \in 0..IdleFlush
         /\ age' \in [Handle -> 0..AgeBound] /\ quiet' \in 0..QuietBound
  BY BoundsHold DEF TypeOK, CtlType, DiskType, XpramType, ClockType, FlushDirty, Bounds, AgeBound, QuietBound

\* What a step leaves alone stays typed.
LEMMA Untouched ==
  ASSUME TypeOK
  PROVE  /\ UNCHANGED ctlvars => CtlType'
         /\ UNCHANGED diskvars => DiskType'
         /\ UNCHANGED xpramvars => XpramType'
         /\ UNCHANGED clockvars => ClockType'
<1>1. UNCHANGED ctlvars => CtlType'
  BY DEF TypeOK, CtlType, ctlvars
<1>2. UNCHANGED diskvars => DiskType'
  BY DEF TypeOK, DiskType, diskvars
<1>3. UNCHANGED xpramvars => XpramType'
  BY DEF TypeOK, XpramType, xpramvars
<1>4. UNCHANGED clockvars => ClockType'
  BY DEF TypeOK, ClockType, clockvars
<1> QED BY <1>1, <1>2, <1>3, <1>4

LEMMA TypeStep == TypeOK /\ [Next]_vars => TypeOK'
<1> SUFFICES ASSUME TypeOK, [Next]_vars PROVE TypeOK'
  OBVIOUS
<1>1. ASSUME NEW h \in Handle, SysWrite(h) PROVE TypeOK'
  <2>1. CtlType' /\ XpramType' /\ ClockType'
    BY <1>1, Untouched DEF SysWrite
  <2>2. DiskType'
    BY <1>1, Zeros DEF SysWrite, TypeOK, DiskType
  <2> QED BY <2>1, <2>2 DEF TypeOK
<1>2. ASSUME NEW v \in Setting, WriteXPRAM(v) PROVE TypeOK'
  <2>1. CtlType' /\ DiskType' /\ ClockType'
    BY <1>2, Untouched DEF WriteXPRAM
  <2>2. XpramType'
    BY <1>2, Zeros DEF WriteXPRAM, TypeOK, XpramType
  <2> QED BY <2>1, <2>2 DEF TypeOK
<1>3. CASE SetDate
  <2>1. CtlType' /\ DiskType' /\ XpramType'
    BY <1>3, Untouched DEF SetDate
  <2>2. ClockType'
    BY <1>3, Zeros, BoundsNat DEF SetDate, TypeOK, ClockType
  <2> QED BY <2>1, <2>2 DEF TypeOK
<1>4. ASSUME NEW m \in {"guest", "stopped", "asleep"}, Wait(m) PROVE TypeOK'
  <2>1. DiskType' /\ XpramType' /\ ClockType'
    BY <1>4, Untouched DEF Wait
  <2>2. CtlType'
    BY <1>4, Zeros DEF Wait, TypeOK, CtlType
  <2> QED BY <2>1, <2>2 DEF TypeOK
<1>5. CASE BootEnter
  <2>1. DiskType' /\ XpramType' /\ ClockType'
    BY <1>5, Untouched DEF BootEnter
  <2>2. CtlType'
    BY <1>5, Zeros DEF BootEnter, TypeOK, CtlType
  <2> QED BY <2>1, <2>2 DEF TypeOK
<1>6. CASE LoopClock
  <2>1. DiskType' /\ XpramType'
    BY <1>6, Untouched DEF LoopClock
  <2>2. CtlType'
    BY <1>6, Zeros DEF LoopClock, TypeOK, CtlType
  <2>3. ClockType'
    BY <1>6, Zeros, ClockTyped DEF LoopClock, TypeOK, ClockType
  <2> QED BY <2>1, <2>2, <2>3 DEF TypeOK
<1>7. CASE LoopDisk
  <2>1. XpramType' /\ ClockType'
    BY <1>7, Untouched DEF LoopDisk
  <2>2. CtlType'
    BY <1>7, Zeros DEF LoopDisk, TypeOK, CtlType
  <2>3. DiskType'
    BY <1>7, Zeros, FlushTyped DEF LoopDisk, TypeOK, DiskType, diskvars
  <2> QED BY <2>1, <2>2, <2>3 DEF TypeOK
<1>8. CASE LoopXPRAM
  <2>1. DiskType' /\ ClockType'
    BY <1>8, Untouched DEF LoopXPRAM
  <2>2. CtlType'
    BY <1>8, Zeros DEF LoopXPRAM, TypeOK, CtlType, Call
  <2>3. XpramType'
    BY <1>8, Zeros DEF LoopXPRAM, TypeOK, XpramType
  <2> QED BY <2>1, <2>2, <2>3 DEF TypeOK
<1>9. CASE SaveXPRAM
  <2>1. DiskType' /\ ClockType'
    BY <1>9, Untouched DEF SaveXPRAM
  <2>2. CtlType'
    BY <1>9, Zeros DEF SaveXPRAM, TypeOK, CtlType
  <2>3. XpramType'
    BY <1>9, Zeros DEF SaveXPRAM, TypeOK, XpramType
  <2> QED BY <2>1, <2>2, <2>3 DEF TypeOK
<1>10. CASE WriteFile
  <2>1. DiskType' /\ ClockType'
    BY <1>10, Untouched DEF WriteFile
  <2>2. CtlType'
    BY <1>10, Zeros DEF WriteFile, TypeOK, CtlType
  <2>3. XpramType'
    BY <1>10, Zeros DEF WriteFile, TypeOK, XpramType
  <2> QED BY <2>1, <2>2, <2>3 DEF TypeOK
<1>11. CASE Drain
  <2>1. XpramType' /\ ClockType'
    BY <1>11, Untouched DEF Drain
  <2>2. CtlType'
    BY <1>11, Zeros DEF Drain, TypeOK, CtlType
  <2>3. DiskType'
    BY <1>11, Zeros, FlushTyped DEF Drain, TypeOK, DiskType
  <2> QED BY <2>1, <2>2, <2>3 DEF TypeOK
<1>12. CASE Quit \/ RestartPending
  <2>1. DiskType' /\ XpramType' /\ ClockType'
    BY <1>12, Untouched DEF Quit, RestartPending
  <2>2. CtlType'
    BY <1>12, Zeros DEF Quit, RestartPending, TypeOK, CtlType, Call
  <2> QED BY <2>1, <2>2 DEF TypeOK
<1>13. CASE Close
  <2>1. XpramType'
    BY <1>13, Untouched DEF Close
  <2>2. CtlType'
    BY <1>13, Zeros DEF Close, TypeOK, CtlType
  <2>3. DiskType'
    BY <1>13, Zeros, FlushTyped DEF Close, TypeOK, DiskType
  <2>4. ClockType'
    BY <1>13, Zeros, ClockTyped DEF Close, TypeOK, ClockType
  <2> QED BY <2>1, <2>2, <2>3, <2>4 DEF TypeOK
<1>14. CASE Restart
  <2>1. XpramType'
    BY <1>14, Untouched DEF Restart
  <2>2. CtlType'
    BY <1>14, Zeros DEF Restart, TypeOK, CtlType
  <2>3. DiskType'
    BY <1>14, Zeros, FlushTyped DEF Restart, TypeOK, DiskType
  <2>4. ClockType'
    BY <1>14, Zeros, ClockTyped DEF Restart, TypeOK, ClockType
  <2> QED BY <2>1, <2>2, <2>3, <2>4 DEF TypeOK
<1>15. CASE PowerCut
  <2>1. DiskType' /\ XpramType' /\ ClockType'
    BY <1>15, Untouched DEF PowerCut
  <2>2. CtlType'
    BY <1>15, Zeros DEF PowerCut, TypeOK, CtlType
  <2> QED BY <2>1, <2>2 DEF TypeOK
<1>16. CASE Boot
  <2>0. Loaded \in Setting
    BY SettingFacts DEF Loaded, TypeOK, XpramType
  <2>1. CtlType'
    BY <1>16, Zeros DEF Boot, TypeOK, CtlType
  <2>2. DiskType'
    BY <1>16, Zeros DEF Boot, TypeOK, DiskType
  <2>3. XpramType'
    BY <1>16, Zeros, <2>0 DEF Boot, TypeOK, XpramType
  <2>4. ClockType'
    BY <1>16, Zeros DEF Boot, TypeOK, ClockType
  <2> QED BY <2>1, <2>2, <2>3, <2>4 DEF TypeOK
<1>17. CASE Tick
  <2>1. /\ since_flush' \in 0..FlushEvery /\ since_write' \in 0..IdleFlush
        /\ since_save' \in 0..XpramEvery
    BY <1>17, CountRange, BoundsNat DEF Tick, TypeOK, CtlType, DiskType, XpramType, ClockType
  <2>2. since_loop' \in 0..Quantum
    BY <1>17, BoundsNat DEF Tick, TypeOK, CtlType, DiskType, XpramType, ClockType
  <2>3. ASSUME NEW h \in Handle PROVE Count(age[h], AgeBound) \in 0..AgeBound
    <3>1. age[h] \in 0..AgeBound
      BY DEF TypeOK, DiskType
    <3> QED
      BY <3>1, BoundsNat, CountRange
  <2>4. age' \in [Handle -> 0..AgeBound]
    <3>1. CASE mode = "guest"
      BY <1>17, <2>3, <3>1, Zeros DEF Tick, TypeOK, CtlType, DiskType, XpramType, ClockType
    <3> QED
      BY <1>17, <3>1 DEF Tick, TypeOK, CtlType, DiskType, XpramType, ClockType
  <2>5. /\ Count(quiet, QuietBound) \in 0..QuietBound
        /\ Count(xage, XageBound) \in 0..XageBound
    BY CountRange, BoundsNat DEF TypeOK, DiskType, XpramType
  <2>6. quiet' \in 0..QuietBound /\ xage' \in 0..XageBound
    BY <1>17, <2>5, Zeros DEF Tick, TypeOK, CtlType, DiskType, XpramType, ClockType
  <2>7. CtlType'
    BY <1>17, <2>2 DEF Tick, TypeOK, CtlType
  <2>8. DiskType'
    BY <1>17, <2>1, <2>4, <2>6 DEF Tick, TypeOK, DiskType
  <2>9. XpramType'
    BY <1>17, <2>1, <2>6 DEF Tick, TypeOK, XpramType
  <2>10. ClockType'
    BY <1>17 DEF Tick, TypeOK, ClockType
  <2> QED BY <2>7, <2>8, <2>9, <2>10 DEF TypeOK
<1>18. CASE UNCHANGED vars
  <2> UNCHANGED <<ctlvars, diskvars, xpramvars, clockvars>>
    BY <1>18 DEF vars
  <2> QED BY Untouched DEF TypeOK
<1> QED
  BY <1>1, <1>2, <1>3, <1>4, <1>5, <1>6, <1>7, <1>8, <1>9, <1>10, <1>11, <1>12,
     <1>13, <1>14, <1>15, <1>16, <1>17, <1>18
     DEF Next, Guest, Loop, Save, Ends

\* Every variable of basilisk_loop, SaveXPRAM and MacClockSave keeps its range.
THEOREM TypeCorrect == Spec => []TypeOK
  BY TypeInit, TypeStep, PTL DEF Spec

-----------------------------------------------------------------------------
(* The inductive invariant. *)

\* What SaveXPRAM compares with is what the card holds.
FileShadow ==
  /\ Up /\ file \in Setting => shadow_valid /\ shadow = file
  /\ pc = "write" => file = Torn

\* Past a save, the setting is on the card or was refused.
OnTheWay ==
  /\ pc \in {"restart", "close", "drain"} => file = xpram \/ refused
  /\ pc \in {"safe", "reset"} => dirty = {} /\ (file = xpram \/ refused)

ClockSaved ==
  /\ nvs <= date
  /\ pc \in {"safe", "reset"} => nvs = date \/ late

\* The age of a write is held back by last_disk_flush_time and by
\* s_last_write_ms; what they miss is the time since the last loop.
WriteAge ==
  Up =>
    /\ pc = "disk" => since_loop = 0
    /\ \A h \in dirty :
         /\ age[h] <= FlushEvery - 1 + (IF pc = "disk" THEN Quantum ELSE since_loop)
         /\ since_flush < FlushEvery => age[h] <= since_flush
    /\ dirty # {} =>
         /\ quiet <= IdleFlush - 1 + (IF pc = "disk" THEN Quantum ELSE since_loop)
         /\ since_write < IdleFlush => quiet <= since_write

\* The same of a setting and last_xpram_flush_time, from one save to the next.
SettingAge ==
  (Up /\ xpram # file /\ ~refused) =>
    /\ xage <= XpramEvery - 1 +
         (IF pc \in {"disk", "xpram", "save", "write"} THEN Quantum ELSE since_loop)
    /\ (pc \notin {"save", "write"} /\ since_save < XpramEvery) => xage <= since_save

XpramInv == TypeOK /\ ShadowOnCard /\ FileShadow /\ OnTheWay

-----------------------------------------------------------------------------
(* XPRAM and its file. *)

\* The steps that touch neither XPRAM nor its file, within a boot.
XpramIdle ==
  /\ Up /\ pc # "write"
  /\ UNCHANGED <<xpram, shadow, shadow_valid, file, refused>>
  /\ pc' # "write"
  /\ pc' \in {"restart", "close", "drain"} => file = xpram \/ refused
  /\ pc' \in {"safe", "reset"} => dirty' = {} /\ (file = xpram \/ refused)

LEMMA XpramIdleStep ==
  ASSUME XpramInv, XpramIdle
  PROVE  ShadowOnCard' /\ FileShadow' /\ OnTheWay'
BY DEF XpramInv, XpramIdle, ShadowOnCard, FileShadow, OnTheWay, Up

LEMMA XpramInit == Init => XpramInv
BY TypeInit, SettingFacts DEF Init, XpramInv, ShadowOnCard, FileShadow, OnTheWay

LEMMA XpramStep == XpramInv /\ [Next]_vars => XpramInv'
<1> SUFFICES ASSUME XpramInv, [Next]_vars PROVE XpramInv'
  OBVIOUS
<1> USE DEF diskvars, xpramvars, clockvars, ctlvars
<1>1. TypeOK /\ TypeOK'
  BY TypeStep DEF XpramInv
<1>2. ShadowOnCard' /\ FileShadow' /\ OnTheWay'
  <2>1. ASSUME NEW h \in Handle, SysWrite(h) PROVE XpramIdle
    BY <2>1 DEF SysWrite, Running, XpramIdle, Up
  <2>2. ASSUME NEW v \in Setting, WriteXPRAM(v)
        PROVE  ShadowOnCard' /\ FileShadow' /\ OnTheWay'
    BY <2>2 DEF WriteXPRAM, Running, XpramInv, ShadowOnCard, FileShadow, OnTheWay, Up
  <2>3. CASE SetDate
    <3> XpramIdle BY <2>3 DEF SetDate, Running, XpramIdle, Up
    <3> QED BY XpramIdleStep
  <2>4. ASSUME NEW m \in {"guest", "stopped", "asleep"}, Wait(m) PROVE XpramIdle
    BY <2>4 DEF Wait, XpramIdle, Up
  <2>5. CASE BootEnter \/ RestartPending \/ Quit \/ Tick
    <3> XpramIdle
      BY <2>5 DEF BootEnter, RestartPending, Quit, Tick, Call, Running, XpramIdle, Up
    <3> QED BY XpramIdleStep
  <2>6. CASE Loop
    <3> XpramIdle
      BY <2>6 DEF Loop, LoopClock, LoopDisk, LoopXPRAM, Call, Running, XpramIdle, Up
    <3> QED BY XpramIdleStep
  <2>7. CASE SaveXPRAM
    <3>1. CASE shadow_valid /\ xpram = shadow
      BY <1>1, <2>7, <3>1
         DEF SaveXPRAM, XpramInv, TypeOK, CtlType, DiskType, XpramType, ClockType, ShadowOnCard, FileShadow, OnTheWay, Up
    <3>2. CASE pc' = "write" /\ file' = Torn /\ UNCHANGED refused
      BY <2>7, <3>2, SettingFacts
         DEF SaveXPRAM, ShadowOnCard, FileShadow, OnTheWay, Up
    <3>3. CASE pc' = after /\ refused' = TRUE /\ UNCHANGED file
      BY <1>1, <2>7, <3>3
         DEF SaveXPRAM, XpramInv, TypeOK, CtlType, DiskType, XpramType, ClockType, ShadowOnCard, FileShadow, OnTheWay, Up
    <3> QED BY <2>7, <3>1, <3>2, <3>3 DEF SaveXPRAM
  <2>8. CASE WriteFile
    BY <2>8, SettingFacts
       DEF WriteFile, XpramInv, ShadowOnCard, FileShadow, OnTheWay, Up
  <2>9. CASE Drain
    <3> XpramIdle
      BY <1>1, <2>9 DEF Drain, XpramInv, OnTheWay, TypeOK, CtlType, DiskType, XpramType, ClockType, XpramIdle, Up
    <3> QED BY XpramIdleStep
  <2>10. CASE Close \/ Restart
    <3> XpramIdle
      BY <2>10 DEF Close, Restart, FlushDirty, XpramInv, OnTheWay, XpramIdle, Up
    <3> QED BY XpramIdleStep
  <2>11. CASE PowerCut
    BY <2>11 DEF PowerCut, ShadowOnCard, FileShadow, OnTheWay, Up
  <2>12. CASE Boot
    BY <1>1, <2>12, SettingFacts
       DEF Boot, TypeOK, CtlType, DiskType, XpramType, ClockType, ShadowOnCard, FileShadow, OnTheWay, Up
  <2>13. CASE UNCHANGED vars
    BY <2>13 DEF vars, XpramInv, ShadowOnCard, FileShadow, OnTheWay, Up
  <2> QED
    BY <2>1, <2>2, <2>3, <2>4, <2>5, <2>6, <2>7, <2>8, <2>9, <2>10, <2>11, <2>12,
       <2>13, XpramIdleStep DEF Next, Guest, Save, Ends
<1> QED
  BY <1>1, <1>2 DEF XpramInv

\* SaveXPRAM leaves out a write only when the card holds the setting.
THEOREM ShadowIsOnCard == Spec => []ShadowOnCard
<1>1. XpramInv => ShadowOnCard
  BY DEF XpramInv
<1> QED
  BY <1>1, XpramInit, XpramStep, PTL DEF Spec

-----------------------------------------------------------------------------
(* The clock. *)

\* An attempt to save the clock leaves it saved or refused, if it was set.
LEMMA SavedClock ==
  ASSUME TypeOK, nvs <= date, NEW force \in BOOLEAN, SaveClock(force)
  PROVE  /\ date' = date /\ nvs' <= date'
         /\ force => nvs' = date' \/ late'
<1>1. date \in Nat /\ nvs \in Nat
  BY DEF TypeOK, CtlType, DiskType, XpramType, ClockType
<1>2. CASE CommitClock
  BY <1>1, <1>2 DEF CommitClock
<1>3. CASE UNCHANGED clockvars /\ (force => date = 0)
  BY <1>1, <1>3 DEF clockvars
<1> QED
  BY <1>2, <1>3 DEF SaveClock

LEMMA ClockInit == Init => ClockSaved
BY DEF Init, ClockSaved

LEMMA ClockStep == TypeOK /\ ClockSaved /\ [Next]_vars => ClockSaved'
<1> SUFFICES ASSUME TypeOK, ClockSaved, [Next]_vars PROVE ClockSaved'
  OBVIOUS
<1> USE DEF diskvars, xpramvars, clockvars, ctlvars, ClockSaved
<1>1. date \in Nat /\ nvs \in Nat
  BY DEF TypeOK, CtlType, DiskType, XpramType, ClockType
<1>2. CASE SetDate
  BY <1>1, <1>2 DEF SetDate, Running
<1>3. CASE LoopClock
  BY <1>3, SavedClock DEF LoopClock
<1>4. CASE Close \/ Restart
  BY <1>4, SavedClock DEF Close, Restart
<1>5. CASE Boot
  BY <1>1, <1>5 DEF Boot
<1>6. CASE /\ UNCHANGED <<date, nvs, late>>
           /\ pc' \in {"safe", "reset"} => pc' = pc
  BY <1>6
<1>7. CASE \/ \E h \in Handle : SysWrite(h)
           \/ \E v \in Setting : WriteXPRAM(v)
           \/ \E m \in {"guest", "stopped", "asleep"} : Wait(m)
  BY <1>6, <1>7 DEF SysWrite, WriteXPRAM, Wait
<1>8. CASE LoopDisk \/ LoopXPRAM
  BY <1>6, <1>8 DEF LoopDisk, LoopXPRAM, Call
<1>9. CASE Save
  BY <1>6, <1>9 DEF Save, SaveXPRAM, WriteFile, Drain, TypeOK, CtlType, DiskType, XpramType, ClockType
<1>10. CASE BootEnter \/ Quit \/ RestartPending \/ PowerCut \/ Tick
  BY <1>6, <1>10 DEF BootEnter, Quit, RestartPending, PowerCut, Tick, Call
<1>11. CASE UNCHANGED vars
  BY <1>6, <1>11 DEF vars
<1> QED
  BY <1>2, <1>3, <1>4, <1>5, <1>7, <1>8, <1>9, <1>10, <1>11
     DEF Next, Guest, Loop, Ends

\* A shutdown and a restart over serial lose nothing but what its last save
\* failed to write.
THEOREM StopIsClean == Spec => []CleanStop
<1>1. XpramInv /\ ClockSaved => CleanStop
  BY DEF XpramInv, OnTheWay, ClockSaved, CleanStop
<1>2. XpramInv => TypeOK
  BY DEF XpramInv
<1> QED
  BY <1>1, <1>2, XpramInit, XpramStep, ClockInit, ClockStep, PTL DEF Spec

-----------------------------------------------------------------------------
(* The age of a write. *)

LEMMA WriteAgeInit == Init => WriteAge
BY DEF Init, WriteAge

\* A flush leaves nothing to bound.
LEMMA FlushedAge == ASSUME dirty' = {}, pc' # "disk" PROVE WriteAge'
BY DEF WriteAge

\* Nor does a step that leaves the disks alone disturb the bounds.
LEMMA DiskIdle ==
  ASSUME WriteAge, Up, pc # "disk", pc' # "disk", UNCHANGED <<diskvars, since_loop>>
  PROVE  WriteAge'
BY DEF WriteAge, diskvars

LEMMA WriteAgeStep == TypeOK /\ WriteAge /\ [Next]_vars => WriteAge'
<1> SUFFICES ASSUME TypeOK, WriteAge, [Next]_vars PROVE WriteAge'
  OBVIOUS
<1> USE DEF diskvars, xpramvars, clockvars, ctlvars
<1>1. /\ FlushEvery \in Nat /\ FlushEvery > 0 /\ IdleFlush \in Nat /\ IdleFlush > 0
      /\ Quantum \in Nat /\ since_loop \in 0..Quantum /\ quiet \in Nat
      /\ since_flush \in 0..FlushEvery /\ since_write \in 0..IdleFlush
      /\ dirty \subseteq Handle
  BY BoundsNat, BoundsHold DEF Bounds, TypeOK, CtlType, DiskType, XpramType, ClockType
<1>2. \A h \in Handle : age[h] \in Nat
  BY BoundsNat DEF TypeOK, CtlType, DiskType, XpramType, ClockType
<1>3. ASSUME NEW g \in Handle, SysWrite(g) PROVE WriteAge'
  <2>1. \A h \in dirty' : age'[h] = 0 \/ (h \in dirty /\ age'[h] = age[h])
    BY <1>3 DEF SysWrite, TypeOK, CtlType, DiskType, XpramType, ClockType
  <2>2. /\ quiet' = 0 /\ since_write' = 0 /\ pc = "run" /\ pc' = "run" /\ Up
        /\ UNCHANGED <<since_flush, since_loop>>
    BY <1>3 DEF SysWrite, Running, Up
  <2> QED
    BY <1>1, <2>1, <2>2 DEF WriteAge
<1>4. CASE LoopClock
  <2>1. /\ pc = "run" /\ Up /\ pc' = "disk" /\ since_loop' = 0 /\ UNCHANGED diskvars
    BY <1>4 DEF LoopClock, Running, Up
  <2>2. \A h \in dirty : age[h] \in Nat
    BY <1>1, <1>2
  <2> QED
    BY <1>1, <2>1, <2>2 DEF WriteAge
<1>5. CASE LoopDisk
  <2>1. CASE FlushDue
    BY <1>5, <2>1, FlushedAge DEF LoopDisk, FlushDirty
  <2>2. CASE ~FlushDue
    <3>1. /\ pc = "disk" /\ Up /\ pc' = "xpram" /\ UNCHANGED <<diskvars, since_loop>>
      BY <1>5, <2>2 DEF LoopDisk, Up
    <3>2. since_flush < FlushEvery /\ (dirty # {} => since_write < IdleFlush)
      BY <1>1, <2>2 DEF FlushDue
    <3>3. \A h \in dirty : age[h] \in Nat
      BY <1>1, <1>2
    <3> QED
      BY <1>1, <3>1, <3>2, <3>3 DEF WriteAge
  <2> QED
    BY <2>1, <2>2
<1>6. CASE Drain \/ Close \/ Restart
  BY <1>6, FlushedAge DEF Drain, Close, Restart, FlushDirty, TypeOK, CtlType, DiskType, XpramType, ClockType
<1>7. CASE Boot
  BY <1>7, FlushedAge DEF Boot
<1>8. CASE PowerCut
  BY <1>8 DEF PowerCut, WriteAge, Up
<1>9. CASE LoopXPRAM \/ SaveXPRAM \/ WriteFile \/ Quit
  BY <1>9, DiskIdle DEF LoopXPRAM, SaveXPRAM, WriteFile, Quit, Running, Call, TypeOK, CtlType, DiskType, XpramType, ClockType, Up
<1>10. CASE SetDate \/ BootEnter \/ RestartPending \/ \E v \in Setting : WriteXPRAM(v)
  BY <1>10, DiskIdle DEF SetDate, BootEnter, RestartPending, WriteXPRAM, Running, Call, Up
<1>11. CASE \E m \in {"guest", "stopped", "asleep"} : Wait(m)
  BY <1>11, DiskIdle DEF Wait, Up
<1>12. CASE Tick
  <2>1. /\ pc = "run" /\ Up /\ pc' = "run" /\ dirty' = dirty
        /\ since_flush' = Count(since_flush, FlushEvery)
        /\ since_write' = Count(since_write, IdleFlush)
    BY <1>12 DEF Tick, Up
  <2>2. CASE mode = "guest"
    <3>1. /\ since_loop' = since_loop + 1
          /\ dirty # {} => quiet' = quiet \/ quiet' = quiet + 1
      BY <1>12, <2>2 DEF Tick, Count
    <3>2. \A h \in dirty : age[h] \in Nat /\ (age'[h] = age[h] \/ age'[h] = age[h] + 1)
      BY <1>1, <1>2, <1>12, <2>2 DEF Tick, Count
    <3> QED
      BY <1>1, <2>1, <3>1, <3>2 DEF WriteAge, Count
  <2>3. CASE mode # "guest"
    <3>1. UNCHANGED <<since_loop, age, quiet>>
      BY <1>12, <2>3 DEF Tick
    <3>2. \A h \in dirty : age[h] \in Nat
      BY <1>1, <1>2
    <3> QED
      BY <1>1, <2>1, <3>1, <3>2 DEF WriteAge, Count
  <2> QED
    BY <2>2, <2>3
<1>13. CASE UNCHANGED vars
  BY <1>13 DEF vars, WriteAge, Up
<1> QED
  BY <1>3, <1>4, <1>5, <1>6, <1>7, <1>8, <1>9, <1>10, <1>11, <1>12, <1>13
     DEF Next, Guest, Loop, Save, Ends

\* While the guest executes, no write stays off the card longer than the flush
\* interval, or the idle window after the last write, and a quantum.
THEOREM LossIsBounded == Spec => []LossBounded
<1>1. TypeOK /\ WriteAge => LossBounded
  <2> SUFFICES ASSUME TypeOK, WriteAge, Up, dirty # {}
               PROVE  quiet < QuietBound /\ \A h \in dirty : age[h] < AgeBound
    BY DEF LossBounded
  <2>1. /\ FlushEvery \in Nat /\ IdleFlush \in Nat /\ Quantum \in Nat
        /\ since_loop \in 0..Quantum /\ quiet \in Nat /\ dirty \subseteq Handle
    BY BoundsNat DEF TypeOK, CtlType, DiskType, XpramType, ClockType
  <2>2. \A h \in dirty : age[h] \in Nat
    BY <2>1, BoundsNat DEF TypeOK, CtlType, DiskType, XpramType, ClockType
  <2> QED
    BY <2>1, <2>2 DEF WriteAge, AgeBound, QuietBound
<1> QED
  BY <1>1, TypeInit, TypeStep, WriteAgeInit, WriteAgeStep, PTL DEF Spec

-----------------------------------------------------------------------------
(* The age of a setting. *)

LEMMA SettingAgeInit == Init => SettingAge
BY BoundsNat, BoundsHold DEF Bounds, Init, SettingAge, Up

\* A step is harmless that leaves XPRAM, its file and the clocks alone and
\* does not move the task from a point with a weaker bound to one with a
\* stronger.
LEMMA SettingIdle ==
  ASSUME TypeOK, SettingAge, Up, UNCHANGED <<xpramvars, since_loop>>,
         pc \in {"disk", "xpram", "save", "write"} =>
           pc' \in {"disk", "xpram"} /\ pc \in {"disk", "xpram"}
  PROVE  SettingAge'
<1>1. XpramEvery \in Nat /\ Quantum \in Nat /\ since_loop \in 0..Quantum /\ xage \in Nat
  BY BoundsNat DEF TypeOK, CtlType, DiskType, XpramType, ClockType
<1> QED
  BY <1>1 DEF SettingAge, xpramvars

\* A setting that is on the card, or refused, has no age.
LEMMA SettingDone ==
  ASSUME file' = xpram' \/ refused' PROVE SettingAge'
BY DEF SettingAge

LEMMA SettingAgeStep == XpramInv /\ SettingAge /\ [Next]_vars => SettingAge'
<1> SUFFICES ASSUME XpramInv, SettingAge, [Next]_vars PROVE SettingAge'
  OBVIOUS
<1> USE DEF diskvars, xpramvars, clockvars, ctlvars
<1>1. /\ TypeOK /\ XpramEvery \in Nat /\ XpramEvery > 0 /\ Quantum \in Nat
      /\ since_loop \in 0..Quantum /\ xage \in Nat /\ since_save \in 0..XpramEvery
  BY BoundsNat, BoundsHold DEF Bounds, TypeOK, CtlType, DiskType, XpramType, ClockType, XpramInv
<1>2. ASSUME NEW v \in Setting, WriteXPRAM(v) PROVE SettingAge'
  <2>1. /\ pc = "run" /\ pc' = "run" /\ Up
        /\ UNCHANGED <<file, since_save, refused, since_loop>>
        /\ xage' = 0 \/ (xage' = xage /\ xpram # file)
    BY <1>2 DEF WriteXPRAM, Running, Up
  <2> QED
    BY <1>1, <2>1 DEF SettingAge
<1>3. CASE LoopClock
  <2>1. /\ pc = "run" /\ Up /\ pc' = "disk" /\ since_loop' = 0 /\ UNCHANGED xpramvars
    BY <1>3 DEF LoopClock, Running, Up
  <2> QED
    BY <1>1, <2>1 DEF SettingAge
<1>4. CASE LoopXPRAM
  <2>1. /\ pc = "xpram" /\ Up
        /\ UNCHANGED <<xpram, file, xage, refused, since_loop>>
    BY <1>4 DEF LoopXPRAM, Up
  <2>2. CASE SaveDue
    <3>1. pc' = "save"
      BY <1>4, <2>2 DEF LoopXPRAM, Call
    <3> QED
      BY <1>1, <2>1, <3>1 DEF SettingAge
  <2>3. CASE ~SaveDue
    <3>1. pc' = "run" /\ since_save' = since_save /\ since_save < XpramEvery
      BY <1>1, <1>4, <2>3 DEF LoopXPRAM, SaveDue
    <3> QED
      BY <1>1, <2>1, <3>1 DEF SettingAge
  <2> QED
    BY <2>2, <2>3
<1>5. CASE SaveXPRAM
  <2>1. CASE shadow_valid /\ xpram = shadow
    <3>1. file = xpram \/ refused
      BY <1>5, <2>1 DEF SaveXPRAM, XpramInv, ShadowOnCard, Up
    <3> QED
      BY <1>5, <2>1, <3>1, SettingDone DEF SaveXPRAM
  <2>2. CASE refused'
    BY <2>2, SettingDone
  <2>3. CASE ~(shadow_valid /\ xpram = shadow) /\ pc' = "write" /\ ~refused'
    <3>1. /\ pc = "save" /\ Up /\ ~refused
          /\ UNCHANGED <<xpram, xage, since_loop, since_save>>
      BY <1>5, <2>3 DEF SaveXPRAM, Up
    <3>2. file # xpram
      BY <1>1, <2>3, <3>1 DEF XpramInv, FileShadow, TypeOK, CtlType, DiskType, XpramType, ClockType
    <3> QED
      BY <1>1, <2>3, <3>1, <3>2 DEF SettingAge
  <2> QED
    BY <1>5, <2>1, <2>2, <2>3 DEF SaveXPRAM
<1>6. CASE WriteFile
  BY <1>6, SettingDone DEF WriteFile
<1>7. CASE Drain
  BY <1>7, SettingDone DEF Drain, XpramInv, OnTheWay
<1>8. CASE Close \/ Restart \/ PowerCut
  BY <1>8 DEF Close, Restart, PowerCut, SettingAge, Up
<1>9. CASE Boot
  <2>1. pc' = "run" /\ xage' = 0 /\ since_save' = 0 /\ since_loop' = 0
    BY <1>9 DEF Boot
  <2> QED
    BY <1>1, <2>1 DEF SettingAge
<1>10. CASE Tick
  <2>1. /\ pc = "run" /\ Up /\ pc' = "run"
        /\ UNCHANGED <<xpram, file, refused>>
        /\ since_save' = Count(since_save, XpramEvery)
    BY <1>10 DEF Tick, Up
  <2>2. \/ since_loop' = since_loop + 1 /\ (xpram # file => xage' \in {xage, xage + 1})
        \/ UNCHANGED <<since_loop, xage>>
    BY <1>10 DEF Tick, Count
  <2> QED
    BY <1>1, <2>1, <2>2 DEF SettingAge, Count
<1>11. CASE \/ LoopDisk \/ SetDate \/ BootEnter \/ RestartPending \/ Quit
            \/ \E h \in Handle : SysWrite(h)
            \/ \E m \in {"guest", "stopped", "asleep"} : Wait(m)
  BY <1>1, <1>11, SettingIdle
     DEF LoopDisk, SetDate, BootEnter, RestartPending, Quit, SysWrite, Wait, Running, Call, Up
<1>12. CASE UNCHANGED vars
  BY <1>12 DEF vars, SettingAge, Up
<1> QED
  BY <1>2, <1>3, <1>4, <1>5, <1>6, <1>7, <1>8, <1>9, <1>10, <1>11, <1>12
     DEF Next, Guest, Loop, Save, Ends

\* A changed setting is on the card within its interval and a quantum of
\* executing time, unless the card refused it.
THEOREM SettingIsSaved == Spec => []SettingSaved
<1>1. TypeOK /\ SettingAge => SettingSaved
  <2>1. ASSUME TypeOK
        PROVE  XpramEvery \in Nat /\ Quantum \in Nat /\ since_loop \in 0..Quantum /\ xage \in Nat
    BY <2>1, BoundsNat DEF TypeOK, CtlType, DiskType, XpramType, ClockType
  <2> QED
    BY <2>1 DEF SettingAge, SettingSaved, XageBound
<1>2. XpramInv => TypeOK
  BY DEF XpramInv
<1> QED
  BY <1>1, <1>2, XpramInit, XpramStep, SettingAgeInit, SettingAgeStep, PTL DEF Spec
=============================================================================
