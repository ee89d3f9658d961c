------------------------- MODULE DisplayPowerProofs -------------------------
(* Proofs about DisplayPower, for every choice of threads, guest calls and  *)
(* timeouts.                                                                *)
EXTENDS DisplayPower, TLAPS

-----------------------------------------------------------------------------
(* Types. *)

LEMMA GoTyped ==
  ASSUME TypeOK, NEW t \in Thread, NEW from, NEW to \in Point, Go(t, from, to)
  PROVE  pc' \in [Thread -> Point] /\ pc'[t] = to /\ \A u \in Thread \ {t} : pc'[u] = pc[u]
BY DEF TypeOK, Go

LEMMA ReturnTyped == ASSUME NEW t \in Thread PROVE Return(t) \in Point
BY DEF Return, Point

\* Activity, of any thread.
LEMMA WakingTyped == ASSUME TypeOK, NEW t \in Thread, Waking(t) PROVE TypeOK'
<1> USE DEF sharedvars, pollvars, touchvars
<1>1. pc' \in [Thread -> Point]
  BY GoTyped, ReturnTyped DEF Waking, NoteActivity, NoteTest, WakeStamp, WakeRequest,
     WakeIdle, WakeDisplay, Point
<1>2. 0 \in 0..MaxIdle
  BY DisplayPowerAssumption
<1>3. CASE NoteActivity(t) \/ WakeStamp(t)
  BY <1>1, <1>2, <1>3 DEF TypeOK, NoteActivity, WakeStamp, Stamp
<1>4. CASE NoteTest(t) \/ WakeRequest(t)
  BY <1>1, <1>4 DEF TypeOK, NoteTest, WakeRequest
<1>5. CASE WakeIdle(t) \/ WakeDisplay(t)
  BY <1>1, <1>5 DEF TypeOK, WakeIdle, WakeDisplay, Idle, Display
<1> QED BY <1>3, <1>4, <1>5 DEF Waking

\* The 68k CPU.
LEMMA CpuTyped == ASSUME TypeOK, CpuCall \/ Cpu PROVE TypeOK'
<1> USE DEF sharedvars, pollvars, touchvars
<1>1. pc' \in [Thread -> Point]
  BY GoTyped DEF CpuCall, Cpu, Sleep, SleepClear, SleepBegin, SleepDark, SleepOver, SleepLight,
     SleepSettle, SleepStamp, SleepLeave, ServiceBlank, ServiceDark, Point, Thread
<1>2. 0 \in 0..MaxIdle
  BY DisplayPowerAssumption
<1>3. CASE CpuCall \/ SleepOver \/ SleepClear \/ SleepBegin \/ SleepLeave
  BY <1>1, <1>3 DEF TypeOK, CpuCall, SleepOver, SleepClear, SleepBegin, SleepLeave
<1>4. CASE SleepDark \/ SleepLight \/ ServiceDark
  BY <1>1, <1>4 DEF TypeOK, SleepDark, SleepLight, ServiceDark, Display
<1>5. CASE SleepSettle \/ ServiceBlank
  BY <1>1, <1>5 DEF TypeOK, SleepSettle, ServiceBlank, Idle
<1>6. CASE SleepStamp
  BY <1>1, <1>2, <1>6 DEF TypeOK, SleepStamp, Stamp
<1> QED BY <1>3, <1>4, <1>5, <1>6 DEF Cpu, Sleep

\* The input task.
LEMMA InputTyped == ASSUME TypeOK, Input PROVE TypeOK'
<1> USE DEF sharedvars, pollvars, touchvars
<1>1. pc' \in [Thread -> Point]
  BY GoTyped DEF Input, IdlePoll, IdleCompare, IdleStore, IdleShow, Touch, Deliver, Point, Thread
<1>2. 0 \in 0..MaxIdle /\ Want \in Idle
  BY DisplayPowerAssumption DEF Want, Idle
<1>3. CASE IdlePoll \/ IdleCompare
  BY <1>1, <1>2, <1>3 DEF TypeOK, IdlePoll, IdleCompare
<1>4. CASE IdleStore \/ Deliver
  BY <1>1, <1>4 DEF TypeOK, IdleStore, Deliver
<1>5. CASE IdleShow
  BY <1>1, <1>5 DEF TypeOK, IdleShow, Lamp, Display, Idle
<1>6. CASE Touch
  <2>1. swallow_touch' \in BOOLEAN
    BY <1>6 DEF TypeOK, Touch, Sleeping
  <2> QED BY <1>1, <1>6, <2>1 DEF TypeOK, Touch
<1> QED BY <1>3, <1>4, <1>5, <1>6 DEF Input

\* The automation task, the finger and the clock.
LEMMA WorldTyped == ASSUME TypeOK, Automation \/ Finger \/ Tick PROVE TypeOK'
<1> USE DEF sharedvars, pollvars, touchvars
<1>1. CASE Automation
  <2>1. pc' \in [Thread -> Point]
    BY <1>1, GoTyped DEF Automation, Point, Thread
  <2> QED BY <1>1, <2>1 DEF TypeOK, Automation
<1>2. CASE Finger
  BY <1>2 DEF TypeOK, Finger
<1>3. CASE Tick
  <2>1. idle \in 0..MaxIdle /\ lag \in 0..MaxIdle /\ MaxIdle \in Nat
    BY DisplayPowerAssumption DEF TypeOK
  <2>2. idle' \in 0..MaxIdle /\ lag' \in 0..MaxIdle
    BY <1>3, <2>1 DEF Tick
  <2> QED BY <1>3, <2>2 DEF TypeOK, Tick
<1> QED BY <1>1, <1>2, <1>3

\* Type correctness: the display is only ever set to a state the board knows,
\* and the idle time never overflows (PowerManagerIdlePoll,
\* BoardPower_SetDisplayState).
THEOREM TypeCorrect == Spec => []TypeOK
<1>1. Init => TypeOK
  <2>1. 0 \in 0..MaxIdle
    BY DisplayPowerAssumption
  <2> QED BY <2>1 DEF Init, TypeOK, Idle, Display, Point
<1>2. TypeOK /\ [Next]_vars => TypeOK'
  <2> SUFFICES ASSUME TypeOK, [Next]_vars PROVE TypeOK'
    OBVIOUS
  <2>1. CASE UNCHANGED vars
    BY <2>1 DEF TypeOK, vars, sharedvars, pollvars, touchvars
  <2> QED BY <2>1, WakingTyped, CpuTyped, InputTyped, WorldTyped DEF Next
<1> QED BY <1>1, <1>2, PTL DEF Spec

-----------------------------------------------------------------------------
(* Sleeping and waking. *)

\* The flag that the other threads read says where the CPU is, and past the
\* wait loop the request that ended it is still there.
SleepInv ==
  /\ guest_sleeping <=>
       pc["cpu"] \in {"dark", "parked", "light", "settle", "stamp", "leave"}
  /\ pc["cpu"] \in {"light", "settle", "stamp", "leave"} => wake_requested

\* What SleepEndsByRequest says of a step.
Ends == guest_sleeping => IF guest_sleeping' THEN wake_requested => wake_requested'
                          ELSE wake_requested

LEMMA SleepSteps == ASSUME TypeOK, SleepInv, [Next]_vars PROVE SleepInv' /\ Ends
<1> USE DEF sharedvars, Thread
<1>1. ASSUME NEW t \in Thread, Waking(t) PROVE SleepInv' /\ Ends
  <2>1. guest_sleeping' = guest_sleeping /\ (wake_requested' = wake_requested \/ wake_requested' = TRUE)
    BY <1>1 DEF Waking, NoteActivity, NoteTest, WakeStamp, WakeRequest, WakeIdle, WakeDisplay
  <2>2. \/ pc'["cpu"] = pc["cpu"]
        \/ {pc["cpu"], pc'["cpu"]} \intersect
             {"dark", "parked", "light", "settle", "stamp", "leave"} = {}
    BY <1>1 DEF TypeOK, Waking, NoteActivity, NoteTest, WakeStamp, WakeRequest, WakeIdle,
       WakeDisplay, Go, Return
  <2> QED BY <2>1, <2>2 DEF TypeOK, SleepInv, Ends
<1>2. CASE CpuCall \/ ServiceBlank \/ ServiceDark \/ SleepClear \/ SleepBegin
  BY <1>2 DEF TypeOK, SleepInv, Ends, CpuCall, ServiceBlank, ServiceDark, SleepClear, SleepBegin, Go
<1>3. CASE SleepDark \/ SleepOver \/ SleepLight \/ SleepSettle \/ SleepStamp \/ SleepLeave
  BY <1>3 DEF TypeOK, SleepInv, Ends, SleepDark, SleepOver, SleepLight, SleepSettle,
     SleepStamp, SleepLeave, Go
<1>4. CASE Input \/ Automation \/ Finger \/ Tick \/ UNCHANGED vars
  BY <1>4 DEF TypeOK, SleepInv, Ends, Input, IdlePoll, IdleCompare, IdleStore, IdleShow, Touch,
     Deliver, Automation, Finger, Tick, Go, vars
<1> QED BY <1>1, <1>2, <1>3, <1>4 DEF Next, Cpu, Sleep

\* No sleep ends by itself and no request made during one is dropped, with any
\* threads and any timeouts (display_sleep_until_wake, PowerManagerWake): the
\* request is cleared before the flag that lets others request is set.
THEOREM SleepEnds == Spec => SleepEndsByRequest
<1>1. Init => SleepInv
  BY DEF Init, SleepInv, Thread
<1>2. TypeOK /\ SleepInv /\ [Next]_vars => SleepInv' /\ [Ends]_vars
  BY SleepSteps
<1> QED BY <1>1, <1>2, TypeCorrect, PTL DEF Spec, SleepEndsByRequest, Ends
=============================================================================
