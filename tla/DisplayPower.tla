---------------------------- MODULE DisplayPower ----------------------------
(***************************************************************************)
(* Display power: the guest's _Sleep, idle dimming and blanking, waking.   *)
(*                                                                         *)
(* Three threads share four volatile variables without a lock: the 68k CPU *)
(* (which waits inside _Sleep), the input task (which polls the idle time  *)
(* and notes activity for touches and keys) and the automation task.  Only *)
(* the change of the display state itself is under a mutex.                *)
(***************************************************************************)
EXTENDS Integers

CONSTANTS
  Others,      \* threads besides the input task that note activity on their own
  CpuCalls,    \* subset of {"sleep", "service", "activity"}: what the guest calls
  DimAfter,    \* Power Settings' timeouts in ticks, 0 for never
  BlankAfter,
  MaxIdle      \* bound: the idle time saturates; stands for any longer time

ASSUME DisplayPowerAssumption ==
  /\ Others \subseteq {"automation"}
  /\ CpuCalls \subseteq {"sleep", "service", "activity"}
  /\ {DimAfter, BlankAfter, MaxIdle} \subseteq Nat
  /\ DimAfter <= MaxIdle /\ BlankAfter <= MaxIdle

VARIABLES
  guest_sleeping, wake_requested, idle_state,
  idle,          \* time since last_activity_ms
  display,       \* s_display_state
  pc,            \* control point of each thread
  lag,           \* time since PowerManagerIdlePoll read the clock
  want,          \* its local
  finger,        \* a finger is on the screen
  swallow_touch

sharedvars == <<guest_sleeping, wake_requested, idle_state, idle>>
pollvars   == <<lag, want>>
touchvars  == <<finger, swallow_touch>>
vars == <<sharedvars, display, pc, pollvars, touchvars>>

Thread  == {"cpu", "input", "automation"}
Idle    == {"awake", "dimmed", "blanked"}
Display == {"AWAKE", "DIMMED", "ASLEEP"}
Point   == {"run", "clear", "sleep", "dark", "parked", "light", "settle", "stamp",
            "leave", "blank", "check", "poll", "compare", "store", "show", "touch",
            "act", "note", "wake", "request", "unblank", "undim", "deliver"}

TypeOK ==
  /\ guest_sleeping \in BOOLEAN /\ wake_requested \in BOOLEAN
  /\ idle_state \in Idle
  /\ idle \in 0..MaxIdle
  /\ display \in Display
  /\ pc \in [Thread -> Point]
  /\ lag \in 0..MaxIdle
  /\ want \in Idle
  /\ finger \in BOOLEAN /\ swallow_touch \in BOOLEAN

\* PowerManagerInstall.
Init ==
  /\ guest_sleeping = FALSE /\ wake_requested = FALSE
  /\ idle_state = "awake" /\ idle = 0
  /\ display = "AWAKE"
  /\ pc = [t \in Thread |-> IF t = "input" THEN "poll" ELSE "run"]
  /\ lag = 0 /\ want = "awake"
  /\ finger = FALSE /\ swallow_touch = FALSE

Go(t, from, to) == pc[t] = from /\ pc' = [pc EXCEPT ![t] = to]
\* Where a thread is when its call has returned.
Return(t) == IF t = "input" THEN "deliver" ELSE "run"
Lamp(state) == CASE state = "awake" -> "AWAKE" [] state = "dimmed" -> "DIMMED"
                 [] OTHER -> "ASLEEP"

-----------------------------------------------------------------------------
(* PowerManagerNoteActivity and PowerManagerWake. *)

\* Both begin with a store to last_activity_ms.
Stamp == idle' = 0

NoteActivity(t) ==
  /\ Go(t, "act", "note")
  /\ Stamp
  /\ UNCHANGED <<guest_sleeping, wake_requested, idle_state, display, pollvars,
                 touchvars>>

\* Activity wakes only what is asleep or not fully lit.
NoteTest(t) ==
  /\ Go(t, "note", IF guest_sleeping \/ idle_state # "awake" THEN "wake" ELSE Return(t))
  /\ UNCHANGED <<sharedvars, display, pollvars, touchvars>>

WakeStamp(t) ==
  /\ Go(t, "wake", IF guest_sleeping THEN "request" ELSE "unblank")
  /\ Stamp
  /\ UNCHANGED <<guest_sleeping, wake_requested, idle_state, display, pollvars,
                 touchvars>>

WakeRequest(t) ==
  /\ Go(t, "request", "unblank")
  /\ wake_requested' = TRUE
  /\ UNCHANGED <<guest_sleeping, idle_state, idle, display, pollvars, touchvars>>

WakeIdle(t) ==
  /\ Go(t, "unblank", IF idle_state # "awake" THEN "undim" ELSE Return(t))
  /\ idle_state' = "awake"
  /\ UNCHANGED <<guest_sleeping, wake_requested, idle, display, pollvars,
                 touchvars>>

WakeDisplay(t) ==
  /\ Go(t, "undim", Return(t))
  /\ display' = "AWAKE"
  /\ UNCHANGED <<sharedvars, pollvars, touchvars>>

-----------------------------------------------------------------------------
(* The 68k CPU. *)

\* The guest calls _Sleep, the SleepDisplay service, UpdateSystemActivity.
CpuCall ==
  /\ \/ "sleep" \in CpuCalls /\ Go("cpu", "run", "clear")
     \/ "service" \in CpuCalls /\ Go("cpu", "run", "blank")
     \/ "activity" \in CpuCalls /\ Go("cpu", "run", "act")
  /\ UNCHANGED <<sharedvars, display, pollvars, touchvars>>

SleepClear ==
  /\ Go("cpu", "clear", "sleep")
  /\ wake_requested' = FALSE
  /\ UNCHANGED <<guest_sleeping, idle_state, idle, display, pollvars, touchvars>>

SleepBegin ==
  /\ Go("cpu", "sleep", "dark")
  /\ guest_sleeping' = TRUE
  /\ UNCHANGED <<wake_requested, idle_state, idle, display, pollvars, touchvars>>

\* Mutant: the request is cleared when the display is dark.
SleepDark_ClearsRequest ==
  /\ Go("cpu", "dark", "parked")
  /\ display' = "ASLEEP"
  /\ wake_requested' = FALSE
  /\ UNCHANGED <<guest_sleeping, idle_state, idle, pollvars, touchvars>>

SleepDark ==
  /\ Go("cpu", "dark", "parked")
  /\ display' = "ASLEEP"
  /\ UNCHANGED <<sharedvars, pollvars, touchvars>>

\* The wait loop looks at wake_requested every 50 ms.
SleepOver ==
  /\ Go("cpu", "parked", "light") /\ wake_requested
  /\ UNCHANGED <<sharedvars, display, pollvars, touchvars>>

SleepLight ==
  /\ Go("cpu", "light", "settle")
  /\ display' = "AWAKE"
  /\ UNCHANGED <<sharedvars, pollvars, touchvars>>

SleepSettle ==
  /\ Go("cpu", "settle", "stamp")
  /\ idle_state' = "awake"
  /\ UNCHANGED <<guest_sleeping, wake_requested, idle, display, pollvars, touchvars>>

SleepStamp ==
  /\ Go("cpu", "stamp", "leave")
  /\ Stamp
  /\ UNCHANGED <<guest_sleeping, wake_requested, idle_state, display, pollvars,
                 touchvars>>

SleepLeave ==
  /\ Go("cpu", "leave", "run")
  /\ guest_sleeping' = FALSE
  /\ UNCHANGED <<wake_requested, idle_state, idle, display, pollvars, touchvars>>

\* kPowerServicesSleepDisplay.
ServiceBlank ==
  /\ Go("cpu", "blank", "check")
  /\ idle_state' = "blanked"
  /\ UNCHANGED <<guest_sleeping, wake_requested, idle, display, pollvars, touchvars>>

ServiceDark ==
  /\ Go("cpu", "check", "run")
  /\ display' = "ASLEEP"
  /\ UNCHANGED <<sharedvars, pollvars, touchvars>>

-----------------------------------------------------------------------------
(* The input task: PowerManagerIdlePoll, then processTouchInput. *)

\* The clock is read here, last_activity_ms in the next step.
IdlePoll ==
  /\ Go("input", "poll", IF guest_sleeping THEN "touch" ELSE "compare")
  /\ lag' = 0
  /\ UNCHANGED <<sharedvars, display, want, touchvars>>

\* Unsigned subtraction: activity noted after the clock was read makes the
\* idle time as long as it can be.
IdleTime == IF idle >= lag THEN idle - lag ELSE MaxIdle

Want == IF BlankAfter # 0 /\ IdleTime >= BlankAfter THEN "blanked"
        ELSE IF DimAfter # 0 /\ IdleTime >= DimAfter THEN "dimmed" ELSE "awake"

IdleCompare ==
  /\ Go("input", "compare", IF Want \in {idle_state, "awake"} THEN "touch" ELSE "store")
  /\ want' = Want
  /\ lag' = 0
  /\ UNCHANGED <<sharedvars, display, touchvars>>

IdleStore ==
  /\ Go("input", "store", "show")
  /\ idle_state' = want
  /\ UNCHANGED <<guest_sleeping, wake_requested, idle, display, pollvars, touchvars>>

IdleShow ==
  /\ Go("input", "show", "touch")
  /\ display' = Lamp(want)
  /\ UNCHANGED <<sharedvars, pollvars, touchvars>>

Sleeping == guest_sleeping \/ idle_state = "blanked"

\* The touch panel is read.  A touch that finds the display off is held back
\* until the finger has lifted; the lift itself is held back too.  Keys and
\* mice note activity in the same task without being held back.
Touch ==
  /\ \/ finger /\ Go("input", "touch", "act") /\ swallow_touch' = (swallow_touch \/ Sleeping)
     \/ ~finger /\ Go("input", "touch", IF swallow_touch THEN "poll" ELSE "deliver")
        /\ swallow_touch' = FALSE
  /\ UNCHANGED <<sharedvars, display, pollvars, finger>>

\* TouchOverlay_Update, unless the touch is held back.
Deliver ==
  /\ Go("input", "deliver", "poll")
  /\ UNCHANGED <<sharedvars, display, pollvars, touchvars>>

-----------------------------------------------------------------------------
\* POWER WAKE, and automation commands that note activity.
Automation ==
  /\ "automation" \in Others
  /\ \E to \in {"act", "wake"} : Go("automation", "run", to)
  /\ UNCHANGED <<sharedvars, display, pollvars, touchvars>>

Finger ==
  /\ finger' = ~finger
  /\ UNCHANGED <<sharedvars, display, pc, pollvars, swallow_touch>>

Tick ==
  /\ idle' = IF idle = MaxIdle THEN idle ELSE idle + 1
  /\ lag' = IF pc["input"] = "compare" /\ lag < MaxIdle THEN lag + 1 ELSE lag
  /\ idle' # idle \/ lag' # lag
  /\ UNCHANGED <<guest_sleeping, wake_requested, idle_state, display, pc, want,
                 touchvars>>

Waking(t) == \/ NoteActivity(t) \/ NoteTest(t) \/ WakeStamp(t) \/ WakeRequest(t)
             \/ WakeIdle(t) \/ WakeDisplay(t)

Sleep == \/ SleepClear \/ SleepBegin \/ SleepDark \/ SleepOver \/ SleepLight
         \/ SleepSettle \/ SleepStamp \/ SleepLeave

Cpu   == Sleep \/ ServiceBlank \/ ServiceDark
Input == IdlePoll \/ IdleCompare \/ IdleStore \/ IdleShow \/ Touch \/ Deliver

Next == CpuCall \/ Cpu \/ Input \/ Automation \/ Finger \/ Tick
          \/ \E t \in Thread : Waking(t)

Spec == Init /\ [][Next]_vars

\* The threads are scheduled; nothing is assumed of the user or the guest.
FairSpec == Spec /\ WF_vars(Cpu) /\ WF_vars(Input)
                 /\ \A t \in Thread : WF_vars(Waking(t))

-----------------------------------------------------------------------------
(* Properties. *)

Quiet == /\ pc["cpu"] = "run" /\ pc["automation"] = "run"
         /\ pc["input"] \in {"poll", "touch", "deliver"}

\* When no call is under way the display is as bright as idle_state says:
\* otherwise activity, which looks at idle_state, would not light it again
\* (display_sleep_until_wake, PowerManagerWake, PowerManagerIdlePoll).
DisplayFollowsIdleState == Quiet => display = Lamp(idle_state)

\* A sleep ends only when waking was requested since wake_requested was cleared
\* on the way in, and a request that finds the guest asleep stands until the
\* sleep has ended, whichever thread made it and however far the CPU was on its
\* way into the wait (display_sleep_until_wake, PowerManagerWake).
SleepEndsByRequest ==
  [][guest_sleeping => IF guest_sleeping' THEN wake_requested => wake_requested'
                       ELSE wake_requested]_vars

\* Activity noted while the guest sleeps ends the sleep, also when it comes
\* while the CPU is still on its way into the wait (PowerManagerWake,
\* display_sleep_until_wake).
ActivityEndsSleep ==
  (guest_sleeping /\ pc["input"] = "note") ~> ~guest_sleeping
=============================================================================
