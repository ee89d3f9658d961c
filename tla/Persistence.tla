---------------------------- MODULE Persistence ----------------------------
(***************************************************************************)
(* What survives: disk images, XPRAM and the clock.                        *)
(*                                                                         *)
(* One task runs the guest and, between two batches of guest instructions, *)
(* basilisk_loop, which flushes disk handles and saves XPRAM and the clock *)
(* by intervals.  The loop is due after a number of INSTRUCTIONS, so it    *)
(* does not run while the guest stands in STOP or in _Sleep.  The guest    *)
(* can be shut down, restarted over serial (BOOT ENTER), or lose power     *)
(* between any two steps; then the machine boots from what is on the card. *)
(* Time passes in ticks while the guest runs or waits; the steps of        *)
(* basilisk_loop are short and take none.                                  *)
(***************************************************************************)
EXTENDS Integers

CONSTANTS
  Handle,       \* the disk images opened for writing
  Setting,      \* whole contents of XPRAM
  Default,      \* the contents InitAll sets up when the signature is missing
  None, Torn,   \* no XPRAM file; one that was truncated and not rewritten
  FlushEvery,   \* DISK_FLUSH_INTERVAL
  IdleFlush,    \* DISK_IDLE_FLUSH_MS
  XpramEvery,   \* XPRAM_FLUSH_INTERVAL
  Quantum,      \* time in which a running guest executes emulated_ticks
  MaxDate       \* bound: how often the user sets the clock

ASSUME PersistenceAssumption ==
  /\ Default \in Setting
  /\ None \notin Setting /\ Torn \notin Setting /\ None # Torn
  /\ {FlushEvery, IdleFlush, XpramEvery, Quantum} \subseteq Nat \ {0}
  /\ MaxDate \in Nat

VARIABLES
  pc,                 \* where the emulation task is
  after,              \* where SaveXPRAM returns to
  mode,               \* the guest executes, stands in STOP, or in _Sleep
  restart_at,         \* control_restart_at is set
  since_loop,         \* executing time since the last basilisk_loop
  dirty,              \* handles with is_dirty: their file holds unwritten data
  since_flush,        \* time since last_disk_flush_time
  since_write,        \* time since s_last_write_ms
  xpram, shadow, shadow_valid,
  file,               \* /BasiliskII_XPRAM on the card
  since_save,         \* time since last_xpram_flush_time
  date, clock_dirty,  \* the clock: how often it was set, and not yet saved
  nvs,                \* the setting of the clock NVS holds
  tried,              \* an attempt to save the clock was made this second
  age,                \* history: executing time since each handle's oldest
                      \*   unflushed write
  quiet,              \* history: executing time since the latest write
  xage,               \* history: executing time since XPRAM differs from file
  refused,            \* history: the latest save of XPRAM failed
  late                \* history: the latest save of the clock failed

diskvars  == <<dirty, since_flush, since_write, age, quiet>>
xpramvars == <<xpram, shadow, shadow_valid, file, since_save, xage, refused>>
clockvars == <<date, clock_dirty, nvs, tried, late>>
ctlvars   == <<pc, after, mode, restart_at, since_loop>>
vars == <<diskvars, xpramvars, clockvars, ctlvars>>

Up == pc \notin {"safe", "reset", "cut"}

\* A clock of a model runs up to a bound and stays there.
Count(n, bound) == IF n < bound THEN n + 1 ELSE n
AgeBound   == FlushEvery + Quantum
QuietBound == IdleFlush + Quantum
XageBound  == XpramEvery + Quantum

CtlType ==
  /\ pc \in {"run", "disk", "xpram", "save", "write", "drain",
             "restart", "close", "safe", "reset", "cut"}
  /\ after \in {"run", "restart", "close"}
  /\ mode \in {"guest", "stopped", "asleep"}
  /\ restart_at \in BOOLEAN
  /\ since_loop \in 0..Quantum

DiskType ==
  /\ dirty \subseteq Handle
  /\ since_flush \in 0..FlushEvery
  /\ since_write \in 0..IdleFlush
  /\ age \in [Handle -> 0..AgeBound]
  /\ quiet \in 0..QuietBound

XpramType ==
  /\ xpram \in Setting
  /\ shadow \in Setting \union {Torn}
  /\ shadow_valid \in BOOLEAN
  /\ file \in Setting \union {None, Torn}
  /\ since_save \in 0..XpramEvery
  /\ xage \in 0..XageBound
  /\ refused \in BOOLEAN

ClockType ==
  /\ date \in 0..MaxDate /\ nvs \in 0..MaxDate
  /\ clock_dirty \in BOOLEAN
  /\ tried \in BOOLEAN
  /\ late \in BOOLEAN

TypeOK == CtlType /\ DiskType /\ XpramType /\ ClockType

\* A first boot with no XPRAM file.
Init ==
  /\ pc = "run" /\ after = "run" /\ mode = "guest" /\ restart_at = FALSE
  /\ since_loop = 0
  /\ dirty = {} /\ since_flush = 0 /\ since_write = 0
  /\ xpram = Default /\ shadow = Torn /\ shadow_valid = FALSE
  /\ file = None /\ since_save = 0
  /\ date = 0 /\ clock_dirty = FALSE /\ nvs = 0 /\ tried = FALSE
  /\ age = [h \in Handle |-> 0] /\ quiet = 0
  /\ xage = 0 /\ refused = FALSE /\ late = FALSE

-----------------------------------------------------------------------------
(* The guest. *)

Running == pc = "run" /\ mode = "guest"

\* Sys_write, with data written.
SysWrite(h) ==
  /\ Running
  /\ dirty' = dirty \union {h}
  /\ since_write' = 0
  /\ age' = IF h \in dirty THEN age ELSE [age EXCEPT ![h] = 0]
  /\ quiet' = 0
  /\ UNCHANGED <<since_flush, xpramvars, clockvars, ctlvars>>

\* The RTC trap stores into XPRAM.
WriteXPRAM(v) ==
  /\ Running /\ v # xpram
  /\ xpram' = v
  /\ xage' = IF v = file \/ xpram = file THEN 0 ELSE xage
  /\ UNCHANGED <<shadow, shadow_valid, file, since_save, refused, diskvars,
                 clockvars, ctlvars>>

\* TimerWriteRTCByte, when the fourth byte has been written.
SetDate ==
  /\ Running /\ date < MaxDate
  /\ date' = date + 1
  /\ clock_dirty' = TRUE
  /\ UNCHANGED <<nvs, tried, late, diskvars, xpramvars, ctlvars>>

\* STOP until an interrupt, or _Sleep until activity.
Wait(m) ==
  /\ pc = "run" /\ (mode = "guest") # (m = "guest")
  /\ mode' = m
  /\ UNCHANGED <<pc, after, restart_at, since_loop, diskvars, xpramvars, clockvars>>

-----------------------------------------------------------------------------
(* cpu_do_check_control: between batches, and in the STOP wait. *)

\* BootGUI_ControlPoll executes ENTER.
BootEnter ==
  /\ pc = "run" /\ mode # "asleep" /\ ~restart_at
  /\ restart_at' = TRUE
  /\ UNCHANGED <<pc, after, mode, since_loop, diskvars, xpramvars, clockvars>>

Call(back) == pc' = "save" /\ after' = back

\* Mutant: a restart saves nothing but what the shutdown hook flushes.
RestartPending_NoSave ==
  /\ pc = "run" /\ mode # "asleep" /\ restart_at
  /\ pc' = "restart"
  /\ UNCHANGED <<after, mode, restart_at, since_loop, diskvars, xpramvars, clockvars>>

\* The 1.2 s are over: SaveXPRAM first.
RestartPending ==
  /\ pc = "run" /\ mode # "asleep" /\ restart_at
  /\ Call("restart")
  /\ UNCHANGED <<mode, restart_at, since_loop, diskvars, xpramvars, clockvars>>

-----------------------------------------------------------------------------
(* Saving. *)

\* MacClockSave(force), if it attempts a commit, with or without success.
CommitClock == \E ok \in BOOLEAN :
  /\ tried' = TRUE
  /\ late' = ~ok
  /\ nvs' = IF ok THEN date ELSE nvs
  /\ clock_dirty' = (clock_dirty /\ ~ok)
  /\ UNCHANGED date

\* A clock never set is not saved.  Unless forced, an attempt needs a change or
\* five minutes since the last save, and a second since the last attempt.
SaveClock(force) ==
  \/ date # 0 /\ (force \/ ~tried) /\ CommitClock
  \/ (date = 0 \/ (~force /\ (tried \/ ~clock_dirty))) /\ UNCHANGED clockvars

\* Sys_periodic_flush and Sys_flush_now.
FlushDirty ==
  /\ dirty' = {}
  /\ age' = [h \in Handle |-> 0]
  /\ quiet' = 0
  /\ UNCHANGED since_write

\* SaveXPRAM returns at once when nothing has changed; opening the file for
\* writing truncates it, and may fail.
SaveXPRAM ==
  /\ pc = "save"
  /\ \/ /\ shadow_valid /\ xpram = shadow
        /\ pc' = after
        /\ UNCHANGED <<file, refused>>
     \/ /\ ~(shadow_valid /\ xpram = shadow)
        /\ \/ pc' = "write" /\ file' = Torn /\ UNCHANGED refused
           \/ pc' = after /\ refused' = TRUE /\ UNCHANGED file
  /\ UNCHANGED <<xpram, shadow, shadow_valid, since_save, xage, after, mode,
                 restart_at, since_loop, diskvars, clockvars>>

\* Mutant: the shadow copy is updated whatever the write returned.
WriteFile_Trusting == \E ok \in BOOLEAN :
  /\ pc = "write"
  /\ file' = IF ok THEN xpram ELSE Torn
  /\ shadow' = xpram /\ shadow_valid' = TRUE
  /\ refused' = FALSE
  /\ xage' = IF ok THEN 0 ELSE xage
  /\ pc' = "drain"
  /\ UNCHANGED <<xpram, since_save, after, mode, restart_at, since_loop, diskvars,
                 clockvars>>

\* The write and the close; a short write leaves the shadow copy alone.
WriteFile == \E ok \in BOOLEAN :
  /\ pc = "write"
  /\ IF ok THEN /\ file' = xpram /\ shadow' = xpram /\ shadow_valid' = TRUE
                /\ xage' = 0
           ELSE UNCHANGED <<file, shadow, shadow_valid, xage>>
  /\ refused' = ~ok
  /\ pc' = "drain"
  /\ UNCHANGED <<xpram, since_save, after, mode, restart_at, since_loop, diskvars,
                 clockvars>>

\* A save of XPRAM ends with Sys_flush_now.
Drain ==
  /\ pc = "drain"
  /\ FlushDirty
  /\ pc' = after
  /\ UNCHANGED <<since_flush, xpramvars, clockvars, after, mode, restart_at, since_loop>>

-----------------------------------------------------------------------------
(* basilisk_loop. *)

\* emulated_ticks has run out: MacClockSave comes first.
LoopClock ==
  /\ Running /\ since_loop > 0
  /\ SaveClock(FALSE)
  /\ pc' = "disk"
  /\ since_loop' = 0
  /\ UNCHANGED <<after, mode, restart_at, diskvars, xpramvars>>

\* Mutant: a flush waits until the guest is idle.
FlushDue_IdleOnly == dirty # {} /\ since_write >= IdleFlush

\* Every FlushEvery, or when the dirty handles have not been written to for a
\* while.  (The source's last_w # 0 says only that there was a write.)
FlushDue ==
  \/ since_flush >= FlushEvery
  \/ dirty # {} /\ since_write >= IdleFlush

LoopDisk ==
  /\ pc = "disk"
  /\ IF FlushDue THEN FlushDirty /\ since_flush' = 0 ELSE UNCHANGED diskvars
  /\ pc' = "xpram"
  /\ UNCHANGED <<after, mode, restart_at, since_loop, xpramvars, clockvars>>

\* Mutant: a quiet disk is taken for a quiet guest.
SaveDue_WithWrites == since_save >= XpramEvery /\ dirty # {}

SaveDue == since_save >= XpramEvery

LoopXPRAM ==
  /\ pc = "xpram"
  /\ IF SaveDue THEN since_save' = 0 /\ Call("run")
     ELSE pc' = "run" /\ UNCHANGED <<since_save, after>>
  /\ UNCHANGED <<xpram, shadow, shadow_valid, file, xage, refused, mode, restart_at,
                 since_loop, diskvars, clockvars>>

-----------------------------------------------------------------------------
(* The ends. *)

\* QuitEmulator: basilisk_setup goes on to ExitAll, which saves XPRAM first.
Quit ==
  /\ Running
  /\ Call("close")
  /\ UNCHANGED <<mode, restart_at, since_loop, diskvars, xpramvars, clockvars>>

\* DiskExit flushes and closes each handle; setup() flushes and saves the
\* clock, and shows that it is safe to switch off.
Close ==
  /\ pc = "close"
  /\ FlushDirty
  /\ SaveClock(TRUE)
  /\ pc' = "safe"
  /\ UNCHANGED <<since_flush, after, mode, restart_at, since_loop, xpramvars>>

\* MacClockSave(true), then esp_restart with the shutdown hook.
Restart ==
  /\ pc = "restart"
  /\ SaveClock(TRUE)
  /\ FlushDirty
  /\ pc' = "reset"
  /\ UNCHANGED <<since_flush, after, mode, restart_at, since_loop, xpramvars>>

\* Power loss or a panic.
PowerCut ==
  /\ Up
  /\ pc' = "cut"
  /\ UNCHANGED <<after, mode, restart_at, since_loop, diskvars, xpramvars, clockvars>>

\* Mutant: the signature is not checked.
Loaded_Raw == file

\* LoadXPRAM, and InitAll's defaults when the signature is not there.
Loaded == IF file \in Setting THEN file ELSE Default

\* XPRAMInit, InitAll, initialize_clock and RunEmulator.  The shadow copy is
\* what was read, also when the file was too short.
Boot ==
  /\ ~Up
  /\ pc' = "run" /\ after' = "run" /\ mode' = "guest" /\ restart_at' = FALSE
  /\ since_loop' = 0
  /\ dirty' = {} /\ since_flush' = 0 /\ since_write' = 0
  /\ age' = [h \in Handle |-> 0] /\ quiet' = 0
  /\ xpram' = Loaded
  /\ shadow' = IF file \in Setting THEN file ELSE Torn
  /\ shadow_valid' = (file # None)
  /\ since_save' = 0 /\ xage' = 0 /\ refused' = FALSE
  /\ date' = nvs /\ clock_dirty' = FALSE /\ tried' = FALSE /\ late' = FALSE
  /\ UNCHANGED <<file, nvs>>

Tick ==
  /\ pc = "run" /\ ~(mode = "guest" /\ since_loop = Quantum)
  /\ since_flush' = Count(since_flush, FlushEvery)
  /\ since_write' = Count(since_write, IdleFlush)
  /\ since_save' = Count(since_save, XpramEvery)
  /\ tried' = FALSE
  /\ IF mode = "guest"
     THEN /\ since_loop' = since_loop + 1
          /\ age' = [h \in Handle |-> IF h \in dirty THEN Count(age[h], AgeBound) ELSE 0]
          /\ quiet' = IF dirty # {} THEN Count(quiet, QuietBound) ELSE 0
          /\ xage' = IF xpram # file THEN Count(xage, XageBound) ELSE 0
     ELSE UNCHANGED <<since_loop, age, quiet, xage>>
  /\ UNCHANGED <<dirty, xpram, shadow, shadow_valid, file, refused, date,
                 clock_dirty, nvs, late, pc, after, mode, restart_at>>

-----------------------------------------------------------------------------
Guest == \/ \E h \in Handle : SysWrite(h)
         \/ \E v \in Setting : WriteXPRAM(v)
         \/ SetDate
         \/ \E m \in {"guest", "stopped", "asleep"} : Wait(m)

Loop == LoopClock \/ LoopDisk \/ LoopXPRAM
Save == SaveXPRAM \/ WriteFile \/ Drain
Ends == Quit \/ Close \/ RestartPending \/ Restart \/ PowerCut \/ Boot

Next == Guest \/ BootEnter \/ Loop \/ Save \/ Ends \/ Tick

Spec == Init /\ [][Next]_vars

-----------------------------------------------------------------------------
(* Properties. *)

\* While the guest executes, a write reaches the card within the flush
\* interval and a quantum, and within the idle window and a quantum of the
\* last write: writes that keep coming, saves of XPRAM that flush too, and
\* waits that stop the loop do not push the flush out (basilisk_loop).
LossBounded ==
  Up /\ dirty # {} => quiet < QuietBound /\ \A h \in dirty : age[h] < AgeBound

\* A changed setting reaches the card within its interval and a quantum of
\* executing time, unless the card refused it (basilisk_loop, SaveXPRAM).
SettingSaved == (Up /\ xpram # file /\ ~refused) => xage < XageBound

\* SaveXPRAM leaves out a write only when the card holds the setting: the
\* shadow copy is what is on the card, across boots, cut saves and errors of
\* an earlier boot (LoadXPRAM, SaveXPRAM).
ShadowOnCard ==
  (Up /\ pc # "write" /\ shadow_valid /\ ~refused) => file = shadow

\* A shutdown and a restart over serial lose nothing, at whatever moment they
\* come: disk writes, the setting and the date are on the card, unless their
\* last save failed (ExitAll, setup, cpu_do_check_control, on_system_shutdown).
CleanStop ==
  pc \in {"safe", "reset"} =>
    /\ dirty = {}
    /\ file = xpram \/ refused
    /\ nvs = date \/ late

\* When power goes after a whole setting was on the card, the card still holds
\* one, old or new (SaveXPRAM).
SettingsSurvive == (pc = "cut" /\ shadow \in Setting) => file # Torn
=============================================================================
