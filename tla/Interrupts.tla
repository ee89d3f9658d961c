----------------------------- MODULE Interrupts -----------------------------
(***************************************************************************)
(* Delivery of the emulated level-1 interrupt on the ESP32 port.           *)
(*                                                                         *)
(* Producers on core 0 and in the FreeRTOS timer task set a bit of         *)
(* InterruptFlags and then SPCFLAG_DOINT; the 68k CPU on core 1 polls its  *)
(* special flags between instructions, takes the exception, and the ROM    *)
(* handler runs EMUL_OP_IRQ, which exchanges InterruptFlags with zero.     *)
(* The CPU nests: an EmulOp handler, written in C, may call Execute68k and *)
(* run guest code in an inner m68k_execute.  Guest code is an environment: *)
(* it chooses instructions freely, except that the ROM's level-1 handler   *)
(* runs EMUL_OP_IRQ once before it does anything else.                     *)
(***************************************************************************)
EXTENDS Integers, Sequences

CONSTANTS
  Source,        \* the INTFLAG_* bits
  Producer,      \* the tasks and timer callbacks that raise them
  Raises,        \* Raises[p]: the bit producer p raises
  Unconditional, \* producers that trigger even when their bit was set already
  StartGated,    \* bits whose service EMUL_OP_IRQ skips before the Mac has started
  MaxDepth       \* bound: guest code opens no further nesting level beyond it

ASSUME InterruptsAssumption ==
  /\ Raises \in [Producer -> Source]
  /\ Unconditional \subseteq Producer
  /\ StartGated \subseteq Source
  /\ MaxDepth \in Nat

VARIABLES
  InterruptFlags,     \* pending sources
  spcflags,           \* regs.spcflags: DOINT, STOP, BRK
  pc,                 \* pc[p]: "idle", or "trigger" between the two calls of p
  cpu,                \* control point of the emulation task
  intmask,            \* interrupt mask of the status register
  stack,              \* exception frames, EmulOp calls and Execute68k calls
  at_return,          \* the 68k PC stands on an EXEC_RETURN opcode
  quit_program,
  cpu_quit_requested,
  warm_start,         \* guest low memory 0xcfc holds 'WLSC'
  mac_started_cached

vars == <<InterruptFlags, spcflags, pc, cpu, intmask, stack, at_return,
          quit_program, cpu_quit_requested, warm_start, mac_started_cached>>
flagvars  == <<InterruptFlags, spcflags, pc>>
quitvars  == <<quit_program, cpu_quit_requested, at_return>>
startvars == <<warm_start, mac_started_cached>>

Mask  == {0, 1, 7}
Flag  == {"DOINT", "STOP", "BRK"}
Point == {"reset", "loop", "run", "stop", "stoplevel", "doint", "level",
          "brk", "emulop", "exited"}
Frame == [kind: {"int", "op", "exec"}, mask: Mask, polled: BOOLEAN,
          todo: SUBSET Source]

TypeOK ==
  /\ InterruptFlags \subseteq Source
  /\ spcflags \subseteq Flag
  /\ pc \in [Producer -> {"idle", "trigger"}]
  /\ cpu \in Point
  /\ intmask \in Mask
  /\ stack \in Seq(Frame)
  /\ at_return \in BOOLEAN
  /\ quit_program \in BOOLEAN
  /\ cpu_quit_requested \in BOOLEAN
  /\ warm_start \in BOOLEAN
  /\ mac_started_cached \in BOOLEAN

Init ==
  /\ InterruptFlags = {}
  /\ spcflags = {}
  /\ pc = [p \in Producer |-> "idle"]
  /\ cpu = "reset"
  /\ intmask = 0
  /\ stack = <<>>
  /\ at_return = FALSE
  /\ quit_program = FALSE
  /\ cpu_quit_requested = FALSE
  /\ warm_start = FALSE
  /\ mac_started_cached = FALSE

-----------------------------------------------------------------------------
(* Producers. *)

\* SetInterruptFlagIfNew: an atomic fetch_or.  Only the call that set the
\* bit goes on to TriggerInterrupt; the audio task calls it regardless.  The
\* timer callbacks test emulator_running first, but the test may be stale by
\* the time they set the bit, so producers may act after a quit request too.
SetInterruptFlag(p) ==
  /\ pc[p] = "idle"
  /\ InterruptFlags' = InterruptFlags \union {Raises[p]}
  /\ pc' = IF Raises[p] \notin InterruptFlags \/ p \in Unconditional
           THEN [pc EXCEPT ![p] = "trigger"] ELSE pc
  /\ UNCHANGED <<spcflags, cpu, intmask, stack, quitvars, startvars>>

TriggerInterrupt(p) ==
  /\ pc[p] = "trigger"
  /\ spcflags' = spcflags \union {"DOINT"}
  /\ pc' = [pc EXCEPT ![p] = "idle"]
  /\ UNCHANGED <<InterruptFlags, cpu, intmask, stack, quitvars, startvars>>

-----------------------------------------------------------------------------
(* The stack of the emulation task. *)

Top    == stack[Len(stack)]
OnTop(kind) == stack # <<>> /\ Top.kind = kind
Push(f) == stack' = Append(stack, f)
Pop    == stack' = SubSeq(stack, 1, Len(stack) - 1)
Room   == Len(stack) < MaxDepth
Calls  == {i \in 1..Len(stack) : stack[i].kind = "exec"}

IntFrame  == [kind |-> "int", mask |-> intmask, polled |-> FALSE, todo |-> {}]
ExecFrame == [kind |-> "exec", mask |-> intmask, polled |-> FALSE, todo |-> {}]
OpFrame(todo) == [kind |-> "op", mask |-> intmask, polled |-> FALSE, todo |-> todo]

\* Mutant: the recheck of InterruptFlags is dropped.
MakeFromSR_NoRecheck(m, extra) ==
  intmask' = m /\ spcflags' = spcflags \union extra

\* MakeFromSR loads the mask and, only when the mask changed, looks at
\* InterruptFlags and sets DOINT.  Producers only add to both words, so the
\* load of InterruptFlags is the one point where its order matters.
MakeFromSR(m, extra) ==
  /\ intmask' = m
  /\ spcflags' = spcflags \union extra \union
       (IF m # intmask /\ InterruptFlags # {} THEN {"DOINT"} ELSE {})

\* intlev() against the mask: the one level is 1.
LevelAboveMask == InterruptFlags # {} /\ intmask < 1

\* Mutant: the mask is loaded with the vector number instead of the level.
Interrupt_VectorAsMask == Push(IntFrame) /\ intmask' = 24 + 1

\* Interrupt() leaves the mask at the level of the interrupt.
Interrupt == Push(IntFrame) /\ intmask' = 1

-----------------------------------------------------------------------------
(* Guest instructions, executed by m68k_do_execute. *)

\* Guest code, not parked on EXEC_RETURN and not in the first instructions of
\* the level-1 handler.
Guest == cpu = "run" /\ ~at_return /\ ~(OnTop("int") /\ ~Top.polled)

MayLower(m) == m >= intmask \/ Room

GuestSetSR(m) ==
  /\ Guest /\ MayLower(m)
  /\ MakeFromSR(m, {})
  /\ UNCHANGED <<InterruptFlags, pc, cpu, stack, quitvars, startvars>>

GuestStop(m) ==
  /\ Guest /\ MayLower(m)
  /\ MakeFromSR(m, {"STOP"})
  /\ UNCHANGED <<InterruptFlags, pc, cpu, stack, quitvars, startvars>>

GuestRte ==
  /\ Guest /\ OnTop("int")
  /\ MakeFromSR(Top.mask, {})
  /\ Pop
  /\ UNCHANGED <<InterruptFlags, pc, cpu, quitvars, startvars>>

GuestWarmStart ==
  /\ Guest
  /\ warm_start' = ~warm_start
  /\ UNCHANGED <<flagvars, cpu, intmask, stack, quitvars, mac_started_cached>>

\* m68k_emulop_return: the routine called by Execute68k is done, or the PC
\* was parked by a quit request.  The PC stays where it is.
ExecReturn ==
  /\ cpu = "run"
  /\ at_return \/ (Guest /\ OnTop("exec"))
  /\ at_return' = TRUE
  /\ quit_program' = TRUE
  /\ spcflags' = spcflags \union {"BRK"}
  /\ UNCHANGED <<InterruptFlags, pc, cpu, intmask, stack, cpu_quit_requested, startvars>>

\* m68k_emulop saves the registers and the status register, then calls EmulOp.
EmulOp ==
  /\ Guest /\ Room
  /\ Push(OpFrame({}))
  /\ cpu' = "emulop"
  /\ UNCHANGED <<flagvars, intmask, quitvars, startvars>>

NeedsStartedCheck == InterruptFlags \intersect StartGated # {}
MacStarted == NeedsStartedCheck /\ (mac_started_cached \/ warm_start)

\* Mutant: the bits that are not served before the Mac has started stay set.
EmulOpIRQ_KeepsGated ==
  /\ cpu = "run" /\ ~at_return /\ OnTop("int") /\ ~Top.polled
  /\ InterruptFlags' = {s \in InterruptFlags : s \in StartGated /\ ~MacStarted}
  /\ mac_started_cached' = (mac_started_cached \/ MacStarted)
  /\ stack' = Append([stack EXCEPT ![Len(stack)].polled = TRUE],
                     OpFrame({s \in InterruptFlags : s \in StartGated => MacStarted}))
  /\ cpu' = "emulop"
  /\ UNCHANGED <<spcflags, pc, intmask, quitvars, warm_start>>

\* Mutant: nothing is served before the Mac has started.
EmulOpIRQ_AllGated ==
  /\ cpu = "run" /\ ~at_return /\ OnTop("int") /\ ~Top.polled
  /\ InterruptFlags' = {}
  /\ mac_started_cached' = (mac_started_cached \/ MacStarted)
  /\ stack' = Append([stack EXCEPT ![Len(stack)].polled = TRUE],
                     OpFrame(IF MacStarted THEN InterruptFlags ELSE {}))
  /\ cpu' = "emulop"
  /\ UNCHANGED <<spcflags, pc, intmask, quitvars, warm_start>>

\* EMUL_OP_IRQ: the ROM handler takes every pending source in one exchange.
EmulOpIRQ ==
  /\ cpu = "run" /\ ~at_return /\ OnTop("int") /\ ~Top.polled
  /\ InterruptFlags' = {}
  /\ mac_started_cached' = (mac_started_cached \/ MacStarted)
  /\ stack' = Append([stack EXCEPT ![Len(stack)].polled = TRUE],
                     OpFrame({s \in InterruptFlags : s \in StartGated => MacStarted}))
  /\ cpu' = "emulop"
  /\ UNCHANGED <<spcflags, pc, intmask, quitvars, warm_start>>

-----------------------------------------------------------------------------
(* C code of an EmulOp. *)

\* EMUL_OP_IRQ serves one source it took, with or without calling guest code.
Serve(s) ==
  /\ cpu = "emulop" /\ s \in Top.todo
  /\ stack' = [stack EXCEPT ![Len(stack)].todo = @ \ {s}]
  /\ UNCHANGED <<flagvars, cpu, intmask, quitvars, startvars>>

Execute68k ==
  /\ cpu = "emulop" /\ Room
  /\ Push(ExecFrame)
  /\ quit_program' = FALSE
  /\ cpu' = "loop"
  /\ UNCHANGED <<flagvars, intmask, cpu_quit_requested, at_return, startvars>>

\* QuitEmulator: m68k_request_quit is sticky and returns to the C code.
QuitEmulator ==
  /\ cpu = "emulop"
  /\ cpu_quit_requested' = TRUE
  /\ spcflags' = spcflags \union {"BRK"}
  /\ UNCHANGED <<InterruptFlags, pc, cpu, intmask, stack, quit_program,
                 at_return, startvars>>

\* Mutant: the PC is not parked after a quit request.
EmulOpDone_NotParked ==
  /\ cpu = "emulop" /\ Top.todo = {}
  /\ MakeFromSR(Top.mask, {})
  /\ Pop
  /\ cpu' = "run"
  /\ UNCHANGED <<InterruptFlags, pc, quitvars, startvars>>

\* m68k_emulop restores A7 and the status register, and parks the PC on
\* EXEC_RETURN when a quit was requested.
EmulOpDone ==
  /\ cpu = "emulop" /\ Top.todo = {}
  /\ MakeFromSR(Top.mask, {})
  /\ Pop
  /\ at_return' = cpu_quit_requested
  /\ cpu' = "run"
  /\ UNCHANGED <<InterruptFlags, pc, quit_program, cpu_quit_requested, startvars>>

-----------------------------------------------------------------------------
(* m68k_execute and m68k_do_specialties. *)

\* m68k_reset, with producers already running: it wipes spcflags.
Reset ==
  /\ cpu = "reset"
  /\ spcflags' = {}
  /\ intmask' = 7
  /\ cpu' = "loop"
  /\ UNCHANGED <<InterruptFlags, pc, stack, quitvars, startvars>>

Leaving == quit_program \/ cpu_quit_requested

LoopAgain ==
  /\ cpu = "loop" /\ ~Leaving
  /\ cpu' = "run"
  /\ UNCHANGED <<flagvars, intmask, stack, quitvars, startvars>>

\* An inner m68k_execute returns to its Execute68k, which restores the PC but
\* neither the mask nor the frames an interrupt pushed meanwhile.
Execute68kDone ==
  /\ cpu = "loop" /\ Leaving
  /\ \E i \in Calls :
       /\ \A j \in Calls : j <= i
       /\ stack' = SubSeq(stack, 1, i - 1)
  /\ quit_program' = FALSE
  /\ at_return' = FALSE
  /\ cpu' = "emulop"
  /\ UNCHANGED <<flagvars, intmask, cpu_quit_requested, startvars>>

Start680x0Done ==
  /\ cpu = "loop" /\ Leaving /\ Calls = {}
  /\ cpu' = "exited"
  /\ UNCHANGED <<flagvars, intmask, stack, quitvars, startvars>>

\* Mutant: m68k_do_specialties does not look at cpu_quit_requested first.
Poll_IgnoresQuit ==
  /\ cpu = "run" /\ spcflags # {}
  /\ cpu' = "stop"
  /\ UNCHANGED <<flagvars, intmask, stack, quitvars, startvars>>

\* m68k_do_execute polls the special flags after every few instructions.
Poll ==
  /\ cpu = "run" /\ spcflags # {}
  /\ cpu' = IF cpu_quit_requested THEN "loop" ELSE "stop"
  /\ UNCHANGED <<flagvars, intmask, stack, quitvars, startvars>>

\* Test and clear of DOINT, then, in a step of its own, the pending sources.
ClearDoint(from, to) ==
  /\ cpu = from /\ "DOINT" \in spcflags
  /\ spcflags' = spcflags \ {"DOINT"}
  /\ cpu' = to
  /\ UNCHANGED <<InterruptFlags, pc, intmask, stack, quitvars, startvars>>

StopClearDoint == "STOP" \in spcflags /\ ClearDoint("stop", "stoplevel")

\* Mutant: the STOP flag outlives the interrupt that ends the wait.
StopLevel_KeepsStop ==
  /\ cpu = "stoplevel"
  /\ IF LevelAboveMask THEN Interrupt ELSE UNCHANGED <<stack, intmask>>
  /\ cpu' = "stop"
  /\ UNCHANGED <<flagvars, quitvars, startvars>>

StopLevel ==
  /\ cpu = "stoplevel"
  /\ IF LevelAboveMask
     THEN Interrupt /\ spcflags' = spcflags \ {"STOP"}
     ELSE UNCHANGED <<stack, intmask, spcflags>>
  /\ cpu' = "stop"
  /\ UNCHANGED <<InterruptFlags, pc, quitvars, startvars>>

StopOver ==
  /\ cpu = "stop" /\ "STOP" \notin spcflags
  /\ cpu' = "doint"
  /\ UNCHANGED <<flagvars, intmask, stack, quitvars, startvars>>

DoInt == ClearDoint("doint", "level")

NoDoInt ==
  /\ cpu = "doint" /\ "DOINT" \notin spcflags
  /\ cpu' = "brk"
  /\ UNCHANGED <<flagvars, intmask, stack, quitvars, startvars>>

Level ==
  /\ cpu = "level"
  /\ IF LevelAboveMask THEN Interrupt ELSE UNCHANGED <<stack, intmask>>
  /\ cpu' = "brk"
  /\ UNCHANGED <<flagvars, quitvars, startvars>>

Brk ==
  /\ cpu = "brk"
  /\ spcflags' = spcflags \ {"BRK"}
  /\ cpu' = IF "BRK" \in spcflags THEN "loop" ELSE "run"
  /\ UNCHANGED <<InterruptFlags, pc, intmask, stack, quitvars, startvars>>

-----------------------------------------------------------------------------
Producers == \E p \in Producer : SetInterruptFlag(p) \/ TriggerInterrupt(p)

GuestCode ==
  \/ \E m \in Mask : GuestSetSR(m) \/ GuestStop(m)
  \/ GuestRte
  \/ GuestWarmStart
  \/ ExecReturn
  \/ EmulOp
  \/ EmulOpIRQ

CCode ==
  \/ \E s \in Source : Serve(s)
  \/ Execute68k
  \/ QuitEmulator
  \/ EmulOpDone

Dispatch ==
  \/ Reset \/ LoopAgain \/ Execute68kDone \/ Start680x0Done
  \/ Poll \/ StopClearDoint \/ StopLevel \/ StopOver
  \/ DoInt \/ NoDoInt \/ Level \/ Brk

Next == Producers \/ GuestCode \/ CCode \/ Dispatch

Spec == Init /\ [][Next]_vars

\* The two cores keep running.
CoreFairness ==
  /\ \A p \in Producer : WF_vars(TriggerInterrupt(p))
  /\ WF_vars(Dispatch)

Depths == 1..MaxDepth + 2

\* At each nesting level the C code of an EmulOp serves what it took and
\* returns in the end, after finitely many calls of guest code.
OpDone == EmulOpDone \/ \E s \in Source : Serve(s)

FairSpec ==
  Spec /\ CoreFairness /\ \A d \in Depths : SF_vars(OpDone /\ Len(stack) = d)

\* Guest code that lets no STOP take effect with the mask raised...
PoliteNext == Next /\ (("STOP" \in spcflags' /\ cpu' = "run") => intmask' = 0)

\* ... lets the handlers and routines it runs return at each nesting level,
\* and does not raise the mask or return at every poll for ever.
FrameDone == GuestRte \/ (ExecReturn /\ ~at_return) \/ OpDone

GuestFairness ==
  /\ \A d \in Depths : SF_vars(FrameDone /\ Len(stack) = d)
  /\ SF_vars(GuestSetSR(0) /\ intmask # 0)
  /\ SF_vars(Poll /\ intmask = 0 /\ ~at_return)
  /\ SF_vars(EmulOpIRQ)

LiveSpec == Init /\ [][PoliteNext]_vars /\ CoreFairness /\ GuestFairness

-----------------------------------------------------------------------------
(* Properties. *)

\* No interrupt is lost between the two cores: a pending source whose level is
\* above the mask has DOINT set, or its DOINT is on its way (a producer is
\* between its two calls, or the CPU cleared DOINT and reads the level next).
\* It rests on the order of the two calls of a producer, on the order of
\* clear and read in m68k_do_specialties, and on the check in MakeFromSR.
NoLostInterrupt ==
  LevelAboveMask =>
    \/ "DOINT" \in spcflags
    \/ \E p \in Producer : pc[p] = "trigger"
    \/ cpu \in {"level", "stoplevel"}

\* Once QuitEmulator was called the CPU runs no guest instruction: when it is
\* in the dispatch loop the PC is parked on EXEC_RETURN, and it waits in no
\* STOP loop and takes no interrupt, at any nesting level.
QuitRunsNoGuest ==
  cpu_quit_requested =>
    cpu \in {"loop", "emulop", "exited"} \/ (cpu = "run" /\ at_return)

\* A CPU stopped with the mask open wakes up when a source is pending,
\* whatever guest code does.
StopWakes ==
  ("STOP" \in spcflags /\ cpu \in {"stop", "stoplevel"} /\ LevelAboveMask)
    ~> cpu \notin {"stop", "stoplevel"}

\* A quit request brings the emulation task out of every nesting level.
QuitExits == cpu_quit_requested ~> cpu = "exited"

\* The sources taken by EMUL_OP_IRQ calls that have not served them yet, at all
\* nesting levels.
Taken == UNION {stack[i].todo : i \in 1..Len(stack)}
Latch == INSTANCE IrqLatch WITH pending <- InterruptFlags, inService <- Taken,
                                on <- ~cpu_quit_requested,
                                Gated <- StartGated

\* Whatever guest code does, the steps of the interrupt path are steps of the
\* latch: EMUL_OP_IRQ takes the pending sources all at once and drops none that
\* it has to serve, a source stays in service until it is served, across the
\* calls of guest code in between, and none is taken after QuitEmulator.
LatchSafe == Latch!Safety

\* With guest code that lets interrupts through, a pending source is also taken
\* in the end unless QuitEmulator is called.
LatchSpec == Latch!Spec
=============================================================================
