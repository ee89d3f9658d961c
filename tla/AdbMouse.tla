------------------------------ MODULE AdbMouse ------------------------------
(***************************************************************************)
(* Mouse input: position, motion and buttons, from the tasks that call the *)
(* ADBMouse functions to the guest's cursor.                               *)
(*                                                                         *)
(* ADBMouseMoved and ADBInterrupt bracket the position with a mutex that   *)
(* is a no-op in this port, and the button ring has no lock and no check   *)
(* for being full: each load and store of shared state is a step.  The     *)
(* tasks are the input task, which handles touch and USB mice, and the     *)
(* automation task.  History variables say where that went wrong, until    *)
(* the next call repairs it.                                               *)
(***************************************************************************)
EXTENDS Integers, Sequences

CONSTANTS
  Task,
  Touch,          \* the tasks that read the touch panel
  Button,         \* Mac button numbers
  Uses,           \* bound: what the tasks may be called for, by task
  Reach,          \* bound: motion is added only to a position within it
  RingSize,       \* BUTTON_BUFFER_SIZE
  Clamp,          \* 63: the largest movement of one ADB packet
  Elsewhere       \* a cursor position that this code did not choose

ASSUME AdbMouseAssumption ==
  /\ Touch \subseteq Task
  /\ Uses \subseteq [Task -> [buttons: SUBSET Button,
                              points: SUBSET (Nat \X Nat), deltas: SUBSET Int]]
  /\ {Reach, Clamp} \subseteq Nat
  /\ RingSize \in Nat \ {0}
  /\ Elsewhere \notin Int \X Int

VARIABLES
  mouse_x, mouse_y, relative_mouse,
  button_buffer, button_read_ptr, button_write_ptr,
  adb_flag,      \* INTFLAG_ADB
  ready,         \* the Mac has started and its ADB manager has a base address
  use,           \* use[t]: the buttons, positions and movements task t reports
  pc,            \* pc[t]: where task t is in a call
  call,          \* call[t]: the position or movement it was called with
  event,         \* event[t]: the button event it was called with
  loaded,        \* loaded[t]: what it loaded to modify and store
  cpu,           \* where the CPU is in ADBInterrupt
  popping,       \* and in taking an event from the ring
  mx, my,        \* its locals
  old_mouse,     \* old_mouse_x, old_mouse_y
  mouse_button,  \* the buttons the guest's handler was last given
  cursor,        \* the guest's cursor position
  held,          \* history: the buttons whose last event was a press
  latest,        \* history: the absolute position last asked for
  mixed,         \* history: writers of the position overlapped, until a move alone
  clash,         \* history: puts overlapped, until one is alone
  lost,          \* history: buttons that lost an event, until their next one
  unserved       \* history: the flag was last taken before the guest was ready

posvars   == <<mouse_x, mouse_y, relative_mouse>>
ringvars  == <<button_buffer, button_read_ptr, button_write_ptr>>
irqvars   == <<adb_flag, ready, unserved>>
taskvars  == <<use, pc, call, event, loaded>>
cpuvars   == <<cpu, popping, mx, my, old_mouse>>
guestvars == <<mouse_button, cursor>>
movehist  == <<latest, mixed>>
puthist   == <<held, clash, lost>>
vars == <<posvars, ringvars, irqvars, taskvars, cpuvars, guestvars, movehist, puthist>>

Slot  == 0..RingSize - 1
Event == [button: {0} \union Button, down: BOOLEAN]

MoveSteps == {"zero_x", "zero_y", "moved", "add_x", "store_x", "load_y", "store_y"}
PutSteps  == {"slot", "advance"}

TypeOK ==
  /\ {mouse_x, mouse_y, mx, my} \subseteq Int
  /\ relative_mouse \in BOOLEAN
  /\ button_buffer \in [Slot -> Event]
  /\ {button_read_ptr, button_write_ptr} \subseteq Slot
  /\ {adb_flag, ready, unserved, mixed, clash} \subseteq BOOLEAN
  /\ use \in Uses
  /\ pc \in [Task -> {"idle", "flag"} \union MoveSteps \union PutSteps]
  /\ call \in [Task -> Int \X Int]
  /\ event \in [Task -> Event]
  /\ loaded \in [Task -> Int]
  /\ cpu \in {"idle", "read_y", "mode", "zero_x", "zero_y", "branch",
              "relative", "buttons"}
  /\ popping \in {"no", "take", "next"}
  /\ mouse_button \subseteq {0} \union Button
  /\ {held, lost} \subseteq SUBSET ({0} \union Button)
  /\ {latest, old_mouse} \subseteq Int \X Int
  /\ cursor \in (Int \X Int) \union {Elsewhere}

NoEvent == [button |-> 0, down |-> TRUE]

Init ==
  /\ mouse_x = 0 /\ mouse_y = 0 /\ relative_mouse = FALSE
  /\ button_buffer = [i \in Slot |-> NoEvent]
  /\ button_read_ptr = 0 /\ button_write_ptr = 0
  /\ adb_flag = FALSE /\ ready = FALSE
  /\ use \in Uses
  /\ pc = [t \in Task |-> "idle"]
  /\ call = [t \in Task |-> <<0, 0>>]
  /\ event = [t \in Task |-> NoEvent]
  /\ loaded = [t \in Task |-> 0]
  /\ cpu = "idle" /\ popping = "no" /\ mx = 0 /\ my = 0 /\ old_mouse = <<0, 0>>
  /\ mouse_button = {} /\ cursor = Elsewhere
  /\ held = {} /\ latest = <<0, 0>>
  /\ mixed = FALSE /\ clash = FALSE /\ lost = {} /\ unserved = FALSE

Goto(t, p) == pc' = [pc EXCEPT ![t] = p]

\* Mutant: the index is not reduced.
Advance_NoWrap(i) == i + 1

Advance(i) == (i + 1) % RingSize
RingEmpty  == button_read_ptr = button_write_ptr

\* The slot of the oldest event the CPU has not read.
ReadAt == IF popping = "next" THEN Advance(button_read_ptr) ELSE button_read_ptr

-----------------------------------------------------------------------------
(* ADBSetRelMouseMode and ADBMouseMoved. *)

\* Somebody is storing a position: a task, or the CPU that clears it.
PositionBusy == cpu \in {"zero_x", "zero_y"} \/ \E t \in Task : pc[t] \in MoveSteps

BeginMove(t, p, step) ==
  /\ pc[t] = "idle"
  /\ relative_mouse /\ step = "moved" => {mouse_x, mouse_y} \subseteq -Reach..Reach
  /\ call' = [call EXCEPT ![t] = p]
  /\ Goto(t, step)
  /\ mixed' = PositionBusy
  /\ UNCHANGED <<mouse_x, mouse_y, ringvars, irqvars, use, event, loaded, cpuvars,
                 guestvars, puthist>>

\* A caller that sets the mode first.  A change of mode clears the position.
MoveInMode(t, p, relative) ==
  /\ relative_mouse' = relative
  /\ BeginMove(t, p, IF relative_mouse = relative THEN "moved" ELSE "zero_x")

\* A first touch, an automation command.
MoveTo(t) == \E p \in use[t].points : MoveInMode(t, p, FALSE) /\ latest' = p

\* A USB mouse with movement, an automation command.
MoveBy(t) == \E d \in use[t].deltas : MoveInMode(t, <<d, 0>>, TRUE) /\ UNCHANGED latest

\* A touch that drags calls ADBMouseMoved in whatever mode there is.
Drag(t) == \E p \in use[t].points :
  /\ t \in Touch
  /\ UNCHANGED relative_mouse
  /\ BeginMove(t, p, "moved")
  /\ latest' = p

ZeroX(t) ==
  /\ pc[t] = "zero_x"
  /\ mouse_x' = 0
  /\ Goto(t, "zero_y")
  /\ UNCHANGED <<mouse_y, relative_mouse, ringvars, irqvars, use, call, event, loaded,
                 cpuvars, guestvars, movehist, puthist>>

ZeroY(t) ==
  /\ pc[t] = "zero_y"
  /\ mouse_y' = 0
  /\ Goto(t, "moved")
  /\ UNCHANGED <<mouse_x, relative_mouse, ringvars, irqvars, use, call, event, loaded,
                 cpuvars, guestvars, movehist, puthist>>

\* ADBMouseMoved branches on the mode.  Relative motion is added to each
\* coordinate by a load and a store; an absolute position is stored.
Moved(t) ==
  /\ pc[t] = "moved"
  /\ loaded' = [loaded EXCEPT ![t] = IF relative_mouse THEN mouse_x ELSE 0]
  /\ Goto(t, IF relative_mouse THEN "add_x" ELSE "store_x")
  /\ UNCHANGED <<posvars, ringvars, irqvars, use, call, event, cpuvars, guestvars,
                 movehist, puthist>>

StoreX(t) ==
  /\ pc[t] \in {"add_x", "store_x"}
  /\ mouse_x' = loaded[t] + call[t][1]
  /\ loaded' = [loaded EXCEPT ![t] = 0]
  /\ Goto(t, IF pc[t] = "add_x" THEN "load_y" ELSE "store_y")
  /\ UNCHANGED <<mouse_y, relative_mouse, ringvars, irqvars, use, call, event,
                 cpuvars, guestvars, movehist, puthist>>

LoadY(t) ==
  /\ pc[t] = "load_y"
  /\ loaded' = [loaded EXCEPT ![t] = mouse_y]
  /\ Goto(t, "store_y")
  /\ UNCHANGED <<posvars, ringvars, irqvars, use, call, event, cpuvars, guestvars,
                 movehist, puthist>>

StoreY(t) ==
  /\ pc[t] = "store_y"
  /\ mouse_y' = loaded[t] + call[t][2]
  /\ loaded' = [loaded EXCEPT ![t] = 0]
  /\ call' = [call EXCEPT ![t] = <<0, 0>>]
  /\ Goto(t, "flag")
  /\ UNCHANGED <<mouse_x, relative_mouse, ringvars, irqvars, use, event, cpuvars,
                 guestvars, movehist, puthist>>

-----------------------------------------------------------------------------
(* ADBMouseDown and ADBMouseUp. *)

Putting(t) == pc[t] \in PutSteps
ButtonsInSlots == {button_buffer[i].button : i \in Slot}

\* A press or release: the write pointer is loaded.  Nothing keeps another task
\* out, and two at work may show the CPU any slot once more, or never.
StartPut(t) == \E b \in use[t].buttons, down \in BOOLEAN :
  /\ pc[t] = "idle"
  /\ event' = [event EXCEPT ![t] = [button |-> b, down |-> down]]
  /\ loaded' = [loaded EXCEPT ![t] = button_write_ptr]
  /\ Goto(t, "slot")
  /\ held' = IF down THEN held \union {b} ELSE held \ {b}
  /\ clash' = \E u \in Task : Putting(u)
  /\ lost' = IF clash' THEN lost \union ButtonsInSlots
                            \union {event'[u].button : u \in {v \in Task : v = t \/ Putting(v)}}
             ELSE lost
  /\ UNCHANGED <<posvars, ringvars, irqvars, use, call, cpuvars, guestvars, movehist>>

\* The store into the ring; nothing checks that the slot is free.
StoreSlot(t) ==
  /\ pc[t] = "slot"
  /\ button_buffer' = [button_buffer EXCEPT ![loaded[t]] = event[t]]
  /\ Goto(t, "advance")
  /\ UNCHANGED <<posvars, button_read_ptr, button_write_ptr, irqvars, use, call, event,
                 loaded, cpuvars, guestvars, movehist, puthist>>

\* The write pointer comes round to the read pointer: a full ring looks empty.
Laps(t) == Advance(loaded[t]) = ReadAt

AdvanceWrite(t) ==
  /\ pc[t] = "advance"
  /\ button_write_ptr' = Advance(loaded[t])
  /\ loaded' = [loaded EXCEPT ![t] = 0]
  /\ event' = [event EXCEPT ![t] = NoEvent]
  /\ Goto(t, "flag")
  /\ lost' = IF clash THEN lost
             ELSE IF Laps(t) THEN lost \union ButtonsInSlots
             ELSE lost \ {event[t].button}
  /\ UNCHANGED <<posvars, button_buffer, button_read_ptr, irqvars, use, call, cpuvars,
                 guestvars, movehist, held, clash>>

\* SetInterruptFlagIfNew(INTFLAG_ADB), and the call returns.
RaiseAdb(t) ==
  /\ pc[t] = "flag"
  /\ adb_flag' = TRUE
  /\ unserved' = FALSE
  /\ Goto(t, "idle")
  /\ UNCHANGED <<posvars, ringvars, ready, use, call, event, loaded, cpuvars,
                 guestvars, movehist, puthist>>

-----------------------------------------------------------------------------
(* ADBInterrupt. *)

GuestReady ==
  /\ ~ready
  /\ ready' = TRUE
  /\ UNCHANGED <<posvars, ringvars, adb_flag, unserved, taskvars, cpuvars,
                 guestvars, movehist, puthist>>

Cpu(from, to) == cpu = from /\ cpu' = to

\* The position is read one word at a time.
ReadX == Cpu("idle", "read_y") /\ mx' = mouse_x

\* EMUL_OP_IRQ takes the flag; before the Mac has started, or has an ADB base,
\* the flag is spent for nothing.
AdbIrq ==
  /\ cpu = "idle" /\ adb_flag
  /\ adb_flag' = FALSE
  /\ unserved' = ~ready
  /\ IF ready THEN ReadX ELSE UNCHANGED <<cpu, mx>>
  /\ UNCHANGED <<posvars, ringvars, ready, taskvars, popping, my, old_mouse,
                 guestvars, movehist, puthist>>

\* DebugUtil(duDebuggerPoll): the guest calls ADBInterrupt without a flag.
DebuggerPoll ==
  /\ ready /\ ReadX
  /\ unserved' = FALSE
  /\ UNCHANGED <<posvars, ringvars, adb_flag, ready, taskvars, popping, my,
                 old_mouse, guestvars, movehist, puthist>>

\* Mutant: the flag is cleared after the position has been read.
ReadY_ClearsFlag ==
  /\ Cpu("read_y", "mode")
  /\ my' = mouse_y
  /\ adb_flag' = FALSE
  /\ UNCHANGED <<posvars, ringvars, ready, unserved, taskvars, popping, mx,
                 old_mouse, guestvars, movehist, puthist>>

ReadY ==
  /\ Cpu("read_y", "mode")
  /\ my' = mouse_y
  /\ UNCHANGED <<posvars, ringvars, irqvars, taskvars, popping, mx, old_mouse,
                 guestvars, movehist, puthist>>

\* Relative motion that has been read is cleared, whoever is storing meanwhile.
CheckMode ==
  /\ Cpu("mode", IF relative_mouse THEN "zero_x" ELSE "branch")
  /\ mixed' = (mixed \/ (relative_mouse /\ PositionBusy))
  /\ UNCHANGED <<posvars, ringvars, irqvars, taskvars, popping, mx, my, old_mouse,
                 guestvars, latest, puthist>>

CpuZeroX ==
  /\ Cpu("zero_x", "zero_y")
  /\ mouse_x' = 0
  /\ UNCHANGED <<mouse_y, relative_mouse, ringvars, irqvars, taskvars, popping,
                 mx, my, old_mouse, guestvars, movehist, puthist>>

CpuZeroY ==
  /\ Cpu("zero_y", "branch")
  /\ mouse_y' = 0
  /\ UNCHANGED <<mouse_x, relative_mouse, ringvars, irqvars, taskvars, popping,
                 mx, my, old_mouse, guestvars, movehist, puthist>>

\* The mode is read again.  An absolute position is written to the guest's
\* cursor, unless it is the one that was written last.
Branch ==
  /\ Cpu("branch", IF relative_mouse THEN "relative" ELSE "buttons")
  /\ IF relative_mouse THEN UNCHANGED <<mx, my, old_mouse, cursor>>
     ELSE /\ mx' = 0 /\ my' = 0
          /\ old_mouse' = <<mx, my>>
          /\ cursor' = IF <<mx, my>> # old_mouse THEN <<mx, my>> ELSE cursor
  /\ UNCHANGED <<posvars, ringvars, irqvars, taskvars, popping, mouse_button,
                 movehist, puthist>>

InLoop == cpu \in {"relative", "buttons"}

\* One of the two loops finds the ring not empty.
FindEvent ==
  /\ InLoop /\ popping = "no" /\ ~RingEmpty
  /\ popping' = "take"
  /\ UNCHANGED <<posvars, ringvars, irqvars, taskvars, cpu, mx, my, old_mouse,
                 guestvars, movehist, puthist>>

\* Mutant: the latest event is taken.
PopButton_Latest ==
  /\ popping = "take" /\ popping' = "next"
  /\ LET e == button_buffer[(button_write_ptr - 1) % RingSize] IN
       mouse_button' = IF e.down THEN mouse_button \union {e.button}
                       ELSE mouse_button \ {e.button}
  /\ UNCHANGED <<posvars, ringvars, irqvars, taskvars, cpu, mx, my, old_mouse,
                 cursor, movehist, puthist>>

\* The event is read and changes the button state, of which the next packet
\* tells the guest.
PopButton ==
  /\ popping = "take" /\ popping' = "next"
  /\ LET e == button_buffer[button_read_ptr] IN
       mouse_button' = IF e.down THEN mouse_button \union {e.button}
                       ELSE mouse_button \ {e.button}
  /\ UNCHANGED <<posvars, ringvars, irqvars, taskvars, cpu, mx, my, old_mouse,
                 cursor, movehist, puthist>>

\* The movement that fits into one packet.
Packet(d) == IF d > Clamp THEN Clamp ELSE IF d < -Clamp - 1 THEN -Clamp - 1 ELSE d

\* A packet moves the cursor from where it is.
SendMotion ==
  /\ mx' = mx - Packet(mx)
  /\ my' = my - Packet(my)
  /\ cursor' = IF mx = 0 /\ my = 0 THEN cursor ELSE Elsewhere

\* The read pointer moves on.  In relative mode a packet carries motion as well.
AdvanceRead ==
  /\ popping = "next" /\ popping' = "no"
  /\ button_read_ptr' = Advance(button_read_ptr)
  /\ IF cpu = "relative" THEN SendMotion ELSE UNCHANGED <<mx, my, cursor>>
  /\ UNCHANGED <<posvars, button_buffer, button_write_ptr, irqvars, taskvars, cpu,
                 old_mouse, mouse_button, movehist, puthist>>

RelativePacket ==
  /\ cpu = "relative" /\ popping = "no" /\ RingEmpty
  /\ mx # 0 \/ my # 0
  /\ SendMotion
  /\ UNCHANGED <<posvars, ringvars, irqvars, taskvars, cpu, popping, old_mouse,
                 mouse_button, movehist, puthist>>

\* Mutant: the loops run for the motion only.
LoopDone_MotionOnly ==
  /\ InLoop /\ cpu' = "idle"
  /\ popping = "no" /\ mx = 0 /\ my = 0
  /\ UNCHANGED <<posvars, ringvars, irqvars, taskvars, popping, mx, my, old_mouse,
                 guestvars, movehist, puthist>>

LoopDone ==
  /\ InLoop /\ cpu' = "idle"
  /\ popping = "no" /\ mx = 0 /\ my = 0 /\ RingEmpty
  /\ UNCHANGED <<posvars, ringvars, irqvars, taskvars, popping, mx, my, old_mouse,
                 guestvars, movehist, puthist>>

-----------------------------------------------------------------------------
Client(t) == MoveTo(t) \/ MoveBy(t) \/ Drag(t) \/ StartPut(t)

Running(t) == \/ ZeroX(t) \/ ZeroY(t) \/ Moved(t) \/ StoreX(t) \/ LoadY(t)
              \/ StoreY(t) \/ StoreSlot(t) \/ AdvanceWrite(t) \/ RaiseAdb(t)

AdbInterrupt == \/ AdbIrq \/ DebuggerPoll \/ ReadY \/ CheckMode \/ CpuZeroX
                \/ CpuZeroY \/ Branch \/ FindEvent \/ PopButton \/ AdvanceRead
                \/ RelativePacket \/ LoopDone

Next == AdbInterrupt \/ GuestReady \/ \E t \in Task : Client(t) \/ Running(t)

Spec == Init /\ [][Next]_vars

-----------------------------------------------------------------------------
(* Properties. *)

\* No call is under way, the CPU has nothing left to do, and no input was met
\* by a guest that was not ready for it.
AtRest == cpu = "idle" /\ ~adb_flag /\ ~unserved /\ \A t \in Task : pc[t] = "idle"

\* When all is quiet the guest's buttons are as their last events say, except
\* those that lost an event, and that only until the next one (ADBMouseDown,
\* ADBMouseUp, ADBInterrupt): a ring that fills up harms the buttons whose events
\* are in it, two tasks that put at once those of the ring and their own.
ButtonsFollow ==
  AtRest => \A b \in Button \ lost : b \in mouse_button <=> b \in held

\* The events published and not yet read.
InRing == [i \in 1..((button_write_ptr - ReadAt) % RingSize) |->
             LET e == button_buffer[(ReadAt + i - 1) % RingSize] IN
             [key |-> e.button, down |-> e.down]]
Ring == INSTANCE EventQueue WITH queue <- InRing, down <- mouse_button,
          Item <- [key: Button, down: BOOLEAN], Capacity <- RingSize - 1

\* A put that another one overlaps, the put that fills the ring, and the read of
\* an event that the ring has been filled over in the meantime.
Disturbed ==
  \/ clash /\ \E t \in Task : Putting(t) /\ pc'[t] # pc[t]
  \/ \E t \in Task : pc[t] = "advance" /\ pc'[t] # pc[t] /\ Laps(t)
  \/ popping = "take" /\ popping' # popping /\ RingEmpty

\* Every step but those takes the events of the ring as a queue: it adds one at
\* the end, or tells the guest the oldest, in either mode and across changes of
\* it, and a disturbance does not outlast its step (ADBMouseDown, ADBMouseUp,
\* ADBInterrupt).
ButtonsInOrder == [][Disturbed \/ Ring!Next]_<<InRing, mouse_button>>

\* When all is quiet in absolute mode, the cursor stands at the position last
\* asked for, or motion has moved it since that very position was written, which
\* is then not written again (ADBMouseMoved, ADBInterrupt).  Two writers of the
\* position at once may leave it anywhere, until the next move.
CursorFollows ==
  AtRest /\ ~relative_mouse /\ ~mixed
    => old_mouse = latest /\ cursor \in {latest, Elsewhere}
=============================================================================
