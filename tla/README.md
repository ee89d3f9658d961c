# Verification of the M5Tab Macintosh emulator

TLA+ models of the parts of this firmware whose correctness rests on the order
of steps: the two cores of an ESP32-P4 that share flags and rings, a renderer
that chases a guest's stores, packets in recycled buffers, saves that a power
cut can meet, a host that retries over a line that loses. TLC checks the models
on small instances; TLAPS proves the main results for every value of the
constants.

The firmware is a port of Basilisk II. One task on core 1 runs the 68k guest
and all of Basilisk's C code. Tasks on core 0 (input, video, audio, network,
serial automation) and timer callbacks feed it through flags, rings and guest
memory. Most mutexes of the original are empty functions here, so the code
relies on atomics and on the order of loads and stores.

## 1. Inventory

| Component | State | Operations | Interacts by |
|---|---|---|---|
| Interrupt delivery and dispatch (`newcpu.cpp`, `basilisk_glue.cpp`, `emul_op.cpp`, `main_esp32.cpp`) | `InterruptFlags`, `spcflags`, status register, nesting of `Execute68k`, quit flags | `SetInterruptFlag`, `TriggerInterrupt`, `m68k_do_specialties`, `EMUL_OP_IRQ`, `Execute68k`, `QuitEmulator` | every producer sets flags; the CPU polls |
| Keyboard (`input_shared_state.inc`, `adb.cpp`) | claim counts, key ring | `claimAdbKey`, `releaseAdbKey`, `ADBKeyDown/Up`, `ADBInterrupt` | a mutex among producers, a lock-free ring to the CPU |
| Mouse (`adb.cpp`, `touch_overlay.cpp`) | position, mode, button ring | `ADBMouseMoved/Down/Up`, `ADBSetRelMouseMode`, `ADBInterrupt` | plain shared variables |
| USB host and HID (`input_esp32.cpp`) | device slots, reports, pressed buttons | enumerate, report, disconnect | calls the two above |
| Display power (`power_manager.cpp`, `board_power.cpp`) | `guest_sleeping`, `wake_requested`, `idle_state`, time of activity | `_Sleep`, idle poll, note activity, wake | volatile variables of three threads |
| Persistence (`main_esp32.cpp`, `sys_esp32.cpp`, `xpram_esp32.cpp`, `mac_clock_esp32.cpp`, `main.cpp`) | dirty handles, XPRAM and its shadow, clock, files | `basilisk_loop`, `SaveXPRAM`, `MacClockSave`, `ExitAll`, restart, boot | timers, the card, NVS |
| Serial automation (`automation.cpp`, `tools/mac_control.py`) | session, tag and answer of the last request; the host's request number | `processCommand`, `protocolReply`; `connect`, `request` | lines over USB, calls into input, power and BOOT |
| BOOT commands (`boot_gui.cpp`, `main.cpp`) | request and reply queue, ids, deadlines, phase, restart time and cookie | `BootGUI_ControlRequest`, `BootGUI_ControlPoll`, `controlExecute`, `BootGUI_Restart` | queues between the serial task and the main task, which is also the CPU |
| Time Manager (`timer.cpp`) | list of descriptors, queue in guest memory | `InsTime`, `PrimeTime`, `RmvTime`, `TimerInterrupt` | re-entered by guest tasks |
| Network (`net_router.cpp`, `ether_esp32.cpp`) | packet queue and its buffers, table of connections | `ether_write`, `router_poll`, `handle_tcp`, enqueue and dequeue, `ether_exit` | queue, connection mutex, interrupt |
| Display pipeline (`video_esp32.cpp`, `touch_overlay.cpp`, `memory.cpp`) | damage flags, dirty tiles, mode, palette, the overlay's look, frame buffer | stores, mode and palette change, `renderPendingFrame`, captures, `VideoExit` | atomics, a spinlock and the capture mutex |
| Audio (`audio_esp32.cpp`, `audio.cpp`) | sources, stream info, completion semaphore | request a block, complete, play | interrupt and semaphore |
| Drivers, host file system, patches, QuickDraw, CPU core, AOT, preferences | sequential state on the emulation task | | calls |

What is hard, and what each must get right:

- *Interrupts.* Flag and trigger are two stores, clear and read two more; the
  CPU nests through C code. No interrupt may be lost, a stopped CPU must wake
  up, a quit must unwind every level.
- *Keys and mouse.* A ring may be full; two tasks may hold one key; the flag may
  be spent before the guest is ready. The guest must end with what is held.
- *Display power.* Three threads store to the same variables one after the
  other. Activity must end a sleep and light the display.
- *Persistence.* Two flush triggers share a timer, saves fail, power goes at any
  step. Loss must be bounded, a clean stop must lose nothing.
- *Time Manager.* The list changes under the loop that walks it.
- *Network.* Buffers are recycled while they are queued or read; segments are
  lost, repeated, late. The guest's stream must stay in order, end only where it
  ends, and a dead connection must give its slot back.
- *Display.* Damage must not be taken without its pixels, and must outlive a
  frame that failed; the buffer must outlive its readers.
- *Serial, BOOT.* Lines are lost and repeated, answers are late, the device
  restarts. A command must act once, and never after its client has gone on.

`PROJECT.json` lists the hazards at their lines with the properties about them,
or the reason why there is none.

## 2. Modules

| Module | Models | Rests on |
|---|---|---|
| `Interrupts` | producers, the poll, STOP, exceptions, `EMUL_OP_IRQ`, nested `Execute68k`, quit | implements `IrqLatch` |
| `IrqLatch` | abstract: sources are raised, taken together, served once | |
| `EventQueue` | abstract: an event put into a ring is handled once, as it was put in, in order | |
| `AdbKeys` | claims, key ring, `ADBInterrupt`'s key loop | flag hand-over of `Interrupts`; implements `EventQueue` |
| `AdbMouse` | each load and store of position, mode and button ring | flag hand-over of `Interrupts`; implements `EventQueue` |
| `DisplayPower` | `_Sleep`, idle poll, wake, each store a step | |
| `Persistence` | `basilisk_loop`, XPRAM, clock, shutdown, restart, boot, power cut | |
| `Video` | stores and damage, mode and palette, overlay, the video task, captures, `VideoExit` | |
| `Network` | packet ring and queue, TCP connections, `net_rx_task`, `EtherInterrupt`, `ether_exit` | interrupt of `Interrupts` |
| `OnceOnly` | abstract: requests act in order, at most once, and OK is said only of one that did | |
| `HostControl` | the host's retries, the serial task, the BOOT queues, the restart into settings, crashes | implements `OnceOnly` |
| `InterruptsProofs`, `AdbKeysProofs`, `AdbMouseProofs`, `DisplayPowerProofs`, `PersistenceProofs`, `VideoProofs`, `NetworkProofs`, `HostControlProofs` | theorems | the modules they extend |
| `MC...` | small instances for TLC | |

Variables keep the names of the source where it has one; the others are control
points (`pc`, `cpu`), and history variables, marked `history:`, that only
properties read. Definitions named `X_Something` and commented `Mutant:` are
wrong versions of `X`; nothing in the specifications uses them. They show that a
property fails when the code is wrong in that way.

**Interrupts.** `stack` is the nesting of the emulation task: exception frames
(`int`), EmulOp handlers in C (`op`) and `Execute68k` calls (`exec`). The guest
is an environment that chooses instructions freely, except that the ROM's
level-1 handler runs `EMUL_OP_IRQ` once. `Poll` stands for the look at the
special flags in `m68k_do_execute`; as the source looks only every eight
instructions, guest actions may come between a flag and the poll. Trace and JIT
flags are never set in this build.

**AdbKeys.** `owned` is what each source holds; `ClaimAdbKey` and
`ReleaseAdbKey` are the critical sections of `claimAdbKey` and `releaseAdbKey`,
and `PutKey`, `DropKey`, `PublishKey`, `RaiseAdb`, `GiveMutex` the steps of
`ADBKeyDown` and `ADBKeyUp` under the mutex. `AdbIrq` to `KeysDone` is the drain
on the CPU. An overflowing ring drops the event and keeps the claim, as the code
does.

**AdbMouse.** One action per load and store, because neither the position nor
the button ring has a lock. A read-modify-write of `mouse_x` is two steps.
`Client` is a call by the input task (a first touch, a drag, a USB mouse, a
button) or the automation task, `Running` the steps of the call; neither waits
for the other. `AdbIrq` to `LoopDone` is `ADBInterrupt`, entered by the flag or
by `DebuggerPoll`; before the guest is `ready` (the Mac has started, and its ADB
manager has a base address) the flag is taken for nothing. A put looks neither
for another put nor for room. Where that does harm, history variables say so:
`mixed` (writers of the position overlapped; until a move that begins alone),
`clash` (puts overlap), `lost` (buttons that lost an event; each until its next
one) and `unserved` (the last flag was taken before the guest was ready).

**DisplayPower.** One action per store of `display_sleep_until_wake`,
`PowerManagerWake`, `PowerManagerNoteActivity`, `PowerManagerIdlePoll` and the
`SleepDisplay` service. The board's `SetDisplayState`, which takes a mutex, is
one step. `idle` is the time since `last_activity_ms`; the poll reads the clock
and the time of activity in two steps.

**Persistence.** Time is ticks, and `basilisk_loop` comes due after `Quantum`
ticks of *executing* time, because the source counts instructions. So it does
not come while the guest waits in STOP or `_Sleep`. `SaveXPRAM` is three steps,
so that a power cut or a failure may come between the truncation, the write and
the flush. `PowerCut` may come at every step, and `Boot` starts from what the
card and NVS hold.

**Video.** A store writes its pixels in one step and raises its damage flags one
by one; a span of pixels is one tile wide at every depth, so a flag is a tile.
`vpc` is the video task: `Wake`, `Capture` (mode and palette under the
spinlock), `Drain` and `Collect` (flags word by word, then the tiles the overlay
marked), the splash gate, `BeginFrame` (the overlay's look), `DrawTile` and
`EndTiles`. Pixels are not modelled: `panel` has the mode, palette and keys a
tile was drawn with, and `behind` the tiles a byte of which is newer than the
panel. When writing back fails (`NotWritten`), nothing is known of the batch's
tiles: each is `Torn`, a picture that may be the new one, the old one or parts
of both, and any that showed the splash may show it still. `BeginTiles` is never
refused: it fails only where the board's display could not be set up, and then
`setup` has halted. Captures by the automation task hold the renderer back;
`VideoExit` waits for it without a limit, then takes the mutex and frees the
buffer.

**Network.** `router_enqueue_packet` is four steps of either of two tasks: take
the next buffer in turn, start and end the copy, send the buffer's number to the
queue. The number of buffers is the number of queue places, so with the queue
full a buffer is refilled while its old number is queued: packets are lost, seen
twice or torn (the guest's checksum refuses those). `Segment` is `handle_tcp`
with its states; `PollData` moves the sequence number whether or not the
packet found room. The guest's TCP and the remote host are environments: the
guest takes a segment only with the number it waits for, and may send any
segment its state allows, again and again. A position in the stream stands for
the byte, so `got[i] = i` says that nothing was taken for anything else. ARP,
ICMP and UDP are "other" packets that fill the ring. Steps under the connection
mutex are one action.

**HostControl.** `Connect` to `HostRead` are the host, whose `request()` sends
the same envelope again until its tag is answered; `Ping` to `WaitRunsOut` the
serial task, which handles one line at a time and keeps the last answer;
`ControlRequest` to `Age` the one-place queues; `Poll` to `PollReply` the main
task, whose `phase` says who calls the poll: the splash (once), the settings
screen, the CPU loop when `boot_control_pending` is set or its maintenance tick
comes, or the loop after the guest has stopped. A guest in `_Sleep`
(`GuestSleeps`, `GuestWakes`) parks the main task where it does not poll.
`Restart` keeps the cookie,
`Crash` may come at any step and does not. What is in the serial line survives
both. Of the commands there is one of each kind: "input" acts at once in the
serial task, or is refused there (keys before the emulator runs, TOUCH once it
does); SET and START act in the settings screen, ENTER anywhere. Time is one
order of events: a request expires (3 s) before the wait for its answer ends
(4 s). The code compares the time before it begins the work, so this rests on an
assumption: a BOOT command that was taken in time ends within the second in
between. A write of the settings or a RESCAN of the card that takes longer would
act after its client has been told that it failed.

## 3. Runs

| Run | Checks | Result | Bounds |
|---|---|---|---|
| `interrupts` | `TypeOK`, `NoLostInterrupt`, `QuitRunsNoGuest`, `LatchSafe` (`Interrupts` implements `IrqLatch`, safety), `StopWakes`, `QuitExits` | holds | 2 producers (one gated until the Mac has started, one that triggers always), `MaxDepth` 3 |
| `interrupts_latch` | `Interrupts` implements `IrqLatch` with its liveness | holds | `MaxDepth` 2 |
| `keys` | `TypeOK`, `GuestSeesClaims`, `NoStrandedKey`, `KeysInOrder` (the ring implements `EventQueue`), `EveryKeyDelivered` | holds | 2 sources on 2 tasks, 2 keys, ring of 3 |
| `mouse` | `TypeOK`, `CursorFollows`, `ButtonsFollow`, `ButtonsInOrder` (the ring implements `EventQueue`) | holds | 2 tasks with 7 divisions of work, 2 buttons, 3 positions, motion of 1, packets of 1, ring of 3 |
| `power` | `SleepEndsByRequest`, `ActivityEndsSleep` | holds | input, CPU, automation; dim at 1, blank at 2 |
| `power_service` | `DisplayFollowsIdleState` | violated | no timeouts, the guest turns the display off |
| `persistence` | `TypeOK`, `LossBounded`, `SettingSaved`, `ShadowOnCard`, `CleanStop` | holds | 2 images, 2 settings, intervals 3, 1 and 4, quantum 2, 1 change of date |
| `persistence_cut` | `SettingsSurvive` | violated | same |
| `video` | `TypeOK`, `DamagePending`, `HandoffWhole`, `BufferLive` | holds | 2 tiles in one word, 4 bytes, 2 depths, 2 palettes, keys on one tile |
| `video_live` | `PanelCatchesUp`, `ExitEnds` | holds | the same tiles, 2 bytes, 1 depth, 1 palette |
| `network` | `TypeOK`, `GuestStream`, `EndIsWhole`, `RouterLive`, `Delivered`, `SlotsFreed` | holds | 1 buffer and queue place, 1 slot, 1 port, 2 bytes |
| `control` | `TypeOK`, `ReadBackIsFinal`, `NothingForgotten`, `ActsOnce` (`HostControl` implements `OnceOnly`), `EnterReachesSettings` | holds | 4 kinds of commands, 2 requests of 2 attempts, 2 boots, 1 line each way |

### What they show

- `NoLostInterrupt`: whenever a pending source is above the mask, DOINT is set
  or a step that sets or reads it is under way. `StopWakes` and `QuitExits`:
  the STOP wait and every nesting level end.
- `LatchSafe`: whatever interrupts what and however deep, the sources pending
  are taken together, and each taken is served once, or dropped with the taking
  where the Mac has not started and the source waits for that. `LatchSpec`: each
  raised source is served. The specification of this run assumes more of the
  guest (below).
- `GuestSeesClaims`: once it has handled what the ring holds, the guest has the
  keys some source holds and no others, except a key whose own last event was
  dropped. `NoStrandedKey` and `EveryKeyDelivered`: no event waits in the ring
  for the next one, unless its flag was spent before the guest was ready
  (`unserved`).
- `KeysInOrder`, `ButtonsInOrder`: what a task stores in a ring without a lock
  to the CPU is handled once, as it was stored, in order; a full key ring drops
  the event before it is in. The button ring has no check for being full and two
  tasks that write it, so `ButtonsInOrder` names the steps that are none of a
  queue's (`Disturbed`): a put that another overlaps, the put that fills the
  ring, the read of an event the ring was filled over. Every other step is one of
  a queue, also after those.
- `CursorFollows`: at rest in absolute mode the position last written to the
  guest is the one last asked for, although the CPU reads the coordinates while
  they are stored. The cursor is there, or motion has moved it since: a touch on
  the very position that was written last writes nothing. Exempt are writers of
  the position that overlapped, until a move alone. `ButtonsFollow`: at rest the
  guest's buttons are as their last events say, except those that lost an event,
  and each of these only until its next one. Both exempt a flag that was spent
  before the guest was ready, until the next.
- `SleepEndsByRequest`: a sleep ends only by a request made since it began, and
  a request that finds the guest asleep is not dropped, by whichever thread.
  `ActivityEndsSleep`: a touch ends a sleep at whatever step of its way in the
  CPU is.
- `LossBounded`, `SettingSaved`: while the guest executes, neither writes that
  keep coming nor a save in between puts a flush off. `ShadowOnCard`: the
  comparison that skips a save is right, across errors and boots. `CleanStop`:
  a shutdown and a serial restart lose nothing.
- `DamagePending`: a tile of the panel that is out of date, in pixels, depth,
  palette or keys, has damage still to be drawn, at every step. It rests on the
  order of pixels before flags, look before damage, flags before copy, and on a
  full redraw after a change of mode met half-way. `PanelCatchesUp` is what
  follows when the changes stop. `HandoffWhole`: until the handoff the panel
  shows all of the splash; from it on, outside a batch, splash is left only where
  the next batch draws again, so none outlives a batch that was written back,
  however many failed before.
  `BufferLive`, `ExitEnds`: `VideoExit` waits for the readers, and gets done.
- `GuestStream`, `EndIsWhole`: the ring loses, repeats and tears packets, and a
  lost one is never sent again, so a connection may stall; but the guest never
  takes a byte or an end for another. `SlotsFreed`: such a connection expires.
  `Delivered`: a queue that is not empty is fetched from, also when the CPU itself
  enqueued; a packet overwritten in its buffer counts as what it has become. `RouterLive`:
  nothing is freed under a poll.
- `ActsOnce`: whatever is lost, repeated, late or restarted, a request acts at
  most once, in order, and OK is said only of one that acted.
  `ReadBackIsFinal`: after an OK nothing asked for earlier can still act, so
  what the host reads back stays true. It rests on the expiry being shorter than
  the wait and on the comparison of ids. `NothingForgotten`: the flag covers
  the queue (`NoForgottenRequest`), and the restart into settings stays asked
  for (`EnterRemembered`), by a flag that each poll stores anew and then by the
  cookie, until the screen is entered or a crash loses it.
  `EnterReachesSettings`: the restart comes although the guest may be stopped,
  or sleep and wake, and other requests are polled meanwhile; a guest that sleeps
  for good, with nobody to touch the screen, puts it off for good.

### Findings

1. `power_service`: a blank by the idle poll and the guest's own `SleepDisplay`
   call leave `idle_state` and the display different; the next touch does not
   light the display.
2. `persistence_cut`: the XPRAM file is truncated before it is written. Power
   lost in between loses the old setting and the new one.

Each is described with the line and the statement it contradicts in
`PROJECT.json`. More limits of the code shape the models. Where
nothing in the repository says otherwise they are no findings, but exemptions
that the properties name:

- two tasks that put button events at once take one slot of the ring, or move
  the write pointer back, and one event more than the ring holds makes it look
  empty; the buttons concerned are wrong until their next event (`lost`);
- two writers of the mouse position at once, of which one may be the CPU that
  clears it, leave it anywhere until the next move (`mixed`); a drag adds its
  position to the motion if the mode is relative;
- a touch on the position written last, after motion has moved the cursor, does
  not move it back (`old_mouse`);
- a flag spent before the guest is ready leaves keys, buttons and position
  undelivered until the next input (`unserved`);
- a BOOT request waits while the guest is in `_Sleep`.

And no run is about the following: up to seven guest instructions run after a
STOP before the CPU waits, because the dispatch loop looks at the flags once in
eight; one that raises the mask leaves the CPU waiting for ever (`PoliteNext`
excludes it, see Fairness).

### Bounds

`MaxDepth` bounds where guest code may open another level, and the quit and the
EmulOp of the deepest level still fit; three levels are an interrupt inside a
routine called by C code inside an interrupt, and a deeper one repeats the same
pairs of frames. A ring of `Size` 3 holds two events: it wraps, fills and drops
within four events, which is all its arithmetic can tell apart
(`KEY_BUFFER_SIZE` is 64). The button ring, of the same size, has no check, and
a third event makes it look empty. `Uses` divides the work of the mouse between
the two tasks in seven ways: one that clicks and moves in both modes; clicks
against motion; clicks against clicks; positions against positions; clicks
against positions; two positions and motion; two buttons. One is taken at the
start of a behaviour. Positions of one task against motion of another are too
many states, and left to the theorem, which holds for every division. `Reach`
stops motion from adding up (to 2 from 1, so that it needs two packets of
`Clamp`). `MaxIdle` is where the idle time saturates, above both timeouts. In
`Persistence` the flush interval is longer than the idle window and the save
interval longer than both, as in the source (10 s, 3 s and 30 s). The quantum is
longer than the idle window, which it is not in the source, so that a loop may
come late for each of them. All clocks stop at their threshold, because no
comparison tells later times apart. `MaxDate` 1 separates a clock never set from
one set. `Handle`, `Setting`, `Key` and `Source` have two elements each, so that
one may disturb the other.

Two tiles let one be drawn while the other changes, and two depths of different
width let a store land on another tile after a switch; the flags of both tiles
are in one word, and word by word collection of more is covered by the theorems.
`video_live` has one depth and one palette, since the behaviours of the larger
instance are too many for a temporal check; what it leaves out, that damage is
never lost across a change of mode, is what `video` checks. One buffer and one
queue place make every second packet overwrite the first, which is the case the
ring gets wrong; two bytes and a FIN give a first, a next and a last segment.
One slot is the table that is full. The theorems of `Video` and `Network` hold
for every size. Two requests are a late one and its successor, two boots a line
of the one read by the other; the second boot stops before the emulator, so that
a restart never needs a third. One line in flight each way still holds a retry
behind the request, since the serial task takes the first out. The theorems hold
for every bound.

Symmetry is not used: the runs are small, and several have liveness properties.

### Fairness

- `Interrupts`, `CoreFairness`: weak fairness of the triggering step and of the
  dispatch loop: both cores keep scheduling their tasks. `FairSpec` adds that
  C code called by the guest returns, at each depth. It is strong fairness,
  because guest code at a deeper level disables the return for a while.
  `QuitExits` and `StopWakes` need no assumption on the guest.
- `LiveSpec`, for `LatchSpec` only: the guest unmasks, its handlers return, and
  no STOP takes effect with the mask raised (`PoliteNext`); without this
  the instructions that run after a STOP stand in the way. This is what Mac OS does, not what the emulator
  guarantees.
- `Video`: weak fairness of the guest's marks, the overlay's marks and each step
  of the video task, a FreeRTOS task that runs when it is ready. Strong fairness
  of `Wake`, since captures hold the mutex now and then but leave the renderer
  its turns, of a write to the panel that succeeds, since it fails for a time
  only, and of `ExitFree`, which needs the mutex too.
- `Network`: weak fairness of the enqueuing and polling steps, which are loops.
  Strong fairness of `RxPoll` and of a clean-up (the poll takes the mutex with a
  time limit and may miss, but tries every few milliseconds; the clean-up comes
  every five seconds), and of the interrupt and its fetch, which `Interrupts`
  shows to be served. `SlotsFreed` assumes a guest that has fallen silent and a
  clock that goes on.
- `HostControl`: strong fairness of the main task's steps and weak of the 1.2
  seconds. It is strong because a guest may sleep and wake again and again, and
  each sleep disables the poll: but between two sleeps it ends a batch of
  instructions, and the CPU loop looks at the flag after each batch. Nothing is
  assumed of the host, the line, the serial task or the guest, and the
  maintenance tick may never come. A guest that sleeps for good is excluded in
  the property itself.
- `AdbKeys`: weak fairness of the drain and of each task inside a claim. That
  the flag reaches the CPU is what `Interrupts` shows.
- `DisplayPower`: weak fairness of the CPU, the input task and calls to wake.
  Nothing is assumed of the user or the guest.

## 4. Proofs

| Theorem | States | Argument |
|---|---|---|
| `InterruptsProofs!TypeCorrect`, `TypesHold` | `TypeOK` and the shape of the stack (`StackOK`) | `TypeOK` alone is not inductive: a pop uncovers the frame below, which must be the EmulOp that called `Execute68k` |
| `InterruptsProofs!InterruptNeverLost` | `NoLostInterrupt` | inductive with the type invariant: a producer that finds its bit set leaves the trigger to the one that set it; the CPU clears before it reads; a change of mask looks again |
| `InterruptsProofs!QuitStopsGuest` | `QuitRunsNoGuest` | inductive with the type invariant: only C code requests a quit, and the return to the dispatch loop parks the PC |
| `InterruptsProofs!ImplementsLatch` | `Spec => LatchSafe`: `Interrupts` implements `IrqLatch`, fairness left out | each step maps to a raise, a taking, a service or a stutter; with `OpsInOrder`: only C code has sources in service, and it is on top of the stack or waits for guest code it called, so the frames that a quit or a return throws away have none |
| `AdbKeysProofs!TypeCorrect` | `TypeOK` | inductive |
| `AdbKeysProofs!NoKeyStranded` | `NoStrandedKey` | inductive with `TypeOK`: publish before flag, flag taken before the ring is read, the drain left only on an empty ring |
| `AdbKeysProofs!GuestFollowsClaims` | `GuestSeesClaims` | inductive with five facts: one task at a time is inside the mutex (`OneInside`), a claim count is the number of holders (`Counted`), an event on its way says whether its key is held (`Sent`), it lies where the write pointer will pass it (`Stored`), and what the CPU has read is the first event of the ring until the read pointer moves (`Read`). The ring is a set of events numbered from the read pointer, of which the last for a key decides |
| `AdbKeysProofs!RingIsQueue` | `Spec => KeysInOrder`: the key ring implements `EventQueue` | a store misses the queued slots; by `Stored` a publication puts in the event it stored; by `Read` the guest handles the head of the queue, whose removal is the advance of the read pointer |
| `AdbMouseProofs!TypeCorrect` | `TypeOK` | inductive |
| `AdbMouseProofs!CursorComesToRest` | `CursorFollows` | from `CursorInv`: the cursor is where it was last written unless motion moved it, and while no two writers have overlapped (`~mixed`) one moves at a time (`OneMover`), the CPU clears only while nobody does (`Zeroing`), what a task stores in absolute mode is what was last asked for (`Adding`, `Storing`), and unless a flag is up, due or was spent for nothing, the CPU has read that too (`CaughtUp`) |
| `AdbMouseProofs!ButtonsComeToRest` | `ButtonsFollow` | from `ButtonInv`: a button has lost an event, or the last event of it in the ring, or else the guest's state, says how it is held (`Follows`); puts that overlap harm what is in `lost` (`Overlapping`), one alone stores at the write pointer (`Alone`), a ring filled over a read harms its own buttons (`Wrapped`), and no event waits without a flag, a task on its way to raise it, or the CPU at work (`Fetched`) |
| `AdbMouseProofs!RingIsQueue` | `Spec => ButtonsInOrder`: the button ring implements `EventQueue` but for the disturbed steps | by `Alone`, what is about to be published is the event that was stored, and a put that does not come round to the read pointer adds one at the end; a read from a ring that is not empty is of its head |
| `DisplayPowerProofs!TypeCorrect` | `TypeOK` | inductive |
| `DisplayPowerProofs!SleepEnds` | `SleepEndsByRequest` | from `SleepInv`: `guest_sleeping` says where the CPU is in the sleep, and past the wait a request stands. It rests on the order of the two stores on the way in: the request is cleared before the flag is set |
| `PersistenceProofs!TypeCorrect` | `TypeOK` | inductive, with the range of the counting clocks (`CountRange`) |
| `PersistenceProofs!ShadowIsOnCard` | `ShadowOnCard` | with `FileShadow` (a whole file is the shadow copy) and `OnTheWay` |
| `PersistenceProofs!StopIsClean` | `CleanStop` | from `OnTheWay` (past a save, the setting is on the card or refused) and `ClockSaved` |
| `PersistenceProofs!LossIsBounded` | `LossBounded` | from `WriteAge`: the age of a write is held by `since_flush` and `since_write`, and what these miss is the time since the last loop, at most a quantum |
| `PersistenceProofs!SettingIsSaved` | `SettingSaved` | from `SettingAge`, the same for `since_save`, which needs `FileShadow` so that a save does not make an old change reappear |
| `VideoProofs!TypeCorrect`, `NoDamageLost`, `SplashWhole`, `NoUseAfterFree` | `TypeOK`, `DamagePending`, `HandoffWhole`, `BufferLive` | from `Invariance`: `DamagePending` is inductive with `BatchOK` (what the task took is the current mode, palette and look, or a redraw is due; tiles below `at` are drawn), `Painted` (the panel is all splash until the handoff, then splash only on dirty tiles not yet drawn in this batch) and `ExitOrder` |
| `NetworkProofs!TypeCorrect`, `StreamIntact`, `EndsWhole`, `RouterOutlivesTask` | `TypeOK`, `GuestStream`, `EndIsWhole`, `RouterLive` | from `Invariance`: a packet, wherever it is on its way, has the byte that its number says, and a FIN the number after the last byte (`OnTheWay`); what the guest has is what lies before the number it expects (`Received`); a port has one connection, whose numbers follow from what it has polled (`Table`) |
| `HostControlProofs!TypeCorrect`, `RequestsAreFound`, `ReadBackStays` | `TypeOK`, `NoForgottenRequest`, `ReadBackIsFinal` | from `Invariance`: `TaskInv` (which request is in the queue, in execution, or awaited), `LineInv` (lines come in the order of their requests, none from a later boot), `LogInv` (what acted is below what may still act), `OkInv` and `FinalInv` |
| `HostControlProofs!EnterNotForgotten`, `NothingIsForgotten` | `EnterRemembered`, `NothingForgotten` | inductive with `TypeOK`; every poll stores the flag anew, up while a restart is due, and the poll that executes the ENTER raises it before it ends; the boot that a restart begins reads the cookie |
| `HostControlProofs!RequestsActOnce` | `Spec => ActsOnce`: `HostControl` implements `OnceOnly` | each step maps to an issue, an effect, an answer or a stutter; that an effect is a new one is `LogInv`, that an OK is of an effect is `OkInv` |

The assumptions are the named ones of each module: sets are what their names
say, intervals are positive, a ring has at least two slots. `Interrupts` is
proved for every set of producers and sources and every depth, `AdbKeys` for
every ring size and fewer sources than a byte counts (`SourcesAssumption`: a
handful of keyboards, the matrix, the overlay, the right button and the
automation session), `AdbMouse` for every set of tasks, buttons, positions and
movements and every ring size, `DisplayPower` for every choice of callers and
every timeout (its types are proved and no run checks them), `Persistence` for
every number of images, every interval and every quantum, `Video` for every
geometry, set of depths and overlay, `Network` for every number of buffers,
slots, ports and bytes, `HostControl` for every number of requests, boots,
attempts and lines in flight. The strengthenings of `Persistence` (`FileShadow`,
`OnTheWay`, `ClockSaved`, `WriteAge`, `SettingAge`) hold in the instance of the
run `persistence` too, as do the inductive invariants of `HostControl`, `Video`
and `Network` in theirs.

The three theorems about the mouse assume nothing of the callers: any number of
tasks may call at any time, and the button ring may overflow. What the code then
loses is in the exemptions of the properties, and each exemption ends with the
next event of the button, or the next move alone.

Only model-checked: the liveness properties (`StopWakes`, `QuitExits`,
`EveryKeyDelivered`, `ActivityEndsSleep`, `PanelCatchesUp`, `ExitEnds`,
`Delivered`, `SlotsFreed`, `EnterReachesSettings`) and the fairness in
`LatchSpec`, since liveness is out of the prover's reach. No theorem is about
`DisplayFollowsIdleState` and `SettingsSurvive`, which the code violates
(findings); the first is violated also by a guest that makes only one kind of
call, so that a condition on the guest's calls does not give a theorem.

## 5. What is left

The components of the plan whose behaviour is decided by this repository are
modelled. What could still be added, in order of worth:

1. The other direction of `Network`, from the guest to the remote host, with the
   segments the guest sends again.
2. `UsbHost`: slots and disconnects above `AdbKeys` and `AdbMouse`.

## 6. Not modelled

What instructions compute (interpreter, AOT, QuickDraw) is data beyond a model
checker's reach, and tested against references in the repository. Drawing,
layout, parsing, compression, pixel and sample conversion are data without
protocol. So the share of the source that the models stand for is small: most of
its lines are an interpreter with its generated tables, a file system
translation and drawing code.

In `Network` the bytes the guest sends, UDP and its slots, DHCP and the contents
of ARP and ICMP are left out; a failed `ps_malloc` is a lost packet. In
`HostControl` the other BOOT commands (GET, LIST, RESCAN, RELOAD, SAVE, WIFI,
HIT) take the same way and change selections only; the USB disk screen,
screenshots and HTTP are left out. The Time Manager keeps half of its state in
records of the guest, and what its walk meets depends on what guest tasks do
with them. The audio hand-over is a semaphore and a wait of 100 ms around code
of the guest's mixer. Neither gives a property that this repository decides.
Board and vendor drivers are I/O. The disk, CD-ROM, SCSI and file system code is
sequential on the emulation task; what it writes enters `Persistence` as
`SysWrite`. `PROJECT.json` gives the reason for every component.
