--------------------------- MODULE AdbMouseProofs ---------------------------
(* Proofs about AdbMouse, for every set of tasks, whatever they do at once, *)
(* and every size of the ring.                                              *)
EXTENDS AdbMouse, SequenceTheorems, TLAPS

-----------------------------------------------------------------------------
(* Types. *)

\* A ring index advanced by one is a slot of the ring.
LEMMA AdvanceInRing == ASSUME NEW i \in Slot PROVE Advance(i) \in Slot
<1>1. RingSize \in Nat \ {0} /\ i \in Int
  BY AdbMouseAssumption DEF Slot
<1>2. (i + 1) % RingSize \in 0..RingSize - 1
  BY <1>1
<1> QED BY <1>2 DEF Advance, Slot

\* A task that stores the event of a button has loaded a slot to store it in.
Loaded == \A t \in Task : Putting(t) => loaded[t] \in Slot /\ event[t].button \in Button

\* The movements a task is called with.
LEMMA MoveCalls ==
  ASSUME TypeOK, NEW t \in Task
  PROVE  /\ MoveTo(t) => /\ latest' \in Int \X Int
                         /\ \E s \in {"moved", "zero_x"} : BeginMove(t, latest', s)
         /\ MoveBy(t) => \E p \in Int \X Int, s \in {"moved", "zero_x"} : BeginMove(t, p, s)
         /\ Drag(t) => latest' \in Int \X Int /\ BeginMove(t, latest', "moved")
<1>1. /\ use[t].points \subseteq Int \X Int
      /\ use[t].deltas \subseteq Int
  BY AdbMouseAssumption DEF TypeOK
<1>2. 0 \in Int
  OBVIOUS
<1> QED BY <1>1, <1>2 DEF MoveTo, MoveBy, Drag, MoveInMode

\* ADBSetRelMouseMode and ADBMouseMoved keep the types.
LEMMA MoveTyped ==
  ASSUME TypeOK, Loaded, NEW t \in Task,
         MoveTo(t) \/ MoveBy(t) \/ Drag(t) \/ ZeroX(t) \/ ZeroY(t) \/ Moved(t)
           \/ StoreX(t) \/ LoadY(t) \/ StoreY(t)
  PROVE  TypeOK' /\ Loaded'
<1> USE DEF TypeOK, Loaded, Putting, PutSteps, MoveSteps, ringvars, irqvars, cpuvars,
            guestvars, movehist, puthist, Goto
<1>1. ASSUME NEW p \in Int \X Int, NEW s \in {"moved", "zero_x"}, BeginMove(t, p, s),
             latest' \in Int \X Int, relative_mouse' \in BOOLEAN
      PROVE  TypeOK' /\ Loaded'
  <2>1. PositionBusy \in BOOLEAN
    BY DEF PositionBusy
  <2> QED BY <1>1, <2>1 DEF BeginMove
<1>2. CASE MoveTo(t) \/ MoveBy(t) \/ Drag(t)
  <2>1. relative_mouse' \in BOOLEAN
    BY <1>2 DEF MoveTo, MoveBy, Drag, MoveInMode
  <2>2. MoveBy(t) => latest' \in Int \X Int
    BY DEF MoveBy
  <2> QED BY <1>1, <1>2, <2>1, <2>2, MoveCalls
<1>3. call[t][1] \in Int /\ call[t][2] \in Int /\ loaded[t] \in Int
  OBVIOUS
<1>4. CASE ZeroX(t)
  BY <1>4 DEF ZeroX
<1>5. CASE ZeroY(t)
  BY <1>5 DEF ZeroY
<1>6. CASE Moved(t)
  BY <1>6 DEF Moved, posvars
<1>7. CASE StoreX(t)
  BY <1>3, <1>7 DEF StoreX
<1>8. CASE LoadY(t)
  BY <1>8 DEF LoadY, posvars
<1>9. CASE StoreY(t)
  <2>1. <<0, 0>> \in Int \X Int
    OBVIOUS
  <2> QED BY <1>3, <1>9, <2>1 DEF StoreY
<1> QED BY <1>2, <1>4, <1>5, <1>6, <1>7, <1>8, <1>9

\* The event a task is called with.
LEMMA PutCalls ==
  ASSUME TypeOK, NEW t \in Task, StartPut(t)
  PROVE  \E e \in [button: Button, down: BOOLEAN] :
           /\ event' = [event EXCEPT ![t] = e]
           /\ held' = IF e.down THEN held \union {e.button} ELSE held \ {e.button}
<1>1. PICK b \in use[t].buttons, down \in BOOLEAN :
        /\ event' = [event EXCEPT ![t] = [button |-> b, down |-> down]]
        /\ held' = IF down THEN held \union {b} ELSE held \ {b}
  BY DEF StartPut
<1>2. b \in Button
  BY <1>1, AdbMouseAssumption DEF TypeOK
<1>3. [button |-> b, down |-> down] \in [button: Button, down: BOOLEAN]
  BY <1>2
<1> WITNESS [button |-> b, down |-> down] \in [button: Button, down: BOOLEAN]
<1> QED BY <1>1

\* The slots and the tasks name buttons.
LEMMA ButtonsTyped ==
  ASSUME event \in [Task -> Event], button_buffer \in [Slot -> Event]
  PROVE  /\ ButtonsInSlots \subseteq {0} \union Button
         /\ \A u \in Task : event[u].button \in {0} \union Button
BY DEF ButtonsInSlots, Event

\* ADBMouseDown and ADBMouseUp keep the types.
LEMMA ButtonTyped ==
  ASSUME TypeOK, Loaded, NEW t \in Task,
         StartPut(t) \/ StoreSlot(t) \/ AdvanceWrite(t) \/ RaiseAdb(t)
  PROVE  TypeOK' /\ Loaded'
<1> USE DEF TypeOK, Loaded, Putting, PutSteps, MoveSteps, ringvars, irqvars, posvars,
            cpuvars, guestvars, movehist, puthist, Goto
<1>1. CASE StartPut(t)
  <2>1. PICK e \in [button: Button, down: BOOLEAN] :
          /\ event' = [event EXCEPT ![t] = e]
          /\ held' = IF e.down THEN held \union {e.button} ELSE held \ {e.button}
    BY <1>1, PutCalls
  <2>2. event' \in [Task -> Event] /\ held' \subseteq {0} \union Button
    BY <2>1 DEF Event
  <2>3. /\ ButtonsInSlots \subseteq {0} \union Button
        /\ \A u \in Task : event'[u].button \in {0} \union Button
    BY <2>2 DEF ButtonsInSlots, Event
  <2>4. lost' \subseteq {0} \union Button /\ clash' \in BOOLEAN
    <3>1. /\ clash' = \E u \in Task : Putting(u)
          /\ lost' = IF clash' THEN lost \union ButtonsInSlots
                       \union {event'[u].button : u \in {v \in Task : v = t \/ Putting(v)}}
                    ELSE lost
      BY <1>1, Zenon DEF StartPut
    <3>2. {event'[u].button : u \in {v \in Task : v = t \/ Putting(v)}}
            \subseteq {0} \union Button
      BY <2>3
    <3> QED BY <2>3, <3>1, <3>2
  <2>5. Slot \subseteq Int
    BY AdbMouseAssumption DEF Slot
  <2>6. button_write_ptr \in Slot /\ event'[t].button \in Button
    BY <2>1
  <2>7. /\ pc' = [pc EXCEPT ![t] = "slot"]
        /\ loaded' = [loaded EXCEPT ![t] = button_write_ptr]
        /\ \A u \in Task \ {t} : event'[u] = event[u]
    BY <1>1, <2>1 DEF StartPut
  <2>8. Loaded'
    BY <1>1, <2>6, <2>7 DEF StartPut
  <2>9. TypeOK'
    <3>1. /\ loaded' \in [Task -> Int] /\ latest' = latest /\ mixed' = mixed
          /\ pc' \in [Task -> {"idle", "flag"} \union MoveSteps \union PutSteps]
      BY <1>1, <2>5, <2>7 DEF StartPut
    <3>2. /\ UNCHANGED <<posvars, ringvars, irqvars, use, call, cpuvars, guestvars>>
      BY <1>1 DEF StartPut
    <3> QED BY <2>2, <2>4, <3>1, <3>2
  <2> QED BY <2>8, <2>9
<1>2. CASE StoreSlot(t)
  BY <1>2 DEF StoreSlot
<1>3. CASE AdvanceWrite(t)
  <2>1. lost' \subseteq {0} \union Button
    BY <1>3, ButtonsTyped DEF AdvanceWrite
  <2>2. NoEvent \in Event
    BY DEF NoEvent, Event
  <2>3. Advance(loaded[t]) \in Slot
    BY <1>3, AdvanceInRing DEF AdvanceWrite
  <2> QED BY <1>3, <2>1, <2>2, <2>3 DEF AdvanceWrite
<1>4. CASE RaiseAdb(t)
  BY <1>4 DEF RaiseAdb
<1> QED BY <1>1, <1>2, <1>3, <1>4

\* What is sent as motion is a number.
LEMMA PacketType == \A d \in Int : Packet(d) \in Int /\ d - Packet(d) \in Int
BY AdbMouseAssumption DEF Packet

\* ADBInterrupt keeps the types.
LEMMA CpuTyped ==
  ASSUME TypeOK, Loaded, AdbInterrupt \/ GuestReady PROVE TypeOK' /\ Loaded'
<1> USE DEF TypeOK, Loaded, Putting, ringvars, irqvars, posvars, taskvars, cpuvars,
            guestvars, movehist, puthist, Cpu
<1>1. CASE AdbIrq
  BY <1>1 DEF AdbIrq, ReadX
<1>2. CASE DebuggerPoll
  BY <1>2 DEF DebuggerPoll, ReadX
<1>3. CASE ReadY
  BY <1>3 DEF ReadY
<1>4. CASE CheckMode
  BY <1>4 DEF CheckMode, PositionBusy
<1>5. CASE CpuZeroX
  BY <1>5 DEF CpuZeroX
<1>6. CASE CpuZeroY
  BY <1>6 DEF CpuZeroY
<1>7. CASE Branch
  BY <1>7 DEF Branch
<1>8. CASE FindEvent
  BY <1>8 DEF FindEvent
<1>9. CASE PopButton
  <2>1. button_buffer[button_read_ptr].button \in {0} \union Button
    BY DEF Event
  <2> QED BY <1>9, <2>1 DEF PopButton
<1>10. CASE AdvanceRead
  BY <1>10, PacketType, AdvanceInRing DEF AdvanceRead, SendMotion
<1>11. CASE RelativePacket
  BY <1>11, PacketType DEF RelativePacket, SendMotion
<1>12. CASE LoopDone
  BY <1>12 DEF LoopDone, InLoop
<1>13. CASE GuestReady
  BY <1>13 DEF GuestReady
<1> QED BY <1>1, <1>2, <1>3, <1>4, <1>5, <1>6, <1>7, <1>8, <1>9, <1>10, <1>11, <1>12,
           <1>13 DEF AdbInterrupt

LEMMA Typed == Spec => [](TypeOK /\ Loaded)
<1>1. Init => TypeOK /\ Loaded
  <2> SUFFICES ASSUME Init PROVE TypeOK /\ Loaded
    OBVIOUS
  <2>1. 0 \in Slot /\ NoEvent \in Event /\ <<0, 0>> \in Int \X Int
    BY AdbMouseAssumption DEF Slot, NoEvent, Event
  <2>2. /\ button_buffer \in [Slot -> Event] /\ event \in [Task -> Event]
        /\ {button_read_ptr, button_write_ptr} \subseteq Slot
        /\ {latest, old_mouse} \subseteq Int \X Int
    BY <2>1 DEF Init
  <2>3. /\ call \in [Task -> Int \X Int] /\ loaded \in [Task -> Int]
        /\ pc \in [Task -> {"idle", "flag"} \union MoveSteps \union PutSteps]
    BY <2>1 DEF Init
  <2>4. Loaded
    BY DEF Init, Loaded, Putting, PutSteps
  <2> QED BY <2>2, <2>3, <2>4 DEF Init, TypeOK
<1>2. TypeOK /\ Loaded /\ [Next]_vars => (TypeOK /\ Loaded)'
  <2> SUFFICES ASSUME TypeOK, Loaded, [Next]_vars PROVE TypeOK' /\ Loaded'
    OBVIOUS
  <2>1. CASE AdbInterrupt \/ GuestReady
    BY <2>1, CpuTyped
  <2>2. ASSUME NEW t \in Task, Client(t) \/ Running(t) PROVE TypeOK' /\ Loaded'
    BY <2>2, MoveTyped, ButtonTyped DEF Client, Running
  <2>3. CASE UNCHANGED vars
    BY <2>3 DEF TypeOK, Loaded, Putting, vars, posvars, ringvars, irqvars, taskvars,
         cpuvars, guestvars, movehist, puthist
  <2> QED BY <2>1, <2>2, <2>3 DEF Next
<1> QED BY <1>1, <1>2, PTL DEF Spec

\* Type correctness of the mouse path, for every set of tasks and every size
\* of the ring: its pointers stay inside it (ADBMouseMoved, ADBMouseDown,
\* ADBMouseUp, ADBInterrupt).
THEOREM TypeCorrect == Spec => []TypeOK
BY Typed, PTL

-----------------------------------------------------------------------------
(* The cursor. *)

Mover(t) == pc[t] \in MoveSteps
NoMover  == \A t \in Task : ~Mover(t)
OneMover == \A t, u \in Task : Mover(t) /\ Mover(u) => t = u

\* The CPU clears the position while nobody moves.
Zeroing == cpu \in {"zero_x", "zero_y"} => relative_mouse /\ NoMover

Adding == \A t \in Task : pc[t] \in {"add_x", "load_y"} => relative_mouse

\* In absolute mode the one that moves is storing the position last asked for;
\* once it has, the shared position is that one.
Storing == ~relative_mouse =>
  /\ \A t \in Task :
       /\ Mover(t) => call[t] = latest
       /\ pc[t] \in {"store_x", "store_y"} => loaded[t] = 0
       /\ pc[t] = "store_y" => mouse_x = latest[1]
  /\ NoMover => mouse_x = latest[1] /\ mouse_y = latest[2]

\* Unless a flag is up or on its way, or was spent for nothing, the CPU has read
\* that position as well, or is about to.
CaughtUp ==
  /\ ~relative_mouse /\ ~adb_flag /\ ~unserved
  /\ \A t \in Task : pc[t] = "idle"
  => /\ cpu \in {"idle", "buttons", "read_y", "mode", "branch"}
     /\ cpu \in {"idle", "buttons"} => old_mouse = latest
     /\ cpu \in {"read_y", "mode", "branch"} => mx = latest[1]
     /\ cpu \in {"mode", "branch"} => my = latest[2]

Orderly == OneMover /\ Zeroing /\ Adding /\ Storing /\ CaughtUp

CursorInv ==
  /\ cursor \in {old_mouse, Elsewhere}
  /\ ~mixed => Orderly

\* A move that begins alone sets things in order, whatever went before.
LEMMA CursorBegins ==
  ASSUME TypeOK, CursorInv, NEW t \in Task, NEW p, NEW s \in {"moved", "zero_x"},
         BeginMove(t, p, s), ~relative_mouse' => latest' = p
  PROVE  CursorInv'
<1>1. /\ pc' = [pc EXCEPT ![t] = s] /\ call' = [call EXCEPT ![t] = p]
      /\ cpu' = cpu /\ old_mouse' = old_mouse /\ cursor' = cursor
      /\ mixed' = PositionBusy
  BY DEF BeginMove, Goto, cpuvars, guestvars
<1>2. pc'[t] = s /\ call'[t] = p /\ \A u \in Task \ {t} : pc'[u] = pc[u]
  BY <1>1 DEF TypeOK
<1>3. ASSUME ~mixed' PROVE Orderly'
  <2>1. NoMover /\ cpu \notin {"zero_x", "zero_y"}
    BY <1>1, <1>3 DEF PositionBusy, NoMover, Mover
  <2>2. \A u \in Task : Mover(u)' => u = t
    BY <1>2, <2>1 DEF NoMover, Mover
  <2>3. Mover(t)'
    BY <1>2 DEF Mover, MoveSteps
  <2>4. OneMover' /\ ~NoMover'
    BY <2>2, <2>3 DEF OneMover, NoMover
  <2>5. \A u \in Task : pc'[u] \in MoveSteps => pc'[u] = s
    BY <1>2, <2>2 DEF Mover
  <2>6. Adding'
    BY <2>5 DEF Adding, MoveSteps
  <2>7. Storing'
    BY <1>2, <2>2, <2>4, <2>5 DEF Storing, MoveSteps
  <2>8. Zeroing' /\ CaughtUp'
    BY <1>1, <1>2, <2>1 DEF Zeroing, CaughtUp
  <2> QED BY <2>4, <2>6, <2>7, <2>8 DEF Orderly
<1> QED BY <1>1, <1>3 DEF CursorInv

\* The steps of the one that moves.
LEMMA CursorMoves ==
  ASSUME TypeOK, CursorInv, NEW t \in Task,
         ZeroX(t) \/ ZeroY(t) \/ Moved(t) \/ StoreX(t) \/ LoadY(t) \/ StoreY(t)
  PROVE  CursorInv'
<1>1. /\ Mover(t) /\ cpu' = cpu /\ old_mouse' = old_mouse /\ cursor' = cursor
      /\ mixed' = mixed /\ latest' = latest /\ relative_mouse' = relative_mouse
  BY DEF Mover, MoveSteps, ZeroX, ZeroY, Moved, StoreX, LoadY, StoreY, cpuvars,
         guestvars, movehist, posvars
<1>2. /\ pc'[t] # "idle"
      /\ \A u \in Task \ {t} : pc'[u] = pc[u]
  BY DEF ZeroX, ZeroY, Moved, StoreX, LoadY, StoreY, TypeOK, Goto
<1>3. ASSUME ~mixed PROVE Orderly'
  <2>1. /\ OneMover /\ Zeroing /\ Adding /\ Storing
        /\ \A u \in Task \ {t} : ~Mover(u) /\ ~Mover(u)'
    BY <1>1, <1>2, <1>3 DEF CursorInv, Orderly, OneMover, Mover
  <2>2. OneMover'
    BY <2>1 DEF OneMover
  <2>3. Zeroing' /\ CaughtUp'
    BY <1>1, <1>2, <2>1 DEF Zeroing, CaughtUp, NoMover
  <2>4. \A u \in Task \ {t} : pc'[u] \notin MoveSteps
    BY <2>1 DEF Mover
  <2>5. pc'[t] \in {"add_x", "load_y"} => relative_mouse
    BY <2>1 DEF Adding, ZeroX, ZeroY, Moved, StoreX, LoadY, StoreY, TypeOK, Goto
  <2>6. Adding'
    BY <1>1, <2>4, <2>5 DEF Adding, MoveSteps
  <2>7. ASSUME ~relative_mouse
        PROVE  /\ Mover(t)' => call'[t] = latest
               /\ pc'[t] \in {"store_x", "store_y"} => loaded'[t] = 0
               /\ pc'[t] = "store_y" => mouse_x' = latest[1]
               /\ ~Mover(t)' => mouse_x' = latest[1] /\ mouse_y' = latest[2]
    <3>1. /\ call[t] = latest
          /\ pc[t] \in {"store_x", "store_y"} => loaded[t] = 0
          /\ pc[t] = "store_y" => mouse_x = latest[1]
          /\ pc[t] \notin {"add_x", "load_y"}
      BY <1>1, <2>1, <2>7 DEF Storing, Adding
    <3>2. call[t][1] \in Int /\ call[t][2] \in Int
      BY DEF TypeOK
    <3>3. CASE ZeroX(t)
      BY <3>1, <3>3 DEF ZeroX, TypeOK, Goto, Mover, MoveSteps
    <3>4. CASE ZeroY(t)
      BY <3>1, <3>4 DEF ZeroY, TypeOK, Goto, Mover, MoveSteps
    <3>5. CASE Moved(t)
      BY <2>7, <3>1, <3>5 DEF Moved, TypeOK, Goto, Mover, MoveSteps
    <3>6. CASE StoreX(t)
      BY <3>1, <3>2, <3>6 DEF StoreX, TypeOK, Goto, Mover, MoveSteps
    <3>7. CASE LoadY(t)
      BY <3>1, <3>7 DEF LoadY
    <3>8. CASE StoreY(t)
      BY <3>1, <3>2, <3>8 DEF StoreY, TypeOK, Goto, Mover, MoveSteps
    <3> QED BY <3>3, <3>4, <3>5, <3>6, <3>7, <3>8
  <2>8. Storing'
    BY <1>1, <2>1, <2>4, <2>7 DEF Storing, NoMover, MoveSteps
  <2> QED BY <2>2, <2>3, <2>6, <2>8 DEF Orderly
<1> QED BY <1>1, <1>3 DEF CursorInv

\* What ADBMouseDown and ADBMouseUp do, and the flag.
LEMMA CursorOthers ==
  ASSUME TypeOK, CursorInv, NEW t \in Task,
         StartPut(t) \/ StoreSlot(t) \/ AdvanceWrite(t) \/ RaiseAdb(t)
  PROVE  CursorInv'
<1>1. /\ UNCHANGED posvars /\ call' = call /\ UNCHANGED cpuvars
      /\ UNCHANGED guestvars /\ UNCHANGED movehist
  BY DEF StartPut, StoreSlot, AdvanceWrite, RaiseAdb
<1>2. /\ pc'[t] # "idle" \/ adb_flag'
      /\ pc[t] \notin MoveSteps /\ pc'[t] \notin MoveSteps
      /\ \A u \in Task \ {t} : pc'[u] = pc[u] /\ loaded'[u] = loaded[u]
  BY DEF StartPut, StoreSlot, AdvanceWrite, RaiseAdb, TypeOK, Goto, MoveSteps
<1>3. \A u \in Task : pc'[u] \in MoveSteps => pc'[u] = pc[u] /\ loaded'[u] = loaded[u]
  BY <1>2
<1>4. \A u \in Task : Mover(u)' <=> Mover(u)
  BY <1>2 DEF Mover
<1>5. Orderly => Orderly'
  <2> SUFFICES ASSUME Orderly PROVE Orderly'
    OBVIOUS
  <2>1. NoMover' <=> NoMover
    BY <1>4 DEF NoMover
  <2>2. OneMover' /\ Zeroing' /\ CaughtUp'
    BY <1>1, <1>2, <1>4, <2>1 DEF Orderly, OneMover, Zeroing, CaughtUp, posvars, cpuvars
  <2>3. Adding' /\ Storing'
    BY <1>1, <1>3, <1>4, <2>1 DEF Orderly, Adding, Storing, posvars, movehist, MoveSteps
  <2> QED BY <2>2, <2>3 DEF Orderly
<1> QED BY <1>1, <1>5 DEF CursorInv, movehist, cpuvars, guestvars

\* A step of the CPU.
LEMMA CursorCpu ==
  ASSUME TypeOK, CursorInv, AdbInterrupt \/ GuestReady
  PROVE  CursorInv'
<1> USE DEF CursorInv, Orderly, OneMover, Zeroing, Adding, Storing, CaughtUp, NoMover,
            Mover, posvars, irqvars, taskvars, cpuvars, guestvars, movehist, Cpu
<1>1. latest = <<latest[1], latest[2]>>
  BY DEF TypeOK
<1>2. CASE AdbIrq
  BY <1>2 DEF AdbIrq, ReadX, TypeOK, MoveSteps
<1>3. CASE DebuggerPoll
  BY <1>3 DEF DebuggerPoll, ReadX, MoveSteps
<1>4. CASE ReadY
  BY <1>4 DEF ReadY, MoveSteps
<1>5. CASE CheckMode
  BY <1>5 DEF CheckMode, PositionBusy
<1>6. CASE CpuZeroX
  BY <1>6 DEF CpuZeroX
<1>7. CASE CpuZeroY
  BY <1>7 DEF CpuZeroY
<1>8. CASE Branch
  BY <1>1, <1>8 DEF Branch
<1>9. CASE FindEvent
  BY <1>9 DEF FindEvent, InLoop
<1>10. CASE PopButton
  BY <1>10 DEF PopButton
<1>11. CASE AdvanceRead
  BY <1>11 DEF AdvanceRead, SendMotion
<1>12. CASE RelativePacket
  BY <1>12 DEF RelativePacket, SendMotion
<1>13. CASE LoopDone
  BY <1>13 DEF LoopDone, InLoop
<1>14. CASE GuestReady
  BY <1>14 DEF GuestReady
<1> QED BY <1>2, <1>3, <1>4, <1>5, <1>6, <1>7, <1>8, <1>9, <1>10, <1>11, <1>12, <1>13,
           <1>14 DEF AdbInterrupt

\* The guest's cursor comes to rest at the last position asked for, although the
\* CPU reads x and y at two moments and no lock holds the tasks off in between
\* (ADBMouseMoved, ADBInterrupt): a position that is stored after it was read
\* raises the flag again.  The exceptions are those CursorFollows names: writers
\* of the position that overlap, until the next move, and motion after the same
\* position was written, which is not written again.
THEOREM CursorComesToRest == Spec => []CursorFollows
<1>1. Init => CursorInv
  <2> SUFFICES ASSUME Init PROVE CursorInv
    OBVIOUS
  <2>1. \A t \in Task : pc[t] = "idle"
    BY DEF Init
  <2>2. NoMover /\ OneMover
    BY <2>1 DEF NoMover, OneMover, Mover, MoveSteps
  <2> QED BY <2>1, <2>2 DEF Init, CursorInv, Orderly, Zeroing, Adding, Storing, CaughtUp, Mover, MoveSteps
<1>2. TypeOK /\ CursorInv /\ [Next]_vars => CursorInv'
  <2> SUFFICES ASSUME TypeOK, CursorInv, [Next]_vars PROVE CursorInv'
    OBVIOUS
  <2>1. CASE AdbInterrupt \/ GuestReady
    BY <2>1, CursorCpu
  <2>2. ASSUME NEW t \in Task, Client(t) \/ Running(t) PROVE CursorInv'
    <3>1. CASE MoveTo(t) \/ MoveBy(t) \/ Drag(t)
      <4>1. \E p : \E s \in {"moved", "zero_x"} :
              BeginMove(t, p, s) /\ (~relative_mouse' => latest' = p)
        BY <3>1 DEF MoveTo, MoveBy, Drag, MoveInMode
      <4> QED BY <4>1, CursorBegins
    <3> QED BY <2>2, <3>1, CursorMoves, CursorOthers DEF Client, Running
  <2>3. CASE UNCHANGED vars
    BY <2>3 DEF CursorInv, Orderly, OneMover, Zeroing, Adding, Storing, CaughtUp, NoMover,
         Mover, PositionBusy, vars, posvars, irqvars, taskvars, cpuvars, guestvars, movehist
  <2> QED BY <2>1, <2>2, <2>3 DEF Next
<1>3. CursorInv => CursorFollows
  BY DEF CursorInv, Orderly, CaughtUp, CursorFollows, AtRest
<1> QED BY <1>1, <1>2, <1>3, TypeCorrect, PTL DEF Spec

-----------------------------------------------------------------------------
(* The button ring. *)

\* How far a slot is from the read pointer, and the slots between the pointers.
Distance(r, i) == (i - r) % RingSize
Queued(r, w) == {i \in Slot : Distance(r, i) < Distance(r, w)}

\* Slot i holds the last queued event of button k.
IsLast(i, k, b, r, w) ==
  /\ i \in Queued(r, w) /\ b[i].button = k
  /\ \A j \in Queued(r, w) : b[j].button = k => Distance(r, j) <= Distance(r, i)

\* Once the guest has handled what is queued, it will hold button k exactly when
\* k is among the buttons h: the last event of k says so, or, if there is none,
\* its own state g.
WillHold(k, b, r, w, g, h) ==
  /\ (\A i \in Queued(r, w) : b[i].button # k) => (k \in g <=> k \in h)
  /\ \A i \in Slot : IsLast(i, k, b, r, w) => (b[i].down <=> k \in h)

\* Distances do not wrap twice.
LEMMA Remainders ==
  ASSUME NEW i \in Slot, NEW j \in Slot
  PROVE  /\ Advance(i) = IF i + 1 = RingSize THEN 0 ELSE i + 1
         /\ Distance(i, j) = IF j >= i THEN j - i ELSE j - i + RingSize
<1>1. RingSize \in Nat \ {0} /\ i \in 0..RingSize - 1 /\ j \in 0..RingSize - 1
  BY AdbMouseAssumption DEF Slot
<1>2. (i + 1) % RingSize = IF i + 1 = RingSize THEN 0 ELSE i + 1
  BY <1>1, SMT
<1>3. (j - i) % RingSize = IF j >= i THEN j - i ELSE j - i + RingSize
  BY <1>1, SMT
<1> QED BY <1>2, <1>3 DEF Advance, Distance

LEMMA DistanceType ==
  ASSUME NEW r \in Slot, NEW i \in Slot
  PROVE  Distance(r, i) \in Nat /\ Distance(r, i) < RingSize
<1>1. RingSize \in Nat \ {0} /\ i \in 0..RingSize - 1 /\ r \in 0..RingSize - 1
  BY AdbMouseAssumption DEF Slot
<1>2. Distance(r, i) = IF i >= r THEN i - r ELSE i - r + RingSize
  BY Remainders
<1> QED BY <1>1, <1>2

\* In a ring that is not full, the write pointer adds its slot at the end.
LEMMA RingAppends ==
  ASSUME NEW r \in Slot, NEW w \in Slot, Distance(r, w) + 1 < RingSize
  PROVE  Queued(r, Advance(w)) = Queued(r, w) \union {w}
<1>1. RingSize \in Nat \ {0} /\ r \in 0..RingSize - 1 /\ w \in 0..RingSize - 1
  BY AdbMouseAssumption DEF Slot
<1>2. Distance(r, w) = IF w >= r THEN w - r ELSE w - r + RingSize
  BY Remainders
<1>3. Advance(w) = IF w + 1 = RingSize THEN 0 ELSE w + 1
  BY Remainders
<1>4. Distance(r, Advance(w)) = Distance(r, w) + 1
  <2>1. Distance(r, Advance(w))
          = IF Advance(w) >= r THEN Advance(w) - r ELSE Advance(w) - r + RingSize
    BY AdvanceInRing, Remainders
  <2> QED BY <1>1, <1>2, <1>3, <2>1
<1>5. ASSUME NEW i \in Slot
      PROVE  i \in Queued(r, Advance(w)) <=> i \in Queued(r, w) \union {w}
  <2>1. Distance(r, i) = IF i >= r THEN i - r ELSE i - r + RingSize
    BY Remainders
  <2>2. Distance(r, i) = Distance(r, w) <=> i = w
    BY <1>1, <1>2, <2>1 DEF Slot
  <2>3. Distance(r, i) < Distance(r, w) + 1
          <=> Distance(r, i) < Distance(r, w) \/ Distance(r, i) = Distance(r, w)
    BY DistanceType
  <2> QED BY <1>4, <2>2, <2>3 DEF Queued
<1> QED BY <1>5 DEF Queued

\* The read pointer takes the nearest slot away and comes one closer to the
\* others.
LEMMA RingPops ==
  ASSUME NEW r \in Slot, NEW w \in Slot, r # w
  PROVE  /\ r \in Queued(r, w) /\ Distance(r, r) = 0
         /\ Queued(Advance(r), w) = Queued(r, w) \ {r}
         /\ Distance(Advance(r), w) = Distance(r, w) - 1
         /\ \A i \in Queued(r, w) \ {r} : Distance(Advance(r), i) = Distance(r, i) - 1
<1>1. RingSize \in Nat \ {0} /\ r \in 0..RingSize - 1 /\ w \in 0..RingSize - 1
  BY AdbMouseAssumption DEF Slot
<1>2. Advance(r) = IF r + 1 = RingSize THEN 0 ELSE r + 1
  BY Remainders
<1>3. ASSUME NEW i \in Slot
      PROVE  /\ i \in 0..RingSize - 1
             /\ Distance(r, i) = IF i >= r THEN i - r ELSE i - r + RingSize
             /\ Distance(Advance(r), i)
                  = IF i >= Advance(r) THEN i - Advance(r) ELSE i - Advance(r) + RingSize
  BY AdvanceInRing, Remainders DEF Slot
<1>4. ASSUME NEW i \in Slot \ {r} PROVE Distance(Advance(r), i) = Distance(r, i) - 1
  BY <1>1, <1>2, <1>3
<1>5. Distance(r, r) = 0 /\ Distance(Advance(r), r) = RingSize - 1
  BY <1>1, <1>2, <1>3
<1>6. Distance(r, w) \in 1..RingSize - 1
  BY <1>1, <1>3
<1>7. r \in Queued(r, w)
  BY <1>5, <1>6 DEF Queued
<1>8. ASSUME NEW i \in Slot
      PROVE  i \in Queued(Advance(r), w) <=> i \in Queued(r, w) \ {r}
  <2>1. CASE i = r
    BY <1>1, <1>4, <1>5, <1>6, <2>1 DEF Queued
  <2>2. CASE i # r
    <3>1. Distance(r, i) \in Int /\ Distance(r, w) \in Int
      BY DistanceType
    <3>2. Distance(r, i) - 1 < Distance(r, w) - 1 <=> Distance(r, i) < Distance(r, w)
      BY <3>1
    <3> QED BY <1>4, <2>2, <3>2 DEF Queued
  <2> QED BY <2>1, <2>2
<1>9. Queued(Advance(r), w) = Queued(r, w) \ {r}
  BY <1>8 DEF Queued
<1> QED BY <1>4, <1>5, <1>7, <1>9 DEF Queued

\* A ring is full when the write pointer would come round to the read pointer.
LEMMA NotFull ==
  ASSUME NEW r \in Slot, NEW w \in Slot, Advance(w) # r
  PROVE  Distance(r, w) + 1 < RingSize
<1>1. RingSize \in Nat \ {0} /\ r \in 0..RingSize - 1 /\ w \in 0..RingSize - 1
  BY AdbMouseAssumption DEF Slot
<1>2. /\ Distance(r, w) = IF w >= r THEN w - r ELSE w - r + RingSize
      /\ Advance(w) = IF w + 1 = RingSize THEN 0 ELSE w + 1
  BY Remainders
<1> QED BY <1>1, <1>2

LEMMA NothingQueued == ASSUME NEW r \in Slot PROVE Queued(r, r) = {}
<1>1. Distance(r, r) = 0
  BY Remainders, AdbMouseAssumption DEF Slot
<1> QED BY <1>1, DistanceType DEF Queued

-----------------------------------------------------------------------------
(* What the events in the ring say of a button. *)

\* An event outside the queue says nothing.
LEMMA HoldStored ==
  ASSUME NEW k, NEW b, NEW c, NEW r, NEW w, NEW g, NEW h, NEW m,
         WillHold(k, b, r, w, g, h), \A i \in Queued(r, w) : c[i] = b[i],
         k \in m <=> k \in h
  PROVE  WillHold(k, c, r, w, g, m)
BY DEF WillHold, IsLast

\* An event added at the end decides for its own button alone.
LEMMA HoldAppended ==
  ASSUME NEW k, NEW b, NEW r \in Slot, NEW w \in Slot, NEW g, NEW h,
         Distance(r, w) + 1 < RingSize,
         IF b[w].button = k THEN b[w].down <=> k \in h ELSE WillHold(k, b, r, w, g, h)
  PROVE  WillHold(k, b, r, Advance(w), g, h)
<1>1. Queued(r, Advance(w)) = Queued(r, w) \union {w}
  BY RingAppends
<1>2. \A i \in Queued(r, w) : i \in Slot /\ Distance(r, i) < Distance(r, w)
  BY DEF Queued
<1>3. \A i \in Slot : Distance(r, i) \in Int
  BY DistanceType
<1>4. CASE b[w].button = k
  <2>1. ASSUME NEW i \in Slot, IsLast(i, k, b, r, Advance(w)) PROVE i = w
    <3>1. Distance(r, w) <= Distance(r, i) /\ i \in Queued(r, w) \union {w}
      BY <1>1, <1>4, <2>1 DEF IsLast
    <3>2. i \notin Queued(r, w)
      BY <1>2, <1>3, <3>1
    <3> QED BY <3>1, <3>2
  <2> QED BY <1>1, <1>4, <2>1 DEF WillHold
<1>5. CASE b[w].button # k
  <2>1. \A i \in Slot : IsLast(i, k, b, r, Advance(w)) <=> IsLast(i, k, b, r, w)
    BY <1>1, <1>5 DEF IsLast
  <2> QED BY <1>1, <1>5, <2>1 DEF WillHold
<1> QED BY <1>4, <1>5

\* The first event is handled.
LEMMA HoldPopped ==
  ASSUME NEW k, NEW b, NEW r \in Slot, NEW w \in Slot, r # w, NEW g, NEW h, NEW m,
         m = IF b[r].down THEN g \union {b[r].button} ELSE g \ {b[r].button},
         WillHold(k, b, r, w, g, h)
  PROVE  WillHold(k, b, Advance(r), w, m, h)
<1> DEFINE P == Queued(r, w)
           Q == Queued(Advance(r), w)
<1>1. /\ r \in P /\ Q = P \ {r} /\ Distance(r, r) = 0
      /\ \A i \in Q : Distance(Advance(r), i) = Distance(r, i) - 1
      /\ \A i \in P : i \in Slot /\ Distance(r, i) \in Nat
  BY RingPops, DistanceType DEF Queued
<1>2. ASSUME NEW i \in Slot, IsLast(i, k, b, Advance(r), w) PROVE IsLast(i, k, b, r, w)
  <2>1. i \in Q /\ b[i].button = k
    BY <1>2 DEF IsLast
  <2>2. ASSUME NEW j \in P, b[j].button = k PROVE Distance(r, j) <= Distance(r, i)
    <3>1. CASE j = r
      BY <1>1, <2>1, <3>1
    <3>2. CASE j # r
      <4>1. Distance(Advance(r), j) <= Distance(Advance(r), i) /\ j \in Q
        BY <1>1, <1>2, <2>2, <3>2 DEF IsLast
      <4>2. Distance(r, j) - 1 <= Distance(r, i) - 1
        BY <1>1, <2>1, <4>1
      <4>3. Distance(r, j) \in Int /\ Distance(r, i) \in Int
        BY <1>1, <2>1
      <4> HIDE DEF P, Q
      <4> QED BY <4>2, <4>3
    <3> QED BY <3>1, <3>2
  <2> QED BY <1>1, <2>1, <2>2 DEF IsLast
<1>3. ASSUME \A i \in Q : b[i].button # k PROVE k \in m <=> k \in h
  <2>1. CASE b[r].button = k
    <3>1. IsLast(r, k, b, r, w)
      <4>1. \A j \in P : b[j].button = k => j = r
        BY <1>1, <1>3
      <4>2. \A j \in P : b[j].button = k => Distance(r, j) <= Distance(r, r)
        BY <1>1, <4>1
      <4> QED BY <1>1, <2>1, <4>2 DEF IsLast
    <3>2. b[r].down <=> k \in h
      BY <3>1 DEF WillHold
    <3> QED BY <2>1, <3>2
  <2>2. CASE b[r].button # k
    <3>1. k \in g <=> k \in h
      BY <1>1, <1>3, <2>2 DEF WillHold
    <3> QED BY <2>2, <3>1
  <2> QED BY <2>1, <2>2
<1> QED BY <1>2, <1>3 DEF WillHold

-----------------------------------------------------------------------------
(* The buttons. *)

BeingPut(k) == \E t \in Task : Putting(t) /\ event[t].button = k

\* Button k has lost an event, or has one on its way into the ring, or what the
\* guest will show of it is what its last event says.
Follows(k) ==
  k \in lost \/ BeingPut(k)
    \/ WillHold(k, button_buffer, ReadAt, button_write_ptr, mouse_button, held)

\* When puts overlap, all they may do harm to is lost.
Overlapping == clash => \A t \in Task : Putting(t) =>
  event[t].button \in lost /\ \A i \in Slot : button_buffer[i].button \in lost

\* A put that is alone stores at the write pointer what is held, ...
Alone == ~clash => \A t \in Task : Putting(t) =>
  /\ loaded[t] = button_write_ptr
  /\ event[t].down <=> event[t].button \in held
  /\ pc[t] = "advance" => button_buffer[button_write_ptr] = event[t]
  /\ \A u \in Task : Putting(u) => u = t

\* ... and may come round to the event the CPU has just decided to read.
Wrapped == popping = "take" /\ RingEmpty =>
  \A i \in Slot : button_buffer[i].button \in lost \/ BeingPut(button_buffer[i].button)

\* Events are never left in the ring with nobody on the way to fetch them.
Fetched ==
  /\ popping # "no" => InLoop
  /\ cpu = "idle" =>
       RingEmpty \/ adb_flag \/ unserved \/ \E t \in Task : pc[t] = "flag"

ButtonInv ==
  /\ Overlapping /\ Alone /\ Wrapped /\ Fetched
  /\ \A k \in {0} \union Button : Follows(k)

\* A button of which no slot holds an event shows its state.
LEMMA HoldAbsent ==
  ASSUME NEW k, NEW b, \A i \in Slot : b[i].button # k, NEW r, NEW w, NEW g, NEW h
  PROVE  WillHold(k, b, r, w, g, h) <=> (k \in g <=> k \in h)
BY DEF WillHold, IsLast, Queued

LEMMA ReadAtType == ASSUME TypeOK PROVE ReadAt \in Slot
BY AdvanceInRing DEF ReadAt, TypeOK

\* Steps that leave the ring, the buttons and who is storing an event alone.
LEMMA SameButtons ==
  ASSUME ButtonInv, UNCHANGED ringvars, mouse_button' = mouse_button,
         UNCHANGED puthist, ReadAt' = ReadAt,
         popping' = "take" => popping = "take" \/ ~RingEmpty,
         \A t \in Task : /\ Putting(t)' <=> Putting(t)
                         /\ Putting(t) => /\ pc'[t] = pc[t]
                                          /\ event'[t] = event[t] /\ loaded'[t] = loaded[t]
  PROVE  (Overlapping /\ Alone /\ Wrapped)' /\ \A k \in {0} \union Button : Follows(k)'
<1> USE DEF ButtonInv, ringvars, puthist
<1>1. \A k : BeingPut(k)' <=> BeingPut(k)
  BY DEF BeingPut
<1>2. Overlapping' /\ Alone'
  BY DEF Overlapping, Alone
<1>3. Wrapped'
  BY <1>1 DEF Wrapped, RingEmpty
<1>4. ASSUME NEW k \in {0} \union Button PROVE Follows(k)'
  BY <1>1 DEF Follows
<1> QED BY <1>2, <1>3, <1>4

\* A movement, and the flag.
LEMMA ButtonMoves ==
  ASSUME TypeOK, ButtonInv, NEW t \in Task,
         MoveTo(t) \/ MoveBy(t) \/ Drag(t) \/ ZeroX(t) \/ ZeroY(t) \/ Moved(t)
           \/ StoreX(t) \/ LoadY(t) \/ StoreY(t) \/ RaiseAdb(t)
  PROVE  ButtonInv'
<1>1. /\ UNCHANGED ringvars /\ UNCHANGED guestvars /\ UNCHANGED puthist
      /\ UNCHANGED cpuvars /\ event' = event
      /\ pc[t] \notin PutSteps /\ pc'[t] \notin PutSteps
      /\ pc[t] = "flag" => adb_flag'
      /\ pc[t] # "flag" => adb_flag' = adb_flag /\ unserved' = unserved
      /\ \A v \in Task \ {t} : pc'[v] = pc[v] /\ loaded'[v] = loaded[v]
  BY DEF MoveTo, MoveBy, Drag, MoveInMode, BeginMove, ZeroX, ZeroY, Moved, StoreX, LoadY,
         StoreY, RaiseAdb, TypeOK, Goto, PutSteps, irqvars
<1>2. \A u \in Task : /\ Putting(u)' <=> Putting(u)
                      /\ Putting(u) => pc'[u] = pc[u] /\ loaded'[u] = loaded[u]
  BY <1>1 DEF Putting
<1>3. ReadAt' = ReadAt /\ popping' = popping /\ mouse_button' = mouse_button
  BY <1>1 DEF ReadAt, ringvars, cpuvars, guestvars
<1>4. (Overlapping /\ Alone /\ Wrapped)' /\ \A k \in {0} \union Button : Follows(k)'
  BY <1>1, <1>2, <1>3, SameButtons
<1>5. Fetched'
  BY <1>1 DEF ButtonInv, Fetched, RingEmpty, InLoop, ringvars, cpuvars
<1> QED BY <1>4, <1>5 DEF ButtonInv

\* A put begins.
LEMMA ButtonStarts ==
  ASSUME TypeOK, ButtonInv, NEW t \in Task, StartPut(t)
  PROVE  ButtonInv'
<1>1. PICK e \in [button: Button, down: BOOLEAN] :
        /\ event' = [event EXCEPT ![t] = e]
        /\ held' = IF e.down THEN held \union {e.button} ELSE held \ {e.button}
  BY PutCalls
<1>2. /\ UNCHANGED ringvars /\ UNCHANGED guestvars /\ UNCHANGED cpuvars
      /\ UNCHANGED irqvars
      /\ pc[t] = "idle" /\ pc'[t] = "slot" /\ loaded'[t] = button_write_ptr
      /\ event'[t] = e
      /\ \A v \in Task \ {t} :
           pc'[v] = pc[v] /\ loaded'[v] = loaded[v] /\ event'[v] = event[v]
  BY <1>1 DEF StartPut, TypeOK, Goto
<1>3. /\ clash' = \E u \in Task : Putting(u)
      /\ lost' = IF clash' THEN lost \union ButtonsInSlots
                   \union {event'[u].button : u \in {v \in Task : v = t \/ Putting(v)}}
                 ELSE lost
  BY Zenon DEF StartPut
<1>4. /\ ~Putting(t) /\ Putting(t)'
      /\ \A u \in Task : Putting(u)' <=> (u = t \/ Putting(u))
  BY <1>2 DEF Putting, PutSteps
<1>5. Overlapping'
  <2> SUFFICES ASSUME clash', NEW u \in Task, Putting(u)'
               PROVE  /\ event'[u].button \in lost'
                      /\ \A i \in Slot : button_buffer'[i].button \in lost'
    BY DEF Overlapping
  <2>1. u \in {v \in Task : v = t \/ Putting(v)}
    BY <1>4
  <2>2. \A i \in Slot : button_buffer'[i].button \in ButtonsInSlots
    BY <1>2 DEF ButtonsInSlots, ringvars
  <2> QED BY <1>3, <2>1, <2>2
<1>6. Alone'
  <2> SUFFICES ASSUME ~clash' PROVE Alone'
    BY DEF Alone
  <2>1. \A u \in Task : Putting(u)' => u = t
    BY <1>3, <1>4
  <2>2. e.down <=> e.button \in held'
    BY <1>1
  <2> QED BY <1>2, <2>1, <2>2 DEF Alone, ringvars
<1>7. lost \subseteq lost' /\ \A k : BeingPut(k) => BeingPut(k)'
  <2>1. \A k : BeingPut(k) => BeingPut(k)'
    BY <1>2, <1>4 DEF BeingPut
  <2> QED BY <1>3, <2>1
<1>8. Wrapped'
  BY <1>2, <1>7 DEF ButtonInv, Wrapped, RingEmpty, ringvars, cpuvars
<1>9. Fetched'
  BY <1>2 DEF ButtonInv, Fetched, RingEmpty, InLoop, ringvars, cpuvars, irqvars
<1>10. ASSUME NEW k \in {0} \union Button PROVE Follows(k)'
  <2>1. CASE k = e.button
    BY <1>2, <1>4, <2>1 DEF Follows, BeingPut
  <2>2. CASE k # e.button
    <3>1. k \in held' <=> k \in held
      BY <1>1, <2>2
    <3>2. ReadAt' = ReadAt
      BY <1>2 DEF ReadAt, ringvars, cpuvars
    <3>3. WillHold(k, button_buffer, ReadAt, button_write_ptr, mouse_button, held)
            => WillHold(k, button_buffer, ReadAt, button_write_ptr, mouse_button, held')
      BY <3>1, HoldStored
    <3> QED BY <1>2, <1>7, <3>2, <3>3 DEF ButtonInv, Follows, ringvars, guestvars
  <2> QED BY <2>1, <2>2
<1> QED BY <1>5, <1>6, <1>8, <1>9, <1>10 DEF ButtonInv

\* The event is stored: alone, where no queued one is.
LEMMA ButtonStored ==
  ASSUME TypeOK, Loaded, ButtonInv, NEW t \in Task, StoreSlot(t)
  PROVE  ButtonInv'
<1>1. /\ button_buffer' = [button_buffer EXCEPT ![loaded[t]] = event[t]]
      /\ button_read_ptr' = button_read_ptr /\ button_write_ptr' = button_write_ptr
      /\ UNCHANGED guestvars /\ UNCHANGED cpuvars /\ UNCHANGED irqvars
      /\ UNCHANGED puthist /\ event' = event /\ loaded' = loaded
      /\ pc[t] = "slot" /\ pc'[t] = "advance" /\ \A v \in Task \ {t} : pc'[v] = pc[v]
  BY DEF StoreSlot, TypeOK, Goto
<1>2. /\ Putting(t) /\ \A u \in Task : Putting(u)' <=> Putting(u)
      /\ \A k : BeingPut(k)' <=> BeingPut(k)
  <2>1. Putting(t) /\ \A u \in Task : Putting(u)' <=> Putting(u)
    BY <1>1 DEF Putting, PutSteps
  <2> QED BY <1>1, <2>1 DEF BeingPut
<1>3. /\ loaded[t] \in Slot /\ event[t] \in Event
      /\ \A i \in Slot : button_buffer'[i] = IF i = loaded[t] THEN event[t] ELSE button_buffer[i]
  BY <1>1, <1>2 DEF Loaded, TypeOK
<1>4. Overlapping'
  BY <1>1, <1>2, <1>3 DEF ButtonInv, Overlapping, puthist
<1>5. Alone'
  <2>1. ASSUME ~clash PROVE button_buffer'[button_write_ptr] = event[t]
    BY <1>2, <1>3, <2>1 DEF ButtonInv, Alone
  <2> QED BY <1>1, <1>2, <2>1 DEF ButtonInv, Alone, puthist
<1>6. Wrapped'
  <2>1. BeingPut(event[t].button)
    BY <1>2 DEF BeingPut
  <2> QED BY <1>1, <1>2, <1>3, <2>1 DEF ButtonInv, Wrapped, RingEmpty, puthist, cpuvars
<1>7. Fetched'
  BY <1>1 DEF ButtonInv, Fetched, RingEmpty, InLoop, cpuvars, irqvars
<1>8. ReadAt' = ReadAt /\ ReadAt \in Slot /\ button_write_ptr \in Slot
  BY <1>1, ReadAtType DEF ReadAt, cpuvars, TypeOK
<1>9. ASSUME NEW k \in {0} \union Button, k \notin lost, ~BeingPut(k)
      PROVE  WillHold(k, button_buffer', ReadAt, button_write_ptr, mouse_button, held)
  <2>1. WillHold(k, button_buffer, ReadAt, button_write_ptr, mouse_button, held)
    BY <1>9 DEF ButtonInv, Follows
  <2>2. CASE clash
    <3>1. /\ \A i \in Slot : button_buffer[i].button # k
          /\ \A i \in Slot : button_buffer'[i].button # k
      BY <1>2, <1>3, <1>9, <2>2 DEF ButtonInv, Overlapping
    <3> QED BY <2>1, <3>1, HoldAbsent
  <2>3. CASE ~clash
    <3>1. loaded[t] = button_write_ptr
      BY <1>2, <2>3 DEF ButtonInv, Alone
    <3>2. \A i \in Queued(ReadAt, button_write_ptr) : button_buffer'[i] = button_buffer[i]
      BY <1>3, <1>8, <3>1, DistanceType DEF Queued
    <3> QED BY <2>1, <3>2, HoldStored
  <2> QED BY <2>2, <2>3
<1>10. ASSUME NEW k \in {0} \union Button PROVE Follows(k)'
  BY <1>1, <1>2, <1>8, <1>9 DEF Follows, puthist, guestvars
<1> QED BY <1>4, <1>5, <1>6, <1>7, <1>10 DEF ButtonInv

\* The event is published: alone and not filling the ring, at its end.
LEMMA ButtonPublished ==
  ASSUME TypeOK, Loaded, ButtonInv, NEW t \in Task, AdvanceWrite(t)
  PROVE  ButtonInv'
<1>1. /\ button_buffer' = button_buffer /\ button_read_ptr' = button_read_ptr
      /\ button_write_ptr' = Advance(loaded[t])
      /\ UNCHANGED guestvars /\ UNCHANGED cpuvars /\ UNCHANGED irqvars
      /\ held' = held /\ clash' = clash
      /\ pc[t] = "advance" /\ pc'[t] = "flag"
      /\ \A v \in Task \ {t} : /\ pc'[v] = pc[v] /\ loaded'[v] = loaded[v]
                              /\ event'[v] = event[v]
  BY DEF AdvanceWrite, TypeOK, Goto
<1>2. Putting(t) /\ \A u \in Task : Putting(u)' <=> (Putting(u) /\ u # t)
  BY <1>1 DEF Putting, PutSteps
<1>3. /\ loaded[t] \in Slot /\ ReadAt \in Slot /\ ReadAt' = ReadAt
      /\ button_buffer \in [Slot -> Event]
  BY <1>1, <1>2, ReadAtType DEF Loaded, ReadAt, cpuvars, TypeOK
<1>4. /\ clash => lost' = lost
      /\ ~clash /\ Laps(t) => lost' = lost \union ButtonsInSlots
      /\ ~clash /\ ~Laps(t) => lost' = lost \ {event[t].button}
  BY DEF AdvanceWrite
<1>5. Overlapping'
  BY <1>1, <1>2, <1>4 DEF ButtonInv, Overlapping
<1>6. Alone'
  BY <1>1, <1>2 DEF ButtonInv, Alone
<1>7. \A i \in Slot : button_buffer[i].button \in ButtonsInSlots
  BY DEF ButtonsInSlots
<1>8. Wrapped'
  <2>1. popping' = "take" => ReadAt = button_read_ptr
    BY <1>1 DEF ReadAt, cpuvars
  <2>2. CASE clash
    BY <1>1, <1>2, <1>4, <2>2 DEF ButtonInv, Overlapping, Wrapped
  <2>3. CASE ~clash /\ Laps(t)
    BY <1>1, <1>4, <1>7, <2>3 DEF Wrapped
  <2>4. CASE ~Laps(t)
    BY <1>1, <2>1, <2>4 DEF Wrapped, RingEmpty, Laps
  <2> QED BY <2>2, <2>3, <2>4
<1>9. Fetched'
  BY <1>1 DEF ButtonInv, Fetched, InLoop, cpuvars
<1>10. ASSUME NEW k \in {0} \union Button PROVE Follows(k)'
  <2> SUFFICES ASSUME k \notin lost', ~BeingPut(k)'
               PROVE  WillHold(k, button_buffer, ReadAt, Advance(loaded[t]),
                               mouse_button, held)
    BY <1>1, <1>3 DEF Follows, guestvars
  <2>1. \A u \in Task \ {t} : Putting(u) => event[u].button # k
    BY <1>1, <1>2 DEF BeingPut
  <2>2. CASE clash \/ Laps(t)
    <3>1. k \notin lost /\ \A i \in Slot : button_buffer[i].button # k
      BY <1>2, <1>4, <1>7, <2>2 DEF ButtonInv, Overlapping
    <3>2. event[t].button # k
      <4>1. CASE clash
        BY <1>2, <3>1, <4>1 DEF ButtonInv, Overlapping
      <4>2. CASE ~clash
        <5>1. button_buffer[button_write_ptr] = event[t] /\ button_write_ptr \in Slot
          BY <1>1, <1>2, <4>2 DEF ButtonInv, Alone, TypeOK
        <5> QED BY <3>1, <5>1
      <4> QED BY <4>1, <4>2
    <3>3. ~BeingPut(k)
      BY <2>1, <3>2 DEF BeingPut
    <3> QED BY <3>1, <3>3, HoldAbsent DEF ButtonInv, Follows
  <2>3. CASE ~clash /\ ~Laps(t)
    <3>1. /\ loaded[t] = button_write_ptr
          /\ event[t].down <=> event[t].button \in held
          /\ button_buffer[button_write_ptr] = event[t]
      BY <1>1, <1>2, <2>3 DEF ButtonInv, Alone
    <3>2. Distance(ReadAt, button_write_ptr) + 1 < RingSize
      BY <1>3, <2>3, <3>1, NotFull DEF Laps
    <3>3. event[t].button # k
            => WillHold(k, button_buffer, ReadAt, button_write_ptr, mouse_button, held)
      BY <1>4, <2>1, <2>3 DEF ButtonInv, Follows, BeingPut
    <3>4. IF button_buffer[button_write_ptr].button = k
          THEN button_buffer[button_write_ptr].down <=> k \in held
          ELSE WillHold(k, button_buffer, ReadAt, button_write_ptr, mouse_button, held)
      BY <3>1, <3>3
    <3> QED BY <1>3, <3>1, <3>2, <3>4, HoldAppended
  <2> QED BY <2>2, <2>3
<1> QED BY <1>5, <1>6, <1>8, <1>9, <1>10 DEF ButtonInv

\* The CPU takes the first event, or, when the ring was filled over it, one of
\* the buttons that are lost.
LEMMA ButtonPopped == ASSUME TypeOK, ButtonInv, PopButton PROVE ButtonInv'
<1> DEFINE r == button_read_ptr
           w == button_write_ptr
           e == button_buffer[r]
<1>1. /\ mouse_button' = IF e.down THEN mouse_button \union {e.button}
                         ELSE mouse_button \ {e.button}
      /\ popping = "take" /\ popping' = "next" /\ cpu' = cpu
      /\ UNCHANGED ringvars /\ UNCHANGED taskvars /\ UNCHANGED irqvars /\ UNCHANGED puthist
  BY DEF PopButton
<1>2. r \in Slot /\ w \in Slot /\ ReadAt = r /\ ReadAt' = Advance(r)
  BY <1>1 DEF TypeOK, ReadAt, ringvars
<1>3. \A k : BeingPut(k)' <=> BeingPut(k)
  BY <1>1 DEF BeingPut, Putting, taskvars
<1>4. Overlapping' /\ Alone' /\ Wrapped' /\ Fetched'
  BY <1>1 DEF ButtonInv, Overlapping, Alone, Wrapped, Fetched, RingEmpty, InLoop, Putting,
              ringvars, taskvars, irqvars, puthist
<1>5. ASSUME NEW k \in {0} \union Button, k \notin lost, ~BeingPut(k)
      PROVE  WillHold(k, button_buffer, Advance(r), w, mouse_button', held)
  <2>1. WillHold(k, button_buffer, r, w, mouse_button, held)
    BY <1>2, <1>5 DEF ButtonInv, Follows
  <2>2. CASE r = w
    <3>1. \A i \in Slot : button_buffer[i].button # k
      BY <1>1, <1>5, <2>2 DEF ButtonInv, Wrapped, RingEmpty
    <3>2. k \in mouse_button' <=> k \in mouse_button
      BY <1>1, <1>2, <3>1
    <3> HIDE DEF r, w
    <3> QED BY <2>1, <3>1, <3>2, HoldAbsent
  <2>3. CASE r # w
    <3> HIDE DEF r, w, e
    <3> QED BY <1>1, <1>2, <2>1, <2>3, HoldPopped DEF e
  <2> QED BY <2>2, <2>3
<1>6. ASSUME NEW k \in {0} \union Button PROVE Follows(k)'
  BY <1>1, <1>2, <1>3, <1>5 DEF Follows, ringvars, puthist
<1> QED BY <1>4, <1>6 DEF ButtonInv

\* The other steps of the CPU.
LEMMA ButtonCpu ==
  ASSUME TypeOK, ButtonInv, AdbInterrupt \/ GuestReady, ~PopButton
  PROVE  ButtonInv'
<1>1. UNCHANGED taskvars /\ UNCHANGED puthist /\ mouse_button' = mouse_button
  BY DEF AdbInterrupt, GuestReady, AdbIrq, DebuggerPoll, ReadY, CheckMode, CpuZeroX,
         CpuZeroY, Branch, FindEvent, AdvanceRead, RelativePacket, LoopDone, guestvars
<1>2. CASE AdvanceRead
  <2>1. /\ button_buffer' = button_buffer /\ button_write_ptr' = button_write_ptr
        /\ ReadAt' = ReadAt /\ popping' = "no" /\ cpu' = cpu /\ popping = "next"
    BY <1>2 DEF AdvanceRead, ReadAt
  <2>2. Overlapping' /\ Alone' /\ Wrapped'
    BY <1>1, <2>1 DEF ButtonInv, Overlapping, Alone, Wrapped, Putting, taskvars, puthist
  <2>3. Fetched'
    BY <2>1 DEF ButtonInv, Fetched, InLoop
  <2>4. \A k : BeingPut(k)' <=> BeingPut(k)
    BY <1>1 DEF BeingPut, Putting, taskvars
  <2>5. ASSUME NEW k \in {0} \union Button PROVE Follows(k)'
    BY <1>1, <2>1, <2>4 DEF ButtonInv, Follows, puthist
  <2> QED BY <2>2, <2>3, <2>5 DEF ButtonInv
<1>3. CASE ~AdvanceRead
  <2>1. /\ UNCHANGED ringvars
        /\ popping' = popping \/ (popping = "no" /\ popping' = "take" /\ ~RingEmpty)
    BY <1>3 DEF AdbInterrupt, GuestReady, AdbIrq, DebuggerPoll, ReadY, CheckMode, CpuZeroX,
         CpuZeroY, Branch, FindEvent, RelativePacket, LoopDone, cpuvars
  <2>2. ReadAt' = ReadAt
    BY <2>1 DEF ReadAt, ringvars
  <2>3. \A t \in Task : /\ Putting(t)' <=> Putting(t)
                        /\ Putting(t) => /\ pc'[t] = pc[t]
                                         /\ event'[t] = event[t] /\ loaded'[t] = loaded[t]
    BY <1>1 DEF Putting, taskvars
  <2>4. (Overlapping /\ Alone /\ Wrapped)' /\ \A k \in {0} \union Button : Follows(k)'
    BY <1>1, <2>1, <2>2, <2>3, SameButtons
  <2>5. Fetched'
    <3> USE <2>1 DEF ButtonInv, Fetched, RingEmpty, InLoop, ringvars, cpuvars, Cpu
    <3>1. CASE AdbIrq
      BY <1>1, <3>1 DEF AdbIrq, ReadX, taskvars
    <3>2. CASE DebuggerPoll
      BY <3>2 DEF DebuggerPoll, ReadX
    <3>3. CASE GuestReady
      BY <1>1, <3>3 DEF GuestReady, taskvars
    <3>4. CASE FindEvent \/ RelativePacket \/ LoopDone
      BY <3>4 DEF FindEvent, RelativePacket, LoopDone
    <3>5. CASE ReadY \/ CheckMode \/ CpuZeroX \/ CpuZeroY \/ Branch
      BY <3>5 DEF ReadY, CheckMode, CpuZeroX, CpuZeroY, Branch
    <3> QED BY <1>3, <3>1, <3>2, <3>3, <3>4, <3>5 DEF AdbInterrupt
  <2> QED BY <2>4, <2>5 DEF ButtonInv
<1> QED BY <1>2, <1>3

LEMMA ButtonsKept == Spec => []ButtonInv
<1>1. Init => ButtonInv
  <2> SUFFICES ASSUME Init PROVE ButtonInv
    OBVIOUS
  <2>1. ReadAt = 0 /\ \A t \in Task : ~Putting(t)
    BY DEF Init, ReadAt, Putting, PutSteps
  <2>2. Overlapping /\ Alone /\ Wrapped /\ Fetched
    BY <2>1 DEF Init, Overlapping, Alone, Wrapped, Fetched, RingEmpty
  <2>3. ASSUME NEW k \in {0} \union Button PROVE Follows(k)
    <3>1. Queued(0, 0) = {}
      BY NothingQueued, AdbMouseAssumption DEF Slot
    <3>2. WillHold(k, button_buffer, 0, 0, {}, {})
      BY <3>1 DEF WillHold, IsLast
    <3> QED BY <2>1, <3>2 DEF Init, Follows
  <2> QED BY <2>2, <2>3 DEF ButtonInv
<1>2. TypeOK /\ Loaded /\ ButtonInv /\ [Next]_vars => ButtonInv'
  <2> SUFFICES ASSUME TypeOK, Loaded, ButtonInv, [Next]_vars PROVE ButtonInv'
    OBVIOUS
  <2>1. CASE AdbInterrupt \/ GuestReady
    BY <2>1, ButtonPopped, ButtonCpu
  <2>2. ASSUME NEW t \in Task, Client(t) \/ Running(t) PROVE ButtonInv'
    BY <2>2, ButtonMoves, ButtonStarts, ButtonStored, ButtonPublished DEF Client, Running
  <2>3. CASE UNCHANGED vars
    <3>1. /\ UNCHANGED ringvars /\ mouse_button' = mouse_button /\ UNCHANGED puthist
          /\ ReadAt' = ReadAt /\ UNCHANGED taskvars /\ UNCHANGED cpuvars /\ UNCHANGED irqvars
      BY <2>3 DEF vars, guestvars, ReadAt, ringvars, cpuvars
    <3>2. (Overlapping /\ Alone /\ Wrapped)' /\ \A k \in {0} \union Button : Follows(k)'
      BY <3>1, SameButtons DEF Putting, taskvars, cpuvars
    <3>3. Fetched'
      BY <3>1 DEF ButtonInv, Fetched, RingEmpty, InLoop, ringvars, taskvars, cpuvars, irqvars
    <3> QED BY <3>2, <3>3 DEF ButtonInv
  <2> QED BY <2>1, <2>2, <2>3 DEF Next
<1> QED BY <1>1, <1>2, Typed, PTL DEF Spec

\* The guest's buttons come to rest as their last events say, whichever tasks put
\* them and whatever happens to the mode (ADBMouseDown, ADBMouseUp, ADBInterrupt).
\* The code has neither a lock nor a check for a full ring: the buttons that lose
\* an event by that are known, and their next event sets them right.
THEOREM ButtonsComeToRest == Spec => []ButtonsFollow
<1>1. TypeOK /\ ButtonInv => ButtonsFollow
  <2> SUFFICES ASSUME TypeOK, ButtonInv, AtRest, NEW k \in Button \ lost
               PROVE  k \in mouse_button <=> k \in held
    BY DEF ButtonsFollow
  <2>1. ReadAt = button_read_ptr /\ button_write_ptr = button_read_ptr
    BY DEF AtRest, ButtonInv, Fetched, InLoop, RingEmpty, ReadAt, TypeOK
  <2>2. ~BeingPut(k)
    BY DEF AtRest, BeingPut, Putting, PutSteps
  <2>3. WillHold(k, button_buffer, button_read_ptr, button_read_ptr, mouse_button, held)
    BY <2>1, <2>2 DEF ButtonInv, Follows
  <2>4. Queued(button_read_ptr, button_read_ptr) = {}
    BY NothingQueued DEF TypeOK
  <2> QED BY <2>3, <2>4 DEF WillHold
<1> QED BY <1>1, ButtonsKept, TypeCorrect, PTL

-----------------------------------------------------------------------------
(* The ring is a queue. *)

\* What the guest is told of an event.
Told == [key: {0} \union Button, down: BOOLEAN]
Shown(buffer) == [i \in Slot |-> [key |-> buffer[i].button, down |-> buffer[i].down]]

RingAt(b, r, w) == [i \in 1..Distance(r, w) |-> b[(r + i - 1) % RingSize]]

LEMMA Sums ==
  ASSUME NEW i \in Slot, NEW j \in Slot
  PROVE  /\ (i + j) % RingSize = IF i + j < RingSize THEN i + j ELSE i + j - RingSize
         /\ (i + j) % RingSize \in Slot
<1>1. RingSize \in Nat \ {0} /\ i \in 0..RingSize - 1 /\ j \in 0..RingSize - 1
  BY AdbMouseAssumption DEF Slot
<1>2. (i + j) % RingSize = IF i + j < RingSize THEN i + j ELSE i + j - RingSize
  BY <1>1, SMT
<1> QED BY <1>1, <1>2 DEF Slot

\* The positions of the ring up to the write pointer are slots, and its own is
\* the first after them.
LEMMA Positions ==
  ASSUME NEW r \in Slot, NEW w \in Slot
  PROVE  /\ \A i \in 1..Distance(r, w) :
               /\ i - 1 \in Slot /\ r + i - 1 = r + (i - 1)
               /\ (r + (i - 1)) % RingSize \in Slot /\ (r + (i - 1)) % RingSize # w
         /\ Distance(r, w) \in Slot /\ (r + Distance(r, w)) % RingSize = w
<1>1. RingSize \in Nat \ {0} /\ r \in 0..RingSize - 1 /\ w \in 0..RingSize - 1
  BY AdbMouseAssumption DEF Slot
<1>2. /\ Distance(r, w) = IF w >= r THEN w - r ELSE w - r + RingSize
      /\ Distance(r, w) \in Nat /\ Distance(r, w) < RingSize
  BY Remainders, DistanceType
<1>3. Distance(r, w) \in Slot
  BY <1>1, <1>2 DEF Slot
<1>4. (r + Distance(r, w)) % RingSize
        = IF r + Distance(r, w) < RingSize THEN r + Distance(r, w)
          ELSE r + Distance(r, w) - RingSize
  BY <1>3, Sums
<1>5. (r + Distance(r, w)) % RingSize = w
  BY <1>1, <1>2, <1>4
<1>6. ASSUME NEW i \in 1..Distance(r, w)
      PROVE  /\ i - 1 \in Slot /\ r + i - 1 = r + (i - 1)
             /\ (r + (i - 1)) % RingSize \in Slot /\ (r + (i - 1)) % RingSize # w
  <2>1. i - 1 \in Slot /\ r + i - 1 = r + (i - 1)
    BY <1>1, <1>2 DEF Slot
  <2>2. /\ (r + (i - 1)) % RingSize
             = IF r + (i - 1) < RingSize THEN r + (i - 1) ELSE r + (i - 1) - RingSize
        /\ (r + (i - 1)) % RingSize \in Slot
    BY <2>1, Sums
  <2>3. (r + (i - 1)) % RingSize # w
    BY <1>1, <1>2, <2>1, <2>2 DEF Slot
  <2> QED BY <2>1, <2>2, <2>3
<1> QED BY <1>3, <1>5, <1>6

LEMMA RingIsSeq ==
  ASSUME NEW b \in [Slot -> Told], NEW r \in Slot, NEW w \in Slot
  PROVE  /\ RingAt(b, r, w) \in Seq(Told) /\ Len(RingAt(b, r, w)) = Distance(r, w)
         /\ \A i \in 1..Distance(r, w) : RingAt(b, r, w)[i] = b[(r + (i - 1)) % RingSize]
<1> DEFINE n == Distance(r, w)
<1>1. n \in Nat
  BY DistanceType
<1>2. \A i \in 1..n : /\ r + i - 1 = r + (i - 1)
                      /\ (r + (i - 1)) % RingSize \in Slot
  BY Positions
<1>3. RingAt(b, r, w) = [i \in 1..n |-> b[(r + i - 1) % RingSize]]
  BY DEF RingAt
<1> HIDE DEF n
<1>4. ASSUME NEW i \in 1..n PROVE b[(r + i - 1) % RingSize] \in Told
  BY <1>2
<1>5. RingAt(b, r, w) \in Seq(Told) /\ Len(RingAt(b, r, w)) = n
  BY <1>1, <1>3, <1>4
<1> QED BY <1>2, <1>3, <1>5 DEF n

\* Publishing appends the slot of the write pointer.
LEMMA RingPut ==
  ASSUME NEW b \in [Slot -> Told], NEW r \in Slot, NEW w \in Slot,
         Distance(r, w) + 1 < RingSize
  PROVE  RingAt(b, r, Advance(w)) = Append(RingAt(b, r, w), b[w])
<1> DEFINE n == Distance(r, w)
           s == RingAt(b, r, w)
           t == RingAt(b, r, Advance(w))
<1>1. RingSize \in Nat \ {0} /\ r \in 0..RingSize - 1 /\ w \in 0..RingSize - 1
  BY AdbMouseAssumption DEF Slot
<1>2. /\ Advance(w) \in Slot /\ Advance(w) = IF w + 1 = RingSize THEN 0 ELSE w + 1
      /\ n = IF w >= r THEN w - r ELSE w - r + RingSize
  BY AdvanceInRing, Remainders
<1>3. n \in Nat
  BY DistanceType
<1>4. Distance(r, Advance(w)) = n + 1
  <2>1. Distance(r, Advance(w))
          = IF Advance(w) >= r THEN Advance(w) - r ELSE Advance(w) - r + RingSize
    BY <1>2, Remainders
  <2> HIDE DEF n
  <2> QED BY <1>1, <1>2, <1>3, <2>1 DEF n
<1>5. /\ s \in Seq(Told) /\ Len(s) = n
      /\ \A i \in 1..n : s[i] = b[(r + (i - 1)) % RingSize]
      /\ t \in Seq(Told) /\ Len(t) = n + 1
      /\ \A i \in 1..n + 1 : t[i] = b[(r + (i - 1)) % RingSize]
  <2>1. /\ t \in Seq(Told) /\ Len(t) = Distance(r, Advance(w))
        /\ \A i \in 1..Distance(r, Advance(w)) : t[i] = b[(r + (i - 1)) % RingSize]
    BY <1>2, RingIsSeq
  <2> QED BY <1>4, <2>1, RingIsSeq
<1>6. t[n + 1] = b[w]
  <2>1. (r + n) % RingSize = w
    BY Positions
  <2>2. n + 1 \in 1..n + 1 /\ (n + 1) - 1 = n
    BY <1>3
  <2> QED BY <1>5, <2>1, <2>2
<1> HIDE DEF n, s, t
<1>7. /\ Append(s, b[w]) \in Seq(Told) /\ Len(Append(s, b[w])) = n + 1
      /\ \A i \in 1..n : Append(s, b[w])[i] = s[i]
      /\ Append(s, b[w])[n + 1] = b[w]
  BY <1>5, AppendProperties
<1>8. ASSUME NEW i \in 1..n + 1 PROVE t[i] = Append(s, b[w])[i]
  <2>1. CASE i = n + 1
    BY <1>6, <1>7, <2>1
  <2>2. CASE i \in 1..n
    <3>1. t[i] = b[(r + (i - 1)) % RingSize]
      BY <1>5
    <3>2. s[i] = b[(r + (i - 1)) % RingSize]
      BY <1>5, <2>2
    <3>3. Append(s, b[w])[i] = s[i]
      BY <1>7, <2>2
    <3> QED BY <3>1, <3>2, <3>3, Zenon
  <2>3. i = n + 1 \/ i \in 1..n
    BY <1>3
  <2> QED BY <2>1, <2>2, <2>3
<1>9. t = Append(s, b[w])
  BY <1>5, <1>7, <1>8, SeqEqual
<1> QED BY <1>9 DEF s, t

\* Popping takes the slot of the read pointer, which is the first.
LEMMA RingTake ==
  ASSUME NEW b \in [Slot -> Told], NEW r \in Slot, NEW w \in Slot, r # w
  PROVE  /\ RingAt(b, r, w) # <<>>
         /\ Head(RingAt(b, r, w)) = b[r]
         /\ Tail(RingAt(b, r, w)) = RingAt(b, Advance(r), w)
<1> DEFINE n == Distance(r, w)
           s == RingAt(b, r, w)
           t == RingAt(b, Advance(r), w)
<1>1. RingSize \in Nat \ {0} /\ r \in 0..RingSize - 1 /\ w \in 0..RingSize - 1
  BY AdbMouseAssumption DEF Slot
<1>2. Advance(r) \in Slot /\ Advance(r) = IF r + 1 = RingSize THEN 0 ELSE r + 1
  BY AdvanceInRing, Remainders
<1>3. n \in Nat /\ n - 1 \in Nat /\ n < RingSize /\ Distance(Advance(r), w) = n - 1
  <2>1. n \in Nat /\ n < RingSize /\ Distance(Advance(r), w) \in Nat
    BY <1>2, DistanceType
  <2> QED BY <2>1, RingPops
<1>4. /\ s \in Seq(Told) /\ Len(s) = n
      /\ \A i \in 1..n : s[i] = b[(r + (i - 1)) % RingSize]
      /\ t \in Seq(Told) /\ Len(t) = n - 1
      /\ \A i \in 1..n - 1 : t[i] = b[(Advance(r) + (i - 1)) % RingSize]
  <2>1. /\ t \in Seq(Told) /\ Len(t) = Distance(Advance(r), w)
        /\ \A i \in 1..Distance(Advance(r), w) : t[i] = b[(Advance(r) + (i - 1)) % RingSize]
    BY <1>2, RingIsSeq
  <2> QED BY <1>3, <2>1, RingIsSeq
<1>5. ASSUME NEW i \in 1..n - 1 PROVE t[i] = s[i + 1]
  <2>1. i - 1 \in Slot /\ i \in Slot /\ i + 1 \in 1..n /\ (i + 1) - 1 = i
    <3> HIDE DEF n
    <3> QED BY <1>1, <1>3 DEF Slot
  <2>2. /\ (Advance(r) + (i - 1)) % RingSize
             = IF Advance(r) + (i - 1) < RingSize THEN Advance(r) + (i - 1)
               ELSE Advance(r) + (i - 1) - RingSize
        /\ (r + i) % RingSize = IF r + i < RingSize THEN r + i ELSE r + i - RingSize
    BY <1>2, <2>1, Sums
  <2>3. (Advance(r) + (i - 1)) % RingSize = (r + i) % RingSize
    BY <1>1, <1>2, <2>1, <2>2 DEF Slot
  <2>4. s[i + 1] = b[(r + i) % RingSize]
    BY <1>4, <2>1
  <2>5. t[i] = b[(Advance(r) + (i - 1)) % RingSize]
    BY <1>4
  <2> QED BY <2>3, <2>4, <2>5, Zenon
<1>6. s[1] = b[r]
  <2>1. (r + (1 - 1)) % RingSize = r
    BY <1>1
  <2>2. 1 \in 1..n
    BY <1>3
  <2> QED BY <1>4, <2>1, <2>2
<1> HIDE DEF n, s, t
<1>7. s # <<>> /\ Head(s) = s[1]
  BY <1>3, <1>4
<1>8. /\ Tail(s) \in Seq(Told) /\ Len(Tail(s)) = n - 1
      /\ \A i \in 1..n - 1 : Tail(s)[i] = s[i + 1]
  BY <1>4, <1>7, HeadTailProperties
<1>9. Tail(s) = t
  BY <1>4, <1>5, <1>8, SeqEqual
<1> QED BY <1>6, <1>7, <1>9 DEF s, t

\* A store into the slot of the write pointer is not seen.
LEMMA RingStore ==
  ASSUME NEW b \in [Slot -> Told], NEW c \in [Slot -> Told],
         NEW r \in Slot, NEW w \in Slot, \A i \in Slot \ {w} : c[i] = b[i]
  PROVE  RingAt(c, r, w) = RingAt(b, r, w)
<1> DEFINE n == Distance(r, w)
<1>1. ASSUME NEW i \in 1..n PROVE c[(r + (i - 1)) % RingSize] = b[(r + (i - 1)) % RingSize]
  BY Positions
<1>2. /\ RingAt(b, r, w) \in Seq(Told) /\ Len(RingAt(b, r, w)) = n
      /\ \A i \in 1..n : RingAt(b, r, w)[i] = b[(r + (i - 1)) % RingSize]
  BY RingIsSeq
<1>3. /\ RingAt(c, r, w) \in Seq(Told) /\ Len(RingAt(c, r, w)) = n
      /\ \A i \in 1..n : RingAt(c, r, w)[i] = c[(r + (i - 1)) % RingSize]
  BY RingIsSeq
<1> HIDE DEF n
<1>4. ASSUME NEW i \in 1..n PROVE RingAt(c, r, w)[i] = RingAt(b, r, w)[i]
  <2>1. RingAt(c, r, w)[i] = c[(r + (i - 1)) % RingSize]
    BY <1>3
  <2>2. RingAt(b, r, w)[i] = b[(r + (i - 1)) % RingSize]
    BY <1>2
  <2> QED BY <1>1, <2>1, <2>2, Zenon
<1> QED BY <1>2, <1>3, <1>4, SeqEqual

\* The queue of Ring is what the ring shows.
LEMMA InRingAt ==
  ASSUME NEW b \in [Slot -> Event], NEW r \in Slot, NEW w \in Slot
  PROVE  /\ Shown(b) \in [Slot -> Told]
         /\ [i \in 1..Distance(r, w) |->
               LET e == b[(r + i - 1) % RingSize] IN [key |-> e.button, down |-> e.down]]
              = RingAt(Shown(b), r, w)
<1>1. Shown(b) \in [Slot -> Told]
  BY DEF Shown, Told, Event
<1>2. ASSUME NEW i \in 1..Distance(r, w)
      PROVE  LET e == b[(r + i - 1) % RingSize] IN [key |-> e.button, down |-> e.down]
               = Shown(b)[(r + i - 1) % RingSize]
  <2>1. (r + i - 1) % RingSize \in Slot
    BY Positions
  <2> QED BY <2>1 DEF Shown
<1> QED BY <1>1, <1>2 DEF RingAt

InRingNow ==
  /\ InRing = RingAt(Shown(button_buffer), ReadAt, button_write_ptr)
  /\ Shown(button_buffer) \in [Slot -> Told]
  /\ ReadAt \in Slot /\ button_write_ptr \in Slot

LEMMA InRingNowHolds == TypeOK => InRingNow
<1> SUFFICES ASSUME TypeOK PROVE InRingNow
  OBVIOUS
<1>1. /\ ReadAt \in Slot /\ button_write_ptr \in Slot
      /\ button_buffer \in [Slot -> Event]
  BY ReadAtType DEF TypeOK
<1> QED BY <1>1, InRingAt DEF InRingNow, InRing, Distance

\* The CPU handles the first event of the queue.
LEMMA PopHandles ==
  ASSUME TypeOK, TypeOK', PopButton, ~RingEmpty
  PROVE  Ring!Handle
<1>1. InRingNow /\ InRingNow'
  BY InRingNowHolds, PTL
<1> DEFINE b == Shown(button_buffer)
           r == button_read_ptr
           w == button_write_ptr
<1>2. /\ ReadAt = r /\ ReadAt' = Advance(r) /\ b' = b /\ button_write_ptr' = w
      /\ LET e == button_buffer[r] IN
           mouse_button' = IF e.down THEN mouse_button \union {e.button}
                           ELSE mouse_button \ {e.button}
  BY DEF PopButton, ReadAt, Shown, ringvars
<1>3. r \in Slot /\ w \in Slot /\ b \in [Slot -> Told] /\ r # w
  BY <1>1, <1>2 DEF InRingNow, RingEmpty
<1>4. b[r].key = button_buffer[r].button /\ b[r].down = button_buffer[r].down
  BY <1>3 DEF Shown
<1>5. InRing = RingAt(b, r, w) /\ InRing' = RingAt(b, Advance(r), w)
  BY <1>1, <1>2 DEF InRingNow
<1> HIDE DEF b, r, w
<1>6. /\ RingAt(b, r, w) # <<>> /\ Head(RingAt(b, r, w)) = b[r]
      /\ Tail(RingAt(b, r, w)) = RingAt(b, Advance(r), w)
  BY <1>3, RingTake
<1> QED BY <1>2, <1>4, <1>5, <1>6 DEF Ring!Handle

\* A put that is alone is not seen until it is published, and then adds its event
\* at the end, if the ring has room.
LEMMA PutAlone ==
  ASSUME TypeOK, TypeOK', Loaded, ButtonInv, ~clash, NEW t \in Task
  PROVE  /\ StoreSlot(t) => UNCHANGED <<InRing, mouse_button>>
         /\ AdvanceWrite(t) /\ ~Laps(t) => Ring!Next
<1> DEFINE b == Shown(button_buffer)
           r == ReadAt
           w == button_write_ptr
<1>1. InRingNow /\ InRingNow'
  BY InRingNowHolds, PTL
<1>2. b \in [Slot -> Told] /\ r \in Slot /\ w \in Slot /\ InRing = RingAt(b, r, w)
  BY <1>1 DEF InRingNow
<1>3. ASSUME StoreSlot(t) PROVE UNCHANGED <<InRing, mouse_button>>
  <2>1. loaded[t] = w
    BY <1>3 DEF StoreSlot, ButtonInv, Alone, Putting, PutSteps
  <2>2. /\ button_buffer' = [button_buffer EXCEPT ![w] = event[t]]
        /\ r' = r /\ w' = w /\ mouse_button' = mouse_button
    BY <1>3, <2>1 DEF StoreSlot, ReadAt, guestvars, cpuvars
  <2>3. \A i \in Slot \ {w} : b'[i] = b[i]
    BY <2>2 DEF TypeOK, Shown
  <2>4. InRing' = RingAt(b', r, w) /\ b' \in [Slot -> Told]
    BY <1>1, <2>2 DEF InRingNow
  <2> HIDE DEF b, r, w
  <2> QED BY <1>2, <2>2, <2>3, <2>4, RingStore
<1>4. ASSUME AdvanceWrite(t), ~Laps(t) PROVE Ring!Next
  <2>1. Putting(t) /\ pc[t] = "advance"
    BY <1>4 DEF AdvanceWrite, Putting, PutSteps
  <2>2. loaded[t] = w /\ button_buffer[w] = event[t] /\ event[t].button \in Button
    BY <2>1 DEF ButtonInv, Alone, Loaded
  <2>3. /\ button_buffer' = button_buffer /\ r' = r /\ w' = Advance(w)
        /\ mouse_button' = mouse_button /\ Advance(w) # r
    BY <1>4, <2>2 DEF AdvanceWrite, Laps, ReadAt, guestvars, cpuvars
  <2>4. InRing' = RingAt(b, r, Advance(w))
    BY <1>1, <2>3 DEF InRingNow, Shown
  <2>5. b[w] \in [key: Button, down: BOOLEAN]
    BY <1>2, <2>2 DEF Shown, TypeOK, Event
  <2> HIDE DEF b, r, w
  <2>6. Distance(r, w) + 1 < RingSize /\ Distance(r, w) \in Nat
    BY <1>2, <2>3, NotFull, DistanceType
  <2>7. InRing' = Append(InRing, b[w]) /\ Len(InRing) = Distance(r, w)
    BY <1>2, <2>4, <2>6, RingPut, RingIsSeq
  <2>8. Len(InRing) < RingSize - 1
    BY <2>6, <2>7, AdbMouseAssumption
  <2> QED BY <2>3, <2>5, <2>7, <2>8 DEF Ring!Next, Ring!Put
<1> QED BY <1>3, <1>4

\* The ring is a queue although nothing locks it or looks whether it is full:
\* every step of the tasks and the CPU adds an event at its end or handles the
\* first one, in either mode (ADBMouseDown, ADBMouseUp, ADBInterrupt), but for the
\* puts that overlap another, the put that fills the ring, and the read of an
\* event over which it has been filled.
THEOREM RingIsQueue == Spec => ButtonsInOrder
<1> DEFINE Still == UNCHANGED <<InRing, mouse_button>>
           Good  == Disturbed \/ Ring!Next \/ Still
<1>1. TypeOK /\ TypeOK' /\ Loaded /\ ButtonInv /\ [Next]_vars => Good
  <2> SUFFICES ASSUME TypeOK, TypeOK', Loaded, ButtonInv, [Next]_vars PROVE Good
    OBVIOUS
  \* Steps that leave the ring and the guest's buttons alone.
  <2>1. ASSUME button_buffer' = button_buffer, button_write_ptr' = button_write_ptr,
               ReadAt' = ReadAt, mouse_button' = mouse_button
        PROVE  Good
    BY <2>1 DEF InRing
  <2>2. UNCHANGED ringvars /\ UNCHANGED guestvars /\ UNCHANGED cpuvars => Good
    BY <2>1 DEF ringvars, guestvars, cpuvars, ReadAt
  <2>3. ASSUME NEW t \in Task, StoreSlot(t) \/ AdvanceWrite(t) PROVE Good
    <3>1. Putting(t) /\ pc'[t] # pc[t]
      BY <2>3 DEF StoreSlot, AdvanceWrite, Putting, PutSteps, TypeOK, Goto
    <3>2. AdvanceWrite(t) /\ Laps(t) => Disturbed
      BY <3>1 DEF AdvanceWrite, Disturbed
    <3> QED BY <2>3, <3>1, <3>2, PutAlone DEF Disturbed
  <2>4. ASSUME NEW t \in Task, Client(t) \/ Running(t) PROVE Good
    <3>1. CASE StoreSlot(t) \/ AdvanceWrite(t)
      BY <2>3, <3>1
    <3>2. CASE ~StoreSlot(t) /\ ~AdvanceWrite(t)
      BY <2>2, <2>4, <3>2 DEF Client, Running, MoveTo, MoveBy, Drag, MoveInMode, BeginMove,
         ZeroX, ZeroY, Moved, StoreX, LoadY, StoreY, StartPut, RaiseAdb
    <3> QED BY <3>1, <3>2
  <2>5. CASE AdbInterrupt \/ GuestReady
    <3>1. CASE PopButton
      BY <3>1, PopHandles DEF PopButton, Disturbed, Ring!Next
    <3>2. CASE AdvanceRead
      BY <2>1, <3>2 DEF AdvanceRead, ReadAt
    <3>3. CASE FindEvent
      BY <2>1, <3>3 DEF FindEvent, ReadAt, ringvars, guestvars
    <3>4. CASE ~PopButton /\ ~AdvanceRead /\ ~FindEvent
      <4>1. UNCHANGED ringvars /\ mouse_button' = mouse_button /\ popping' = popping
        BY <2>5, <3>4 DEF AdbInterrupt, GuestReady, AdbIrq, DebuggerPoll, ReadY, CheckMode,
           CpuZeroX, CpuZeroY, Branch, RelativePacket, LoopDone, guestvars, cpuvars
      <4> QED BY <2>1, <4>1 DEF ringvars, ReadAt
    <3> QED BY <3>1, <3>2, <3>3, <3>4
  <2>6. CASE UNCHANGED vars
    BY <2>2, <2>6 DEF vars
  <2> QED BY <2>4, <2>5, <2>6 DEF Next
<1>2. TypeOK /\ TypeOK' /\ Loaded /\ ButtonInv /\ [Next]_vars
        => [Disturbed \/ Ring!Next]_<<InRing, mouse_button>>
  BY <1>1
<1> QED BY <1>2, ButtonsKept, Typed, PTL DEF Spec, ButtonsInOrder
=============================================================================
