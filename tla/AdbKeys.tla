------------------------------ MODULE AdbKeys ------------------------------
(***************************************************************************)
(* Keyboard input: from the sources that hold keys down to the guest.      *)
(*                                                                         *)
(* Several sources (USB keyboards, the Tab5 matrix, the touch overlay, the *)
(* right-click Control, serial automation) claim Mac keys.  A recursive    *)
(* mutex covers a claim together with its ADB event; ADB sees a key go     *)
(* down with the first claim and up with the last.  ADBKeyDown and         *)
(* ADBKeyUp append to a ring that the CPU drains in ADBInterrupt on the    *)
(* other core: the mutex around the ring is a no-op in this port, so the   *)
(* ring is used step by step by one producer at a time and one consumer.   *)
(***************************************************************************)
EXTENDS Integers, FiniteSets, Sequences

CONSTANTS
  Key,      \* Mac key codes
  Source,   \* the owners of claims
  Task,     \* the tasks that act for them
  TaskOf,   \* TaskOf[s]: the task that handles source s
  Size,     \* KEY_BUFFER_SIZE
  Nobody

ASSUME AdbKeysAssumption ==
  /\ Key # {}
  /\ IsFiniteSet(Source)
  /\ TaskOf \in [Source -> Task]
  /\ Size \in Nat \ {0, 1}
  /\ Nobody \notin Task

VARIABLES
  owned,        \* owned[s]: the keys source s holds down
  claims,       \* adb_key_claims
  mutex,        \* holder of the input state mutex
  pc,           \* where a task is in claimAdbKey or releaseAdbKey
  event,        \* event[t]: the code ADBKeyDown or ADBKeyUp was called with
  key_buffer, key_read_ptr, key_write_ptr,
  adb_flag,     \* INTFLAG_ADB
  ready,        \* the Mac has started and its ADB manager has a base address
  cpu,          \* where the CPU is in ADBInterrupt
  mac_code,     \* the event ADBInterrupt has read
  guest,        \* the keys that are down for the guest's keyboard handler
  dropped,      \* history: keys whose latest transition met a full ring
  unserved      \* history: the flag was last taken before the guest was ready

claimvars == <<owned, claims>>
ringvars  == <<key_buffer, key_read_ptr, key_write_ptr>>
taskvars  == <<mutex, pc, event>>
cpuvars   == <<cpu, mac_code, guest>>
vars == <<claimvars, taskvars, ringvars, adb_flag, ready, cpuvars,
          dropped, unserved>>

Slot == 0..Size - 1
Code == [key: Key, down: BOOLEAN]

\* The value of a slot never written, and of a local that is out of scope.
AnyCode == CHOOSE c \in Code : TRUE

\* Claims are bytes and saturate.
MaxClaims == 255

\* There are fewer sources than a byte counts: a handful of keyboards, the
\* matrix, the overlay, the right button and the automation session.
ASSUME SourcesAssumption == Cardinality(Source) <= MaxClaims

TypeOK ==
  /\ owned \in [Source -> SUBSET Key]
  /\ claims \in [Key -> 0..MaxClaims]
  /\ mutex \in Task \union {Nobody}
  /\ pc \in [Task -> {"idle", "put", "publish", "flag", "finish"}]
  /\ event \in [Task -> Code]
  /\ key_buffer \in [Slot -> Code]
  /\ key_read_ptr \in Slot
  /\ key_write_ptr \in Slot
  /\ adb_flag \in BOOLEAN
  /\ ready \in BOOLEAN
  /\ cpu \in {"idle", "keys", "advance", "handler"}
  /\ mac_code \in Code
  /\ guest \subseteq Key
  /\ dropped \subseteq Key
  /\ unserved \in BOOLEAN

Init ==
  /\ owned = [s \in Source |-> {}]
  /\ claims = [k \in Key |-> 0]
  /\ mutex = Nobody
  /\ pc = [t \in Task |-> "idle"]
  /\ event = [t \in Task |-> AnyCode]
  /\ key_buffer = [i \in Slot |-> AnyCode]
  /\ key_read_ptr = 0
  /\ key_write_ptr = 0
  /\ adb_flag = FALSE
  /\ ready = FALSE
  /\ cpu = "idle"
  /\ mac_code = AnyCode
  /\ guest = {}
  /\ dropped = {}
  /\ unserved = FALSE

\* Mutant: the index is not reduced.
Advance_NoWrap(i) == i + 1

Advance(i) == (i + 1) % Size
\* Mutant: the check against a full ring does not wrap.
Full_NoWrap == key_write_ptr + 1 = key_read_ptr

Full  == Advance(key_write_ptr) = key_read_ptr
Empty == key_read_ptr = key_write_ptr

-----------------------------------------------------------------------------
(* Claims. *)

\* The mutex is free and the task of source s may take it.
MayEnter(s) == mutex = Nobody /\ pc[TaskOf[s]] = "idle"

\* Take the mutex and call ADBKeyDown or ADBKeyUp.
Send(t, k, down) ==
  /\ mutex' = t
  /\ pc' = [pc EXCEPT ![t] = "put"]
  /\ event' = [event EXCEPT ![t] = [key |-> k, down |-> down]]

\* A source presses a key it does not hold: reports, matrix events, overlay
\* keys and automation keys are all compared with the source's own record
\* first.  The count is raised after ADBKeyDown, under the mutex that covers
\* every look at it, so it may be raised here.
ClaimAdbKey(s, k) ==
  /\ MayEnter(s)
  /\ k \notin owned[s]
  /\ owned' = [owned EXCEPT ![s] = @ \union {k}]
  /\ claims' = [claims EXCEPT ![k] = IF @ = MaxClaims THEN @ ELSE @ + 1]
  /\ IF claims[k] = 0 THEN Send(TaskOf[s], k, TRUE) ELSE UNCHANGED taskvars
  /\ UNCHANGED <<ringvars, adb_flag, ready, cpuvars, dropped, unserved>>

\* Mutant: every release sends the up event.
ReleaseAdbKey_Always(s, k) ==
  /\ MayEnter(s)
  /\ k \in owned[s]
  /\ owned' = [owned EXCEPT ![s] = @ \ {k}]
  /\ claims' = [claims EXCEPT ![k] = @ - 1]
  /\ Send(TaskOf[s], k, FALSE)
  /\ UNCHANGED <<ringvars, adb_flag, ready, cpuvars, dropped, unserved>>

\* A source releases a key it holds; a disconnect, a disabled keyboard and
\* an abandoned automation session release one key after the other.
ReleaseAdbKey(s, k) ==
  /\ MayEnter(s)
  /\ k \in owned[s]
  /\ owned' = [owned EXCEPT ![s] = @ \ {k}]
  /\ claims' = [claims EXCEPT ![k] = IF @ = 0 THEN 0 ELSE @ - 1]
  /\ IF claims[k] = 1 THEN Send(TaskOf[s], k, FALSE) ELSE UNCHANGED taskvars
  /\ UNCHANGED <<ringvars, adb_flag, ready, cpuvars, dropped, unserved>>

-----------------------------------------------------------------------------
(* ADBKeyDown and ADBKeyUp. *)

Goto(t, p) == pc' = [pc EXCEPT ![t] = p]

\* The check against a full ring and the store into the free slot.  The CPU
\* only makes room in between, so the two may be one step.
PutKey(t) ==
  /\ pc[t] = "put" /\ ~Full
  /\ key_buffer' = [key_buffer EXCEPT ![key_write_ptr] = event[t]]
  /\ Goto(t, "publish")
  /\ UNCHANGED <<claimvars, mutex, event, key_read_ptr, key_write_ptr,
                 adb_flag, ready, cpuvars, dropped, unserved>>

\* A full ring drops the event, and no interrupt is raised.
DropKey(t) ==
  /\ pc[t] = "put" /\ Full
  /\ dropped' = dropped \union {event[t].key}
  /\ Goto(t, "finish")
  /\ event' = [event EXCEPT ![t] = AnyCode]
  /\ UNCHANGED <<claimvars, mutex, ringvars, adb_flag, ready, cpuvars, unserved>>

\* The write pointer moves on.  The key matrix, which the guest reads with
\* Talk commands of its own, follows the event and is left out.
PublishKey(t) ==
  /\ pc[t] = "publish"
  /\ key_write_ptr' = Advance(key_write_ptr)
  /\ dropped' = dropped \ {event[t].key}
  /\ Goto(t, "flag")
  /\ UNCHANGED <<claimvars, mutex, event, key_buffer, key_read_ptr, adb_flag,
                 ready, cpuvars, unserved>>

\* SetInterruptFlagIfNew(INTFLAG_ADB); module Interrupts covers the way of
\* the bit to the CPU.
RaiseAdb(t) ==
  /\ pc[t] = "flag"
  /\ adb_flag' = TRUE
  /\ unserved' = FALSE
  /\ Goto(t, "finish")
  /\ event' = [event EXCEPT ![t] = AnyCode]
  /\ UNCHANGED <<claimvars, mutex, ringvars, ready, cpuvars, dropped>>

GiveMutex(t) ==
  /\ pc[t] = "finish"
  /\ mutex' = Nobody
  /\ Goto(t, "idle")
  /\ UNCHANGED <<claimvars, event, ringvars, adb_flag, ready, cpuvars, dropped,
                 unserved>>

-----------------------------------------------------------------------------
(* The CPU. *)

\* The guest boots as far as its warm start flag and its ADB manager.
GuestReady ==
  /\ ~ready
  /\ ready' = TRUE
  /\ UNCHANGED <<claimvars, taskvars, ringvars, adb_flag, cpuvars, dropped,
                 unserved>>

\* EMUL_OP_IRQ has exchanged the flags; ADBInterrupt runs, or is skipped when
\* the guest is not ready, and then the flag is spent.
AdbIrq ==
  /\ cpu = "idle" /\ adb_flag
  /\ adb_flag' = FALSE
  /\ unserved' = ~ready
  /\ cpu' = IF ready THEN "keys" ELSE "idle"
  /\ UNCHANGED <<claimvars, taskvars, ringvars, ready, mac_code, guest, dropped>>

\* DebugUtil(duDebuggerPoll): the guest calls ADBInterrupt without a flag.
DebuggerPoll ==
  /\ cpu = "idle" /\ ready
  /\ cpu' = "keys"
  /\ UNCHANGED <<claimvars, taskvars, ringvars, adb_flag, ready, mac_code, guest,
                 dropped, unserved>>

ReadKey ==
  /\ cpu = "keys" /\ ~Empty
  /\ mac_code' = key_buffer[key_read_ptr]
  /\ cpu' = "advance"
  /\ UNCHANGED <<claimvars, taskvars, ringvars, adb_flag, ready, guest, dropped,
                 unserved>>

AdvanceRead ==
  /\ cpu = "advance"
  /\ key_read_ptr' = Advance(key_read_ptr)
  /\ cpu' = "handler"
  /\ UNCHANGED <<claimvars, taskvars, key_buffer, key_write_ptr, adb_flag, ready,
                 mac_code, guest, dropped, unserved>>

Deliver(next) ==
  /\ cpu = "handler"
  /\ guest' = IF mac_code.down THEN guest \union {mac_code.key}
              ELSE guest \ {mac_code.key}
  /\ cpu' = next
  /\ mac_code' = AnyCode
  /\ UNCHANGED <<claimvars, taskvars, ringvars, adb_flag, ready, dropped,
                 unserved>>

\* Mutant: one event per interrupt instead of a loop.
KeyHandler_Once == Deliver("idle")

\* Execute68k of the guest's keyboard handler, and back to the loop.
KeyHandler == Deliver("keys")

KeysDone ==
  /\ cpu = "keys" /\ Empty
  /\ cpu' = "idle"
  /\ UNCHANGED <<claimvars, taskvars, ringvars, adb_flag, ready, mac_code, guest,
                 dropped, unserved>>

-----------------------------------------------------------------------------
Sources == \E s \in Source, k \in Key : ClaimAdbKey(s, k) \/ ReleaseAdbKey(s, k)

Event(t) == PutKey(t) \/ DropKey(t) \/ PublishKey(t) \/ RaiseAdb(t) \/ GiveMutex(t)

AdbInterrupt == AdbIrq \/ ReadKey \/ AdvanceRead \/ KeyHandler \/ KeysDone

Next ==
  \/ Sources
  \/ \E t \in Task : Event(t)
  \/ AdbInterrupt
  \/ GuestReady
  \/ DebuggerPoll

Spec == Init /\ [][Next]_vars

\* A task that entered a claim is scheduled until it leaves, and a raised
\* flag is served: InterruptsProofs and its runs are about the latter.
Fairness == WF_vars(AdbInterrupt) /\ \A t \in Task : WF_vars(Event(t))
FairSpec == Spec /\ Fairness

-----------------------------------------------------------------------------
(* Properties. *)

\* The events published and not yet handled, as offsets from the read
\* pointer; the one ADBInterrupt is at has offset -1 once it has left the ring.
Pending == {i \in Slot : i < (key_write_ptr - key_read_ptr) % Size}
             \union (IF cpu = "handler" THEN {-1} ELSE {})
At(i) == IF i = -1 THEN mac_code ELSE key_buffer[(key_read_ptr + i) % Size]
PendingOf(k) == {i \in Pending : At(i).key = k}
IsLast(i, k) == i \in PendingOf(k) /\ \A j \in PendingOf(k) : j <= i

\* What the guest will hold of key k when it has handled all that is pending.
Sees(k) == \/ PendingOf(k) = {} /\ k \in guest
           \/ \E i \in Slot \union {-1} : IsLast(i, k) /\ At(i).down

\* A key is being sent: its claim has changed and its event is not in the ring.
Sending(k) == \E t \in Task : pc[t] \in {"put", "publish"} /\ event[t].key = k

\* Whatever two tasks and the CPU do, and whatever a full ring dropped, the
\* guest, once it has handled what the ring holds, has those keys down that some
\* source holds and no others, except a key whose own latest event was dropped:
\* two keyboards can hold the same key, and an overflow harms no other key
\* (claimAdbKey, releaseAdbKey, ADBKeyDown, ADBKeyUp, ADBInterrupt).
GuestSeesClaims ==
  \A k \in Key : Sending(k) \/ k \in dropped \/
    (Sees(k) <=> \E s \in Source : k \in owned[s])

\* An event is never left in the ring with nobody on the way to fetch it,
\* unless the flag raised for it was spent before the guest was ready.
NoStrandedKey ==
  Empty \/ cpu # "idle" \/ adb_flag \/ unserved \/ \E t \in Task : pc[t] = "flag"

\* The ring hands every event that was published to the guest once, unchanged
\* and in order, although it is filled and drained without a lock: a slot is not
\* written while it is queued, and not passed before it has been read
\* (ADBKeyDown, ADBKeyUp, ADBInterrupt).
InRing == [i \in 1..((key_write_ptr - key_read_ptr) % Size) |->
             key_buffer[(key_read_ptr + i - 1) % Size]]
InHand == IF cpu = "handler" THEN <<mac_code>> ELSE <<>>
Ring == INSTANCE EventQueue WITH queue <- InHand \o InRing, down <- guest,
                                 Item <- Code, Capacity <- Size
KeysInOrder == Ring!Spec

\* Once the guest is ready the oldest event is handled, however many more
\* arrive meanwhile.
EveryKeyDelivered ==
  \A i \in Slot : (key_read_ptr = i /\ ~Empty /\ ready /\ ~unserved)
                    ~> key_read_ptr # i
=============================================================================
