--------------------------- MODULE AdbKeysProofs ---------------------------
(* Proofs about AdbKeys, for every set of keys, sources and tasks and every *)
(* size of the ring.                                                        *)
EXTENDS AdbKeys, FiniteSetTheorems, SequenceTheorems, TLAPS

\* A ring index advanced by one is a slot of the ring.
LEMMA AdvanceInRing == ASSUME NEW i \in Slot PROVE Advance(i) \in Slot
  BY AdbKeysAssumption, SMT DEF Advance, Slot

\* There is a key, hence a code.
LEMMA AnyCodeIsCode == AnyCode \in Code
  <1>1. PICK k \in Key : TRUE
    BY AdbKeysAssumption
  <1>2. [key |-> k, down |-> TRUE] \in Code
    BY DEF Code
  <1>. QED
    BY <1>2 DEF AnyCode

\* The start is well typed.
LEMMA InitTyped == Init => TypeOK
  <1>1. 0 \in Slot /\ 0 \in 0..MaxClaims
    BY AdbKeysAssumption DEF Slot, MaxClaims
  <1>. QED
    BY <1>1, AnyCodeIsCode DEF Init, TypeOK

\* Every step keeps the types.
LEMMA StepTyped == TypeOK /\ [Next]_vars => TypeOK'
  <1>. SUFFICES ASSUME TypeOK, [Next]_vars PROVE TypeOK'
    OBVIOUS
  <1>. USE DEF TypeOK, claimvars, taskvars, ringvars, cpuvars
  <1>1. ASSUME NEW s \in Source, NEW k \in Key, ClaimAdbKey(s, k) PROVE TypeOK'
    <2>1. owned' \in [Source -> SUBSET Key]
      BY <1>1 DEF ClaimAdbKey
    <2>2. claims' \in [Key -> 0..MaxClaims]
      BY <1>1, SMT DEF ClaimAdbKey, MaxClaims
    <2>3. /\ mutex' \in Task \union {Nobody}
          /\ pc' \in [Task -> {"idle", "put", "publish", "flag", "finish"}]
          /\ event' \in [Task -> Code]
      <3>. TaskOf[s] \in Task
        BY AdbKeysAssumption
      <3>1. CASE Send(TaskOf[s], k, TRUE)
        BY <3>1 DEF Send, Code
      <3>2. CASE UNCHANGED taskvars
        BY <3>2
      <3>. QED
        BY <1>1, <3>1, <3>2 DEF ClaimAdbKey
    <2>. QED
      BY <1>1, <2>1, <2>2, <2>3 DEF ClaimAdbKey
  <1>2. ASSUME NEW s \in Source, NEW k \in Key, ReleaseAdbKey(s, k) PROVE TypeOK'
    <2>1. owned' \in [Source -> SUBSET Key]
      BY <1>2 DEF ReleaseAdbKey
    <2>2. claims' \in [Key -> 0..MaxClaims]
      BY <1>2, SMT DEF ReleaseAdbKey, MaxClaims
    <2>3. /\ mutex' \in Task \union {Nobody}
          /\ pc' \in [Task -> {"idle", "put", "publish", "flag", "finish"}]
          /\ event' \in [Task -> Code]
      <3>. TaskOf[s] \in Task
        BY AdbKeysAssumption
      <3>1. CASE Send(TaskOf[s], k, FALSE)
        BY <3>1 DEF Send, Code
      <3>2. CASE UNCHANGED taskvars
        BY <3>2
      <3>. QED
        BY <1>2, <3>1, <3>2 DEF ReleaseAdbKey
    <2>. QED
      BY <1>2, <2>1, <2>2, <2>3 DEF ReleaseAdbKey
  <1>3. ASSUME NEW t \in Task, PutKey(t) PROVE TypeOK'
    BY <1>3 DEF PutKey, Goto
  <1>4. ASSUME NEW t \in Task, DropKey(t) PROVE TypeOK'
    <2>1. event[t].key \in Key
      BY DEF Code
    <2>. QED
      BY <1>4, <2>1, AnyCodeIsCode DEF DropKey, Goto
  <1>5. ASSUME NEW t \in Task, PublishKey(t) PROVE TypeOK'
    BY <1>5, AdvanceInRing DEF PublishKey, Goto
  <1>6. ASSUME NEW t \in Task, RaiseAdb(t) PROVE TypeOK'
    BY <1>6, AnyCodeIsCode DEF RaiseAdb, Goto
  <1>7. ASSUME NEW t \in Task, GiveMutex(t) PROVE TypeOK'
    BY <1>7 DEF GiveMutex, Goto
  <1>8. CASE AdbIrq
    BY <1>8 DEF AdbIrq
  <1>9. CASE ReadKey
    BY <1>9 DEF ReadKey
  <1>10. CASE AdvanceRead
    BY <1>10, AdvanceInRing DEF AdvanceRead
  <1>11. CASE KeyHandler
    <2>1. mac_code.key \in Key
      BY DEF Code
    <2>. QED
      BY <1>11, <2>1, AnyCodeIsCode DEF KeyHandler, Deliver
  <1>12. CASE KeysDone
    BY <1>12 DEF KeysDone
  <1>13. CASE GuestReady
    BY <1>13 DEF GuestReady
  <1>14. CASE DebuggerPoll
    BY <1>14 DEF DebuggerPoll
  <1>15. CASE UNCHANGED vars
    BY <1>15 DEF vars
  <1>. QED
    BY <1>1, <1>2, <1>3, <1>4, <1>5, <1>6, <1>7, <1>8, <1>9, <1>10, <1>11,
       <1>12, <1>13, <1>14, <1>15 DEF Next, Sources, Event, AdbInterrupt

\* Type correctness of the keyboard path (adb_key_claims, key_buffer and its
\* pointers, the control points of the tasks and of ADBInterrupt).
THEOREM TypeCorrect == Spec => []TypeOK
  BY InitTyped, StepTyped, PTL DEF Spec

\* An event put into the ring by ADBKeyDown or ADBKeyUp is never left there
\* with nobody on the way to fetch it: each publication is followed by the
\* flag, the CPU takes the flag before it looks at the ring, and it leaves the
\* ring only when it is empty.  The invariant is inductive as it stands.
THEOREM NoKeyStranded == Spec => []NoStrandedKey
  <1>1. Init => NoStrandedKey
    BY DEF Init, NoStrandedKey, Empty
  <1>2. TypeOK /\ NoStrandedKey /\ [Next]_vars => NoStrandedKey'
    <2>. SUFFICES ASSUME TypeOK, NoStrandedKey, [Next]_vars PROVE NoStrandedKey'
      OBVIOUS
    <2>. pc \in [Task -> {"idle", "put", "publish", "flag", "finish"}]
      BY DEF TypeOK
    <2>. USE DEF NoStrandedKey, Empty, claimvars, taskvars, ringvars, cpuvars
    \* A claim touches the program counter of an idle task only.
    <2>1. ASSUME NEW s \in Source, NEW k \in Key,
                 ClaimAdbKey(s, k) \/ ReleaseAdbKey(s, k)
          PROVE  NoStrandedKey'
      <3>. TaskOf[s] \in Task /\ pc[TaskOf[s]] = "idle"
        BY <2>1, AdbKeysAssumption DEF ClaimAdbKey, ReleaseAdbKey, MayEnter
      <3>1. \A t \in Task : pc[t] = "flag" => pc'[t] = "flag"
        <4>1. \/ \E d \in BOOLEAN : Send(TaskOf[s], k, d)
              \/ UNCHANGED taskvars
          BY <2>1 DEF ClaimAdbKey, ReleaseAdbKey
        <4>. QED
          BY <4>1 DEF Send
      <3>. QED
        BY <2>1, <3>1 DEF ClaimAdbKey, ReleaseAdbKey
    <2>2. ASSUME NEW t \in Task, PutKey(t) \/ DropKey(t) \/ GiveMutex(t)
          PROVE  NoStrandedKey'
      BY <2>2 DEF PutKey, DropKey, GiveMutex, Goto
    <2>3. ASSUME NEW t \in Task, PublishKey(t) PROVE NoStrandedKey'
      BY <2>3 DEF PublishKey, Goto
    <2>4. ASSUME NEW t \in Task, RaiseAdb(t) PROVE NoStrandedKey'
      BY <2>4 DEF RaiseAdb
    <2>5. CASE AdbIrq
      BY <2>5 DEF AdbIrq
    <2>6. CASE ReadKey \/ AdvanceRead \/ KeyHandler
      BY <2>6 DEF ReadKey, AdvanceRead, KeyHandler, Deliver
    <2>7. CASE KeysDone
      BY <2>7 DEF KeysDone
    <2>8. CASE GuestReady \/ DebuggerPoll
      BY <2>8 DEF GuestReady, DebuggerPoll
    <2>9. CASE UNCHANGED vars
      BY <2>9 DEF vars
    <2>. QED
      BY <2>1, <2>2, <2>3, <2>4, <2>5, <2>6, <2>7, <2>8, <2>9
      DEF Next, Sources, Event, AdbInterrupt
  <1>. QED
    BY <1>1, <1>2, TypeCorrect, PTL DEF Spec

-----------------------------------------------------------------------------
(* What the last of a set of numbered events says of a key. *)

\* The events numbered P, with the codes f; key k is down for a guest that
\* holds the keys g and handles them all.
Ends(k, P, f, g) ==
  \/ k \in g /\ \A i \in P : f[i].key # k
  \/ \E i \in P : /\ f[i].key = k /\ f[i].down
                  /\ \A j \in P : f[j].key = k => j <= i

\* An event added at the end decides for its own key alone.
LEMMA EndsAdded ==
  ASSUME NEW P \in SUBSET Int, NEW f, NEW h, NEW g, NEW k, NEW n \in Int,
         \A i \in P : i < n /\ h[i] = f[i]
  PROVE  Ends(k, P \union {n}, h, g) <=>
           IF h[n].key = k THEN h[n].down ELSE Ends(k, P, f, g)
<1>1. CASE h[n].key = k
  <2>1. ASSUME h[n].down PROVE Ends(k, P \union {n}, h, g)
    <3>1. ASSUME NEW j \in P \union {n} PROVE j <= n
      <4>1. CASE j \in P
        <5>1. j \in Int /\ j < n
          BY <4>1
        <5> QED BY <5>1
      <4>2. CASE j = n
        BY <4>2
      <4> QED BY <4>1, <4>2
    <3> QED BY <1>1, <2>1, <3>1, Zenon DEF Ends
  <2>2. ASSUME Ends(k, P \union {n}, h, g) PROVE h[n].down
    <3>1. PICK i \in P \union {n} : /\ h[i].down
                                   /\ \A j \in P \union {n} : h[j].key = k => j <= i
      BY <1>1, <2>2 DEF Ends
    <3>2. n <= i
      BY <1>1, <3>1
    <3>3. i \notin P
      <4>1. ASSUME i \in P PROVE i \in Int /\ i < n
        BY <4>1
      <4> QED BY <3>2, <4>1
    <3> QED BY <3>1, <3>3
  <2> QED BY <1>1, <2>1, <2>2
<1>2. CASE h[n].key # k
  BY <1>2 DEF Ends
<1> QED BY <1>1, <1>2

\* Counting the events anew changes nothing.
LEMMA EndsShifted ==
  ASSUME NEW P \in SUBSET Int, NEW Q \in SUBSET Int, NEW f, NEW h, NEW g, NEW k,
         \A i \in Int : i \in Q <=> i + 1 \in P,
         \A i \in Q : h[i] = f[i + 1]
  PROVE  Ends(k, Q, h, g) <=> Ends(k, P, f, g)
<1>1. ASSUME NEW i \in P
      PROVE  i - 1 \in Q /\ h[i - 1] = f[i]
  <2>1. i - 1 \in Int /\ (i - 1) + 1 = i
    OBVIOUS
  <2>2. i - 1 \in Q
    BY <2>1
  <2> QED BY <2>1, <2>2
<1>2. (\A i \in Q : h[i].key # k) <=> (\A i \in P : f[i].key # k)
  BY <1>1
<1>3. ASSUME NEW i \in Q, h[i].key = k, h[i].down, \A j \in Q : h[j].key = k => j <= i
      PROVE  Ends(k, P, f, g)
  <2>1. i + 1 \in P /\ f[i + 1].key = k /\ f[i + 1].down
    BY <1>3
  <2>2. \A j \in P : f[j].key = k => j <= i + 1
    BY <1>1, <1>3
  <2> QED BY <2>1, <2>2 DEF Ends
<1>4. ASSUME NEW i \in P, f[i].key = k, f[i].down, \A j \in P : f[j].key = k => j <= i
      PROVE  Ends(k, Q, h, g)
  <2>1. i - 1 \in Q /\ h[i - 1].key = k /\ h[i - 1].down
    BY <1>1, <1>4
  <2>2. ASSUME NEW j \in Q, h[j].key = k PROVE j <= i - 1
    <3>1. j \in Int /\ i \in Int /\ j + 1 \in P /\ f[j + 1].key = k
      BY <2>2
    <3>2. j + 1 <= i
      BY <1>4, <3>1
    <3> QED BY <3>1, <3>2
  <2> QED BY <2>1, <2>2 DEF Ends
<1> QED BY <1>2, <1>3, <1>4 DEF Ends

\* The first event is handled.
LEMMA EndsHandled ==
  ASSUME NEW P \in SUBSET Int, NEW f, NEW g, NEW k, NEW n \in P,
         \A i \in P : n <= i
  PROVE  Ends(k, P \ {n}, f, IF f[n].down THEN g \union {f[n].key} ELSE g \ {f[n].key})
           <=> Ends(k, P, f, g)
<1> DEFINE h == IF f[n].down THEN g \union {f[n].key} ELSE g \ {f[n].key}
<1>1. CASE f[n].key # k
  <2>1. k \in h <=> k \in g
    BY <1>1
  <2> QED BY <1>1, <2>1 DEF Ends
<1>2. CASE f[n].key = k /\ \E i \in P \ {n} : f[i].key = k
  <2>1. PICK m \in P \ {n} : f[m].key = k
    BY <1>2
  <2>2. n < m
    BY <2>1
  <2>3. ~\A j \in P : f[j].key = k => j <= n
    BY <2>1, <2>2
  <2>4. ASSUME NEW i \in P \ {n}
        PROVE  (\A j \in P : f[j].key = k => j <= i)
                 <=> (\A j \in P \ {n} : f[j].key = k => j <= i)
    BY <2>4
  <2> QED BY <1>2, <2>3, <2>4 DEF Ends
<1>3. CASE f[n].key = k /\ ~\E i \in P \ {n} : f[i].key = k
  <2>1. k \in h <=> f[n].down
    BY <1>3
  <2>2. Ends(k, P, f, g) <=> f[n].down
    BY <1>3 DEF Ends
  <2>3. Ends(k, P \ {n}, f, h) <=> k \in h
    BY <1>3 DEF Ends
  <2> QED BY <2>1, <2>2, <2>3
<1> QED BY <1>1, <1>2, <1>3

\* Only the codes of the events count.
LEMMA EndsSame ==
  ASSUME NEW P \in SUBSET Int, NEW f, NEW h, NEW g, NEW k, \A i \in P : h[i] = f[i]
  PROVE  Ends(k, P, h, g) <=> Ends(k, P, f, g)
BY DEF Ends

-----------------------------------------------------------------------------
(* The ring of pending events. *)

PendingAt(r, w, c) == {i \in Slot : i < (w - r) % Size}
                        \union (IF c = "handler" THEN {-1} ELSE {})
CodeAt(b, r, m) ==
  [i \in Slot \union {-1} |-> IF i = -1 THEN m ELSE b[(r + i) % Size]]

\* What the guest will hold, as a function of the ring and of the CPU's place.
SeesAt(k, b, r, w, c, m, g) == Ends(k, PendingAt(r, w, c), CodeAt(b, r, m), g)

\* Pending events are numbered by integers.
LEMMA PendingInts ==
  ASSUME NEW r, NEW w, NEW c
  PROVE  /\ PendingAt(r, w, c) \subseteq Slot \union {-1}
         /\ PendingAt(r, w, c) \in SUBSET Int
BY AdbKeysAssumption DEF PendingAt, Slot

\* What the guest will hold is what the last of the pending events say.
LEMMA SeesIsEnds ==
  ASSUME NEW k
  PROVE  /\ Sees(k) <=> SeesAt(k, key_buffer, key_read_ptr, key_write_ptr, cpu, mac_code, guest)
         /\ Sees(k)' <=> SeesAt(k, key_buffer', key_read_ptr', key_write_ptr', cpu', mac_code', guest')
<1>1. /\ Pending = PendingAt(key_read_ptr, key_write_ptr, cpu)
      /\ Pending' = PendingAt(key_read_ptr', key_write_ptr', cpu')
  BY DEF Pending, PendingAt
<1>2. \A i \in Slot \union {-1} :
        /\ At(i) = CodeAt(key_buffer, key_read_ptr, mac_code)[i]
        /\ At(i)' = CodeAt(key_buffer', key_read_ptr', mac_code')[i]
  BY DEF At, CodeAt
<1>3. Sees(k) <=> SeesAt(k, key_buffer, key_read_ptr, key_write_ptr, cpu, mac_code, guest)
  <2> DEFINE P == PendingAt(key_read_ptr, key_write_ptr, cpu)
             f == CodeAt(key_buffer, key_read_ptr, mac_code)
  <2>1. P \subseteq Slot \union {-1}
    BY PendingInts
  <2>2. PendingOf(k) = {i \in P : f[i].key = k}
    BY <1>1, <1>2, <2>1 DEF PendingOf
  <2>3. \A i \in Slot \union {-1} : At(i) = f[i]
    BY <1>2
  <2> HIDE DEF P, f
  <2>4. Sees(k) <=> Ends(k, P, f, guest)
    BY <2>1, <2>2, <2>3 DEF Sees, IsLast, Ends
  <2> QED BY <2>4 DEF SeesAt, P, f
<1>4. Sees(k)' <=> SeesAt(k, key_buffer', key_read_ptr', key_write_ptr', cpu', mac_code', guest')
  <2> DEFINE P == PendingAt(key_read_ptr', key_write_ptr', cpu')
             f == CodeAt(key_buffer', key_read_ptr', mac_code')
  <2>1. P \subseteq Slot \union {-1}
    BY PendingInts
  <2>2. PendingOf(k)' = {i \in P : f[i].key = k}
    BY <1>1, <1>2, <2>1 DEF PendingOf
  <2>3. \A i \in Slot \union {-1} : At(i)' = f[i]
    BY <1>2
  <2> HIDE DEF P, f
  <2>4. Sees(k)' <=> Ends(k, P, f, guest')
    BY <2>1, <2>2, <2>3 DEF Sees, IsLast, Ends
  <2> QED BY <2>4 DEF SeesAt, P, f
<1> QED BY <1>3, <1>4

\* Distances and positions in the ring.
LEMMA Remainders ==
  ASSUME NEW i \in Slot, NEW j \in Slot
  PROVE  /\ Advance(i) = IF i + 1 = Size THEN 0 ELSE i + 1
         /\ (j - i) % Size = IF j >= i THEN j - i ELSE j - i + Size
         /\ (i + j) % Size = IF i + j < Size THEN i + j ELSE i + j - Size
<1>1. Size \in Nat \ {0, 1} /\ i \in 0..Size - 1 /\ j \in 0..Size - 1
  BY AdbKeysAssumption DEF Slot
<1>2. (i + 1) % Size = IF i + 1 = Size THEN 0 ELSE i + 1
  BY <1>1, SMT
<1>3. (j - i) % Size = IF j >= i THEN j - i ELSE j - i + Size
  BY <1>1, SMT
<1>4. (i + j) % Size = IF i + j < Size THEN i + j ELSE i + j - Size
  BY <1>1, SMT
<1> QED BY <1>2, <1>3, <1>4 DEF Advance

\* The free slot is not that of a pending event.
LEMMA FreeSlot ==
  ASSUME NEW r \in Slot, NEW w \in Slot, NEW i \in Slot, i < (w - r) % Size
  PROVE  (r + i) % Size \in Slot /\ (r + i) % Size # w
<1>1. Size \in Nat \ {0, 1} /\ r \in 0..Size - 1 /\ w \in 0..Size - 1 /\ i \in 0..Size - 1
  BY AdbKeysAssumption DEF Slot
<1>2. /\ (w - r) % Size = IF w >= r THEN w - r ELSE w - r + Size
      /\ (r + i) % Size = IF r + i < Size THEN r + i ELSE r + i - Size
  BY Remainders
<1> QED BY <1>1, <1>2 DEF Slot

\* Publishing adds an event at the end.
LEMMA RingAppends ==
  ASSUME NEW r \in Slot, NEW w \in Slot, NEW c, Advance(w) # r
  PROVE  /\ (w - r) % Size \in Slot
         /\ (r + ((w - r) % Size)) % Size = w
         /\ PendingAt(r, Advance(w), c) = PendingAt(r, w, c) \union {(w - r) % Size}
<1> DEFINE n == (w - r) % Size
<1>1. Size \in Nat \ {0, 1} /\ r \in 0..Size - 1 /\ w \in 0..Size - 1
  BY AdbKeysAssumption DEF Slot
<1>2. n = IF w >= r THEN w - r ELSE w - r + Size
  BY Remainders
<1>3. n \in Slot
  BY <1>1, <1>2 DEF Slot
<1>4. (r + n) % Size = IF r + n < Size THEN r + n ELSE r + n - Size
  BY <1>3, Remainders
<1>5. (r + n) % Size = w
  BY <1>1, <1>2, <1>4
<1>6. Advance(w) = IF w + 1 = Size THEN 0 ELSE w + 1
  BY Remainders
<1>7. Advance(w) \in Slot
  BY AdvanceInRing
<1>8. (Advance(w) - r) % Size = n + 1
  <2>1. (Advance(w) - r) % Size
          = IF Advance(w) >= r THEN Advance(w) - r ELSE Advance(w) - r + Size
    BY <1>7, Remainders
  <2> QED BY <1>1, <1>2, <1>6, <2>1
<1>9. {i \in Slot : i < n + 1} = {i \in Slot : i < n} \union {n}
  BY <1>1, <1>3 DEF Slot
<1> DEFINE C == IF c = "handler" THEN {-1} ELSE {}
<1>10. PendingAt(r, w, c) = {i \in Slot : i < n} \union C
  BY DEF PendingAt
<1>11. PendingAt(r, Advance(w), c) = {i \in Slot : i < n + 1} \union C
  BY <1>8 DEF PendingAt
<1>12. PendingAt(r, Advance(w), c) = PendingAt(r, w, c) \union {n}
  <2> HIDE DEF C, n
  <2> QED BY <1>9, <1>10, <1>11
<1> QED BY <1>3, <1>5, <1>12

\* The step of the read pointer renumbers the events; the one that has left
\* the ring is before the others.
LEMMA RingAdvances ==
  ASSUME NEW r \in Slot, NEW w \in Slot, r # w, NEW b, NEW m, m = b[r]
  PROVE  LET P == PendingAt(r, w, "advance")
             Q == PendingAt(Advance(r), w, "handler")
         IN  /\ \A i \in Int : i \in Q <=> i + 1 \in P
             /\ \A i \in Q : CodeAt(b, Advance(r), m)[i] = CodeAt(b, r, m)[i + 1]
<1> DEFINE n == (w - r) % Size
           P == PendingAt(r, w, "advance")
           Q == PendingAt(Advance(r), w, "handler")
<1>1. Size \in Nat \ {0, 1} /\ r \in 0..Size - 1 /\ w \in 0..Size - 1
  BY AdbKeysAssumption DEF Slot
<1>2. n = IF w >= r THEN w - r ELSE w - r + Size
  BY Remainders
<1>3. n \in 1..Size - 1
  BY <1>1, <1>2
<1>4. Advance(r) = IF r + 1 = Size THEN 0 ELSE r + 1
  BY Remainders
<1>5. Advance(r) \in Slot
  BY AdvanceInRing
<1>6. (w - Advance(r)) % Size = n - 1
  <2>1. (w - Advance(r)) % Size
          = IF w >= Advance(r) THEN w - Advance(r) ELSE w - Advance(r) + Size
    BY <1>5, Remainders
  <2> QED BY <1>1, <1>2, <1>4, <2>1
<1>7. P = 0..n - 1
  BY <1>1, <1>3 DEF PendingAt, Slot
<1>8. Q = -1..n - 2
  BY <1>1, <1>3, <1>6 DEF PendingAt, Slot
<1>9. \A i \in Int : i \in Q <=> i + 1 \in P
  BY <1>3, <1>7, <1>8
<1>10. ASSUME NEW i \in Q
       PROVE  CodeAt(b, Advance(r), m)[i] = CodeAt(b, r, m)[i + 1]
  <2>1. i \in -1..n - 2 /\ i + 1 \in Slot /\ i + 1 # -1
    BY <1>1, <1>3, <1>8 DEF Slot
  <2>2. CodeAt(b, r, m)[i + 1] = b[(r + (i + 1)) % Size]
    BY <2>1 DEF CodeAt
  <2>3. (r + (i + 1)) % Size = IF r + (i + 1) < Size THEN r + (i + 1) ELSE r + (i + 1) - Size
    BY <2>1, Remainders
  <2>4. CASE i = -1
    <3>1. CodeAt(b, Advance(r), m)[i] = m
      BY <2>4 DEF CodeAt
    <3>2. (r + (i + 1)) % Size = r
      BY <1>1, <2>3, <2>4
    <3> QED BY <2>2, <3>1, <3>2
  <2>5. CASE i # -1
    <3>1. i \in Slot
      BY <1>1, <1>3, <2>1, <2>5 DEF Slot
    <3>2. CodeAt(b, Advance(r), m)[i] = b[(Advance(r) + i) % Size]
      BY <2>5, <3>1 DEF CodeAt
    <3>3. (Advance(r) + i) % Size
            = IF Advance(r) + i < Size THEN Advance(r) + i ELSE Advance(r) + i - Size
      BY <1>5, <3>1, Remainders
    <3>4. (Advance(r) + i) % Size = (r + (i + 1)) % Size
      BY <1>1, <1>3, <1>4, <2>1, <2>3, <3>3
    <3> QED BY <2>2, <3>2, <3>4
  <2> QED BY <2>4, <2>5
<1> QED BY <1>9, <1>10

-----------------------------------------------------------------------------
(* Why the guest's keyboard follows the claims: the inductive invariant. *)

Holders(k) == {s \in Source : k \in owned[s]}

\* The mutex of the input state: one task at a time is in a claim.
OneInside == \A t \in Task : pc[t] # "idle" => mutex = t

\* The count of a key is the number of sources that hold it.
Counted == \A k \in Key : claims[k] = Cardinality(Holders(k))

\* An event on its way into the ring says whether its key is held.
Sent == \A t \in Task : pc[t] \in {"put", "publish"} =>
          (event[t].down <=> Holders(event[t].key) # {})

\* A stored event is where the write pointer will pass it.
Stored == \A t \in Task : pc[t] = "publish" =>
            ~Full /\ key_buffer[key_write_ptr] = event[t]

\* What the CPU has read is still the first event of the ring.
Read == cpu = "advance" => ~Empty /\ mac_code = key_buffer[key_read_ptr]

Inv == TypeOK /\ OneInside /\ Counted /\ Sent /\ Stored /\ Read /\ GuestSeesClaims

\* Before the start nobody holds a key and the ring is empty.
LEMMA InvInit == Init => Inv
<1> SUFFICES ASSUME Init PROVE Inv
  OBVIOUS
<1>1. TypeOK
  BY InitTyped
<1>2. \A k \in Key : Holders(k) = {}
  BY DEF Init, Holders
<1>3. Counted
  BY <1>2, FS_EmptySet DEF Init, Counted
<1>4. OneInside /\ Sent /\ Stored /\ Read
  BY DEF Init, OneInside, Sent, Stored, Read
<1>5. GuestSeesClaims
  <2> SUFFICES ASSUME NEW k \in Key PROVE Sees(k) <=> \E s \in Source : k \in owned[s]
    BY DEF GuestSeesClaims
  <2>1. 0 \in Slot /\ (0 - 0) % Size = 0
    BY AdbKeysAssumption, Remainders DEF Slot
  <2>2. PendingAt(0, 0, "idle") = {}
    BY <2>1, AdbKeysAssumption DEF PendingAt, Slot
  <2>3. ~SeesAt(k, key_buffer, 0, 0, "idle", mac_code, {})
    BY <2>2 DEF SeesAt, Ends
  <2>4. ~Sees(k)
    BY <2>3, SeesIsEnds DEF Init
  <2> QED BY <1>2, <2>4 DEF Holders
<1> QED BY <1>1, <1>3, <1>4, <1>5 DEF Inv

\* Only the ring and the CPU decide what the guest will see.
LEMMA SameSight ==
  ASSUME UNCHANGED <<ringvars, cpuvars>>, NEW k
  PROVE  Sees(k)' <=> Sees(k)
BY SeesIsEnds DEF ringvars, cpuvars

\* A claim or a release: the count follows, and with it whether an event is sent.
LEMMA HoldersAfter ==
  ASSUME Inv, NEW s \in Source, NEW k \in Key, ClaimAdbKey(s, k) \/ ReleaseAdbKey(s, k)
  PROVE  /\ \A l \in Key \ {k} : Holders(l)' = Holders(l) /\ claims'[l] = claims[l]
         /\ claims'[k] = Cardinality(Holders(k)')
         /\ ClaimAdbKey(s, k) => Holders(k)' # {} /\ (claims[k] # 0 => Holders(k) # {})
         /\ ReleaseAdbKey(s, k) => /\ Holders(k) # {}
                                   /\ Holders(k)' = {} <=> claims[k] = 1
<1>1. /\ owned \in [Source -> SUBSET Key] /\ claims \in [Key -> 0..MaxClaims]
      /\ claims[k] = Cardinality(Holders(k))
  BY DEF Inv, TypeOK, Counted
<1>2. IsFiniteSet(Source) /\ Cardinality(Source) <= 255 /\ Cardinality(Source) \in Nat
  BY AdbKeysAssumption, SourcesAssumption, FS_CardinalityType DEF MaxClaims
<1>3. Holders(k) \subseteq Source /\ IsFiniteSet(Holders(k)) /\ Cardinality(Holders(k)) \in Nat
  BY <1>2, FS_Subset, FS_CardinalityType DEF Holders
<1>4. \A l \in Key \ {k} : Holders(l)' = Holders(l) /\ claims'[l] = claims[l]
  BY <1>1 DEF ClaimAdbKey, ReleaseAdbKey, Holders
<1>5. CASE ClaimAdbKey(s, k)
  <2>1. s \notin Holders(k) /\ Holders(k)' = Holders(k) \union {s}
    BY <1>1, <1>5 DEF ClaimAdbKey, Holders
  <2>2. Cardinality(Holders(k)') = Cardinality(Holders(k)) + 1
    BY <1>3, <2>1, FS_AddElement
  <2>3. Holders(k)' \subseteq Source
    BY <1>3, <2>1
  <2>4. Cardinality(Holders(k)') <= Cardinality(Source)
    BY <1>2, <2>3, FS_Subset
  <2>5. claims[k] # 255
    BY <1>1, <1>2, <1>3, <2>2, <2>4
  <2>6. claims'[k] = claims[k] + 1
    BY <1>1, <1>5, <2>5 DEF ClaimAdbKey, MaxClaims
  <2>7. claims[k] # 0 => Holders(k) # {}
    BY <1>1, FS_EmptySet
  <2>8. ~ReleaseAdbKey(s, k)
    BY <1>5 DEF ClaimAdbKey, ReleaseAdbKey
  <2> QED BY <1>1, <1>4, <2>1, <2>2, <2>6, <2>7, <2>8
<1>6. CASE ReleaseAdbKey(s, k)
  <2>1. s \in Holders(k) /\ Holders(k)' = Holders(k) \ {s}
    BY <1>1, <1>6 DEF ReleaseAdbKey, Holders
  <2>2. Cardinality(Holders(k)') = Cardinality(Holders(k)) - 1
    BY <1>3, <2>1, FS_RemoveElement
  <2>3. claims[k] # 0
    BY <1>1, <1>3, <2>1, FS_EmptySet
  <2>4. claims'[k] = claims[k] - 1
    BY <1>1, <1>6, <2>3 DEF ReleaseAdbKey
  <2>5. IsFiniteSet(Holders(k)')
    BY <1>3, <2>1, FS_RemoveElement
  <2>6. Holders(k)' = {} <=> Cardinality(Holders(k)') = 0
    BY <2>5, FS_EmptySet
  <2>7. ~ClaimAdbKey(s, k)
    BY <1>6 DEF ClaimAdbKey, ReleaseAdbKey
  <2> QED BY <1>1, <1>3, <1>4, <2>1, <2>2, <2>4, <2>6, <2>7
<1> QED BY <1>5, <1>6

\* claimAdbKey and releaseAdbKey: a change of a count from or to zero is sent.
LEMMA ClaimStep ==
  ASSUME Inv, TypeOK', NEW s \in Source, NEW k \in Key,
         ClaimAdbKey(s, k) \/ ReleaseAdbKey(s, k)
  PROVE  Inv'
<1> DEFINE t == TaskOf[s]
<1>1. /\ t \in Task /\ mutex = Nobody /\ Nobody \notin Task
      /\ pc \in [Task -> {"idle", "put", "publish", "flag", "finish"}]
      /\ event \in [Task -> Code]
  BY AdbKeysAssumption DEF Inv, TypeOK, ClaimAdbKey, ReleaseAdbKey, MayEnter
<1>2. \A u \in Task : pc[u] = "idle"
  BY <1>1 DEF Inv, OneInside
<1>3. UNCHANGED <<ringvars, cpuvars, dropped>>
  BY DEF ClaimAdbKey, ReleaseAdbKey
<1>4. Counted'
  BY HoldersAfter DEF Inv, Counted
<1>5. Read' /\ (Stored' <=> \A u \in Task : pc'[u] = "publish" =>
                              ~Full /\ key_buffer[key_write_ptr] = event'[u])
  BY <1>3 DEF Inv, Read, Stored, Empty, Full, ringvars, cpuvars
<1>6. \A l \in Key : Sees(l)' <=> Sees(l)
  BY <1>3, SameSight
<1>7. \A l \in Key \ {k} : l \in dropped' \/ (Sees(l)' <=> Holders(l)' # {})
  <2>1. \A l \in Key : l \in dropped \/ (Sees(l) <=> Holders(l) # {})
    BY <1>2 DEF Inv, GuestSeesClaims, Sending, Holders
  <2> QED BY <1>3, <1>6, <2>1, HoldersAfter
<1>8. \A l \in Key : (\E u \in Source : l \in owned'[u]) <=> Holders(l)' # {}
  BY DEF Holders
<1>9. CASE UNCHANGED taskvars
  <2>1. Holders(k)' # {} /\ Holders(k) # {}
    <3>1. CASE ClaimAdbKey(s, k)
      <4>1. claims[k] # 0
        BY <1>1, <1>2, <1>9, <3>1 DEF ClaimAdbKey, Send, taskvars
      <4> QED BY <3>1, <4>1, HoldersAfter
    <3>2. CASE ReleaseAdbKey(s, k)
      <4>1. claims[k] # 1
        BY <1>1, <1>2, <1>9, <3>2 DEF ReleaseAdbKey, Send, taskvars
      <4> QED BY <3>2, <4>1, HoldersAfter
    <3> QED BY <3>1, <3>2
  <2>2. OneInside' /\ Sent' /\ Stored'
    BY <1>2, <1>5, <1>9 DEF OneInside, Sent, taskvars
  <2>3. k \in dropped' \/ (Sees(k)' <=> Holders(k)' # {})
    BY <1>2, <1>3, <1>6, <2>1 DEF Inv, GuestSeesClaims, Sending, Holders
  <2>4. GuestSeesClaims'
    BY <1>7, <1>8, <2>3 DEF GuestSeesClaims
  <2> QED BY <1>4, <1>5, <2>2, <2>4 DEF Inv
<1>10. ASSUME NEW d \in BOOLEAN, Send(t, k, d), d <=> Holders(k)' # {}
       PROVE  Inv'
  <2>1. /\ mutex' = t /\ pc'[t] = "put" /\ event'[t].key = k /\ event'[t].down = d
        /\ \A u \in Task \ {t} : pc'[u] = "idle"
    BY <1>1, <1>2, <1>10 DEF Send
  <2>2. OneInside' /\ Stored'
    BY <1>5, <2>1 DEF OneInside
  <2>3. Sent'
    BY <1>10, <2>1 DEF Sent
  <2>4. Sending(k)'
    BY <1>1, <2>1 DEF Sending
  <2>5. GuestSeesClaims'
    BY <1>7, <1>8, <2>4 DEF GuestSeesClaims
  <2> QED BY <1>4, <1>5, <2>2, <2>3, <2>5 DEF Inv
<1>11. CASE ClaimAdbKey(s, k) /\ ~UNCHANGED taskvars
  <2>1. Send(t, k, TRUE)
    BY <1>11 DEF ClaimAdbKey
  <2>2. Holders(k)' # {}
    BY <1>11, HoldersAfter
  <2> QED BY <1>10, <2>1, <2>2
<1>12. CASE ReleaseAdbKey(s, k) /\ ~UNCHANGED taskvars
  <2>1. Send(t, k, FALSE) /\ claims[k] = 1
    BY <1>12 DEF ReleaseAdbKey
  <2>2. Holders(k)' = {}
    BY <1>12, <2>1, HoldersAfter
  <2> QED BY <1>10, <2>1, <2>2
<1> QED BY <1>9, <1>11, <1>12

\* A step of ADBKeyDown or ADBKeyUp: only its task is inside.
LEMMA EventStep ==
  ASSUME Inv, TypeOK', NEW t \in Task, Event(t)
  PROVE  Inv'
<1>1. /\ pc \in [Task -> {"idle", "put", "publish", "flag", "finish"}]
      /\ event \in [Task -> Code] /\ event[t].key \in Key
      /\ pc[t] # "idle"
  BY DEF Inv, TypeOK, Code, Event, PutKey, DropKey, PublishKey, RaiseAdb, GiveMutex
<1>2. mutex = t /\ \A u \in Task \ {t} : pc[u] = "idle"
  BY <1>1 DEF Inv, OneInside
<1>3. \A u \in Task \ {t} : pc'[u] = "idle"
  BY <1>1, <1>2 DEF Event, PutKey, DropKey, PublishKey, RaiseAdb, GiveMutex, Goto
<1>4. OneInside'
  BY <1>1, <1>2, <1>3
  DEF OneInside, Event, PutKey, DropKey, PublishKey, RaiseAdb, GiveMutex, Goto
<1>5. UNCHANGED claimvars /\ \A k : Holders(k)' = Holders(k)
  BY DEF Event, PutKey, DropKey, PublishKey, RaiseAdb, GiveMutex, claimvars, Holders
<1>6. Counted'
  BY <1>5 DEF Inv, Counted, claimvars
<1>7. key_read_ptr \in Slot /\ key_write_ptr \in Slot /\ key_buffer \in [Slot -> Code]
  BY DEF Inv, TypeOK
<1>8. \A k \in Key : (\E s \in Source : k \in owned[s]) <=> Holders(k) # {}
  BY DEF Holders
<1>9. \A k \in Key : (\E s \in Source : k \in owned'[s]) <=> Holders(k)' # {}
  BY DEF Holders
<1>10. \A k \in Key : ~Sending(k) /\ k \notin dropped => (Sees(k) <=> Holders(k) # {})
  BY <1>8 DEF Inv, GuestSeesClaims
<1>11. \A k \in Key : Sending(k) => k = event[t].key /\ pc[t] \in {"put", "publish"}
  BY <1>2 DEF Sending
<1>12. CASE PutKey(t)
  <2>1. /\ pc[t] = "put" /\ ~Full /\ pc'[t] = "publish" /\ UNCHANGED <<event, dropped>>
        /\ key_buffer' = [key_buffer EXCEPT ![key_write_ptr] = event[t]]
        /\ UNCHANGED <<key_read_ptr, key_write_ptr, cpu, mac_code, guest>>
    BY <1>1, <1>12 DEF PutKey, Goto, cpuvars
  <2>2. Sent'
    BY <1>3, <1>5, <2>1 DEF Inv, Sent
  <2>3. Stored'
    BY <1>3, <1>7, <2>1 DEF Stored, Full
  <2>4. Read'
    BY <1>7, <2>1 DEF Inv, Read, Empty
  <2>5. ASSUME NEW k PROVE Sees(k)' <=> Sees(k)
    <3> DEFINE P == PendingAt(key_read_ptr, key_write_ptr, cpu)
               f == CodeAt(key_buffer, key_read_ptr, mac_code)
               h == CodeAt(key_buffer', key_read_ptr, mac_code)
    <3>1. ASSUME NEW i \in P PROVE h[i] = f[i]
      <4>1. CASE i = -1
        BY <4>1 DEF CodeAt
      <4>2. CASE i # -1
        <5>1. i \in Slot /\ i < (key_write_ptr - key_read_ptr) % Size
          BY <4>2 DEF PendingAt
        <5>2. (key_read_ptr + i) % Size \in Slot /\ (key_read_ptr + i) % Size # key_write_ptr
          BY <1>7, <5>1, FreeSlot
        <5>3. key_buffer'[(key_read_ptr + i) % Size] = key_buffer[(key_read_ptr + i) % Size]
          BY <1>7, <2>1, <5>2
        <5> QED BY <4>2, <5>1, <5>3 DEF CodeAt
      <4> QED BY <4>1, <4>2
    <3>2. P \in SUBSET Int
      BY PendingInts
    <3>3. Ends(k, P, h, guest) <=> Ends(k, P, f, guest)
      <4> HIDE DEF P, f, h
      <4> QED BY <3>1, <3>2, EndsSame
    <3> QED BY <2>1, <3>3, SeesIsEnds DEF SeesAt
  <2>6. \A k \in Key : Sending(k)' <=> Sending(k)
    BY <1>2, <1>3, <2>1 DEF Sending
  <2>7. GuestSeesClaims'
    BY <1>5, <1>9, <1>10, <2>1, <2>5, <2>6 DEF GuestSeesClaims
  <2> QED BY <1>4, <1>6, <2>2, <2>3, <2>4, <2>7 DEF Inv
<1>13. CASE DropKey(t)
  <2>1. /\ pc[t] = "put" /\ pc'[t] = "finish" /\ dropped' = dropped \union {event[t].key}
        /\ UNCHANGED <<ringvars, cpuvars>>
    BY <1>1, <1>13 DEF DropKey, Goto
  <2>2. Sent' /\ Stored'
    BY <1>3, <2>1 DEF Sent, Stored
  <2>3. Read'
    BY <2>1 DEF Inv, Read, Empty, ringvars, cpuvars
  <2>4. \A k \in Key : Sees(k)' <=> Sees(k)
    BY <2>1, SameSight
  <2>5. GuestSeesClaims'
    BY <1>5, <1>9, <1>10, <1>11, <2>1, <2>4 DEF GuestSeesClaims
  <2> QED BY <1>4, <1>6, <2>2, <2>3, <2>5 DEF Inv
<1>14. CASE PublishKey(t)
  <2>1. /\ pc[t] = "publish" /\ pc'[t] = "flag" /\ dropped' = dropped \ {event[t].key}
        /\ key_write_ptr' = Advance(key_write_ptr)
        /\ UNCHANGED <<key_buffer, key_read_ptr, cpu, mac_code, guest>>
    BY <1>1, <1>14 DEF PublishKey, Goto, cpuvars
  <2>2. Advance(key_write_ptr) # key_read_ptr /\ key_buffer[key_write_ptr] = event[t]
    BY <2>1 DEF Inv, Stored, Full
  <2>3. Sent' /\ Stored'
    BY <1>3, <2>1 DEF Sent, Stored
  <2>4. Read'
    BY <2>1, <2>2 DEF Inv, Read, Empty
  <2>5. ASSUME NEW k \in Key
        PROVE  Sees(k)' <=> IF event[t].key = k THEN event[t].down ELSE Sees(k)
    <3> DEFINE P == PendingAt(key_read_ptr, key_write_ptr, cpu)
               f == CodeAt(key_buffer, key_read_ptr, mac_code)
               n == (key_write_ptr - key_read_ptr) % Size
    <3>1. /\ n \in Slot /\ (key_read_ptr + n) % Size = key_write_ptr
          /\ PendingAt(key_read_ptr, key_write_ptr', cpu) = P \union {n}
      BY <1>7, <2>1, <2>2, RingAppends
    <3>2. n \in Int /\ n # -1 /\ -1 < n
      BY <3>1, AdbKeysAssumption DEF Slot
    <3>3. f[n] = event[t]
      BY <2>2, <3>1, <3>2 DEF CodeAt
    <3>4. P \in SUBSET Int
      BY PendingInts
    <3>5. \A i \in P : i < n
      BY <3>2 DEF PendingAt
    <3>6. Ends(k, P \union {n}, f, guest)
            <=> IF f[n].key = k THEN f[n].down ELSE Ends(k, P, f, guest)
      <4> HIDE DEF P, f, n
      <4> QED BY <3>2, <3>4, <3>5, EndsAdded
    <3>7. Sees(k)' <=> Ends(k, P \union {n}, f, guest)
      BY <2>1, <3>1, SeesIsEnds DEF SeesAt
    <3>8. Sees(k) <=> Ends(k, P, f, guest)
      BY SeesIsEnds DEF SeesAt
    <3> HIDE DEF P, f, n
    <3> QED BY <3>3, <3>6, <3>7, <3>8
  <2>6. event[t].down <=> Holders(event[t].key) # {}
    BY <2>1 DEF Inv, Sent
  <2>7. \A k \in Key : k \in dropped' \/ (Sees(k)' <=> Holders(k) # {})
    BY <1>10, <1>11, <2>1, <2>5, <2>6
  <2>8. GuestSeesClaims'
    BY <1>5, <1>9, <2>7 DEF GuestSeesClaims
  <2> QED BY <1>4, <1>6, <2>3, <2>4, <2>8 DEF Inv
<1>15. CASE RaiseAdb(t) \/ GiveMutex(t)
  <2>1. /\ pc[t] \in {"flag", "finish"} /\ pc'[t] \in {"finish", "idle"}
        /\ UNCHANGED <<ringvars, cpuvars, dropped>>
    BY <1>1, <1>15 DEF RaiseAdb, GiveMutex, Goto
  <2>2. Sent' /\ Stored'
    BY <1>3, <2>1 DEF Sent, Stored
  <2>3. Read'
    BY <2>1 DEF Inv, Read, Empty, ringvars, cpuvars
  <2>4. \A k \in Key : Sees(k)' <=> Sees(k)
    BY <2>1, SameSight
  <2>5. GuestSeesClaims'
    BY <1>5, <1>9, <1>10, <1>11, <2>1, <2>4 DEF GuestSeesClaims
  <2> QED BY <1>4, <1>6, <2>2, <2>3, <2>5 DEF Inv
<1> QED BY <1>12, <1>13, <1>14, <1>15 DEF Event

\* Steps of the CPU leave claims, tasks and the write side alone.
LEMMA CpuFrame ==
  ASSUME Inv, TypeOK', UNCHANGED <<claimvars, taskvars, key_buffer, key_write_ptr, dropped>>,
         Read', ~Full => ~Full', \A k \in Key : Sees(k)' <=> Sees(k)
  PROVE  Inv'
<1>1. OneInside' /\ Sent' /\ Counted'
  BY DEF Inv, OneInside, Sent, Counted, Holders, claimvars, taskvars
<1>2. Stored'
  BY DEF Inv, Stored, taskvars
<1>3. GuestSeesClaims'
  BY DEF Inv, GuestSeesClaims, Sending, claimvars, taskvars
<1> QED BY <1>1, <1>2, <1>3 DEF Inv

\* ADBInterrupt, and the guest's start.
LEMMA CpuStep ==
  ASSUME Inv, TypeOK', AdbInterrupt \/ GuestReady \/ DebuggerPoll
  PROVE  Inv'
<1>1. /\ key_read_ptr \in Slot /\ key_write_ptr \in Slot
      /\ mac_code \in Code
  BY DEF Inv, TypeOK
<1>2. CASE AdbIrq \/ KeysDone \/ GuestReady \/ DebuggerPoll
  <2>1. /\ UNCHANGED <<claimvars, taskvars, ringvars, dropped, mac_code, guest>>
        /\ cpu' # "advance" \/ cpu' = cpu
        /\ (cpu # "handler" /\ cpu' # "handler") \/ cpu' = cpu
    BY <1>2 DEF AdbIrq, KeysDone, GuestReady, DebuggerPoll, cpuvars
  <2>2. Read' /\ (~Full => ~Full')
    BY <2>1 DEF Inv, Read, Empty, Full, ringvars
  <2>3. PendingAt(key_read_ptr, key_write_ptr, cpu') = PendingAt(key_read_ptr, key_write_ptr, cpu)
    BY <2>1 DEF PendingAt
  <2>4. \A k \in Key : Sees(k)' <=> Sees(k)
    BY <2>1, <2>3, SeesIsEnds DEF SeesAt, ringvars
  <2> QED BY <2>1, <2>2, <2>4, CpuFrame DEF ringvars
<1>3. CASE ReadKey
  <2>1. /\ UNCHANGED <<claimvars, taskvars, ringvars, dropped, guest>>
        /\ cpu = "keys" /\ cpu' = "advance" /\ ~Empty /\ mac_code' = key_buffer[key_read_ptr]
    BY <1>3 DEF ReadKey
  <2>2. Read' /\ (~Full => ~Full')
    BY <2>1 DEF Read, Empty, Full, ringvars
  <2>3. ASSUME NEW k \in Key PROVE Sees(k)' <=> Sees(k)
    <3> DEFINE P == PendingAt(key_read_ptr, key_write_ptr, cpu)
               f == CodeAt(key_buffer, key_read_ptr, mac_code)
               h == CodeAt(key_buffer, key_read_ptr, mac_code')
    <3>1. PendingAt(key_read_ptr, key_write_ptr, cpu') = P
      BY <2>1 DEF PendingAt
    <3>2. \A i \in P : i \in Slot /\ i # -1
      BY <2>1, AdbKeysAssumption DEF PendingAt, Slot
    <3>3. \A i \in P : h[i] = f[i]
      BY <3>2 DEF CodeAt
    <3>4. P \in SUBSET Int
      BY PendingInts
    <3>5. Ends(k, P, h, guest) <=> Ends(k, P, f, guest)
      <4> HIDE DEF P, f, h
      <4> QED BY <3>3, <3>4, EndsSame
    <3> QED BY <2>1, <3>1, <3>5, SeesIsEnds DEF SeesAt, ringvars
  <2> QED BY <2>1, <2>2, <2>3, CpuFrame DEF ringvars
<1>4. CASE AdvanceRead
  <2>1. /\ UNCHANGED <<claimvars, taskvars, key_buffer, key_write_ptr, dropped, guest, mac_code>>
        /\ cpu = "advance" /\ cpu' = "handler" /\ key_read_ptr' = Advance(key_read_ptr)
    BY <1>4 DEF AdvanceRead
  <2>2. key_read_ptr # key_write_ptr /\ mac_code = key_buffer[key_read_ptr]
    BY <2>1 DEF Inv, Read, Empty
  <2>3. Read'
    BY <2>1 DEF Read
  <2>4. ~Full => ~Full'
    <3>1. Size \in Nat \ {0, 1} /\ key_read_ptr \in 0..Size - 1 /\ key_write_ptr \in 0..Size - 1
      BY <1>1, AdbKeysAssumption DEF Slot
    <3>2. /\ Advance(key_read_ptr) = IF key_read_ptr + 1 = Size THEN 0 ELSE key_read_ptr + 1
          /\ Advance(key_write_ptr) = IF key_write_ptr + 1 = Size THEN 0 ELSE key_write_ptr + 1
      BY <1>1, Remainders
    <3>3. Advance(key_write_ptr) # Advance(key_read_ptr)
      BY <2>2, <3>1, <3>2
    <3> QED BY <2>1, <3>3 DEF Full, Advance
  <2>5. ASSUME NEW k \in Key PROVE Sees(k)' <=> Sees(k)
    <3> DEFINE P == PendingAt(key_read_ptr, key_write_ptr, "advance")
               Q == PendingAt(Advance(key_read_ptr), key_write_ptr, "handler")
               f == CodeAt(key_buffer, key_read_ptr, mac_code)
               h == CodeAt(key_buffer, Advance(key_read_ptr), mac_code)
    <3>1. (\A i \in Int : i \in Q <=> i + 1 \in P) /\ (\A i \in Q : h[i] = f[i + 1])
      BY <1>1, <2>2, RingAdvances
    <3>2. P \in SUBSET Int /\ Q \in SUBSET Int
      BY PendingInts
    <3>3. Ends(k, Q, h, guest) <=> Ends(k, P, f, guest)
      <4> HIDE DEF P, Q, f, h
      <4> QED BY <3>1, <3>2, EndsShifted
    <3> QED BY <2>1, <3>3, SeesIsEnds DEF SeesAt
  <2> QED BY <2>1, <2>3, <2>4, <2>5, CpuFrame
<1>5. CASE KeyHandler
  <2>1. /\ UNCHANGED <<claimvars, taskvars, ringvars, dropped>>
        /\ cpu = "handler" /\ cpu' = "keys"
        /\ guest' = IF mac_code.down THEN guest \union {mac_code.key} ELSE guest \ {mac_code.key}
    BY <1>5 DEF KeyHandler, Deliver
  <2>2. Read' /\ (~Full => ~Full')
    BY <2>1 DEF Read, Full, ringvars
  <2>3. ASSUME NEW k \in Key PROVE Sees(k)' <=> Sees(k)
    <3> DEFINE P == PendingAt(key_read_ptr, key_write_ptr, "handler")
               Q == PendingAt(key_read_ptr, key_write_ptr, "keys")
               f == CodeAt(key_buffer, key_read_ptr, mac_code)
               h == CodeAt(key_buffer, key_read_ptr, mac_code')
    <3>1. -1 \in P /\ Q = P \ {-1} /\ f[-1] = mac_code
      BY AdbKeysAssumption DEF PendingAt, CodeAt, Slot
    <3>2. \A i \in P : i \in Int /\ -1 <= i
      BY AdbKeysAssumption DEF PendingAt, Slot
    <3>3. \A i \in Q : h[i] = f[i]
      BY <3>1, PendingInts DEF CodeAt
    <3>4. P \in SUBSET Int /\ Q \in SUBSET Int
      BY PendingInts
    <3>5. Ends(k, Q, f, guest') <=> Ends(k, P, f, guest)
      <4> HIDE DEF P, Q, f, h
      <4>1. guest' = IF f[-1].down THEN guest \union {f[-1].key} ELSE guest \ {f[-1].key}
        BY <2>1, <3>1
      <4> QED BY <3>1, <3>2, <3>4, <4>1, EndsHandled
    <3>6. Ends(k, Q, h, guest') <=> Ends(k, Q, f, guest')
      <4> HIDE DEF P, Q, f, h
      <4> QED BY <3>3, <3>4, EndsSame
    <3> QED BY <2>1, <3>5, <3>6, SeesIsEnds DEF SeesAt, ringvars
  <2> QED BY <2>1, <2>2, <2>3, CpuFrame DEF ringvars
<1> QED BY <1>2, <1>3, <1>4, <1>5 DEF AdbInterrupt

\* The invariant is inductive.
LEMMA InvStep == Inv /\ [Next]_vars => Inv'
<1> SUFFICES ASSUME Inv, [Next]_vars PROVE Inv'
  OBVIOUS
<1>1. TypeOK'
  BY StepTyped DEF Inv
<1>2. CASE UNCHANGED vars
  <2>1. Read' /\ (~Full => ~Full')
    BY <1>2 DEF Inv, Read, Empty, Full, vars, ringvars, cpuvars
  <2>2. \A k \in Key : Sees(k)' <=> Sees(k)
    BY <1>2, SameSight DEF vars
  <2> QED BY <1>1, <1>2, <2>1, <2>2, CpuFrame DEF vars, ringvars
<1> QED BY <1>1, <1>2, ClaimStep, EventStep, CpuStep DEF Next, Sources

\* Whatever two tasks and the CPU do, and whatever a full ring dropped, the
\* guest ends up with the keys that some source holds, except a key whose own
\* latest event was dropped (claimAdbKey, releaseAdbKey, ADBKeyDown, ADBKeyUp,
\* ADBInterrupt): the counts are the numbers of holders, an event is stored
\* before it is published, and the last event of a key decides.
THEOREM GuestFollowsClaims == Spec => []GuestSeesClaims
<1>1. Inv => GuestSeesClaims
  BY DEF Inv
<1> QED BY <1>1, InvInit, InvStep, PTL DEF Spec

-----------------------------------------------------------------------------
(* The ring is a queue. *)

RingAt(b, r, w) == [i \in 1..((w - r) % Size) |-> b[(r + i - 1) % Size]]

LEMMA RingIsSeq ==
  ASSUME NEW b \in [Slot -> Code], NEW r \in Slot, NEW w \in Slot
  PROVE  /\ (w - r) % Size \in Nat
         /\ RingAt(b, r, w) \in Seq(Code) /\ Len(RingAt(b, r, w)) = (w - r) % Size
         /\ \A i \in 1..((w - r) % Size) : RingAt(b, r, w)[i] = b[(r + (i - 1)) % Size]
<1> DEFINE n == (w - r) % Size
<1>1. Size \in Nat \ {0, 1} /\ r \in 0..Size - 1 /\ w \in 0..Size - 1
  BY AdbKeysAssumption DEF Slot
<1>2. n \in 0..Size - 1
  BY <1>1
<1>3. ASSUME NEW i \in 1..n
      PROVE  b[(r + i - 1) % Size] \in Code /\ r + i - 1 = r + (i - 1)
  <2>1. i - 1 \in Slot /\ r + i - 1 = r + (i - 1)
    <3> HIDE DEF n
    <3> QED BY <1>1, <1>2 DEF Slot
  <2>2. (r + (i - 1)) % Size \in Slot
    <3>1. r + (i - 1) \in Int
      BY <1>1, <2>1 DEF Slot
    <3> HIDE DEF n
    <3> QED BY <1>1, <3>1 DEF Slot
  <2> QED BY <2>1, <2>2
<1>4. RingAt(b, r, w) = [i \in 1..n |-> b[(r + i - 1) % Size]]
  BY DEF RingAt
<1> HIDE DEF n
<1>5. RingAt(b, r, w) \in Seq(Code) /\ Len(RingAt(b, r, w)) = n
  BY <1>2, <1>3, <1>4
<1> QED BY <1>2, <1>3, <1>4, <1>5 DEF n

\* Publishing appends the slot of the write pointer.
LEMMA RingPut ==
  ASSUME NEW b \in [Slot -> Code], NEW r \in Slot, NEW w \in Slot, Advance(w) # r
  PROVE  /\ RingAt(b, r, Advance(w)) = Append(RingAt(b, r, w), b[w])
         /\ ((w - r) % Size) + 1 < Size
<1> DEFINE n == (w - r) % Size
           s == RingAt(b, r, w)
           t == RingAt(b, r, Advance(w))
<1>1. Size \in Nat \ {0, 1} /\ r \in 0..Size - 1 /\ w \in 0..Size - 1
  BY AdbKeysAssumption DEF Slot
<1>2. Advance(w) \in Slot /\ Advance(w) = IF w + 1 = Size THEN 0 ELSE w + 1
  BY AdvanceInRing, Remainders
<1>3. n \in Nat /\ n = IF w >= r THEN w - r ELSE w - r + Size
  BY Remainders, RingIsSeq
<1>4. (Advance(w) - r) % Size = n + 1 /\ n + 1 < Size
  <2>1. (Advance(w) - r) % Size
          = IF Advance(w) >= r THEN Advance(w) - r ELSE Advance(w) - r + Size
    BY <1>2, Remainders
  <2> HIDE DEF n
  <2> QED BY <1>1, <1>2, <1>3, <2>1
<1>5. /\ s \in Seq(Code) /\ Len(s) = n
      /\ \A i \in 1..n : s[i] = b[(r + (i - 1)) % Size]
      /\ t \in Seq(Code) /\ Len(t) = n + 1
      /\ \A i \in 1..n + 1 : t[i] = b[(r + (i - 1)) % Size]
  <2>1. /\ t \in Seq(Code) /\ Len(t) = (Advance(w) - r) % Size
        /\ \A i \in 1..((Advance(w) - r) % Size) : t[i] = b[(r + (i - 1)) % Size]
    BY <1>2, RingIsSeq
  <2> QED BY <1>4, <2>1, RingIsSeq
<1>6. t[n + 1] = b[w]
  <2>1. n \in Slot /\ (r + n) % Size = w
    BY RingAppends
  <2>2. n + 1 \in 1..n + 1 /\ (n + 1) - 1 = n
    BY <1>3
  <2> QED BY <1>5, <2>1, <2>2
<1> HIDE DEF n, s, t
<1>7. /\ Append(s, b[w]) \in Seq(Code) /\ Len(Append(s, b[w])) = n + 1
      /\ \A i \in 1..n : Append(s, b[w])[i] = s[i]
      /\ Append(s, b[w])[n + 1] = b[w]
  BY <1>5, AppendProperties
<1>8. ASSUME NEW i \in 1..n + 1 PROVE t[i] = Append(s, b[w])[i]
  <2>1. CASE i = n + 1
    BY <1>6, <1>7, <2>1
  <2>2. CASE i \in 1..n
    <3>1. t[i] = b[(r + (i - 1)) % Size]
      BY <1>5
    <3>2. s[i] = b[(r + (i - 1)) % Size]
      BY <1>5, <2>2
    <3>3. Append(s, b[w])[i] = s[i]
      BY <1>7, <2>2
    <3> QED BY <3>1, <3>2, <3>3, Zenon
  <2>3. i = n + 1 \/ i \in 1..n
    BY <1>3
  <2> QED BY <2>1, <2>2, <2>3
<1>9. t = Append(s, b[w])
  BY <1>5, <1>7, <1>8, SeqEqual
<1> QED BY <1>4, <1>9 DEF n, s, t

\* The slot of the read pointer is the first.
LEMMA RingTake ==
  ASSUME NEW b \in [Slot -> Code], NEW r \in Slot, NEW w \in Slot, r # w
  PROVE  RingAt(b, r, w) = <<b[r]>> \o RingAt(b, Advance(r), w)
<1> DEFINE n == (w - r) % Size
           s == RingAt(b, r, w)
           t == RingAt(b, Advance(r), w)
<1>1. Size \in Nat \ {0, 1} /\ r \in 0..Size - 1 /\ w \in 0..Size - 1
  BY AdbKeysAssumption DEF Slot
<1>2. Advance(r) \in Slot /\ Advance(r) = IF r + 1 = Size THEN 0 ELSE r + 1
  BY AdvanceInRing, Remainders
<1>3. n = IF w >= r THEN w - r ELSE w - r + Size
  BY Remainders
<1>4. n \in 1..Size - 1 /\ (w - Advance(r)) % Size = n - 1
  <2>1. (w - Advance(r)) % Size
          = IF w >= Advance(r) THEN w - Advance(r) ELSE w - Advance(r) + Size
    BY <1>2, Remainders
  <2> HIDE DEF n
  <2> QED BY <1>1, <1>2, <1>3, <2>1
<1>5. /\ s \in Seq(Code) /\ Len(s) = n
      /\ \A i \in 1..n : s[i] = b[(r + (i - 1)) % Size]
      /\ t \in Seq(Code) /\ Len(t) = n - 1
      /\ \A i \in 1..n - 1 : t[i] = b[(Advance(r) + (i - 1)) % Size]
  <2>1. /\ t \in Seq(Code) /\ Len(t) = (w - Advance(r)) % Size
        /\ \A i \in 1..((w - Advance(r)) % Size) : t[i] = b[(Advance(r) + (i - 1)) % Size]
    BY <1>2, RingIsSeq
  <2> QED BY <1>4, <2>1, RingIsSeq
<1>6. ASSUME NEW i \in 1..n - 1 PROVE t[i] = s[i + 1]
  <2>1. i - 1 \in Slot /\ i \in Slot /\ i + 1 \in 1..n /\ (i + 1) - 1 = i
    <3> HIDE DEF n
    <3> QED BY <1>1, <1>4 DEF Slot
  <2>2. /\ (Advance(r) + (i - 1)) % Size
             = IF Advance(r) + (i - 1) < Size THEN Advance(r) + (i - 1)
               ELSE Advance(r) + (i - 1) - Size
        /\ (r + i) % Size = IF r + i < Size THEN r + i ELSE r + i - Size
    BY <1>2, <2>1, Remainders
  <2>3. (Advance(r) + (i - 1)) % Size = (r + i) % Size
    BY <1>1, <1>2, <2>1, <2>2 DEF Slot
  <2> QED BY <1>5, <2>1, <2>3
<1>7. s[1] = b[r]
  <2>1. (r + (1 - 1)) % Size = r
    BY <1>1
  <2>2. 1 \in 1..n
    BY <1>4
  <2> QED BY <1>5, <2>1, <2>2
<1> HIDE DEF n, s, t
<1>8. b[r] \in Code /\ <<b[r]>> \in Seq(Code) /\ Len(<<b[r]>>) = 1 /\ <<b[r]>>[1] = b[r]
  OBVIOUS
<1>9. /\ <<b[r]>> \o t \in Seq(Code) /\ Len(<<b[r]>> \o t) = n
      /\ \A i \in 1..n : (<<b[r]>> \o t)[i] = IF i <= 1 THEN <<b[r]>>[i] ELSE t[i - 1]
  <2>1. 1 + (n - 1) = n
    BY <1>4
  <2> QED BY <1>5, <1>8, <2>1, ConcatProperties
<1>10. ASSUME NEW i \in 1..n PROVE s[i] = (<<b[r]>> \o t)[i]
  <2>1. CASE i = 1
    BY <1>7, <1>8, <1>9, <2>1
  <2>2. CASE i # 1
    <3>1. i - 1 \in 1..n - 1 /\ (i - 1) + 1 = i /\ ~(i <= 1)
      BY <1>4, <2>2
    <3> QED BY <1>6, <1>9, <3>1
  <2> QED BY <2>1, <2>2
<1> QED BY <1>5, <1>9, <1>10, SeqEqual DEF s, t

\* A store into the free slot is not seen.
LEMMA RingStore ==
  ASSUME NEW b \in [Slot -> Code], NEW r \in Slot, NEW w \in Slot, NEW e \in Code
  PROVE  RingAt([b EXCEPT ![w] = e], r, w) = RingAt(b, r, w)
<1> DEFINE c == [b EXCEPT ![w] = e]
           n == (w - r) % Size
<1>1. c \in [Slot -> Code]
  OBVIOUS
<1>2. ASSUME NEW i \in 1..n PROVE c[(r + (i - 1)) % Size] = b[(r + (i - 1)) % Size]
  <2>1. i - 1 \in Slot /\ i - 1 < n
    <3>1. n \in 0..Size - 1 /\ Size \in Nat
      BY AdbKeysAssumption DEF Slot
    <3> HIDE DEF n
    <3> QED BY <3>1 DEF Slot
  <2>2. (r + (i - 1)) % Size \in Slot /\ (r + (i - 1)) % Size # w
    BY <2>1, FreeSlot
  <2> QED BY <2>2
<1>3. /\ RingAt(b, r, w) \in Seq(Code) /\ Len(RingAt(b, r, w)) = n
      /\ \A i \in 1..n : RingAt(b, r, w)[i] = b[(r + (i - 1)) % Size]
  BY RingIsSeq
<1>4. /\ RingAt(c, r, w) \in Seq(Code) /\ Len(RingAt(c, r, w)) = n
      /\ \A i \in 1..n : RingAt(c, r, w)[i] = c[(r + (i - 1)) % Size]
  <2> HIDE DEF c
  <2> QED BY <1>1, RingIsSeq
<1> HIDE DEF c, n
<1>5. ASSUME NEW i \in 1..n PROVE RingAt(c, r, w)[i] = RingAt(b, r, w)[i]
  <2>1. RingAt(c, r, w)[i] = c[(r + (i - 1)) % Size]
    BY <1>4
  <2>2. RingAt(b, r, w)[i] = b[(r + (i - 1)) % Size]
    BY <1>3
  <2> QED BY <1>2, <2>1, <2>2, Zenon
<1>6. RingAt(c, r, w) = RingAt(b, r, w)
  BY <1>3, <1>4, <1>5, SeqEqual
<1> QED BY <1>6 DEF c
LEMMA InRingAt == InRing = RingAt(key_buffer, key_read_ptr, key_write_ptr)
  BY DEF InRing, RingAt

LEMMA HandIsSeq ==
  ASSUME TypeOK
  PROVE  InHand \in Seq(Code) /\ Len(InHand) = IF cpu = "handler" THEN 1 ELSE 0
BY DEF TypeOK, InHand

LEMMA RingTyped ==
  ASSUME TypeOK
  PROVE  /\ InRing \in Seq(Code)
         /\ Len(InRing) = (key_write_ptr - key_read_ptr) % Size
BY InRingAt, RingIsSeq DEF TypeOK

\* A published event is put at the end of the queue.
LEMMA PublishPuts ==
  ASSUME Inv, NEW t \in Task, PublishKey(t)
  PROVE  Ring!Put(event[t])
<1> DEFINE s == InRing
<1>1. /\ key_buffer \in [Slot -> Code] /\ key_read_ptr \in Slot /\ key_write_ptr \in Slot
      /\ event[t] \in Code
      /\ Advance(key_write_ptr) # key_read_ptr /\ key_buffer[key_write_ptr] = event[t]
  BY DEF Inv, TypeOK, Stored, Full, PublishKey
<1>2. /\ InHand' = InHand /\ guest' = guest
      /\ InRing' = RingAt(key_buffer, key_read_ptr, Advance(key_write_ptr))
  BY DEF PublishKey, InHand, InRing, RingAt, cpuvars
<1>3. InRing' = Append(s, event[t]) /\ Len(s) + 1 < Size
  BY <1>1, <1>2, RingPut, RingTyped, InRingAt DEF Inv
<1>4. InHand \in Seq(Code) /\ Len(InHand) \in {0, 1} /\ s \in Seq(Code) /\ Len(s) \in Nat
  <2>1. TypeOK
    BY DEF Inv
  <2>2. InHand \in Seq(Code) /\ Len(InHand) \in {0, 1}
    BY <2>1, HandIsSeq
  <2>3. s \in Seq(Code)
    BY <2>1, RingTyped
  <2> QED BY <2>2, <2>3, LenProperties
<1> HIDE DEF s
<1>5. InHand \o Append(s, event[t]) = Append(InHand \o s, event[t])
  <2>1. <<event[t]>> \in Seq(Code) /\ InHand \o s \in Seq(Code)
    BY <1>1, <1>4
  <2>2. /\ Append(s, event[t]) = s \o <<event[t]>>
        /\ Append(InHand \o s, event[t]) = (InHand \o s) \o <<event[t]>>
    BY <1>1, <1>4, <2>1, AppendIsConcat
  <2> QED BY <1>4, <2>1, <2>2, ConcatAssociative
<1>6. Len(InHand \o s) < Size
  <2>1. Len(InHand \o s) = Len(InHand) + Len(s)
    BY <1>4, ConcatProperties
  <2>2. Len(InHand) \in {0, 1} /\ Len(s) \in Nat /\ Len(s) + 1 < Size /\ Size \in Nat
    BY <1>3, <1>4, AdbKeysAssumption
  <2>3. \A m \in {0, 1}, n, z \in Nat : n + 1 < z => m + n < z
    OBVIOUS
  <2> QED BY <2>1, <2>2, <2>3, Zenon
<1> QED BY <1>2, <1>3, <1>5, <1>6 DEF Ring!Put, s

\* The keyboard handler takes the first event of the queue.
LEMMA HandlerTakes ==
  ASSUME Inv, KeyHandler
  PROVE  Ring!Handle
<1>1. /\ mac_code \in Code /\ InRing \in Seq(Code)
  BY RingTyped DEF Inv, TypeOK
<1>2. /\ InHand = <<mac_code>> /\ InHand' = <<>> /\ InRing' = InRing
      /\ guest' = IF mac_code.down THEN guest \union {mac_code.key}
                  ELSE guest \ {mac_code.key}
  BY DEF KeyHandler, Deliver, InHand, InRing, ringvars
<1>3. /\ <<mac_code>> \o InRing # <<>>
      /\ Head(<<mac_code>> \o InRing) = mac_code
      /\ Tail(<<mac_code>> \o InRing) = <<>> \o InRing
  BY <1>1
<1> QED BY <1>2, <1>3 DEF Ring!Handle

\* The read pointer passes an event that the CPU has in hand.
LEMMA AdvanceHolds ==
  ASSUME Inv, AdvanceRead
  PROVE  UNCHANGED <<InHand \o InRing, guest>>
<1>1. /\ key_buffer \in [Slot -> Code] /\ key_read_ptr \in Slot /\ key_write_ptr \in Slot
      /\ key_read_ptr # key_write_ptr /\ mac_code = key_buffer[key_read_ptr]
  BY DEF Inv, TypeOK, Read, Empty, AdvanceRead
<1>2. /\ InHand = <<>> /\ InHand' = <<mac_code>> /\ guest' = guest
      /\ InRing' = RingAt(key_buffer, Advance(key_read_ptr), key_write_ptr)
  BY DEF AdvanceRead, InHand, InRing, RingAt
<1>3. InRing = <<mac_code>> \o RingAt(key_buffer, Advance(key_read_ptr), key_write_ptr)
  BY <1>1, RingTake, InRingAt
<1>4. InRing \in Seq(Code)
  BY RingTyped DEF Inv
<1>5. <<>> \o InRing = InRing
  BY <1>4
<1> QED BY <1>2, <1>3, <1>5

\* The ring between two unlocked tasks, the one that fills it and the CPU, is
\* a queue: what was published is handled once, as it was stored and in order
\* (ADBKeyDown, ADBKeyUp, ADBInterrupt).  The store misses the queued slots,
\* Stored makes a publication the Put of its event, and Read makes the advance
\* of the read pointer invisible.
THEOREM RingIsQueue == Spec => KeysInOrder
<1>1. Init => Ring!Init
  <2> SUFFICES ASSUME Init PROVE Ring!Init
    OBVIOUS
  <2>1. TypeOK
    BY InitTyped
  <2>2. Len(InRing) = 0 /\ InRing \in Seq(Code)
    <3>1. (0 - 0) % Size = 0
      BY AdbKeysAssumption
    <3> QED BY <2>1, <3>1, RingTyped DEF Init
  <2>3. InHand = <<>> /\ InRing = <<>>
    BY <2>2, EmptySeq DEF Init, InHand
  <2>4. <<>> \o <<>> = <<>>
    BY <2>2, <2>3
  <2> QED BY <2>3, <2>4 DEF Ring!Init, Init
<1>2. Inv /\ [Next]_vars => [Ring!Next]_(Ring!queuevars)
  <2> SUFFICES ASSUME Inv, [Next]_vars PROVE [Ring!Next]_(Ring!queuevars)
    OBVIOUS
  <2> DEFINE Still == UNCHANGED <<InHand \o InRing, guest>>
  <2>1. CASE UNCHANGED <<ringvars, cpuvars>>
    <3>1. InHand' = InHand /\ InRing' = InRing /\ guest' = guest
      BY <2>1 DEF InHand, InRing, ringvars, cpuvars
    <3> QED BY <3>1 DEF Ring!queuevars
  <2>2. ASSUME NEW t \in Task, PutKey(t) PROVE Still
    <3>1. /\ key_buffer \in [Slot -> Code] /\ key_read_ptr \in Slot
          /\ key_write_ptr \in Slot /\ event[t] \in Code
      BY DEF Inv, TypeOK
    <3>2. /\ InHand' = InHand /\ guest' = guest
          /\ InRing' = RingAt([key_buffer EXCEPT ![key_write_ptr] = event[t]],
                              key_read_ptr, key_write_ptr)
      BY <2>2 DEF PutKey, InHand, InRing, RingAt, cpuvars
    <3> QED BY <3>1, <3>2, RingStore, InRingAt
  <2>3. ASSUME NEW t \in Task, PublishKey(t) PROVE Ring!Next
    <3>1. event[t] \in Code
      BY DEF Inv, TypeOK
    <3> QED BY <2>3, <3>1, PublishPuts DEF Ring!Next
  <2>4. CASE ReadKey \/ AdbIrq \/ KeysDone \/ DebuggerPoll
    <3>1. InHand' = InHand /\ InRing' = InRing /\ guest' = guest
      BY <2>4 DEF ReadKey, AdbIrq, KeysDone, DebuggerPoll, InHand, InRing, ringvars
    <3> QED BY <3>1 DEF Ring!queuevars
  <2>5. CASE AdvanceRead
    BY <2>5, AdvanceHolds DEF Ring!queuevars
  <2>6. CASE KeyHandler
    BY <2>6, HandlerTakes DEF Ring!Next
  <2>7. ASSUME NEW s \in Source, NEW k \in Key, ClaimAdbKey(s, k) \/ ReleaseAdbKey(s, k)
        PROVE  UNCHANGED <<ringvars, cpuvars>>
    BY <2>7 DEF ClaimAdbKey, ReleaseAdbKey
  <2>8. ASSUME NEW t \in Task, DropKey(t) \/ RaiseAdb(t) \/ GiveMutex(t)
        PROVE  UNCHANGED <<ringvars, cpuvars>>
    BY <2>8 DEF DropKey, RaiseAdb, GiveMutex
  <2>9. (GuestReady \/ UNCHANGED vars) => UNCHANGED <<ringvars, cpuvars>>
    BY DEF GuestReady, vars
  <2>10. Still => [Ring!Next]_(Ring!queuevars)
    BY DEF Ring!queuevars
  <2> QED BY <2>1, <2>2, <2>3, <2>4, <2>5, <2>6, <2>7, <2>8, <2>9, <2>10
          DEF Next, Sources, Event, AdbInterrupt
<1> QED BY <1>1, <1>2, InvInit, InvStep, PTL DEF Spec, KeysInOrder, Ring!Spec
=============================================================================
