-------------------------- MODULE InterruptsProofs --------------------------
(***************************************************************************)
(* Proofs about Interrupts, for every set of sources and producers and     *)
(* every nesting depth.                                                    *)
(***************************************************************************)
EXTENDS Interrupts, SequenceTheorems, TLAPS

USE InterruptsAssumption

\* C code runs on behalf of the EmulOp on top of the stack, and Execute68k is
\* called by an EmulOp: what a pop of the stack uncovers is what was there.
StackOK ==
  /\ cpu = "emulop" => OnTop("op")
  /\ \A i \in 1..Len(stack) :
       stack[i].kind = "exec" => i > 1 /\ stack[i - 1].kind = "op"

TypeInv == TypeOK /\ StackOK

-----------------------------------------------------------------------------
(* Steps on the stack. *)

LEMMA MakeFromSRType ==
  ASSUME TypeOK, NEW m \in Mask, NEW extra \in SUBSET Flag, MakeFromSR(m, extra)
  PROVE  intmask' \in Mask /\ spcflags' \subseteq Flag
BY DEF TypeOK, MakeFromSR, Flag

\* Pushing a frame that is no call from C code.
LEMMA PushOK ==
  ASSUME TypeInv, NEW f \in Frame, stack' = Append(stack, f),
         f.kind = "exec" => OnTop("op")
  PROVE  /\ stack' \in Seq(Frame)
         /\ stack' # <<>>
         /\ Top' = f
         /\ \A i \in 1..Len(stack') :
              stack'[i].kind = "exec" => i > 1 /\ stack'[i - 1].kind = "op"
<1>1. stack \in Seq(Frame) /\ Len(stack) \in Nat
  BY LenProperties DEF TypeInv, TypeOK
<1>2. /\ stack' \in Seq(Frame) /\ stack' # <<>>
      /\ Len(stack') = Len(stack) + 1
      /\ \A i \in 1..Len(stack) : stack'[i] = stack[i]
      /\ stack'[Len(stack) + 1] = f
  BY <1>1, AppendProperties
<1>3. Top' = f
  BY <1>2 DEF Top
<1>4. f.kind = "exec" => Len(stack) >= 1 /\ stack[Len(stack)].kind = "op"
  <2>1. CASE f.kind = "exec"
    <3>1. stack # <<>> /\ stack[Len(stack)].kind = "op"
      BY <2>1 DEF OnTop, Top
    <3> QED BY <1>1, <3>1, EmptySeq
  <2> QED BY <2>1
<1>5. ASSUME NEW i \in 1..Len(stack'), stack'[i].kind = "exec"
      PROVE  i > 1 /\ stack'[i - 1].kind = "op"
  <2>1. CASE i = Len(stack) + 1
    BY <1>1, <1>2, <1>4, <1>5, <2>1
  <2>2. CASE i \in 1..Len(stack)
    <3>1. i > 1 /\ stack[i - 1].kind = "op"
      BY <1>2, <1>5, <2>2 DEF TypeInv, StackOK
    <3> QED BY <1>1, <1>2, <2>2, <3>1
  <2> QED BY <1>1, <1>2, <2>1, <2>2
<1> QED BY <1>2, <1>3, <1>5

\* Keeping the first n frames.
LEMMA PrefixOK ==
  ASSUME TypeInv, NEW n \in Int, n <= Len(stack), stack' = SubSeq(stack, 1, n)
  PROVE  /\ stack' \in Seq(Frame)
         /\ n >= 1 => stack' # <<>> /\ Top' = stack[n]
         /\ \A i \in 1..Len(stack') :
              stack'[i].kind = "exec" => i > 1 /\ stack'[i - 1].kind = "op"
<1>1. stack \in Seq(Frame) /\ Len(stack) \in Nat
  BY LenProperties DEF TypeInv, TypeOK
<1>2. \A i \in 1..n : stack[i] \in Frame
  BY <1>1, ElementOfSeq
<1>3. /\ stack' \in Seq(Frame)
      /\ Len(stack') = IF 1 <= n THEN n ELSE 0
      /\ \A i \in 1..n : stack'[i] = stack[i]
  BY <1>1, <1>2, SubSeqProperties
<1>4. n >= 1 => stack' # <<>> /\ Top' = stack[n]
  BY <1>3, EmptySeq DEF Top
<1>5. ASSUME NEW i \in 1..Len(stack'), stack'[i].kind = "exec"
      PROVE  i > 1 /\ stack'[i - 1].kind = "op"
  <2>1. i \in 1..n /\ i \in 1..Len(stack)
    BY <1>1, <1>3
  <2>2. i > 1 /\ stack[i - 1].kind = "op"
    BY <1>3, <1>5, <2>1 DEF TypeInv, StackOK
  <2> QED BY <1>3, <2>1, <2>2
<1> QED BY <1>3, <1>4, <1>5

\* Replacing the top frame by one of the same kind.
LEMMA ReplaceOK ==
  ASSUME TypeInv, stack # <<>>, NEW f \in Frame, f.kind = Top.kind,
         NEW s, s = [stack EXCEPT ![Len(stack)] = f]
  PROVE  /\ s \in Seq(Frame) /\ s # <<>> /\ Len(s) = Len(stack)
         /\ s[Len(stack)] = f
         /\ \A i \in 1..Len(s) : s[i].kind = stack[i].kind
<1>1. stack \in Seq(Frame) /\ Len(stack) \in Nat \ {0}
  BY LenProperties, EmptySeq DEF TypeInv, TypeOK
<1>2. s \in Seq(Frame) /\ Len(s) = Len(stack)
  BY <1>1, ExceptSeq
<1>3. \A i \in 1..Len(stack) : s[i] = IF Len(stack) = i THEN f ELSE stack[i]
  BY <1>1, LenProperties
<1>4. s # <<>>
  BY <1>1, <1>2, EmptySeq
<1>5. s[Len(stack)] = f
  BY <1>1, <1>3
<1>6. ASSUME NEW i \in 1..Len(s) PROVE s[i].kind = stack[i].kind
  BY <1>2, <1>3 DEF Top
<1> QED BY <1>2, <1>4, <1>5, <1>6

\* The frames the actions push.
LEMMA FrameType ==
  ASSUME TypeOK
  PROVE  /\ IntFrame \in Frame /\ IntFrame.kind = "int"
         /\ ExecFrame \in Frame /\ ExecFrame.kind = "exec"
         /\ \A todo \in SUBSET Source :
              OpFrame(todo) \in Frame /\ OpFrame(todo).kind = "op"
BY DEF TypeOK, IntFrame, ExecFrame, OpFrame, Frame

-----------------------------------------------------------------------------
(* The types and the shape of the stack. *)

LEMMA TypeInvInit == Init => TypeInv
<1>1. <<>> \in Seq(Frame) /\ Len(<<>>) = 0
  BY EmptySeq
<1>2. Init => TypeOK
  BY <1>1 DEF Init, TypeOK, Point, Mask
<1>3. Init => StackOK
  BY <1>1 DEF Init, StackOK
<1> QED BY <1>2, <1>3 DEF TypeInv

LEMMA TypeInvProducers == TypeInv /\ Producers => TypeInv'
<1> SUFFICES ASSUME TypeInv, Producers PROVE TypeInv'
  OBVIOUS
<1>1. /\ InterruptFlags' \subseteq Source
      /\ spcflags' \subseteq Flag
      /\ pc' \in [Producer -> {"idle", "trigger"}]
  <2>1. ASSUME NEW p \in Producer, SetInterruptFlag(p)
        PROVE  /\ InterruptFlags' \subseteq Source
               /\ spcflags' \subseteq Flag
               /\ pc' \in [Producer -> {"idle", "trigger"}]
    BY <2>1, InterruptsAssumption DEF SetInterruptFlag, TypeInv, TypeOK
  <2>2. ASSUME NEW p \in Producer, TriggerInterrupt(p)
        PROVE  /\ InterruptFlags' \subseteq Source
               /\ spcflags' \subseteq Flag
               /\ pc' \in [Producer -> {"idle", "trigger"}]
    BY <2>2 DEF TriggerInterrupt, TypeInv, TypeOK, Flag
  <2> QED BY <2>1, <2>2 DEF Producers
<1>2. UNCHANGED <<cpu, intmask, stack, at_return, quit_program, cpu_quit_requested,
                  warm_start, mac_started_cached>>
  BY DEF Producers, SetInterruptFlag, TriggerInterrupt, quitvars, startvars
<1>3. TypeOK'
  BY <1>1, <1>2 DEF TypeInv, TypeOK
<1>4. StackOK'
  BY <1>2 DEF TypeInv, StackOK, OnTop, Top
<1> QED BY <1>3, <1>4 DEF TypeInv

LEMMA TypeInvGuestCode == TypeInv /\ GuestCode => TypeInv'
<1> SUFFICES ASSUME TypeInv, GuestCode PROVE TypeInv'
  OBVIOUS
<1>1. ASSUME NEW m \in Mask, GuestSetSR(m) PROVE TypeInv'
  <2>1. intmask' \in Mask /\ spcflags' \subseteq Flag
    BY <1>1, MakeFromSRType DEF GuestSetSR, TypeInv
  <2> QED BY <1>1, <2>1 DEF GuestSetSR, TypeInv, TypeOK, StackOK, quitvars,
                           startvars, OnTop, Top
<1>2. ASSUME NEW m \in Mask, GuestStop(m) PROVE TypeInv'
  <2>1. intmask' \in Mask /\ spcflags' \subseteq Flag
    BY <1>2, MakeFromSRType DEF GuestStop, TypeInv, Flag
  <2> QED BY <1>2, <2>1 DEF GuestStop, TypeInv, TypeOK, StackOK, quitvars,
                           startvars, OnTop, Top
<1>3. CASE GuestRte
  <2>1. stack \in Seq(Frame) /\ stack # <<>> /\ Len(stack) \in Nat \ {0}
    BY <1>3, LenProperties, EmptySeq DEF GuestRte, OnTop, TypeInv, TypeOK
  <2>2. Top.mask \in Mask
    <3>1. Top \in Frame
      BY <2>1, ElementOfSeq DEF Top
    <3> QED BY <3>1 DEF Frame
  <2>3. intmask' \in Mask /\ spcflags' \subseteq Flag
    BY <1>3, <2>2, MakeFromSRType DEF GuestRte, TypeInv
  <2>4. /\ stack' \in Seq(Frame)
        /\ \A i \in 1..Len(stack') :
             stack'[i].kind = "exec" => i > 1 /\ stack'[i - 1].kind = "op"
    BY <1>3, <2>1, PrefixOK DEF GuestRte, Pop
  <2> QED BY <1>3, <2>3, <2>4 DEF GuestRte, Guest, TypeInv, TypeOK, StackOK,
                                  quitvars, startvars
<1>4. CASE GuestWarmStart
  BY <1>4 DEF GuestWarmStart, TypeInv, TypeOK, StackOK, quitvars, flagvars, OnTop, Top
<1>5. CASE ExecReturn
  BY <1>5 DEF ExecReturn, TypeInv, TypeOK, StackOK, startvars, OnTop, Top, Flag
<1>6. CASE EmulOp
  <2>1. OpFrame({}) \in Frame /\ OpFrame({}).kind = "op"
    BY FrameType DEF TypeInv
  <2>2. /\ stack' \in Seq(Frame) /\ stack' # <<>> /\ Top' = OpFrame({})
        /\ \A i \in 1..Len(stack') :
             stack'[i].kind = "exec" => i > 1 /\ stack'[i - 1].kind = "op"
    BY <1>6, <2>1, PushOK DEF EmulOp, Push
  <2> QED BY <1>6, <2>1, <2>2 DEF EmulOp, TypeInv, TypeOK, StackOK, OnTop, Point,
                                  quitvars, startvars, flagvars
<1>7. CASE EmulOpIRQ
  <2> DEFINE f == [Top EXCEPT !.polled = TRUE]
             s == [stack EXCEPT ![Len(stack)] = f]
             todo == {t \in InterruptFlags : t \in StartGated => MacStarted}
  <2>1. stack \in Seq(Frame) /\ stack # <<>> /\ Len(stack) \in Nat \ {0}
    BY <1>7, LenProperties, EmptySeq DEF EmulOpIRQ, OnTop, TypeInv, TypeOK
  <2>2. f \in Frame /\ f.kind = Top.kind
    <3>1. Top \in Frame
      BY <2>1, ElementOfSeq DEF Top
    <3> QED BY <3>1 DEF Frame
  <2>5. stack' = Append(s, OpFrame(todo))
    BY <1>7 DEF EmulOpIRQ, Top
  <2>10. s = [stack EXCEPT ![Len(stack)] = f]
    OBVIOUS
  <2> HIDE DEF f, s
  <2>3. s \in Seq(Frame) /\ Len(s) = Len(stack)
        /\ \A i \in 1..Len(s) : s[i].kind = stack[i].kind
    BY <2>1, <2>2, <2>10, ReplaceOK
  <2>4. OpFrame(todo) \in Frame /\ OpFrame(todo).kind = "op"
    BY FrameType DEF TypeInv, TypeOK
  <2> HIDE DEF todo
  <2>6. /\ stack' \in Seq(Frame) /\ Len(stack') = Len(s) + 1
        /\ \A i \in 1..Len(s) : stack'[i] = s[i]
        /\ stack'[Len(s) + 1] = OpFrame(todo)
    BY <2>3, <2>4, <2>5, AppendProperties
  <2>7. stack' # <<>> /\ Top' = OpFrame(todo)
    BY <2>1, <2>3, <2>6, EmptySeq DEF Top
  <2>8. ASSUME NEW i \in 1..Len(stack'), stack'[i].kind = "exec"
        PROVE  i > 1 /\ stack'[i - 1].kind = "op"
    <3>0. i \in 1..Len(s) \/ i = Len(s) + 1
      BY <2>1, <2>3, <2>6, <2>8
    <3>1. i \in 1..Len(stack) /\ stack[i].kind = "exec"
      BY <2>1, <2>3, <2>4, <2>6, <2>8, <3>0
    <3>2. i > 1 /\ stack[i - 1].kind = "op"
      BY <3>1 DEF TypeInv, StackOK
    <3>3. i \in 1..Len(s) /\ i - 1 \in 1..Len(s)
      BY <2>1, <2>3, <3>1, <3>2
    <3>4. stack'[i - 1].kind = stack[i - 1].kind
      BY <2>3, <2>6, <3>3
    <3> QED BY <3>2, <3>4
  <2>9. mac_started_cached' \in BOOLEAN
    BY <1>7 DEF EmulOpIRQ
  <2> QED BY <1>7, <2>4, <2>6, <2>7, <2>8, <2>9
          DEF EmulOpIRQ, TypeInv, TypeOK, StackOK, OnTop, Point, quitvars
<1> QED BY <1>1, <1>2, <1>3, <1>4, <1>5, <1>6, <1>7 DEF GuestCode

LEMMA TypeInvCCode == TypeInv /\ CCode => TypeInv'
<1> SUFFICES ASSUME TypeInv, CCode PROVE TypeInv'
  OBVIOUS
<1>0. /\ cpu = "emulop" /\ Top.kind = "op"
      /\ stack \in Seq(Frame) /\ stack # <<>> /\ Len(stack) \in Nat \ {0}
      /\ Top \in Frame
  <2>1. cpu = "emulop"
    BY DEF CCode, Serve, Execute68k, QuitEmulator, EmulOpDone
  <2>2. stack \in Seq(Frame) /\ stack # <<>> /\ Top.kind = "op"
    BY <2>1 DEF TypeInv, TypeOK, StackOK, OnTop
  <2>3. Len(stack) \in Nat \ {0}
    BY <2>2, EmptySeq
  <2> QED BY <2>1, <2>2, <2>3, ElementOfSeq DEF Top
<1>1. ASSUME NEW s \in Source, Serve(s) PROVE TypeInv'
  <2> DEFINE f == [Top EXCEPT !.todo = @ \ {s}]
  <2>1. f \in Frame /\ f.kind = Top.kind
    BY <1>0 DEF Frame
  <2>2. stack' = [stack EXCEPT ![Len(stack)] = f]
    BY <1>1 DEF Serve, Top
  <2> HIDE DEF f
  <2>3. /\ stack' \in Seq(Frame) /\ stack' # <<>> /\ Len(stack') = Len(stack)
        /\ stack'[Len(stack)] = f
        /\ \A i \in 1..Len(stack') : stack'[i].kind = stack[i].kind
    BY <1>0, <2>1, <2>2, ReplaceOK
  <2>4. Top' = f
    BY <2>3 DEF Top
  <2>5. \A i \in 1..Len(stack') :
          stack'[i].kind = "exec" => i > 1 /\ stack'[i - 1].kind = "op"
    BY <1>0, <2>3 DEF TypeInv, StackOK
  <2> QED BY <1>0, <1>1, <2>1, <2>3, <2>4, <2>5
          DEF Serve, TypeInv, TypeOK, StackOK, OnTop, quitvars, startvars, flagvars
<1>2. CASE Execute68k
  <2>1. ExecFrame \in Frame /\ ExecFrame.kind = "exec"
    BY FrameType DEF TypeInv
  <2>2. /\ stack' \in Seq(Frame)
        /\ \A i \in 1..Len(stack') :
             stack'[i].kind = "exec" => i > 1 /\ stack'[i - 1].kind = "op"
    BY <1>0, <1>2, <2>1, PushOK DEF Execute68k, Push, OnTop
  <2> QED BY <1>2, <2>2 DEF Execute68k, TypeInv, TypeOK, StackOK, Point,
                            startvars, flagvars
<1>3. CASE QuitEmulator
  BY <1>3 DEF QuitEmulator, TypeInv, TypeOK, StackOK, OnTop, Top, Flag, startvars
<1>4. CASE EmulOpDone
  <2>1. intmask' \in Mask /\ spcflags' \subseteq Flag
    BY <1>0, <1>4, MakeFromSRType DEF EmulOpDone, TypeInv, Frame
  <2>2. /\ stack' \in Seq(Frame)
        /\ \A i \in 1..Len(stack') :
             stack'[i].kind = "exec" => i > 1 /\ stack'[i - 1].kind = "op"
    BY <1>0, <1>4, PrefixOK DEF EmulOpDone, Pop
  <2> QED BY <1>4, <2>1, <2>2 DEF EmulOpDone, TypeInv, TypeOK, StackOK, Point, startvars
<1> QED BY <1>1, <1>2, <1>3, <1>4 DEF CCode

\* An interrupt is taken between two instructions, never in C code.
LEMMA InterruptOK ==
  ASSUME TypeInv, Interrupt
  PROVE  /\ intmask' \in Mask
         /\ stack' \in Seq(Frame)
         /\ \A i \in 1..Len(stack') :
              stack'[i].kind = "exec" => i > 1 /\ stack'[i - 1].kind = "op"
<1>1. IntFrame \in Frame /\ IntFrame.kind = "int"
  BY FrameType DEF TypeInv
<1> QED BY <1>1, PushOK DEF Interrupt, Push, Mask

LEMMA TypeInvDispatch == TypeInv /\ Dispatch => TypeInv'
<1> SUFFICES ASSUME TypeInv, Dispatch PROVE TypeInv'
  OBVIOUS
<1> USE DEF TypeInv, TypeOK, StackOK, Point, flagvars, quitvars, startvars
<1>1. CASE Reset
  BY <1>1 DEF Reset, Mask
<1>2. CASE LoopAgain \/ Start680x0Done \/ Poll \/ StopOver \/ NoDoInt
  BY <1>2 DEF LoopAgain, Start680x0Done, Poll, StopOver, NoDoInt
<1>3. CASE Execute68kDone
  <2>1. PICK i \in Calls : stack' = SubSeq(stack, 1, i - 1)
    BY <1>3 DEF Execute68kDone
  <2>2. /\ i \in 1..Len(stack) /\ i > 1 /\ stack[i - 1].kind = "op"
        /\ Len(stack) \in Nat
    BY <2>1, LenProperties DEF Calls
  <2>3. /\ stack' \in Seq(Frame) /\ stack' # <<>> /\ Top' = stack[i - 1]
        /\ \A j \in 1..Len(stack') :
             stack'[j].kind = "exec" => j > 1 /\ stack'[j - 1].kind = "op"
    <3> DEFINE n == i - 1
    <3>1. n \in Int /\ n >= 1 /\ n <= Len(stack)
      BY <2>2
    <3>2. stack' = SubSeq(stack, 1, n)
      BY <2>1
    <3>3. TypeInv
      OBVIOUS
    <3> HIDE DEF n, TypeInv, TypeOK, StackOK
    <3>4. /\ stack' \in Seq(Frame) /\ stack' # <<>> /\ Top' = stack[n]
          /\ \A j \in 1..Len(stack') :
               stack'[j].kind = "exec" => j > 1 /\ stack'[j - 1].kind = "op"
      BY <3>1, <3>2, <3>3, PrefixOK
    <3> QED BY <3>4 DEF n
  <2> QED BY <1>3, <2>2, <2>3 DEF Execute68kDone, OnTop
<1>4. CASE StopClearDoint \/ DoInt
  BY <1>4 DEF StopClearDoint, DoInt, ClearDoint
<1>5. CASE StopLevel
  <2>1. CASE LevelAboveMask
    <3>1. /\ intmask' \in Mask /\ stack' \in Seq(Frame)
          /\ \A i \in 1..Len(stack') :
               stack'[i].kind = "exec" => i > 1 /\ stack'[i - 1].kind = "op"
      BY <1>5, <2>1, InterruptOK DEF StopLevel
    <3> QED BY <1>5, <2>1, <3>1 DEF StopLevel
  <2>2. CASE ~LevelAboveMask
    BY <1>5, <2>2 DEF StopLevel
  <2> QED BY <2>1, <2>2
<1>6. CASE Level
  <2>1. CASE LevelAboveMask
    <3>1. /\ intmask' \in Mask /\ stack' \in Seq(Frame)
          /\ \A i \in 1..Len(stack') :
               stack'[i].kind = "exec" => i > 1 /\ stack'[i - 1].kind = "op"
      BY <1>6, <2>1, InterruptOK DEF Level
    <3> QED BY <1>6, <2>1, <3>1 DEF Level
  <2>2. CASE ~LevelAboveMask
    BY <1>6, <2>2 DEF Level
  <2> QED BY <2>1, <2>2
<1>7. CASE Brk
  BY <1>7 DEF Brk
<1> QED BY <1>1, <1>2, <1>3, <1>4, <1>5, <1>6, <1>7 DEF Dispatch

LEMMA TypeInvStutter == TypeInv /\ UNCHANGED vars => TypeInv'
BY DEF TypeInv, TypeOK, StackOK, OnTop, Top, vars

\* Type correctness, with the shape of the stack it rests on: every C frame
\* on the stack of the emulation task stands where its caller left it.
THEOREM TypeCorrect == Spec => []TypeInv
<1>1. TypeInv /\ [Next]_vars => TypeInv'
  BY TypeInvProducers, TypeInvGuestCode, TypeInvCCode, TypeInvDispatch,
     TypeInvStutter DEF Next
<1> QED BY <1>1, TypeInvInit, PTL DEF Spec

\* Type correctness by itself: flags, mask, SR and stack of the emulation task
\* (newcpu.cpp, the Execute68k and EMUL_OP paths).
THEOREM TypesHold == Spec => []TypeOK
BY TypeCorrect, PTL DEF TypeInv

-----------------------------------------------------------------------------
(* No interrupt is lost. *)

\* NoLostInterrupt is inductive.  A producer that finds its bit set leaves the
\* obligation to the producer that set it, or to a DOINT that is there already.
LEMMA NoLostProducers ==
  ASSUME TypeOK, NoLostInterrupt, NEW p \in Producer,
         SetInterruptFlag(p) \/ TriggerInterrupt(p)
  PROVE  NoLostInterrupt'
<1>1. CASE SetInterruptFlag(p)
  <2>1. CASE Raises[p] \in InterruptFlags
    BY <1>1, <2>1 DEF SetInterruptFlag, NoLostInterrupt, LevelAboveMask, TypeOK,
       quitvars, startvars
  <2>2. CASE Raises[p] \notin InterruptFlags
    BY <1>1, <2>2 DEF SetInterruptFlag, NoLostInterrupt, TypeOK
  <2> QED BY <2>1, <2>2
<1>2. CASE TriggerInterrupt(p)
  BY <1>2 DEF TriggerInterrupt, NoLostInterrupt
<1> QED BY <1>1, <1>2

\* A change of the mask looks at the pending sources.
LEMMA NoLostMakeFromSR ==
  ASSUME TypeOK, NoLostInterrupt, NEW m, NEW extra, MakeFromSR(m, extra),
         UNCHANGED <<InterruptFlags, pc>>, cpu \in {"run", "emulop"}
  PROVE  NoLostInterrupt'
BY DEF TypeOK, NoLostInterrupt, LevelAboveMask, MakeFromSR

LEMMA NoLostGuestCode == TypeOK /\ NoLostInterrupt /\ GuestCode => NoLostInterrupt'
<1> SUFFICES ASSUME TypeOK, NoLostInterrupt, GuestCode PROVE NoLostInterrupt'
  OBVIOUS
<1>1. ASSUME NEW m \in Mask, GuestSetSR(m) \/ GuestStop(m) PROVE NoLostInterrupt'
  BY <1>1, NoLostMakeFromSR DEF GuestSetSR, GuestStop, Guest
<1>2. CASE GuestRte
  BY <1>2, NoLostMakeFromSR DEF GuestRte, Guest
<1>3. CASE GuestWarmStart \/ EmulOp
  BY <1>3 DEF GuestWarmStart, EmulOp, Guest, NoLostInterrupt, LevelAboveMask, flagvars
<1>4. CASE ExecReturn
  BY <1>4 DEF ExecReturn, NoLostInterrupt, LevelAboveMask
<1>5. CASE EmulOpIRQ
  BY <1>5 DEF EmulOpIRQ, NoLostInterrupt, LevelAboveMask
<1> QED BY <1>1, <1>2, <1>3, <1>4, <1>5 DEF GuestCode

LEMMA NoLostCCode == TypeOK /\ NoLostInterrupt /\ CCode => NoLostInterrupt'
<1> SUFFICES ASSUME TypeOK, NoLostInterrupt, CCode PROVE NoLostInterrupt'
  OBVIOUS
<1>1. ASSUME NEW s \in Source, Serve(s) PROVE NoLostInterrupt'
  BY <1>1 DEF Serve, NoLostInterrupt, LevelAboveMask, flagvars
<1>2. CASE Execute68k \/ QuitEmulator
  BY <1>2 DEF Execute68k, QuitEmulator, NoLostInterrupt, LevelAboveMask, flagvars
<1>3. CASE EmulOpDone
  BY <1>3, NoLostMakeFromSR DEF EmulOpDone
<1> QED BY <1>1, <1>2, <1>3 DEF CCode

\* DOINT is cleared before the level is read, and an interrupt that is taken
\* raises the mask; m68k_reset wipes DOINT but masks every source.
LEMMA NoLostDispatch == TypeOK /\ NoLostInterrupt /\ Dispatch => NoLostInterrupt'
<1> SUFFICES ASSUME TypeOK, NoLostInterrupt, Dispatch PROVE NoLostInterrupt'
  OBVIOUS
<1> USE DEF NoLostInterrupt, LevelAboveMask, flagvars, Mask
<1>1. CASE Reset
  BY <1>1 DEF Reset
<1>2. CASE LoopAgain \/ Execute68kDone \/ Start680x0Done \/ Poll \/ StopOver \/ NoDoInt
  BY <1>2 DEF LoopAgain, Execute68kDone, Start680x0Done, Poll, StopOver, NoDoInt
<1>3. CASE StopClearDoint \/ DoInt
  BY <1>3 DEF StopClearDoint, DoInt, ClearDoint
<1>4. CASE StopLevel
  BY <1>4 DEF StopLevel, Interrupt
<1>5. CASE Level
  BY <1>5 DEF Level, Interrupt
<1>6. CASE Brk
  BY <1>6 DEF Brk
<1> QED BY <1>1, <1>2, <1>3, <1>4, <1>5, <1>6 DEF Dispatch

\* A pending source above the mask always has its DOINT set or on the way:
\* the hand-over between the cores loses no interrupt.
THEOREM InterruptNeverLost == Spec => []NoLostInterrupt
<1>1. Init => NoLostInterrupt
  BY DEF Init, NoLostInterrupt, LevelAboveMask
<1>2. TypeInv /\ NoLostInterrupt /\ [Next]_vars => NoLostInterrupt'
  <2> SUFFICES ASSUME TypeInv, NoLostInterrupt, [Next]_vars PROVE NoLostInterrupt'
    OBVIOUS
  <2>1. CASE Producers
    BY <2>1, NoLostProducers DEF Producers, TypeInv
  <2>2. CASE UNCHANGED vars
    BY <2>2 DEF vars, NoLostInterrupt, LevelAboveMask
  <2> QED BY <2>1, <2>2, NoLostGuestCode, NoLostCCode, NoLostDispatch DEF Next, TypeInv
<1> QED BY <1>1, <1>2, TypeCorrect, PTL DEF Spec

-----------------------------------------------------------------------------
(* A quit request. *)

\* QuitEmulator is called by C code only; m68k_emulop then parks the PC, and
\* m68k_do_specialties returns before it looks at any other flag.
THEOREM QuitStopsGuest == Spec => []QuitRunsNoGuest
<1>1. Init => QuitRunsNoGuest
  BY DEF Init, QuitRunsNoGuest
<1>2. TypeInv /\ QuitRunsNoGuest /\ [Next]_vars => QuitRunsNoGuest'
  <2> SUFFICES ASSUME TypeInv, QuitRunsNoGuest, [Next]_vars PROVE QuitRunsNoGuest'
    OBVIOUS
  <2> USE DEF QuitRunsNoGuest, flagvars, quitvars
  <2>1. CASE Producers
    <3>1. cpu' = cpu /\ at_return' = at_return /\ cpu_quit_requested' = cpu_quit_requested
      BY <2>1 DEF Producers, SetInterruptFlag, TriggerInterrupt
    <3> QED BY <3>1
  <2>2. CASE GuestCode
    <3>1. cpu = "run" /\ UNCHANGED cpu_quit_requested
      BY <2>2 DEF GuestCode, GuestSetSR, GuestStop, GuestRte, GuestWarmStart,
         ExecReturn, EmulOp, EmulOpIRQ, Guest
    <3>2. CASE ExecReturn
      BY <2>2, <3>2 DEF ExecReturn
    <3>3. CASE ~ExecReturn
      <4>1. ~at_return
        BY <2>2, <3>3 DEF GuestCode, GuestSetSR, GuestStop, GuestRte,
           GuestWarmStart, EmulOp, EmulOpIRQ, Guest
      <4> QED BY <3>1, <4>1
    <3> QED BY <3>2, <3>3
  <2>3. CASE CCode
    <3>1. CASE EmulOpDone
      <4>1. cpu' = "run" /\ (cpu_quit_requested' => at_return')
        BY <3>1 DEF EmulOpDone
      <4> QED BY <4>1
    <3>2. CASE ~EmulOpDone
      BY <2>3, <3>2 DEF CCode, Serve, Execute68k, QuitEmulator
    <3> QED BY <3>1, <3>2
  <2>4. CASE Reset \/ LoopAgain \/ Execute68kDone \/ Start680x0Done \/ Poll
    BY <2>4 DEF Reset, LoopAgain, Execute68kDone, Start680x0Done, Poll, Leaving
  <2>5. CASE StopClearDoint \/ StopLevel \/ StopOver \/ DoInt \/ NoDoInt \/ Level \/ Brk
    BY <2>5 DEF StopClearDoint, StopLevel, StopOver, DoInt, NoDoInt, Level, Brk,
       ClearDoint
  <2>6. CASE UNCHANGED vars
    BY <2>6 DEF vars
  <2> QED BY <2>1, <2>2, <2>3, <2>4, <2>5, <2>6 DEF Next, Dispatch
<1> QED BY <1>1, <1>2, TypeCorrect, PTL DEF Spec

-----------------------------------------------------------------------------
(* The latch. *)

\* Only the C code of EMUL_OP_IRQ has sources to serve, and it is either running
\* on top of the stack or waits for the guest code it called: leaving an inner
\* m68k_execute abandons interrupt frames, never sources in service.
OpsInOrder ==
  \A i \in 1..Len(stack) :
    /\ stack[i].kind # "op" => stack[i].todo = {}
    /\ stack[i].kind = "op" =>
         IF i = Len(stack) THEN cpu = "emulop" ELSE stack[i + 1].kind = "exec"

LatchInv == TypeInv /\ OpsInOrder

\* A step on the stack, and what it does to the sources in service.
LEMMA SameStack ==
  ASSUME OpsInOrder, stack' = stack, cpu' = "emulop" <=> cpu = "emulop"
  PROVE  OpsInOrder' /\ Taken' = Taken
BY DEF OpsInOrder, Taken

LEMMA PushTaken ==
  ASSUME LatchInv, NEW f \in Frame, stack' = Append(stack, f),
         f.kind # "op" => f.todo = {},
         f.kind = "op" <=> cpu' = "emulop",
         f.kind = "exec" <=> cpu = "emulop"
  PROVE  OpsInOrder' /\ Taken' = Taken \union f.todo
<1>1. stack \in Seq(Frame) /\ Len(stack) \in Nat
  BY LenProperties DEF LatchInv, TypeInv, TypeOK
<1>2. /\ Len(stack') = Len(stack) + 1
      /\ \A i \in 1..Len(stack) : stack'[i] = stack[i]
      /\ stack'[Len(stack) + 1] = f
  BY <1>1, AppendProperties
<1>3. Taken' = Taken \union f.todo
  <2>1. ASSUME NEW s \in Taken' PROVE s \in Taken \union f.todo
    <3>1. PICK i \in 1..Len(stack') : s \in stack'[i].todo
      BY <2>1 DEF Taken
    <3>2. CASE i = Len(stack) + 1
      BY <1>2, <3>1, <3>2
    <3>3. CASE i \in 1..Len(stack)
      BY <1>2, <3>1, <3>3 DEF Taken
    <3> QED BY <1>1, <1>2, <3>2, <3>3
  <2>2. ASSUME NEW s \in Taken PROVE s \in Taken'
    <3>1. PICK i \in 1..Len(stack) : s \in stack[i].todo
      BY <2>2 DEF Taken
    <3>2. i \in 1..Len(stack') /\ s \in stack'[i].todo
      BY <1>1, <1>2, <3>1
    <3> QED BY <3>2 DEF Taken
  <2>3. ASSUME NEW s \in f.todo PROVE s \in Taken'
    <3>1. Len(stack) + 1 \in 1..Len(stack')
      BY <1>1, <1>2
    <3> QED BY <1>2, <2>3, <3>1 DEF Taken
  <2> QED BY <2>1, <2>2, <2>3
<1>4. ASSUME NEW i \in 1..Len(stack')
      PROVE  /\ stack'[i].kind # "op" => stack'[i].todo = {}
             /\ stack'[i].kind = "op" =>
                  IF i = Len(stack') THEN cpu' = "emulop" ELSE stack'[i + 1].kind = "exec"
  <2>1. CASE i = Len(stack) + 1
    BY <1>2, <2>1
  <2>2. CASE i \in 1..Len(stack) /\ i # Len(stack)
    <3>1. i + 1 \in 1..Len(stack) /\ i # Len(stack')
      BY <1>1, <1>2, <2>2
    <3>2. stack'[i] = stack[i] /\ stack'[i + 1] = stack[i + 1]
      BY <1>2, <2>2, <3>1
    <3> QED BY <2>2, <3>1, <3>2 DEF LatchInv, OpsInOrder
  <2>3. CASE i = Len(stack) /\ i \in 1..Len(stack)
    <3>1. i # Len(stack') /\ stack'[i] = stack[i] /\ stack'[i + 1] = f
      BY <1>1, <1>2, <2>3
    <3> QED BY <2>3, <3>1 DEF LatchInv, OpsInOrder
  <2> QED BY <1>1, <1>2, <2>1, <2>2, <2>3
<1> QED BY <1>3, <1>4 DEF OpsInOrder

\* Dropping frames that have nothing to serve, down to an EmulOp or not.
LEMMA PrefixTaken ==
  ASSUME LatchInv, NEW n \in Nat, n < Len(stack), stack' = SubSeq(stack, 1, n),
         \A i \in 1..Len(stack) : i > n => stack[i].todo = {},
         n >= 1 => (stack[n].kind = "op" => cpu' = "emulop")
  PROVE  OpsInOrder' /\ Taken' = Taken
<1>1. stack \in Seq(Frame) /\ Len(stack) \in Nat
  BY LenProperties DEF LatchInv, TypeInv, TypeOK
<1>2. \A i \in 1..n : stack[i] \in Frame
  BY <1>1, ElementOfSeq
<1>3. /\ Len(stack') = n
      /\ \A i \in 1..n : stack'[i] = stack[i]
  BY <1>1, <1>2, SubSeqProperties
<1>4. Taken' = Taken
  <2>1. ASSUME NEW s \in Taken PROVE s \in Taken'
    <3>1. PICK i \in 1..Len(stack) : s \in stack[i].todo
      BY <2>1 DEF Taken
    <3>2. i \in 1..n
      BY <1>1, <3>1
    <3> QED BY <1>3, <3>1, <3>2 DEF Taken
  <2>2. ASSUME NEW s \in Taken' PROVE s \in Taken
    <3>1. PICK i \in 1..Len(stack') : s \in stack'[i].todo
      BY <2>2 DEF Taken
    <3>2. i \in 1..Len(stack) /\ s \in stack[i].todo
      BY <1>1, <1>3, <3>1
    <3> QED BY <3>2 DEF Taken
  <2> QED BY <2>1, <2>2
<1>5. ASSUME NEW i \in 1..Len(stack')
      PROVE  /\ stack'[i].kind # "op" => stack'[i].todo = {}
             /\ stack'[i].kind = "op" =>
                  IF i = Len(stack') THEN cpu' = "emulop" ELSE stack'[i + 1].kind = "exec"
  <2>1. i \in 1..Len(stack) /\ i # Len(stack) /\ stack'[i] = stack[i]
    BY <1>1, <1>3
  <2>2. CASE i = n
    BY <1>3, <2>1, <2>2 DEF LatchInv, OpsInOrder
  <2>3. CASE i # n
    <3>1. stack'[i + 1] = stack[i + 1]
      BY <1>3, <2>3
    <3> QED BY <1>3, <2>1, <2>3, <3>1 DEF LatchInv, OpsInOrder
  <2> QED BY <2>2, <2>3
<1> QED BY <1>4, <1>5 DEF OpsInOrder

\* An interrupt is pushed by the dispatch loop, on no C code.
LEMMA InterruptTaken ==
  ASSUME LatchInv, Interrupt, cpu # "emulop", cpu' # "emulop"
  PROVE  OpsInOrder' /\ Taken' = Taken
<1>1. IntFrame \in Frame /\ IntFrame.kind = "int" /\ IntFrame.todo = {}
  BY FrameType DEF LatchInv, TypeInv, IntFrame
<1>2. stack' = Append(stack, IntFrame)
  BY DEF Interrupt, Push
<1> HIDE DEF IntFrame
<1> QED BY <1>1, <1>2, PushTaken

\* A frame of which only the sources to serve or the polled bit change.
LEMMA ReplaceTaken ==
  ASSUME LatchInv, stack # <<>>, NEW f \in Frame, f.kind = Top.kind,
         NEW s, s = [stack EXCEPT ![Len(stack)] = f],
         f.kind # "op" => f.todo = {}
  PROVE  /\ \A i \in 1..Len(s) :
              /\ s[i].kind # "op" => s[i].todo = {}
              /\ s[i].kind = "op" =>
                   IF i = Len(s) THEN cpu = "emulop" ELSE s[i + 1].kind = "exec"
         /\ \A i \in 1..Len(s) : i # Len(stack) => s[i] = stack[i]
<1>1. stack \in Seq(Frame) /\ Len(stack) \in Nat \ {0}
  BY LenProperties, EmptySeq DEF LatchInv, TypeInv, TypeOK
<1>2. /\ Len(s) = Len(stack) /\ s[Len(stack)] = f
      /\ \A i \in 1..Len(s) : s[i].kind = stack[i].kind
  BY ReplaceOK DEF LatchInv
<1>3. \A i \in 1..Len(s) : i # Len(stack) => s[i] = stack[i]
  BY <1>1, <1>2, LenProperties
<1>4. ASSUME NEW i \in 1..Len(s)
      PROVE  /\ s[i].kind # "op" => s[i].todo = {}
             /\ s[i].kind = "op" =>
                  IF i = Len(s) THEN cpu = "emulop" ELSE s[i + 1].kind = "exec"
  <2>1. CASE i = Len(stack)
    BY <1>1, <1>2, <2>1 DEF LatchInv, OpsInOrder, Top
  <2>2. CASE i # Len(stack)
    <3> DEFINE n == Len(stack)
    <3>0. n \in Nat /\ i \in 1..n /\ i # n /\ Len(s) = n
      BY <1>1, <1>2, <2>2
    <3> HIDE DEF n
    <3>1. i \in 1..n /\ i + 1 \in 1..n
      BY <3>0
    <3>2. s[i] = stack[i] /\ s[i + 1].kind = stack[i + 1].kind
      BY <1>2, <1>3, <2>2, <3>0, <3>1
    <3> QED BY <1>2, <2>2, <3>0, <3>1, <3>2 DEF n, LatchInv, OpsInOrder
  <2> QED BY <2>1, <2>2
<1> QED BY <1>3, <1>4

\* Every step keeps the order of the frames and is a step of the latch.
LatchStep == OpsInOrder' /\ [Latch!Next]_(Latch!vars)

LEMMA LatchStutter ==
  ASSUME OpsInOrder' /\ Taken' = Taken, UNCHANGED <<InterruptFlags, cpu_quit_requested>>
  PROVE  LatchStep
BY DEF LatchStep, Latch!vars

LEMMA LatchProducers == LatchInv /\ Producers => LatchStep
<1> SUFFICES ASSUME LatchInv, NEW p \in Producer, SetInterruptFlag(p) \/ TriggerInterrupt(p)
             PROVE  LatchStep
  BY DEF Producers
<1>1. OpsInOrder' /\ Taken' = Taken
  BY SameStack DEF SetInterruptFlag, TriggerInterrupt, LatchInv
<1>2. CASE SetInterruptFlag(p)
  <2>1. Latch!Raise(Raises[p]) /\ Raises[p] \in Source
    BY <1>1, <1>2, InterruptsAssumption DEF SetInterruptFlag, Latch!Raise, quitvars
  <2> QED BY <1>1, <2>1 DEF LatchStep, Latch!Next
<1>3. CASE TriggerInterrupt(p)
  BY <1>1, <1>3, LatchStutter DEF TriggerInterrupt, quitvars
<1> QED BY <1>2, <1>3

\* EMUL_OP_IRQ takes what is pending; QuitRunsNoGuest says that no quit was
\* requested when it runs.
LEMMA LatchEmulOpIRQ == LatchInv /\ QuitRunsNoGuest /\ EmulOpIRQ => LatchStep
<1> SUFFICES ASSUME LatchInv, QuitRunsNoGuest, EmulOpIRQ PROVE LatchStep
  OBVIOUS
<1> DEFINE f == [Top EXCEPT !.polled = TRUE]
           s == [stack EXCEPT ![Len(stack)] = f]
           todo == {t \in InterruptFlags : t \in StartGated => MacStarted}
<1>1. stack \in Seq(Frame) /\ stack # <<>> /\ Len(stack) \in Nat \ {0} /\ Top.kind = "int"
  BY LenProperties, EmptySeq DEF EmulOpIRQ, OnTop, LatchInv, TypeInv, TypeOK
<1>2. f \in Frame /\ f.kind = Top.kind /\ f.todo = Top.todo /\ Top.todo = {}
  <2>1. Top \in Frame
    BY <1>1, ElementOfSeq DEF Top
  <2>2. Top.todo = {}
    BY <1>1 DEF Top, LatchInv, OpsInOrder
  <2> QED BY <2>1, <2>2 DEF Frame
<1>3. stack' = Append(s, OpFrame(todo))
  BY DEF EmulOpIRQ, Top
<1>4. s = [stack EXCEPT ![Len(stack)] = f]
  OBVIOUS
<1>5. OpFrame(todo) \in Frame /\ OpFrame(todo).kind = "op" /\ OpFrame(todo).todo = todo
  BY FrameType DEF LatchInv, TypeInv, TypeOK, OpFrame
<1>6. todo = InterruptFlags \ (InterruptFlags \ todo)
      /\ InterruptFlags \ todo \in SUBSET (InterruptFlags \intersect StartGated)
  OBVIOUS
<1> HIDE DEF f, s, todo
<1>7. /\ s \in Seq(Frame) /\ Len(s) = Len(stack) /\ s[Len(stack)] = f
      /\ \A i \in 1..Len(s) : s[i].kind = stack[i].kind
      /\ \A i \in 1..Len(s) : i # Len(stack) => s[i] = stack[i]
      /\ \A i \in 1..Len(s) :
           /\ s[i].kind # "op" => s[i].todo = {}
           /\ s[i].kind = "op" =>
                IF i = Len(s) THEN cpu = "emulop" ELSE s[i + 1].kind = "exec"
  BY <1>1, <1>2, <1>4, ReplaceOK, ReplaceTaken DEF LatchInv
<1>8. /\ Len(stack') = Len(s) + 1
      /\ \A i \in 1..Len(s) : stack'[i] = s[i]
      /\ stack'[Len(s) + 1] = OpFrame(todo)
  BY <1>3, <1>5, <1>7, AppendProperties
<1>9. \A i \in 1..Len(stack) : stack'[i].todo = stack[i].todo
  BY <1>1, <1>2, <1>7, <1>8 DEF Top
<1>10. Taken' = Taken \union todo
  <2>1. ASSUME NEW t \in Taken' PROVE t \in Taken \union todo
    <3>1. PICK i \in 1..Len(stack') : t \in stack'[i].todo
      BY <2>1 DEF Taken
    <3>2. CASE i \in 1..Len(stack)
      BY <1>9, <3>1, <3>2 DEF Taken
    <3>3. CASE i = Len(stack) + 1
      BY <1>5, <1>7, <1>8, <3>1, <3>3
    <3> QED BY <1>1, <1>7, <1>8, <3>2, <3>3
  <2>2. ASSUME NEW t \in Taken PROVE t \in Taken'
    <3>1. PICK i \in 1..Len(stack) : t \in stack[i].todo
      BY <2>2 DEF Taken
    <3>2. i \in 1..Len(stack') /\ t \in stack'[i].todo
      BY <1>1, <1>7, <1>8, <1>9, <3>1
    <3> QED BY <3>2 DEF Taken
  <2>3. ASSUME NEW t \in todo PROVE t \in Taken'
    <3>1. Len(s) + 1 \in 1..Len(stack') /\ stack'[Len(s) + 1].todo = todo
      BY <1>1, <1>5, <1>7, <1>8
    <3> QED BY <2>3, <3>1 DEF Taken
  <2> QED BY <2>1, <2>2, <2>3
<1>11. OpsInOrder'
  <2>1. ASSUME NEW i \in 1..Len(stack')
        PROVE  /\ stack'[i].kind # "op" => stack'[i].todo = {}
               /\ stack'[i].kind = "op" =>
                    IF i = Len(stack') THEN cpu' = "emulop" ELSE stack'[i + 1].kind = "exec"
    <3>1. CASE i = Len(stack) + 1
      BY <1>5, <1>7, <1>8, <3>1 DEF EmulOpIRQ
    <3>2. CASE i = Len(stack)
      <4>1. stack'[i].kind = "int" /\ stack'[i].todo = {}
        BY <1>1, <1>2, <1>7, <1>8, <3>2
      <4> QED BY <4>1
    <3>3. CASE i \in 1..Len(stack) /\ i # Len(stack)
      <4>1. i + 1 \in 1..Len(s) /\ i # Len(s) /\ i # Len(stack')
        BY <1>1, <1>7, <1>8, <3>3
      <4>2. stack'[i] = s[i] /\ stack'[i + 1] = s[i + 1]
        BY <1>7, <1>8, <3>3, <4>1
      <4> QED BY <1>7, <3>3, <4>1, <4>2
    <3> QED BY <1>1, <1>7, <1>8, <3>1, <3>2, <3>3
  <2> QED BY <2>1 DEF OpsInOrder
<1>12. ~cpu_quit_requested /\ InterruptFlags' = {} /\ cpu_quit_requested' = cpu_quit_requested
  BY DEF EmulOpIRQ, QuitRunsNoGuest, quitvars
<1>13. CASE InterruptFlags = {}
  <2>1. Taken' = Taken
    BY <1>6, <1>10, <1>13
  <2> QED BY <1>11, <1>12, <1>13, <2>1, LatchStutter
<1>14. CASE InterruptFlags # {}
  <2>1. Latch!TakeAll
    BY <1>6, <1>10, <1>12, <1>14 DEF Latch!TakeAll
  <2> QED BY <1>11, <2>1 DEF LatchStep, Latch!Next
<1> QED BY <1>13, <1>14

LEMMA LatchGuestCode == LatchInv /\ QuitRunsNoGuest /\ GuestCode => LatchStep
<1> SUFFICES ASSUME LatchInv, QuitRunsNoGuest, GuestCode PROVE LatchStep
  OBVIOUS
<1>1. ASSUME NEW m \in Mask, GuestSetSR(m) \/ GuestStop(m) PROVE LatchStep
  <2>1. OpsInOrder' /\ Taken' = Taken
    BY <1>1, SameStack DEF GuestSetSR, GuestStop, LatchInv
  <2> QED BY <1>1, <2>1, LatchStutter DEF GuestSetSR, GuestStop, quitvars
<1>2. CASE GuestWarmStart \/ ExecReturn
  <2>1. OpsInOrder' /\ Taken' = Taken
    BY <1>2, SameStack DEF GuestWarmStart, ExecReturn, LatchInv
  <2> QED BY <1>2, <2>1, LatchStutter DEF GuestWarmStart, ExecReturn, quitvars, flagvars
<1>3. CASE GuestRte
  <2>1. stack \in Seq(Frame) /\ stack # <<>> /\ Len(stack) \in Nat \ {0} /\ Top.kind = "int"
    BY <1>3, LenProperties, EmptySeq DEF GuestRte, OnTop, LatchInv, TypeInv, TypeOK
  <2> DEFINE n == Len(stack) - 1
  <2>2. n \in Nat /\ n < Len(stack) /\ stack' = SubSeq(stack, 1, n)
    BY <1>3, <2>1 DEF GuestRte, Pop
  <2>3. \A i \in 1..Len(stack) : i > n => stack[i].todo = {}
    BY <2>1 DEF Top, LatchInv, OpsInOrder
  <2>4. n >= 1 => stack[n].kind # "op"
    BY <2>1 DEF Top, LatchInv, OpsInOrder
  <2> HIDE DEF n
  <2>5. OpsInOrder' /\ Taken' = Taken
    BY <2>2, <2>3, <2>4, PrefixTaken
  <2> QED BY <1>3, <2>5, LatchStutter DEF GuestRte, quitvars
<1>4. CASE EmulOp
  <2>1. OpFrame({}) \in Frame /\ OpFrame({}).kind = "op" /\ OpFrame({}).todo = {}
    BY FrameType DEF LatchInv, TypeInv, OpFrame
  <2>2. stack' = Append(stack, OpFrame({})) /\ cpu' = "emulop" /\ cpu # "emulop"
    BY <1>4 DEF EmulOp, Push, Guest
  <2> HIDE DEF OpFrame
  <2>3. OpsInOrder' /\ Taken' = Taken
    BY <2>1, <2>2, PushTaken
  <2> QED BY <1>4, <2>3, LatchStutter DEF EmulOp, quitvars, flagvars
<1> QED BY <1>1, <1>2, <1>3, <1>4, LatchEmulOpIRQ DEF GuestCode

LEMMA LatchServe == ASSUME LatchInv, NEW s \in Source, Serve(s) PROVE LatchStep
<1> DEFINE f == [Top EXCEPT !.todo = @ \ {s}]
<1>1. /\ stack \in Seq(Frame) /\ stack # <<>> /\ Len(stack) \in Nat \ {0}
      /\ Top \in Frame /\ Top.kind = "op"
  <2>1. stack \in Seq(Frame) /\ stack # <<>> /\ Top.kind = "op"
    BY DEF Serve, LatchInv, TypeInv, TypeOK, StackOK, OnTop
  <2>2. Len(stack) \in Nat \ {0}
    BY <2>1, EmptySeq
  <2> QED BY <2>1, <2>2, ElementOfSeq DEF Top
<1>2. f \in Frame /\ f.kind = Top.kind /\ f.todo = Top.todo \ {s}
  BY <1>1 DEF Frame
<1>3. stack' = [stack EXCEPT ![Len(stack)] = f]
  BY DEF Serve, Top
<1> HIDE DEF f
<1>4. /\ Len(stack') = Len(stack) /\ stack'[Len(stack)] = f
      /\ \A i \in 1..Len(stack') : i # Len(stack) => stack'[i] = stack[i]
      /\ \A i \in 1..Len(stack') :
           /\ stack'[i].kind # "op" => stack'[i].todo = {}
           /\ stack'[i].kind = "op" =>
                IF i = Len(stack') THEN cpu = "emulop" ELSE stack'[i + 1].kind = "exec"
  BY <1>1, <1>2, <1>3, ReplaceOK, ReplaceTaken DEF LatchInv
<1>5. OpsInOrder' /\ UNCHANGED <<InterruptFlags, cpu_quit_requested>>
  BY <1>4 DEF OpsInOrder, Serve, quitvars, flagvars
<1>6. \A i \in 1..Len(stack) :
        stack'[i].todo \subseteq stack[i].todo /\ stack[i].todo \ {s} \subseteq stack'[i].todo
  BY <1>1, <1>2, <1>4 DEF Top
<1>7. Taken' \subseteq Taken /\ Taken \ {s} \subseteq Taken'
  BY <1>4, <1>6 DEF Taken
<1>8. CASE s \in Taken'
  <2>1. Taken' = Taken
    BY <1>7, <1>8
  <2> QED BY <1>5, <2>1, LatchStutter
<1>9. CASE s \notin Taken'
  <2>1. Taken' = Taken \ {s}
    BY <1>7, <1>9
  <2>2. Latch!Served(s)
    BY <1>5, <2>1 DEF Latch!Served
  <2> QED BY <1>5, <2>2 DEF LatchStep, Latch!Next
<1> QED BY <1>8, <1>9

LEMMA LatchCCode == LatchInv /\ CCode => LatchStep
<1> SUFFICES ASSUME LatchInv, CCode PROVE LatchStep
  OBVIOUS
<1>1. CASE Execute68k
  <2>1. ExecFrame \in Frame /\ ExecFrame.kind = "exec" /\ ExecFrame.todo = {}
    BY FrameType DEF LatchInv, TypeInv, ExecFrame
  <2>2. stack' = Append(stack, ExecFrame) /\ cpu = "emulop" /\ cpu' = "loop"
    BY <1>1 DEF Execute68k, Push
  <2> HIDE DEF ExecFrame
  <2>3. OpsInOrder' /\ Taken' = Taken
    BY <2>1, <2>2, PushTaken
  <2> QED BY <1>1, <2>3, LatchStutter DEF Execute68k, flagvars
<1>2. CASE QuitEmulator
  <2>1. OpsInOrder' /\ Taken' = Taken
    BY <1>2, SameStack DEF QuitEmulator, LatchInv
  <2>2. Latch!SwitchOff
    BY <1>2, <2>1 DEF QuitEmulator, Latch!SwitchOff
  <2> QED BY <2>1, <2>2 DEF LatchStep, Latch!Next
<1>3. CASE EmulOpDone
  <2>1. stack \in Seq(Frame) /\ stack # <<>> /\ Len(stack) \in Nat \ {0} /\ Top.kind = "op"
    <3>1. stack \in Seq(Frame) /\ stack # <<>> /\ Top.kind = "op"
      BY <1>3 DEF EmulOpDone, LatchInv, TypeInv, TypeOK, StackOK, OnTop
    <3> QED BY <3>1, EmptySeq
  <2> DEFINE n == Len(stack) - 1
  <2>2. n \in Nat /\ n < Len(stack) /\ stack' = SubSeq(stack, 1, n)
    BY <1>3, <2>1 DEF EmulOpDone, Pop
  <2>3. \A i \in 1..Len(stack) : i > n => stack[i].todo = {}
    BY <1>3, <2>1 DEF Top, EmulOpDone
  <2>4. n >= 1 => stack[n].kind # "op"
    BY <2>1 DEF Top, LatchInv, OpsInOrder
  <2> HIDE DEF n
  <2>5. OpsInOrder' /\ Taken' = Taken
    BY <2>2, <2>3, <2>4, PrefixTaken
  <2> QED BY <1>3, <2>5, LatchStutter DEF EmulOpDone
<1> QED BY <1>1, <1>2, <1>3, LatchServe DEF CCode

LEMMA LatchDispatch == LatchInv /\ Dispatch => LatchStep
<1> SUFFICES ASSUME LatchInv, Dispatch PROVE LatchStep
  OBVIOUS
<1>0. UNCHANGED <<InterruptFlags, cpu_quit_requested>>
  BY DEF Dispatch, Reset, LoopAgain, Execute68kDone, Start680x0Done, Poll,
     StopClearDoint, StopLevel, StopOver, DoInt, NoDoInt, Level, Brk, ClearDoint,
     flagvars, quitvars
<1>1. CASE Reset \/ LoopAgain \/ Start680x0Done \/ Poll \/ StopOver \/ NoDoInt \/ Brk
  <2>1. OpsInOrder' /\ Taken' = Taken
    BY <1>1, SameStack DEF Reset, LoopAgain, Start680x0Done, Poll, StopOver,
       NoDoInt, Brk, LatchInv
  <2> QED BY <1>0, <2>1, LatchStutter
<1>2. CASE StopClearDoint \/ DoInt
  <2>1. OpsInOrder' /\ Taken' = Taken
    BY <1>2, SameStack DEF StopClearDoint, DoInt, ClearDoint, LatchInv
  <2> QED BY <1>0, <2>1, LatchStutter
<1>3. CASE StopLevel \/ Level
  <2>1. CASE Interrupt
    <3>1. cpu # "emulop" /\ cpu' # "emulop"
      BY <1>3 DEF StopLevel, Level
    <3>2. OpsInOrder' /\ Taken' = Taken
      BY <2>1, <3>1, InterruptTaken
    <3> QED BY <1>0, <3>2, LatchStutter
  <2>2. CASE ~Interrupt
    <3>1. OpsInOrder' /\ Taken' = Taken
      BY <1>3, <2>2, SameStack DEF StopLevel, Level, LatchInv
    <3> QED BY <1>0, <3>1, LatchStutter
  <2> QED BY <2>1, <2>2
<1>4. CASE Execute68kDone
  <2>1. PICK i \in Calls : (\A j \in Calls : j <= i) /\ stack' = SubSeq(stack, 1, i - 1)
    BY <1>4 DEF Execute68kDone
  <2>2. /\ cpu' = "emulop" /\ cpu = "loop"
        /\ i \in 1..Len(stack) /\ stack[i].kind = "exec" /\ Len(stack) \in Nat
    BY <1>4, <2>1, LenProperties DEF Execute68kDone, Calls, LatchInv, TypeInv, TypeOK
  <2> DEFINE n == i - 1
  <2>3. n \in Nat /\ n < Len(stack) /\ stack' = SubSeq(stack, 1, n)
    BY <2>1, <2>2
  <2>4. ASSUME NEW j \in 1..Len(stack), j > n PROVE stack[j].todo = {}
    <3>1. stack[j].kind # "op"
      <4>1. SUFFICES ASSUME stack[j].kind = "op" PROVE FALSE
        OBVIOUS
      <4>2. j # Len(stack) /\ stack[j + 1].kind = "exec"
        BY <2>2, <4>1 DEF LatchInv, OpsInOrder
      <4>3. j + 1 \in Calls /\ j + 1 > i
        BY <2>2, <2>4, <4>2 DEF Calls
      <4> QED BY <2>1, <2>2, <4>3
    <3> QED BY <3>1 DEF LatchInv, OpsInOrder
  <2> HIDE DEF n
  <2>5. OpsInOrder' /\ Taken' = Taken
    BY <2>2, <2>3, <2>4, PrefixTaken
  <2> QED BY <1>0, <2>5, LatchStutter
<1> QED BY <1>1, <1>2, <1>3, <1>4 DEF Dispatch

\* The interrupt path implements the latch, for every set of sources and
\* producers and every nesting depth, whatever guest code does: EMUL_OP_IRQ
\* takes the pending sources all at once, none in service is dropped by a call
\* of guest code that is left early, and none is taken after QuitEmulator.
THEOREM ImplementsLatch == Spec => LatchSafe
<1>1. Init => OpsInOrder /\ Latch!Init
  <2>1. Len(<<>>) = 0
    BY EmptySeq
  <2> QED BY <2>1 DEF Init, OpsInOrder, Latch!Init, Taken
<1>2. TypeInv /\ OpsInOrder /\ QuitRunsNoGuest /\ [Next]_vars => LatchStep
  <2> SUFFICES ASSUME LatchInv, QuitRunsNoGuest, [Next]_vars PROVE LatchStep
    BY DEF LatchInv
  <2>1. CASE UNCHANGED vars
    <3>1. OpsInOrder' /\ Taken' = Taken
      BY <2>1, SameStack DEF vars, LatchInv
    <3> QED BY <2>1, <3>1, LatchStutter DEF vars
  <2> QED BY <2>1, LatchProducers, LatchGuestCode, LatchCCode, LatchDispatch DEF Next
<1> QED BY <1>1, <1>2, TypeCorrect, QuitStopsGuest, PTL
        DEF Spec, LatchSafe, LatchStep, Latch!Safety
=============================================================================
