------------------------------ MODULE IrqLatch ------------------------------
(***************************************************************************)
(* What the interrupt path promises: a source that is raised becomes       *)
(* pending, pending sources are taken all at once, and a pending source is *)
(* taken in the end unless the machine is switched off.  Raising a source  *)
(* that is pending already changes nothing.                                *)
(***************************************************************************)
CONSTANTS Source, Gated   \* Gated: the sources that may be dropped when taken
VARIABLES pending, inService, on
vars == <<pending, inService, on>>

Init == pending = {} /\ inService = {} /\ on = TRUE

Raise(s) ==
  /\ pending' = pending \union {s}
  /\ UNCHANGED <<inService, on>>

\* All pending sources are taken at once.
TakeAll ==
  /\ pending # {} /\ on
  /\ pending' = {}
  /\ \E ignored \in SUBSET (pending \intersect Gated) : inService' = inService \union (pending \ ignored)
  /\ UNCHANGED on

Served(s) ==
  /\ inService' = inService \ {s}
  /\ UNCHANGED <<pending, on>>

SwitchOff == on' = FALSE /\ UNCHANGED <<pending, inService>>

Next == (\E s \in Source : Raise(s) \/ Served(s)) \/ TakeAll \/ SwitchOff

Safety == Init /\ [][Next]_vars

Spec == Safety /\ WF_vars(TakeAll)
=============================================================================
