----------------------------- MODULE EventQueue -----------------------------
(***************************************************************************)
(* What an ADB event ring promises to the tasks that put events into it    *)
(* and to the guest that handles them: each event is handled exactly once, *)
(* as it was put in and in that order.                                     *)
(***************************************************************************)
EXTENDS Naturals, Sequences

CONSTANTS
  Item,       \* events: records of a key or button and its direction
  Capacity    \* events under way at a time

VARIABLES
  queue,      \* events put in and not yet handled
  down        \* the keys or buttons the guest was told are down

queuevars == <<queue, down>>

Init == queue = <<>> /\ down = {}

Put(e) ==
  /\ Len(queue) < Capacity
  /\ queue' = Append(queue, e)
  /\ UNCHANGED down

Handle ==
  /\ queue # <<>>
  /\ queue' = Tail(queue)
  /\ LET e == Head(queue) IN
       down' = IF e.down THEN down \union {e.key} ELSE down \ {e.key}

Next == Handle \/ \E e \in Item : Put(e)

Spec == Init /\ [][Next]_queuevars
=============================================================================
