----------------------------- MODULE MCAdbMouse -----------------------------
(* The input task, with touch and a USB mouse, and the automation task. *)
EXTENDS AdbMouse

Tasks    == {"input", "automation"}
Panel    == {"input"}
MCButton == {0, 2}

Works(input, automation) ==
  [t \in Tasks |-> IF t = "input" THEN input ELSE automation]
For(buttons, points, deltas) ==
  [buttons |-> buttons, points |-> points, deltas |-> deltas]

\* One task clicks and moves, absolutely and relatively; one task clicks and
\* the other moves, either way; both click; both
\* move; one task each with more to do.
MCUses ==
  { Works(For({0}, {<<1, 0>>}, {1}), For({}, {}, {})),
    Works(For({}, {}, {1}), For({0}, {}, {})),
    Works(For({0}, {}, {}), For({0}, {}, {})),
    Works(For({}, {<<0, 1>>, <<1, 0>>}, {}), For({}, {<<1, 1>>}, {})),
    Works(For({}, {<<1, 0>>}, {}), For({0}, {}, {})),
    Works(For({}, {<<0, 1>>, <<1, 0>>}, {1}), For({}, {}, {})),
    Works(For({}, {}, {}), For({0, 2}, {}, {})) }
=============================================================================
