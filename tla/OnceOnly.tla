------------------------------ MODULE OnceOnly ------------------------------
(***************************************************************************)
(* What the host may rely on when it drives the device over the serial     *)
(* line (AUTOMATION.md, protocol 4): its requests take effect in the order *)
(* in which it made them, each at most once whatever is lost, retried or   *)
(* restarted, and a request answered OK has taken effect.  A request that  *)
(* is answered ERR, or not at all, may have taken effect or not.           *)
(***************************************************************************)
EXTENDS Naturals, Sequences

VARIABLES issued,   \* how many requests the host has made; they are 1..issued
          log,      \* the requests that took effect, in that order
          answer    \* what the host was told of each request

oncevars == <<issued, log, answer>>

Init == issued = 0 /\ log = <<>> /\ answer = <<>>

Issue ==
    /\ issued' = issued + 1
    /\ answer' = Append(answer, "none")
    /\ UNCHANGED log

TakeEffect(r) ==
    /\ \A i \in 1..Len(log) : log[i] < r
    /\ log' = Append(log, r)
    /\ UNCHANGED <<issued, answer>>

\* The host waits for one request at a time, the last that it made.
Tell(text) ==
    /\ issued > 0 /\ answer[issued] = "none"
    /\ text = "ok" => \E i \in 1..Len(log) : log[i] = issued
    /\ answer' = [answer EXCEPT ![issued] = text]
    /\ UNCHANGED <<issued, log>>

Next == \/ Issue
        \/ \E r \in 1..issued : TakeEffect(r)
        \/ \E text \in {"ok", "err"} : Tell(text)

Spec == Init /\ [][Next]_oncevars
=============================================================================
