---------------------------- MODULE HostControl ----------------------------
(***************************************************************************)
(* Driving the device from a host over the serial line: the retry loop of  *)
(* tools/mac_control.py, the serial task of automation.cpp with its cache  *)
(* of the last tagged reply, the one-place queues that carry a BOOT        *)
(* command to the main task (boot_gui.cpp), and the restart into the       *)
(* settings screen.                                                        *)
(*                                                                         *)
(* Lines may be lost in both directions; the device may stop and start     *)
(* again at any moment, and what the host wrote before it did is then read *)
(* by the next boot.  Time is not counted: every wait may run out, but the *)
(* three seconds of a queued request run out before the four seconds that  *)
(* the serial task waits for its answer (age).  Of the commands the model  *)
(* keeps one of each kind: "input" acts at once in the serial task; "set", *)
(* "start" and "enter" are BOOT commands, done by the main task.  What a   *)
(* BOOT command does is taken to end within the second that is left of the *)
(* wait when it expires.  A guest in _Sleep parks the main task, for as    *)
(* long as nobody wakes it.                                                *)
(***************************************************************************)
EXTENDS Naturals, Sequences

CONSTANTS Commands,     \* the kinds of commands the host gives
          MaxRequests,  \* how many requests the host makes
          MaxBoots,     \* how often the device starts
          LineRoom,     \* lines in flight in each direction
          Attempts      \* how often the host sends one request

ASSUME CommandsAssumption == Commands \subseteq {"input", "set", "start", "enter"}

ASSUME BoundsAssumption ==
    /\ MaxRequests \in Nat /\ LineRoom \in Nat
    /\ MaxBoots \in Nat \ {0} /\ Attempts \in Nat \ {0}

VARIABLES
  \* the host
  hpc,          \* "new", "hello" (PING sent), "idle" or "wait"
  hsession,     \* session_id of the handshake; 0 before the first
  issued,       \* _request_id: the requests made are 1..issued
  commands,     \* the command of each request
  answer,       \* what request() told its caller of each request
  tries,        \* attempts of the current request
  \* the serial line
  to_dev,       \* lines on the way to the device
  to_host,      \* lines on the way to the host
  \* the serial task
  session,      \* s_session_tag: which boot this is
  spc,          \* where the serial task is
  last,         \* s_last_request_tag and s_last_reply
  \* the queues between the serial task and the main task
  requests,     \* control_requests
  replies,      \* control_replies
  age,          \* of the last request queued: "fresh" until it expires, then
                \* "expired" until nobody waits for its answer: "over"
  pending,      \* boot_control_pending
  \* the main task
  phase,        \* control_phase and control_screen
  mpc,          \* where BootGUI_ControlPoll is, or "asleep" in _Sleep
  doing,        \* the reply of the request it has received
  hold,         \* control_hold
  boot_req,     \* control_boot_requested
  restart,      \* control_restart_at: "none", "set" or "due"
  \* history
  log,          \* the requests that took effect, in that order
  entered       \* an ENTER asked for a restart; until settings or a crash

hostvars == <<hpc, hsession, issued, commands, answer, tries>>
linevars == <<to_dev, to_host>>
serialvars == <<session, spc, last>>
queuevars == <<requests, replies, age>>
mainvars == <<phase, mpc, doing, hold, boot_req, restart>>
vars == <<hostvars, linevars, serialvars, queuevars, pending, mainvars,
          log, entered>>

Requests == 1..MaxRequests
Texts == {"ok", "err"}

\* A line to the device: a REQ envelope, or a PING (req = 0).  A line to the
\* host: a RES with its tag, or a PONG (req = 0) with the session.
Envelope == [req : 0..MaxRequests, session : 0..MaxBoots]
Line == [req : 0..MaxRequests, text : Texts, session : 0..MaxBoots]
Reply == [req : Requests, text : Texts]
NoReply == [req |-> 0, text |-> "none"]

RES(r, text) == [req |-> r, text |-> text, session |-> 0]
PONG == [req |-> 0, text |-> "ok", session |-> session]
Envelope0 == [req |-> 0, session |-> 0]

\* A device that has just started: AutomationStartSerial and BootGUI_Init.
\* The RTC cookie of BootGUI_Restart sets control_hold for one boot.
Start(cookie) ==
    /\ spc' = "read" /\ last' = NoReply
    /\ requests' = <<>> /\ replies' = <<>> /\ age' = "over"
    /\ pending' = FALSE
    /\ phase' = "boot" /\ mpc' = "run" /\ doing' = NoReply
    /\ hold' = cookie /\ boot_req' = FALSE /\ restart' = "none"

Init ==
    /\ hpc = "new" /\ hsession = 0 /\ issued = 0
    /\ commands = <<>> /\ answer = <<>> /\ tries = 0
    /\ to_dev = <<>> /\ to_host = <<>>
    /\ session = 1 /\ spc = "read" /\ last = NoReply
    /\ requests = <<>> /\ replies = <<>> /\ age = "over"
    /\ pending = FALSE
    /\ phase = "boot" /\ mpc = "run" /\ doing = NoReply
    /\ hold = FALSE /\ boot_req = FALSE /\ restart = "none"
    /\ log = <<>> /\ entered = FALSE

-----------------------------------------------------------------------------
(***************************************************************************)
(* The host: MacControl.connect and MacControl.request.                    *)
(***************************************************************************)
Send(line) == Len(to_dev) < LineRoom /\ to_dev' = Append(to_dev, line)

\* connect(): an untagged PING, sent again until a PONG is read.
Connect ==
    /\ hpc \in {"new", "idle", "hello"}
    /\ Send(Envelope0)
    /\ hpc' = "hello"
    /\ UNCHANGED <<hsession, issued, commands, answer, tries, to_host, log,
                   entered, serialvars, queuevars, pending, mainvars>>

\* request(): the envelope holds the next ID and the session of the handshake.
Request ==
    /\ hpc = "idle"
    /\ issued < MaxRequests
    /\ issued' = issued + 1
    /\ \E c \in Commands : commands' = Append(commands, c)
    /\ answer' = Append(answer, "none")
    /\ tries' = 1
    /\ Send([req |-> issued + 1, session |-> hsession])
    /\ hpc' = "wait"
    /\ UNCHANGED <<hsession, to_host, log, entered, serialvars, queuevars,
                   pending, mainvars>>

\* No answer in time: the same envelope again.
Retry ==
    /\ hpc = "wait" /\ tries < Attempts
    /\ Send([req |-> issued, session |-> hsession])
    /\ tries' = tries + 1
    /\ UNCHANGED <<hpc, hsession, issued, commands, answer, to_host, log,
                   entered, serialvars, queuevars, pending, mainvars>>

Told(text) ==
    /\ answer' = [answer EXCEPT ![issued] = text]
    /\ hpc' = "idle" /\ tries' = 0

\* Out of attempts or of time: request() raises, and no line answers it.
GiveUp ==
    /\ hpc = "wait"
    /\ Told("err")
    /\ UNCHANGED <<hsession, issued, commands, linevars, log, entered,
                   serialvars, queuevars, pending, mainvars>>

\* A tagged request takes only a line with its own tag; the handshake takes
\* any PONG.  Every other line is skipped.
HostRead ==
    /\ hpc \in {"hello", "wait"}
    /\ to_host # <<>>
    /\ to_host' = Tail(to_host)
    /\ LET line == Head(to_host) IN
       \/ /\ hpc = "hello" /\ line.req = 0
          /\ hsession' = line.session /\ hpc' = "idle"
          /\ UNCHANGED <<answer, tries>>
       \/ /\ hpc = "wait" /\ line.req = issued
          /\ Told(line.text) /\ UNCHANGED hsession
       \/ /\ line.req # IF hpc = "hello" THEN 0 ELSE issued
          /\ UNCHANGED <<hpc, hsession, answer, tries>>
    /\ UNCHANGED <<issued, commands, to_dev, log, entered, serialvars,
                   queuevars, pending, mainvars>>

\* The USB link or a diagnostic of another task destroys a line.
LoseLine ==
    /\ \/ to_dev # <<>> /\ to_dev' = Tail(to_dev) /\ UNCHANGED to_host
       \/ to_host # <<>> /\ to_host' = Tail(to_host) /\ UNCHANGED to_dev
    /\ UNCHANGED <<hostvars, log, entered, serialvars, queuevars, pending,
                   mainvars>>

-----------------------------------------------------------------------------
(***************************************************************************)
(* The serial task: automationTask, processCommand and protocolReply.      *)
(***************************************************************************)
Answer(line) ==
    /\ Len(to_host) < LineRoom
    /\ to_host' = Append(to_host, line)

\* The reply to the current tagged request, kept for its retries.
Finish(text) ==
    /\ last' = [req |-> last.req, text |-> text]
    /\ spc' = "read"
    /\ Answer(RES(last.req, text))

NextLine == spc = "read" /\ to_dev # <<>> /\ to_dev' = Tail(to_dev)

Ping ==
    /\ NextLine /\ Head(to_dev).req = 0
    /\ Answer(PONG)
    /\ UNCHANGED <<hostvars, log, entered, serialvars, queuevars, pending,
                   mainvars>>

\* A request of another boot is refused, and one that was already done is
\* answered again from the cache.
Repeat ==
    /\ NextLine
    /\ LET line == Head(to_dev) IN
       /\ line.req # 0
       /\ \/ /\ line.session # session
             /\ Answer(RES(line.req, "err"))
          \/ /\ line.session = session /\ line.req = last.req
             /\ Answer(RES(line.req, last.text))
    /\ UNCHANGED <<hostvars, log, entered, serialvars, queuevars, pending,
                   mainvars>>

Fresh(line) == line.req # 0 /\ line.session = session /\ line.req # last.req

\* Done at once, or refused: keys before the emulator is ready, TOUCH after
\* it, POWER never; whether this one acts is left open.
InputCommand ==
    /\ NextLine /\ Fresh(Head(to_dev))
    /\ \E text \in Texts : LET r == Head(to_dev).req IN
         /\ commands[r] = "input"
         /\ last' = [req |-> r, text |-> text]
         /\ Answer(RES(r, text))
         /\ log' = IF text = "ok" THEN Append(log, r) ELSE log
    /\ UNCHANGED <<hostvars, session, spc, entered, queuevars, pending,
                   mainvars>>

BootCommand ==
    /\ NextLine /\ Fresh(Head(to_dev))
    /\ commands[Head(to_dev).req] # "input"
    /\ last' = [req |-> Head(to_dev).req, text |-> "none"]
    /\ spc' = "send"
    /\ UNCHANGED <<hostvars, to_host, log, entered, session, queuevars,
                   pending, mainvars>>

\* BootGUI_ControlRequest: the queue has one place, and a request that finds
\* it taken is not queued.  The request's id is its tag here.
ControlRequest ==
    /\ spc = "send"
    /\ IF requests # <<>>
       THEN Finish("err") /\ UNCHANGED <<requests, age>>
       ELSE /\ requests' = <<last.req>> /\ age' = "fresh"
            /\ spc' = "flag"
            /\ UNCHANGED <<last, to_host>>
    /\ UNCHANGED <<hostvars, to_dev, log, entered, session, replies, pending,
                   mainvars>>

SetPending ==
    /\ spc = "flag"
    /\ pending' = TRUE
    /\ spc' = "wait"
    /\ UNCHANGED <<hostvars, linevars, log, entered, session, last, queuevars,
                   mainvars>>

\* Mutant: whatever reply arrives is taken for the awaited one.
TakeReply_Any ==
    /\ spc = "wait"
    /\ replies # <<>>
    /\ replies' = <<>>
    /\ Finish(Head(replies).text)
    /\ UNCHANGED <<hostvars, to_dev, log, entered, session, requests, age,
                   pending, mainvars>>

\* Replies to earlier requests are dropped.
TakeReply ==
    /\ spc = "wait"
    /\ replies # <<>>
    /\ replies' = <<>>
    /\ IF Head(replies).req = last.req
       THEN Finish(Head(replies).text) /\ age' = "over"
       ELSE UNCHANGED <<spc, last, to_host, age>>
    /\ UNCHANGED <<hostvars, to_dev, log, entered, session, requests,
                   pending, mainvars>>

WaitRunsOut ==
    /\ spc = "wait" /\ age = "over"
    /\ Finish("err")
    /\ UNCHANGED <<hostvars, to_dev, log, entered, session, queuevars,
                   pending, mainvars>>

\* request.expires is three seconds away and the deadline four.
Age ==
    /\ age # "over" /\ (requests # <<>> \/ spc = "wait")
    /\ age' = IF age = "fresh" THEN "expired" ELSE "over"
    /\ UNCHANGED <<hostvars, linevars, log, entered, serialvars, requests,
                   replies, pending, mainvars>>

-----------------------------------------------------------------------------
(***************************************************************************)
(* The main task: BootGUI_ControlPoll, controlExecute and the restart.     *)
(***************************************************************************)
\* Mutant: the flag that also stands for the restart is only lowered.
Poll_Lowers(tick) ==
    /\ mpc = "run"
    /\ \/ phase \in {"boot", "settings", "stopped"}
       \/ phase = "starting" /\ tick
       \/ phase = "emulator" /\ (pending \/ tick)
    /\ pending' = FALSE
    /\ mpc' = "poll"
    /\ UNCHANGED <<hostvars, linevars, log, entered, serialvars, queuevars,
                   phase, doing, hold, boot_req, restart>>

\* Called all the time before the emulator runs and after it has ended, by
\* the CPU loop when boot_control_pending is set (tick: by its maintenance
\* tick, which a stopped guest may put off for long).  InitEmulator does not
\* call it.
Poll(tick) ==
    /\ mpc = "run"
    /\ \/ phase \in {"boot", "settings", "stopped"}
       \/ phase = "starting" /\ tick
       \/ phase = "emulator" /\ (pending \/ tick)
    /\ pending' = (restart # "none")
    /\ mpc' = "poll"
    /\ UNCHANGED <<hostvars, linevars, log, entered, serialvars, queuevars,
                   phase, doing, hold, boot_req, restart>>

NothingQueued ==
    /\ mpc = "poll" /\ requests = <<>>
    /\ mpc' = "check"
    /\ UNCHANGED <<hostvars, linevars, log, entered, serialvars, queuevars,
                   pending, phase, doing, hold, boot_req, restart>>

Receive(text) ==
    /\ mpc = "poll" /\ requests # <<>>
    /\ requests' = <<>>
    /\ doing' = [req |-> Head(requests), text |-> text]
    /\ mpc' = "reply"
    /\ UNCHANGED <<hostvars, linevars, serialvars, replies, age, pending,
                   phase>>

Effect == log' = Append(log, Head(requests))

\* Too old, or refused by controlExecute: no BOOT command before the settings
\* screen is up, SET and START only there and before a transition begins; a
\* START may find bad media or fail to save.
Refuse ==
    /\ Receive("err")
    /\ LET c == commands[Head(requests)] IN
       \/ age # "fresh"
       \/ c = "start"
       \/ c = "set" /\ (phase # "settings" \/ boot_req)
       \/ c = "enter" /\ phase = "starting"
    /\ UNCHANGED <<log, entered, hold, boot_req, restart>>

\* SET and what else only changes selections; START also ends the settings.
\* (A save or a RESCAN of more than a second would end after the ERR.)
ExecuteInSettings ==
    /\ Receive("ok") /\ age = "fresh"
    /\ commands[Head(requests)] \in {"set", "start"}
    /\ phase = "settings" /\ ~boot_req
    /\ Effect
    /\ boot_req' = (commands[Head(requests)] = "start")
    /\ UNCHANGED <<entered, hold, restart>>

\* Mutant: the expiry is not looked at.
ExecuteEnter_Late ==
    /\ Receive("ok")
    /\ commands[Head(requests)] = "enter"
    /\ phase # "starting"
    /\ Effect
    /\ IF phase \in {"boot", "settings"}
       THEN hold' = TRUE /\ UNCHANGED <<restart, entered>>
       ELSE /\ restart' = IF restart = "none" THEN "set" ELSE restart
            /\ entered' = TRUE
            /\ UNCHANGED hold
    /\ UNCHANGED boot_req

\* Before the emulator runs, ENTER keeps the device in settings; later it
\* restarts it 1.2 seconds after the first ENTER.
ExecuteEnter ==
    /\ Receive("ok") /\ age = "fresh"
    /\ commands[Head(requests)] = "enter"
    /\ phase # "starting"
    /\ Effect
    /\ IF phase \in {"boot", "settings"}
       THEN hold' = TRUE /\ UNCHANGED <<restart, entered>>
       ELSE /\ restart' = IF restart = "none" THEN "set" ELSE restart
            /\ entered' = TRUE
            /\ UNCHANGED hold
    /\ UNCHANGED boot_req

\* Mutant: the flag is cleared after the request, not before.
PollReply_Clears ==
    /\ mpc = "reply"
    /\ pending' = (restart # "none")
    /\ replies' = <<doing>>
    /\ doing' = NoReply
    /\ mpc' = "check"
    /\ UNCHANGED <<hostvars, linevars, log, entered, serialvars, requests,
                   age, phase, hold, boot_req, restart>>

\* Mutant: an ENTER does not raise the flag for the restart.
PollReply_NoFlag ==
    /\ mpc = "reply"
    /\ replies' = <<doing>>
    /\ doing' = NoReply
    /\ mpc' = "check"
    /\ UNCHANGED <<hostvars, linevars, log, entered, serialvars, requests,
                   age, pending, phase, hold, boot_req, restart>>

\* Mutant: a reply is added to the one that nobody took.
PollReply_Adds ==
    /\ mpc = "reply"
    /\ pending' = (pending \/ restart # "none")
    /\ replies' = Append(replies, doing)
    /\ doing' = NoReply
    /\ mpc' = "check"
    /\ UNCHANGED <<hostvars, linevars, log, entered, serialvars, requests,
                   age, phase, hold, boot_req, restart>>

\* xQueueOverwrite replaces a reply that nobody took.
PollReply ==
    /\ mpc = "reply"
    /\ pending' = (pending \/ restart # "none")
    /\ replies' = <<doing>>
    /\ doing' = NoReply
    /\ mpc' = "check"
    /\ UNCHANGED <<hostvars, linevars, log, entered, serialvars, requests,
                   age, phase, hold, boot_req, restart>>

\* After the splash and its one poll: the settings screen if it was tapped,
\* after a panic, or if ENTER asked for it; otherwise the emulator starts.
LeaveSplash ==
    /\ mpc = "check" /\ phase = "boot"
    /\ mpc' = "run"
    /\ \/ phase' = "settings"
       \/ ~hold /\ phase' = "starting"
    /\ entered' = (entered /\ (phase' # "settings"))
    /\ UNCHANGED <<hostvars, linevars, log, serialvars, queuevars, pending,
                   doing, hold, boot_req, restart>>

\* Elsewhere a START ends the settings screen, and a restart waits until it
\* is due.
Checked ==
    /\ mpc = "check" /\ phase # "boot" /\ restart # "due"
    /\ mpc' = "run"
    /\ phase' = IF phase = "settings" /\ boot_req THEN "starting" ELSE phase
    /\ UNCHANGED <<hostvars, linevars, log, entered, serialvars, queuevars,
                   pending, doing, hold, boot_req, restart>>

RestartDue ==
    /\ restart = "set"
    /\ restart' = "due"
    /\ UNCHANGED <<hostvars, linevars, log, entered, serialvars, queuevars,
                   pending, phase, mpc, doing, hold, boot_req>>

\* BootGUI_Restart: the cookie in RTC memory survives esp_restart.
Restart ==
    /\ mpc = "check" /\ restart = "due"
    /\ session < MaxBoots
    /\ session' = session + 1
    /\ Start(TRUE)
    /\ UNCHANGED <<hostvars, linevars, log, entered>>

\* Power is lost or the firmware panics: no cookie.
Crash ==
    /\ session < MaxBoots
    /\ session' = session + 1
    /\ Start(FALSE)
    /\ entered' = FALSE
    /\ UNCHANGED <<hostvars, linevars, log>>

\* The Start button; InitEmulator; the guest switches off.  (The last boot of
\* the model stops before the emulator, so that it needs no further one.)
Advance ==
    /\ mpc = "run"
    /\ \/ phase = "settings" /\ phase' = "starting"
       \/ /\ phase = "starting" /\ session < MaxBoots
          /\ phase' \in {"emulator", "stopped"}
       \/ phase = "emulator" /\ phase' = "stopped"
    /\ UNCHANGED <<hostvars, linevars, log, entered, serialvars, queuevars,
                   pending, mpc, doing, hold, boot_req, restart>>

\* _Sleep: the main task waits in display_sleep_until_wake, which does not
\* poll, until input or POWER WAKE ends it.
GuestSleeps ==
    /\ mpc = "run" /\ phase = "emulator"
    /\ mpc' = "asleep"
    /\ UNCHANGED <<hostvars, linevars, log, entered, serialvars, queuevars,
                   pending, phase, doing, hold, boot_req, restart>>

GuestWakes ==
    /\ mpc = "asleep"
    /\ mpc' = "run"
    /\ UNCHANGED <<hostvars, linevars, log, entered, serialvars, queuevars,
                   pending, phase, doing, hold, boot_req, restart>>

-----------------------------------------------------------------------------
Host == Connect \/ Request \/ Retry \/ GiveUp \/ HostRead

Serial == \/ Ping \/ Repeat \/ InputCommand \/ BootCommand
          \/ ControlRequest \/ SetPending \/ TakeReply \/ WaitRunsOut

MainStep == \/ Poll(FALSE) \/ NothingQueued
            \/ Refuse \/ ExecuteInSettings \/ ExecuteEnter
            \/ PollReply \/ LeaveSplash \/ Checked \/ Restart

Next == \/ Host \/ LoseLine \/ Serial \/ Age
        \/ MainStep \/ Poll(TRUE) \/ RestartDue \/ Crash \/ Advance
        \/ GuestSleeps \/ GuestWakes

Spec == Init /\ [][Next]_vars

\* The clock passes 1.2 seconds, and the main task runs.  A guest that sleeps
\* and wakes without end still ends its batches of instructions, and the CPU
\* loop looks at the flag after each: hence strong fairness.  Nothing wakes a
\* guest that sleeps.
LiveSpec == Spec /\ SF_vars(MainStep) /\ WF_vars(RestartDue)

-----------------------------------------------------------------------------
HostTypes ==
    /\ hpc \in {"new", "hello", "idle", "wait"}
    /\ hsession \in 0..MaxBoots
    /\ issued \in 0..MaxRequests
    /\ commands \in Seq(Commands) /\ Len(commands) = issued
    /\ answer \in Seq(Texts \cup {"none"}) /\ Len(answer) = issued
    /\ tries \in 0..Attempts

LineTypes ==
    /\ to_dev \in Seq(Envelope) /\ Len(to_dev) <= LineRoom
    /\ to_host \in Seq(Line) /\ Len(to_host) <= LineRoom

SerialTypes ==
    /\ session \in 1..MaxBoots
    /\ spc \in {"read", "send", "flag", "wait"}
    /\ last \in [req : 0..MaxRequests, text : Texts \cup {"none"}]

QueueTypes ==
    /\ requests \in Seq(Requests) /\ Len(requests) <= 1
    /\ replies \in Seq(Reply) /\ Len(replies) <= 1
    /\ age \in {"fresh", "expired", "over"}
    /\ pending \in BOOLEAN

MainTypes ==
    /\ phase \in {"boot", "settings", "starting", "emulator", "stopped"}
    /\ mpc \in {"run", "poll", "reply", "check", "asleep"}
    /\ doing \in Reply \cup {NoReply}
    /\ hold \in BOOLEAN /\ boot_req \in BOOLEAN
    /\ restart \in {"none", "set", "due"}
    /\ log \in Seq(Requests)
    /\ entered \in BOOLEAN

\* The host, the lines, the tasks and the queues between them have values of
\* their kinds; the queues hold one item, the lines what they have room for.
TypeOK == HostTypes /\ LineTypes /\ SerialTypes /\ QueueTypes /\ MainTypes

\* AUTOMATION.md's promise: requests take effect in order, each at most once,
\* and OK is said only of one that did.
Once == INSTANCE OnceOnly
ActsOnce == Once!Spec

\* "After a timeout, read back": once the host has been told OK, nothing that
\* it asked for earlier may still act; what it reads next stays true until it
\* asks for more.  (No line on the way is one that the device would act on,
\* its serial task is at none, and what is still queued has expired.)
ReadBackIsFinal ==
    (hpc = "idle" /\ issued > 0) =>
      (answer[issued] = "ok" =>
        /\ \A i \in 1..Len(to_dev) : ~Fresh(to_dev[i])
        /\ spc = "read"
        /\ requests # <<>> => age # "fresh")

\* A queued request is never forgotten: the flag that makes the CPU loop poll
\* is up, or the poll that will find the request has begun, or the serial
\* task is about to raise it.
NoForgottenRequest ==
    requests # <<>> => pending \/ mpc = "poll" \/ spc = "flag"

\* An ENTER that asks for a restart is remembered all the way to the settings
\* screen: by the restart and the flag that makes the CPU loop look for it,
\* which every poll stores anew, and then by the cookie that outlives the
\* restart (controlExecute, BootGUI_ControlPoll, BootGUI_Restart).
EnterRemembered ==
    entered =>
      \/ phase \in {"emulator", "stopped"} /\ restart # "none" /\ (pending \/ mpc = "reply")
      \/ phase = "boot" /\ hold

\* boot_control_pending has two uses, the queue and the restart, and is stored
\* from two tasks: neither use loses what the other one raised it for.
NothingForgotten == NoForgottenRequest /\ EnterRemembered

\* An ENTER that asks for a restart is followed by the settings screen,
\* whatever else the host sends and however often the guest stops or sleeps,
\* unless it sleeps for good: display_sleep_until_wake does not poll.  (A crash
\* in between may start the emulator instead.)
EnterReachesSettings ==
    []<>(mpc # "asleep") => (entered ~> ~entered)
=============================================================================
