------------------------- MODULE HostControlProofs -------------------------
(***************************************************************************)
(* Theorems about HostControl: requests act once and in order, OK is said  *)
(* only of what acted and is final, and no queued request is forgotten.    *)
(*                                                                         *)
(* Why, in a sentence for each part of the invariant: the host has one     *)
(* request at a time, so that the lines on the way to the device are in    *)
(* the order of the requests (LineInv); what the device has read and not   *)
(* yet done is younger than all it has done, and what it has done it reads *)
(* again only as the last request, or as a line of an earlier boot         *)
(* (LogInv); a text OK, wherever it is on its way back, is of a request    *)
(* that acted (OkInv), and once the device has said it of the last request *)
(* there is nothing left that may act (FinalInv).  The part about the time *)
(* is in TaskInv: a request in the queue is fresh only while the serial    *)
(* task waits for it.                                                      *)
(***************************************************************************)
EXTENDS HostControl, TLAPS

\* What each task is doing goes with what it has.
TaskInv ==
    /\ hpc = "wait" => issued > 0
    /\ spc # "read" => last.req # 0
    /\ spc = "read" /\ last.req # 0 => last.text \in Texts
    /\ spc \in {"read", "send"} => age = "over"
    /\ mpc = "reply" => doing \in Reply

\* The lines on the way are of this boot or of earlier ones, of requests that
\* were made, and in the order of the requests, none older than the last that
\* was read.
LineInv ==
    /\ hsession <= session /\ last.req <= issued
    /\ \A i \in 1..Len(to_dev) :
         /\ to_dev[i].session <= session /\ to_dev[i].req <= issued
         /\ to_dev[i].req # 0 => last.req <= to_dev[i].req
    /\ \A i, j \in 1..Len(to_dev) :
         i < j /\ to_dev[i].req # 0 /\ to_dev[j].req # 0 =>
           to_dev[i].req <= to_dev[j].req
    /\ \A i \in 1..Len(to_host) :
         to_host[i].session <= session /\ to_host[i].req <= issued

\* Every request that took effect is older than r; or r is one of them.
Below(l, r) == \A k \in 1..Len(l) : l[k] < r
InLog(l, r) == \E k \in 1..Len(l) : l[k] = r

\* What may still act is younger than what has acted.
LogInv ==
    /\ Below(log, issued + 1)
    /\ \A i \in 1..Len(to_dev) : Fresh(to_dev[i]) => Below(log, to_dev[i].req)
    /\ hpc = "wait" /\ hsession = session /\ issued # last.req => Below(log, issued)
    /\ spc = "send" => Below(log, last.req)
    /\ spc \in {"flag", "wait"} /\ requests # <<>> =>
         requests[1] = last.req /\ Below(log, last.req)

\* OK is said of what has acted.
OkInv ==
    /\ last.text = "ok" => InLog(log, last.req)
    /\ doing.text = "ok" => InLog(log, doing.req)
    /\ \A i \in 1..Len(replies) : replies[i].text = "ok" => InLog(log, replies[i].req)
    /\ \A i \in 1..Len(to_host) :
         to_host[i].req # 0 /\ to_host[i].text = "ok" => InLog(log, to_host[i].req)

\* After OK, and while it is on its way to the host that waits for it, there
\* is nothing that may act.
NothingFresh == \A i \in 1..Len(to_dev) : ~Fresh(to_dev[i])

FinalInv ==
    /\ hpc = "wait" => answer[issued] = "none"
    /\ issued > 0 /\ answer[issued] = "ok" => NothingFresh /\ spc = "read"
    /\ \A i \in 1..Len(to_host) :
         issued > 0 /\ to_host[i].req = issued /\ to_host[i].text = "ok" =>
           /\ NothingFresh /\ spc = "read"
           /\ hpc = "wait" => hsession # session \/ last.req = issued

LEMMA Taken ==
  ASSUME NEW S, NEW s \in Seq(S), s # <<>>
  PROVE  /\ Head(s) = s[1] /\ Head(s) \in S /\ 1 \in 1..Len(s)
         /\ Tail(s) \in Seq(S) /\ Len(s) \in Nat /\ Len(Tail(s)) = Len(s) - 1
         /\ \A i \in 1..Len(Tail(s)) : i + 1 \in 1..Len(s) /\ Tail(s)[i] = s[i + 1]
  OBVIOUS

LEMMA Added ==
  ASSUME NEW S, NEW s \in Seq(S), NEW x \in S
  PROVE  /\ Append(s, x) \in Seq(S) /\ Append(s, x) # <<>> /\ Len(s) \in Nat /\ Len(Append(s, x)) = Len(s) + 1
         /\ Append(s, x)[Len(s) + 1] = x
         /\ \A i \in 1..Len(s) : Append(s, x)[i] = s[i]
  OBVIOUS

LEMMA Changed ==
  ASSUME NEW S, NEW s \in Seq(S), NEW i \in 1..Len(s), NEW x \in S
  PROVE  /\ [s EXCEPT ![i] = x] \in Seq(S) /\ Len([s EXCEPT ![i] = x]) = Len(s)
         /\ [s EXCEPT ![i] = x][i] = x
  OBVIOUS

\* The steps of the main task, and what happens to the device.
Main == \/ \E tick \in BOOLEAN : Poll(tick)
        \/ NothingQueued \/ Refuse \/ ExecuteInSettings \/ ExecuteEnter
        \/ PollReply \/ LeaveSplash \/ Checked \/ RestartDue \/ GuestSleeps \/ GuestWakes \/ Advance
Boot == Restart \/ Crash

LEMMA Steps == Next => Host \/ LoseLine \/ Serial \/ Age \/ Main \/ Boot
  BY DEF Next, MainStep, Main, Boot

LEMMA HostFrame == Host => UNCHANGED <<serialvars, queuevars, pending, mainvars, log, entered>>
  BY DEF Host, Connect, Request, Retry, GiveUp, HostRead

LEMMA LoseFrame ==
  LoseLine => UNCHANGED <<hostvars, serialvars, queuevars, pending, mainvars, log, entered>>
  BY DEF LoseLine

LEMMA SerialFrame == Serial => UNCHANGED <<hostvars, session, mainvars, entered>>
  BY DEF Serial, Ping, Repeat, InputCommand, BootCommand, ControlRequest, SetPending,
         TakeReply, WaitRunsOut, serialvars

LEMMA AgeFrame ==
  Age => UNCHANGED <<hostvars, linevars, serialvars, requests, replies, pending, mainvars, log,
                     entered>>
  BY DEF Age

LEMMA MainFrame == Main => UNCHANGED <<hostvars, linevars, serialvars, age>>
  BY DEF Main, Poll, NothingQueued, Receive, Refuse, ExecuteInSettings, ExecuteEnter,
         PollReply, LeaveSplash, Checked, RestartDue, GuestSleeps, GuestWakes, Advance, queuevars

LEMMA BootFrame ==
  Boot => /\ UNCHANGED <<hostvars, linevars, log>>
          /\ session < MaxBoots /\ session' = session + 1
          /\ spc' = "read" /\ last' = NoReply /\ age' = "over"
          /\ requests' = <<>> /\ replies' = <<>>
          /\ mpc' = "run" /\ doing' = NoReply
  BY DEF Boot, Restart, Crash, Start

LEMMA HostTypeStep == TypeOK /\ TaskInv /\ [Next]_vars => HostTypes'
<1> SUFFICES ASSUME HostTypes, LineTypes, hpc = "wait" => issued > 0, [Next]_vars
             PROVE  HostTypes'
  BY DEF TypeOK, TaskInv
<1> USE BoundsAssumption
<1>1. CASE Connect
  BY <1>1 DEF Connect, HostTypes
<1>2. CASE Request
  <2>1. issued' \in 0..MaxRequests /\ issued' = issued + 1 /\ tries' \in 0..Attempts
    BY <1>2 DEF Request, HostTypes
  <2>2. commands' \in Seq(Commands) /\ Len(commands') = issued'
    BY <1>2, <2>1, Added DEF Request, HostTypes
  <2>3. answer' \in Seq(Texts \cup {"none"}) /\ Len(answer') = issued'
    BY <1>2, <2>1, Added DEF Request, HostTypes
  <2> QED BY <1>2, <2>1, <2>2, <2>3 DEF Request, HostTypes
<1>3. CASE Retry
  BY <1>3 DEF Retry, HostTypes
<1>4. ASSUME NEW text \in Texts, hpc = "wait", Told(text),
             UNCHANGED <<hsession, issued, commands>>
      PROVE  HostTypes'
  <2>0. issued \in 1..Len(answer)
    BY <1>4 DEF HostTypes
  <2>1. answer' \in Seq(Texts \cup {"none"}) /\ Len(answer') = Len(answer)
    BY <1>4, <2>0, Changed DEF Told, HostTypes
  <2> QED BY <1>4, <2>1 DEF Told, HostTypes
<1>5. CASE GiveUp
  BY <1>4, <1>5 DEF GiveUp, Texts
<1>6. CASE HostRead
  <2>1. Head(to_host) \in Line
    BY <1>6, Taken DEF HostRead, LineTypes
  <2>2. Head(to_host).session \in 0..MaxBoots /\ Head(to_host).text \in Texts
    BY <2>1 DEF Line
  <2>3. UNCHANGED <<issued, commands>>
    BY <1>6 DEF HostRead
  <2>4. CASE hpc = "wait" /\ Told(Head(to_host).text) /\ UNCHANGED hsession
    BY <1>4, <2>2, <2>3, <2>4
  <2>5. CASE hsession' = Head(to_host).session /\ hpc' = "idle" /\ UNCHANGED <<answer, tries>>
    BY <2>2, <2>3, <2>5 DEF HostTypes
  <2>6. CASE UNCHANGED <<hpc, hsession, answer, tries>>
    BY <2>3, <2>6 DEF HostTypes
  <2> QED BY <1>6, <2>4, <2>5, <2>6 DEF HostRead
<1>7. CASE LoseLine \/ Serial \/ Age \/ Main \/ Boot \/ UNCHANGED vars
  <2>1. UNCHANGED hostvars
    BY <1>7, LoseFrame, SerialFrame, AgeFrame, MainFrame, BootFrame DEF vars
  <2> QED BY <2>1 DEF hostvars, HostTypes
<1> QED BY <1>1, <1>2, <1>3, <1>5, <1>6, <1>7, Steps DEF Host

\* A line is read, or written.
LEMMA LineTypeStep == TypeOK /\ TaskInv /\ [Next]_vars => LineTypes'
<1> SUFFICES ASSUME TypeOK, TaskInv, [Next]_vars PROVE LineTypes'
  OBVIOUS
<1> USE BoundsAssumption
<1>1. ASSUME NEW line \in Envelope, Send(line), UNCHANGED to_host
      PROVE  LineTypes'
  BY <1>1, Added DEF Send, TypeOK, LineTypes
<1>2. ASSUME to_dev # <<>>, to_dev' = Tail(to_dev), UNCHANGED to_host
      PROVE  LineTypes'
  BY <1>2, Taken DEF TypeOK, LineTypes
<1>3. ASSUME to_host # <<>>, to_host' = Tail(to_host), UNCHANGED to_dev
      PROVE  LineTypes'
  BY <1>3, Taken DEF TypeOK, LineTypes
<1>4. ASSUME NEW line \in Line, Answer(line), UNCHANGED to_dev
      PROVE  LineTypes'
  BY <1>4, Added DEF Answer, TypeOK, LineTypes
<1>5. ASSUME NEW line \in Line, Answer(line), NextLine
      PROVE  LineTypes'
  BY <1>5, Added, Taken DEF Answer, NextLine, TypeOK, LineTypes
<1>6. ASSUME NEW r \in 0..MaxRequests, NEW text \in Texts
      PROVE  RES(r, text) \in Line
  BY DEF RES, Line
<1>7. NextLine => Head(to_dev) \in Envelope
  BY Taken DEF NextLine, TypeOK, LineTypes
<1>8. CASE Connect
  BY <1>1, <1>8 DEF Connect, Envelope0, Envelope
<1>9. CASE Request
  <2>1. [req |-> issued + 1, session |-> hsession] \in Envelope
    BY <1>9 DEF Request, Envelope, TypeOK, HostTypes
  <2> QED BY <1>1, <1>9, <2>1 DEF Request
<1>10. CASE Retry
  <2>1. [req |-> issued, session |-> hsession] \in Envelope
    BY DEF Envelope, TypeOK, HostTypes
  <2> QED BY <1>1, <1>10, <2>1 DEF Retry
<1>11. CASE GiveUp
  BY <1>11 DEF GiveUp, TypeOK, LineTypes, linevars
<1>12. CASE HostRead
  BY <1>3, <1>12 DEF HostRead
<1>13. CASE LoseLine
  BY <1>2, <1>3, <1>13 DEF LoseLine
<1>14. CASE Ping
  <2>1. PONG \in Line
    BY DEF PONG, Line, Texts, TypeOK, SerialTypes
  <2> QED BY <1>5, <1>14, <2>1 DEF Ping
<1>15. CASE Repeat
  <2>1. Head(to_dev).req \in 0..MaxRequests
    BY <1>7, <1>15 DEF Repeat, Envelope
  <2>2. Head(to_dev).req = last.req => last.text \in Texts
    BY <1>15 DEF Repeat, NextLine, TaskInv
  <2> QED BY <1>5, <1>6, <1>15, <2>1, <2>2 DEF Repeat, Texts
<1>16. CASE InputCommand
  <2>1. Head(to_dev).req \in 0..MaxRequests
    BY <1>7, <1>16 DEF InputCommand, Envelope
  <2> QED BY <1>5, <1>6, <1>16, <2>1 DEF InputCommand, Texts
<1>17. CASE BootCommand
  BY <1>2, <1>17 DEF BootCommand, NextLine
<1>18. ASSUME NEW text \in Texts, Finish(text), UNCHANGED to_dev
       PROVE  LineTypes'
  <2>1. last.req \in 0..MaxRequests
    BY DEF TypeOK, SerialTypes
  <2> QED BY <1>4, <1>6, <1>18, <2>1 DEF Finish
<1>19. UNCHANGED linevars => LineTypes'
  BY DEF linevars, TypeOK, LineTypes
<1>20. CASE ControlRequest
  BY <1>18, <1>19, <1>20 DEF ControlRequest, Texts, linevars
<1>21. CASE SetPending
  BY <1>19, <1>21 DEF SetPending
<1>22. CASE TakeReply
  <2>1. Head(replies) \in Reply
    BY <1>22, Taken DEF TakeReply, TypeOK, QueueTypes
  <2>2. Head(replies).text \in Texts
    BY <2>1 DEF Reply
  <2> QED BY <1>18, <1>19, <1>22, <2>2 DEF TakeReply, linevars
<1>23. CASE WaitRunsOut
  BY <1>18, <1>23 DEF WaitRunsOut, Texts
<1>24. CASE Age \/ Main \/ Boot \/ UNCHANGED vars
  BY <1>19, <1>24, AgeFrame, MainFrame, BootFrame DEF vars
<1> QED
  BY <1>8, <1>9, <1>10, <1>11, <1>12, <1>13, <1>14, <1>15, <1>16, <1>17, <1>20, <1>21, <1>22,
     <1>23, <1>24, Steps DEF Host, Serial

LEMMA SerialTypeStep == TypeOK /\ [Next]_vars => SerialTypes'
<1> SUFFICES ASSUME TypeOK, [Next]_vars PROVE SerialTypes'
  OBVIOUS
<1> USE DEF TypeOK, SerialTypes
<1>1. NextLine => Head(to_dev).req \in 0..MaxRequests
  <2>1. NextLine => Head(to_dev) \in Envelope
    BY Taken DEF NextLine, LineTypes
  <2> QED BY <2>1 DEF Envelope
<1>2. ASSUME NEW text \in Texts, Finish(text), UNCHANGED session
      PROVE  SerialTypes'
  BY <1>2 DEF Finish
<1>3. CASE UNCHANGED serialvars
  BY <1>3 DEF serialvars
<1>4. CASE Ping \/ Repeat
  BY <1>3, <1>4 DEF Ping, Repeat
<1>5. CASE InputCommand
  BY <1>1, <1>5 DEF InputCommand, Texts
<1>6. CASE BootCommand
  BY <1>1, <1>6 DEF BootCommand
<1>7. CASE ControlRequest
  BY <1>2, <1>7 DEF ControlRequest, Texts
<1>8. CASE SetPending
  BY <1>8 DEF SetPending
<1>9. CASE TakeReply
  <2>0. Head(replies) \in Reply
    BY <1>9, Taken DEF TakeReply, QueueTypes
  <2>1. Head(replies).text \in Texts
    BY <2>0 DEF Reply
  <2> QED BY <1>2, <1>9, <2>1 DEF TakeReply
<1>10. CASE WaitRunsOut
  BY <1>2, <1>10 DEF WaitRunsOut, Texts
<1>11. CASE Boot
  BY <1>11, BootFrame, BoundsAssumption DEF NoReply
<1>12. CASE Host \/ LoseLine \/ Age \/ Main \/ UNCHANGED vars
  BY <1>3, <1>12, HostFrame, LoseFrame, AgeFrame, MainFrame DEF vars
<1> QED
  BY <1>4, <1>5, <1>6, <1>7, <1>8, <1>9, <1>10, <1>11, <1>12, Steps DEF Serial

LEMMA QueueTypeStep == TypeOK /\ TaskInv /\ [Next]_vars => QueueTypes'
<1> SUFFICES ASSUME TypeOK, TaskInv, [Next]_vars PROVE QueueTypes'
  OBVIOUS
<1> USE DEF TypeOK, QueueTypes
<1>1. CASE UNCHANGED <<queuevars, pending>>
  BY <1>1 DEF queuevars
<1>2. CASE Ping \/ Repeat \/ InputCommand \/ BootCommand \/ WaitRunsOut
  BY <1>1, <1>2 DEF Ping, Repeat, InputCommand, BootCommand, WaitRunsOut
<1>3. CASE ControlRequest
  <2>1. last.req \in Requests
    BY <1>3 DEF ControlRequest, TaskInv, SerialTypes, Requests
  <2> QED BY <1>3, <2>1 DEF ControlRequest
<1>4. CASE SetPending
  BY <1>4 DEF SetPending, queuevars
<1>5. CASE TakeReply
  BY <1>5 DEF TakeReply
<1>6. CASE Age
  BY <1>6 DEF Age
<1>7. CASE \E tick \in BOOLEAN : Poll(tick)
  BY <1>7 DEF Poll, queuevars
<1>8. CASE Refuse \/ ExecuteInSettings \/ ExecuteEnter
  <2>1. requests' = <<>> /\ UNCHANGED <<replies, age, pending>>
    BY <1>8 DEF Refuse, ExecuteInSettings, ExecuteEnter, Receive
  <2> QED BY <2>1
<1>9. CASE PollReply
  BY <1>9 DEF PollReply, TaskInv
<1>10. CASE NothingQueued \/ LeaveSplash \/ Checked \/ RestartDue \/ GuestSleeps \/ GuestWakes \/ Advance
  BY <1>1, <1>10 DEF NothingQueued, LeaveSplash, Checked, RestartDue, GuestSleeps, GuestWakes, Advance
<1>11. CASE Boot
  <2>1. requests' = <<>> /\ replies' = <<>> /\ age' = "over" /\ pending' = FALSE
    BY <1>11 DEF Boot, Restart, Crash, Start
  <2>2. requests' \in Seq(Requests) /\ Len(requests') <= 1
    BY <2>1
  <2>3. replies' \in Seq(Reply) /\ Len(replies') <= 1
    BY <2>1
  <2> QED BY <2>1, <2>2, <2>3
<1>12. CASE Host \/ LoseLine \/ UNCHANGED vars
  BY <1>1, <1>12, HostFrame, LoseFrame DEF vars
<1> QED
  BY <1>2, <1>3, <1>4, <1>5, <1>6, <1>7, <1>8, <1>9, <1>10, <1>11, <1>12, Steps
  DEF Serial, Main

LEMMA MainTypeStep == TypeOK /\ [Next]_vars => MainTypes'
<1> SUFFICES ASSUME TypeOK, [Next]_vars PROVE MainTypes'
  OBVIOUS
<1> USE DEF TypeOK, MainTypes
<1>1. CASE UNCHANGED <<mainvars, log, entered>>
  BY <1>1 DEF mainvars
<1>2. CASE Ping \/ Repeat \/ BootCommand \/ ControlRequest \/ SetPending \/ TakeReply \/ WaitRunsOut
  BY <1>1, <1>2 DEF Ping, Repeat, BootCommand, ControlRequest, SetPending, TakeReply, WaitRunsOut
<1>3. CASE InputCommand
  <2>0. Head(to_dev) \in Envelope /\ Head(to_dev).req # 0
    BY <1>3, Taken DEF InputCommand, NextLine, Fresh, LineTypes
  <2>1. Head(to_dev).req \in Requests
    BY <2>0 DEF Envelope, Requests
  <2>2. log' \in Seq(Requests)
    BY <1>3, <2>1, Added DEF InputCommand
  <2> QED BY <1>3, <2>2 DEF InputCommand, mainvars
<1>4. ASSUME NEW text \in Texts, Receive(text)
      PROVE  /\ doing' \in Reply /\ mpc' = "reply" /\ phase' = phase
             /\ Head(requests) \in Requests
  BY <1>4, Taken DEF Receive, QueueTypes, Reply
<1>5. CASE Refuse
  BY <1>4, <1>5 DEF Refuse, Texts
<1>6. CASE ExecuteInSettings
  <2>1. log' \in Seq(Requests)
    BY <1>4, <1>6, Added DEF ExecuteInSettings, Texts, Effect
  <2> QED BY <1>4, <1>6, <2>1 DEF ExecuteInSettings, Texts
<1>7. CASE ExecuteEnter
  <2>1. log' \in Seq(Requests)
    BY <1>4, <1>7, Added DEF ExecuteEnter, Texts, Effect
  <2> QED BY <1>4, <1>7, <2>1 DEF ExecuteEnter, Texts
<1>8. CASE \E tick \in BOOLEAN : Poll(tick)
  BY <1>8 DEF Poll
<1>9. CASE NothingQueued
  BY <1>9 DEF NothingQueued
<1>10. CASE PollReply
  BY <1>10 DEF PollReply
<1>11. CASE LeaveSplash
  BY <1>11 DEF LeaveSplash
<1>12. CASE Checked
  BY <1>12 DEF Checked
<1>13. CASE RestartDue
  BY <1>13 DEF RestartDue
<1>14. CASE Advance \/ GuestSleeps \/ GuestWakes
  BY <1>14 DEF Advance, GuestSleeps, GuestWakes
<1>15. CASE Boot
  BY <1>15 DEF Boot, Restart, Crash, Start
<1>16. CASE Host \/ LoseLine \/ Age \/ UNCHANGED vars
  BY <1>1, <1>16, HostFrame, LoseFrame, AgeFrame DEF vars
<1> QED
  BY <1>2, <1>3, <1>5, <1>6, <1>7, <1>8, <1>9, <1>10, <1>11, <1>12, <1>13, <1>14, <1>15, <1>16,
     Steps DEF Serial, Main

LEMMA TaskStep == TypeOK /\ TaskInv /\ [Next]_vars => TaskInv'
<1> SUFFICES ASSUME TypeOK, TaskInv, [Next]_vars PROVE TaskInv'
  OBVIOUS
<1> USE DEF TaskInv
<1>0. hpc' = "wait" => issued' > 0
  BY HostFrame, LoseFrame, SerialFrame, AgeFrame, MainFrame, BootFrame, Steps
  DEF hostvars, vars, Host, Connect, Request, Retry, GiveUp, Told, HostRead, TypeOK, HostTypes
<1>1. CASE UNCHANGED <<serialvars, age, mainvars>>
  BY <1>0, <1>1 DEF serialvars, mainvars
<1>2. CASE Ping \/ Repeat
  BY <1>0, <1>1, <1>2 DEF Ping, Repeat, queuevars
<1>3. CASE InputCommand
  BY <1>0, <1>3 DEF InputCommand, NextLine, Texts, queuevars, mainvars
<1>4. CASE BootCommand
  BY <1>0, <1>4 DEF BootCommand, NextLine, Fresh, queuevars, mainvars
<1>5. ASSUME NEW text \in Texts, Finish(text), UNCHANGED mainvars, age' = "over"
      PROVE  TaskInv'
  BY <1>0, <1>5 DEF Finish, mainvars
<1>6. CASE ControlRequest
  BY <1>0, <1>5, <1>6 DEF ControlRequest, Texts, mainvars
<1>7. CASE SetPending
  BY <1>0, <1>7 DEF SetPending, queuevars, mainvars
<1>8. CASE TakeReply
  <2>0. Head(replies) \in Reply
    BY <1>0, <1>8, Taken DEF TakeReply, TypeOK, QueueTypes
  <2>1. Head(replies).text \in Texts
    BY <2>0 DEF Reply
  <2> QED BY <1>0, <1>5, <1>8, <2>1 DEF TakeReply, mainvars
<1>9. CASE WaitRunsOut
  BY <1>0, <1>5, <1>9 DEF WaitRunsOut, Texts, queuevars
<1>10. CASE Age
  BY <1>0, <1>10 DEF Age, serialvars, mainvars
<1>11. CASE Refuse \/ ExecuteInSettings \/ ExecuteEnter
  <2>1. PICK text \in Texts : Receive(text)
    BY <1>0, <1>11 DEF Refuse, ExecuteInSettings, ExecuteEnter, Texts
  <2>2. doing' \in Reply
    BY <2>1, Taken DEF Receive, TypeOK, QueueTypes, Reply
  <2> QED BY <1>0, <2>1, <2>2 DEF Receive, serialvars
<1>12. CASE PollReply \/ NothingQueued \/ (\E tick \in BOOLEAN : Poll(tick))
            \/ LeaveSplash \/ Checked \/ RestartDue \/ GuestSleeps \/ GuestWakes \/ Advance
  <2>1. mpc' # "reply" \/ UNCHANGED <<mpc, doing>>
    BY <1>0, <1>12 DEF PollReply, NothingQueued, Poll, LeaveSplash, Checked, RestartDue, GuestSleeps, GuestWakes, Advance
  <2>2. UNCHANGED <<serialvars, age>>
    BY <1>0, <1>12, MainFrame DEF Main
  <2> QED BY <1>0, <2>1, <2>2 DEF serialvars
<1>13. CASE Boot
  BY <1>0, <1>13, BootFrame DEF NoReply
<1>14. CASE Host \/ LoseLine \/ UNCHANGED vars
  BY <1>0, <1>1, <1>14, HostFrame, LoseFrame DEF vars, queuevars
<1> QED
  BY <1>0, <1>2, <1>3, <1>4, <1>6, <1>7, <1>8, <1>9, <1>10, <1>11, <1>12, <1>13, <1>14, Steps
  DEF Serial, Main

\* Numbers, for the provers.
LEMMA Numbers ==
  TypeOK => /\ issued \in Nat /\ session \in Nat /\ hsession \in Nat /\ last.req \in Nat
            /\ \A i \in 1..Len(to_dev) : to_dev[i] \in Envelope /\ to_dev[i].req \in Nat
                                         /\ to_dev[i].session \in Nat
            /\ \A i \in 1..Len(to_host) : to_host[i] \in Line /\ to_host[i].req \in Nat
                                          /\ to_host[i].session \in Nat
            /\ to_dev \in Seq(Envelope) /\ to_host \in Seq(Line)
<1> SUFFICES ASSUME TypeOK
             PROVE  /\ issued \in Nat /\ session \in Nat /\ hsession \in Nat /\ last.req \in Nat
                    /\ \A i \in 1..Len(to_dev) : to_dev[i] \in Envelope /\ to_dev[i].req \in Nat
                                                 /\ to_dev[i].session \in Nat
                    /\ \A i \in 1..Len(to_host) : to_host[i] \in Line /\ to_host[i].req \in Nat
                                                  /\ to_host[i].session \in Nat
                    /\ to_dev \in Seq(Envelope) /\ to_host \in Seq(Line)
  OBVIOUS
<1>1. issued \in Nat /\ hsession \in Nat
  BY BoundsAssumption DEF TypeOK, HostTypes
<1>2. session \in Nat /\ last.req \in Nat
  BY BoundsAssumption DEF TypeOK, SerialTypes
<1>3. to_dev \in Seq(Envelope) /\ to_host \in Seq(Line)
  BY DEF TypeOK, LineTypes
<1>4. ASSUME NEW e \in Envelope PROVE e.req \in Nat /\ e.session \in Nat
  BY DEF Envelope
<1>5. ASSUME NEW e \in Line PROVE e.req \in Nat /\ e.session \in Nat
  BY DEF Line
<1>6. \A i \in 1..Len(to_dev) : to_dev[i] \in Envelope
  BY <1>3
<1>7. \A i \in 1..Len(to_host) : to_host[i] \in Line
  BY <1>3
<1>8. \A i \in 1..Len(to_dev) : to_dev[i] \in Envelope /\ to_dev[i].req \in Nat
                                 /\ to_dev[i].session \in Nat
  BY <1>4, <1>6
<1>9. \A i \in 1..Len(to_host) : to_host[i] \in Line /\ to_host[i].req \in Nat
                                  /\ to_host[i].session \in Nat
  BY <1>5, <1>7
<1> QED BY <1>1, <1>2, <1>3, <1>8, <1>9

LEMMA LineStep == TypeOK /\ TaskInv /\ LineInv /\ [Next]_vars => LineInv'
<1> SUFFICES ASSUME TypeOK, TaskInv, LineInv, [Next]_vars PROVE LineInv'
  OBVIOUS
<1>0. /\ issued \in Nat /\ session \in Nat /\ hsession \in Nat /\ last.req \in Nat
      /\ \A i \in 1..Len(to_dev) : to_dev[i].req \in Nat /\ to_dev[i].session \in Nat
      /\ \A i \in 1..Len(to_host) : to_host[i].req \in Nat /\ to_host[i].session \in Nat
      /\ to_dev \in Seq(Envelope) /\ to_host \in Seq(Line)
  BY Numbers
<1> DEFINE
     ToDev(lines, s, l, n) ==
       /\ \A i \in 1..Len(lines) :
            /\ lines[i].session <= s /\ lines[i].req <= n
            /\ lines[i].req # 0 => l <= lines[i].req
       /\ \A i, j \in 1..Len(lines) :
            i < j /\ lines[i].req # 0 /\ lines[j].req # 0 => lines[i].req <= lines[j].req
     ToHost(lines, s, n) ==
       \A i \in 1..Len(lines) : lines[i].session <= s /\ lines[i].req <= n
<1>1. LineInv <=> /\ hsession <= session /\ last.req <= issued
                  /\ ToDev(to_dev, session, last.req, issued) /\ ToHost(to_host, session, issued)
  BY DEF LineInv
<1>2. LineInv' <=> /\ hsession' <= session' /\ last'.req <= issued'
                   /\ ToDev(to_dev', session', last'.req, issued')
                   /\ ToHost(to_host', session', issued')
  BY DEF LineInv
<1>3. ASSUME NEW line \in Envelope, line.session <= session, line.req \in {0, issued'},
             issued' \in {issued, issued + 1}, Send(line)
      PROVE  ToDev(to_dev', session, last.req, issued')
  <2>1. \A i \in 1..Len(to_dev) : to_dev'[i] = to_dev[i]
    BY <1>3, <1>0, Added DEF Send
  <2>2. Len(to_dev') = Len(to_dev) + 1 /\ to_dev'[Len(to_dev) + 1] = line /\ Len(to_dev) \in Nat
    BY <1>3, <1>0, Added DEF Send
  <2>3. \A i \in 1..Len(to_dev') : i \in 1..Len(to_dev) \/ i = Len(to_dev) + 1
    BY <2>2
  <2>4. line.req # 0 => last.req <= line.req /\ \A i \in 1..Len(to_dev) : to_dev[i].req <= line.req
    BY <1>0, <1>1, <1>3
  <2>5. ASSUME NEW i \in 1..Len(to_dev')
        PROVE  /\ to_dev'[i].session <= session /\ to_dev'[i].req <= issued'
               /\ to_dev'[i].req # 0 => last.req <= to_dev'[i].req
    BY <1>0, <1>1, <1>3, <2>1, <2>2, <2>3, <2>4
  <2>6. ASSUME NEW i \in 1..Len(to_dev'), NEW j \in 1..Len(to_dev'),
               i < j, to_dev'[i].req # 0, to_dev'[j].req # 0
        PROVE  to_dev'[i].req <= to_dev'[j].req
    <3>1. i \in 1..Len(to_dev)
      BY <2>2, <2>6
    <3> QED BY <1>1, <2>1, <2>2, <2>3, <2>4, <2>6, <3>1
  <2> QED BY <2>5, <2>6
<1>4. ASSUME to_dev # <<>>, to_dev' = Tail(to_dev)
      PROVE  /\ ToDev(to_dev', session, last.req, issued)
             /\ Head(to_dev).req # 0 => ToDev(to_dev', session, Head(to_dev).req, issued)
             /\ Head(to_dev).req <= issued /\ Head(to_dev).req \in Nat
  <2>1. Head(to_dev) = to_dev[1] /\ 1 \in 1..Len(to_dev)
    BY <1>0, <1>4, Taken
  <2>2. \A i \in 1..Len(to_dev') : i + 1 \in 1..Len(to_dev) /\ to_dev'[i] = to_dev[i + 1]
    BY <1>0, <1>4, Taken
  <2>a. ASSUME NEW i \in 1..Len(to_dev')
        PROVE  /\ to_dev'[i].session <= session /\ to_dev'[i].req <= issued
               /\ to_dev'[i].req # 0 => last.req <= to_dev'[i].req
    BY <1>1, <2>2
  <2>b. ASSUME NEW i \in 1..Len(to_dev'), NEW j \in 1..Len(to_dev'),
               i < j, to_dev'[i].req # 0, to_dev'[j].req # 0
        PROVE  to_dev'[i].req <= to_dev'[j].req
    <3>1. i + 1 < j + 1
      BY <2>b
    <3> QED BY <1>1, <2>2, <2>b, <3>1
  <2>3. ToDev(to_dev', session, last.req, issued)
    BY <2>a, <2>b
  <2>4. ASSUME Head(to_dev).req # 0, NEW i \in 1..Len(to_dev'), to_dev'[i].req # 0
        PROVE  Head(to_dev).req <= to_dev'[i].req
    <3>1. 1 < i + 1
      OBVIOUS
    <3> QED BY <1>1, <2>1, <2>2, <2>4, <3>1
  <2> QED BY <1>0, <1>1, <2>1, <2>3, <2>4
<1>5. ASSUME NEW line \in Line, line.session <= session, line.req <= issued, Answer(line)
      PROVE  ToHost(to_host', session, issued)
  <2>1. \A i \in 1..Len(to_host) : to_host'[i] = to_host[i]
    BY <1>5, <1>0, Added DEF Answer
  <2>2. /\ Len(to_host') = Len(to_host) + 1 /\ to_host'[Len(to_host) + 1] = line
        /\ Len(to_host) \in Nat
    BY <1>5, <1>0, Added DEF Answer
  <2>3. \A i \in 1..Len(to_host') : i \in 1..Len(to_host) \/ i = Len(to_host) + 1
    BY <2>2
  <2> QED BY <1>1, <1>5, <2>1, <2>2, <2>3
<1>6. ASSUME to_host # <<>>, to_host' = Tail(to_host)
      PROVE  /\ ToHost(to_host', session, issued)
             /\ Head(to_host).session <= session
  <2>1. Head(to_host) = to_host[1] /\ 1 \in 1..Len(to_host)
    BY <1>0, <1>6, Taken
  <2>2. \A i \in 1..Len(to_host') : i + 1 \in 1..Len(to_host) /\ to_host'[i] = to_host[i + 1]
    BY <1>0, <1>6, Taken
  <2> QED BY <1>1, <2>1, <2>2
<1>7. CASE Connect
  <2>1. Envelope0 \in Envelope /\ Envelope0.session <= session /\ Envelope0.req = 0
    BY <1>0, BoundsAssumption DEF Envelope0, Envelope
  <2>2. Send(Envelope0) /\ UNCHANGED <<hsession, issued, session, last, to_host>>
    BY <1>7, HostFrame DEF Connect, Host, serialvars
  <2> QED BY <1>1, <1>2, <1>3, <2>1, <2>2
<1>8. CASE Request
  <2> DEFINE line == [req |-> issued + 1, session |-> hsession]
  <2>1. /\ Send(line) /\ UNCHANGED <<hsession, session, last, to_host>> /\ issued' = issued + 1
        /\ issued < MaxRequests
    BY <1>8, HostFrame DEF Request, Host, serialvars
  <2>2. line \in Envelope /\ line.session <= session /\ line.req = issued'
    <3>1. issued + 1 \in 0..MaxRequests /\ hsession \in 0..MaxBoots
      BY <1>0, <2>1, BoundsAssumption DEF TypeOK, HostTypes
    <3> QED BY <1>1, <2>1, <3>1 DEF Envelope
  <2>3. ToHost(to_host, session, issued')
    BY <1>0, <1>1, <2>1
  <2> HIDE DEF line
  <2> QED BY <1>0, <1>1, <1>2, <1>3, <2>1, <2>2, <2>3
<1>9. CASE Retry
  <2> DEFINE line == [req |-> issued, session |-> hsession]
  <2>1. Send(line) /\ UNCHANGED <<hsession, session, last, to_host, issued>>
    BY <1>9, HostFrame DEF Retry, Host, serialvars
  <2>2. line \in Envelope /\ line.session <= session /\ line.req = issued'
    BY <1>1, <2>1 DEF Envelope, TypeOK, HostTypes
  <2> HIDE DEF line
  <2> QED BY <1>0, <1>1, <1>2, <1>3, <2>1, <2>2
<1>10. CASE GiveUp
  BY <1>1, <1>2, <1>10, HostFrame DEF GiveUp, Host, serialvars, linevars
<1>11. CASE HostRead
  <2>1. UNCHANGED <<issued, session, last, to_dev>>
    BY <1>11, HostFrame DEF HostRead, Host, serialvars
  <2>2. hsession' = hsession \/ hsession' = Head(to_host).session
    BY <1>11 DEF HostRead
  <2>3. to_host # <<>> /\ to_host' = Tail(to_host)
    BY <1>11 DEF HostRead
  <2> QED BY <1>1, <1>2, <1>6, <2>1, <2>2, <2>3
<1>12. CASE LoseLine
  <2>1. UNCHANGED <<hsession, issued, session, last>>
    BY <1>12, LoseFrame DEF hostvars, serialvars
  <2> QED BY <1>1, <1>2, <1>4, <1>6, <1>12, <2>1 DEF LoseLine
<1>13. CASE Serial
  <2>1. UNCHANGED <<hsession, issued, session>>
    BY <1>13, SerialFrame DEF hostvars
  <2>2. ASSUME NEW r \in 0..MaxRequests, NEW text \in Texts, r <= issued, Answer(RES(r, text))
        PROVE  ToHost(to_host', session, issued)
    <3>1. /\ RES(r, text) \in Line /\ RES(r, text).session <= session
          /\ RES(r, text).req = r
      BY <1>0, BoundsAssumption DEF RES, Line
    <3> HIDE DEF ToHost
    <3> QED BY <1>5, <2>2, <3>1
  <2>3. last.req \in 0..MaxRequests /\ last.req <= issued
    BY <1>1 DEF TypeOK, SerialTypes
  <2>4. NextLine => Head(to_dev).req \in 0..MaxRequests
    <3>1. NextLine => Head(to_dev) \in Envelope
      BY <1>0, Taken DEF NextLine
    <3> QED BY <3>1 DEF Envelope
  <2>5. CASE Ping
    <3>1. PONG \in Line /\ PONG.session <= session /\ PONG.req <= issued
      BY <1>0, BoundsAssumption DEF PONG, Line, Texts, TypeOK, SerialTypes
    <3>2. UNCHANGED last /\ to_dev # <<>> /\ to_dev' = Tail(to_dev) /\ Answer(PONG)
      BY <2>5 DEF Ping, NextLine, serialvars
    <3> HIDE DEF ToHost, ToDev
    <3> QED BY <1>1, <1>2, <1>4, <1>5, <2>1, <3>1, <3>2
  <2>6. CASE Repeat
    <3>1. /\ UNCHANGED last /\ to_dev # <<>> /\ to_dev' = Tail(to_dev)
          /\ spc = "read" /\ Head(to_dev).req # 0 /\ NextLine
      BY <2>6 DEF Repeat, NextLine, serialvars
    <3>2. \E text \in Texts : Answer(RES(Head(to_dev).req, text))
      BY <2>6, <3>1 DEF Repeat, TaskInv, Texts
    <3>3. ToHost(to_host', session, issued)
      BY <1>4, <2>2, <2>4, <3>1, <3>2
    <3> HIDE DEF ToHost, ToDev
    <3> QED BY <1>1, <1>2, <1>4, <2>1, <3>1, <3>3
  <2>7. CASE InputCommand
    <3>1. /\ NextLine /\ to_dev # <<>> /\ to_dev' = Tail(to_dev) /\ Head(to_dev).req # 0
          /\ last'.req = Head(to_dev).req
          /\ \E text \in Texts : Answer(RES(Head(to_dev).req, text))
      BY <2>7 DEF InputCommand, NextLine, Fresh, Texts
    <3>2. ToHost(to_host', session, issued)
      BY <1>4, <2>2, <2>4, <3>1
    <3> HIDE DEF ToHost, ToDev
    <3> QED BY <1>1, <1>2, <1>4, <2>1, <3>1, <3>2
  <2>8. CASE BootCommand
    <3>1. /\ to_dev # <<>> /\ to_dev' = Tail(to_dev) /\ Head(to_dev).req # 0
          /\ last'.req = Head(to_dev).req /\ UNCHANGED to_host
      BY <2>8 DEF BootCommand, NextLine, Fresh
    <3> HIDE DEF ToHost, ToDev
    <3> QED BY <1>1, <1>2, <1>4, <2>1, <3>1
  <2>9. ASSUME NEW text \in Texts, Finish(text), UNCHANGED to_dev
        PROVE  LineInv'
    <3>1. last'.req = last.req /\ Answer(RES(last.req, text))
      BY <2>9 DEF Finish
    <3>2. ToHost(to_host', session, issued)
      BY <2>2, <2>3, <3>1
    <3> HIDE DEF ToHost, ToDev
    <3> QED BY <1>1, <1>2, <2>1, <2>9, <3>1, <3>2
  <2>10. UNCHANGED <<last, linevars>> => LineInv'
    BY <1>1, <1>2, <2>1 DEF linevars
  <2>11. CASE ControlRequest
    BY <2>9, <2>10, <2>11 DEF ControlRequest, Texts, linevars
  <2>12. CASE SetPending
    BY <2>10, <2>12 DEF SetPending
  <2>13. CASE TakeReply
    <3>0. Head(replies) \in Reply
      BY <2>13, Taken DEF TakeReply, TypeOK, QueueTypes
    <3>1. Head(replies).text \in Texts
      BY <3>0 DEF Reply
    <3> QED BY <2>9, <2>10, <2>13, <3>1 DEF TakeReply, linevars
  <2>14. CASE WaitRunsOut
    BY <2>9, <2>14 DEF WaitRunsOut, Texts
  <2> QED BY <1>13, <2>5, <2>6, <2>7, <2>8, <2>11, <2>12, <2>13, <2>14 DEF Serial
<1>14. CASE Boot
  <2>1. UNCHANGED <<hsession, issued, to_dev, to_host>> /\ session' = session + 1 /\ last'.req = 0
    BY <1>14, BootFrame DEF hostvars, linevars, NoReply
  <2>2. ToHost(to_host, session', issued)
    BY <1>0, <1>1, <2>1
  <2>3. \A i \in 1..Len(to_dev) : to_dev[i].session <= session' /\ 0 <= to_dev[i].req
    BY <1>0, <1>1, <2>1
  <2>4. ToDev(to_dev, session', 0, issued)
    BY <1>1, <2>3
  <2>5. hsession <= session' /\ 0 <= issued
    BY <1>0, <1>1, <2>1
  <2> HIDE DEF ToHost, ToDev
  <2> QED BY <1>2, <2>1, <2>2, <2>4, <2>5
<1>15. CASE Age \/ Main \/ UNCHANGED vars
  <2>1. UNCHANGED <<hsession, issued, session, last, to_dev, to_host>>
    BY <1>15, AgeFrame, MainFrame DEF vars, hostvars, linevars, serialvars
  <2> QED BY <1>1, <1>2, <2>1
<1> QED
  BY <1>7, <1>8, <1>9, <1>10, <1>11, <1>12, <1>13, <1>14, <1>15, Steps DEF Host

LEMMA Grows ==
  ASSUME NEW l \in Seq(Requests), NEW q \in Requests
  PROVE  /\ \A x \in Nat : Below(l, x) /\ q < x => Below(Append(l, q), x)
         /\ \A x : InLog(l, x) => InLog(Append(l, q), x)
         /\ InLog(Append(l, q), q)
<1>1. /\ \A i \in 1..Len(l) : Append(l, q)[i] = l[i]
      /\ Len(Append(l, q)) = Len(l) + 1 /\ Append(l, q)[Len(l) + 1] = q /\ Len(l) \in Nat
  BY Added
<1>2. \A i \in 1..Len(Append(l, q)) : i \in 1..Len(l) \/ i = Len(l) + 1
  BY <1>1
<1>3. \A i \in 1..Len(l) : i \in 1..Len(Append(l, q))
  BY <1>1
<1>4. Len(l) + 1 \in 1..Len(Append(l, q))
  BY <1>1
<1> QED BY <1>1, <1>2, <1>3, <1>4 DEF Below, InLog

LEMMA Younger ==
  ASSUME NEW l \in Seq(Requests), NEW x \in Nat, NEW y \in Nat, x <= y, Below(l, x)
  PROVE  Below(l, y)
<1> SUFFICES ASSUME NEW k \in 1..Len(l) PROVE l[k] < y
  BY DEF Below
<1>1. l[k] \in Requests
  OBVIOUS
<1> QED BY <1>1 DEF Below, Requests

LEMMA Executes ==
  ASSUME TypeOK, TaskInv, LineInv, LogInv, NEW text, Receive(text), Effect, age = "fresh"
  PROVE  /\ Head(requests) = last.req /\ Below(log, last.req) /\ last.req \in Requests
         /\ log' = Append(log, last.req) /\ spc \in {"flag", "wait"}
<1>1. spc \in {"flag", "wait"}
  BY DEF TypeOK, SerialTypes, TaskInv
<1>2. requests # <<>> /\ Head(requests) = requests[1] /\ Head(requests) \in Requests
  BY Taken DEF Receive, TypeOK, QueueTypes
<1> QED BY <1>1, <1>2 DEF LogInv, Effect

LEMMA LogStep == TypeOK /\ TaskInv /\ LineInv /\ LogInv /\ [Next]_vars => LogInv'
<1> SUFFICES ASSUME TypeOK, TaskInv, LineInv, LogInv, [Next]_vars PROVE LogInv'
  OBVIOUS
<1>0. /\ issued \in Nat /\ session \in Nat /\ hsession \in Nat /\ last.req \in Nat
      /\ \A i \in 1..Len(to_dev) : to_dev[i].req \in Nat /\ to_dev[i].session \in Nat
      /\ to_dev \in Seq(Envelope) /\ log \in Seq(Requests)
  <2>1. log \in Seq(Requests)
    BY DEF TypeOK, MainTypes
  <2> QED BY <2>1, Numbers
<1> DEFINE
     Lines(lines, s, l, done) ==
       \A i \in 1..Len(lines) :
         lines[i].req # 0 /\ lines[i].session = s /\ lines[i].req # l => Below(done, lines[i].req)
     Wait(pc, hs, s, n, l, done) == pc = "wait" /\ hs = s /\ n # l => Below(done, n)
     Queued(pc, l, queue, done) ==
       /\ pc = "send" => Below(done, l)
       /\ pc \in {"flag", "wait"} /\ queue # <<>> => queue[1] = l /\ Below(done, l)
<1>1. /\ Below(log, issued + 1) /\ Lines(to_dev, session, last.req, log)
      /\ Wait(hpc, hsession, session, issued, last.req, log)
      /\ Queued(spc, last.req, requests, log)
  BY DEF LogInv, Fresh
<1>2. LogInv' <=> /\ Below(log', issued' + 1) /\ Lines(to_dev', session', last'.req, log')
                  /\ Wait(hpc', hsession', session', issued', last'.req, log')
                  /\ Queued(spc', last'.req, requests', log')
  BY DEF LogInv, Fresh
<1>3. ASSUME NEW line \in Envelope, Send(line),
             line.req # 0 /\ line.session = session /\ line.req # last.req => Below(log, line.req)
      PROVE  Lines(to_dev', session, last.req, log)
  <2>1. \A i \in 1..Len(to_dev) : to_dev'[i] = to_dev[i]
    BY <1>3, <1>0, Added DEF Send
  <2>2. Len(to_dev') = Len(to_dev) + 1 /\ to_dev'[Len(to_dev) + 1] = line /\ Len(to_dev) \in Nat
    BY <1>3, <1>0, Added DEF Send
  <2>3. \A i \in 1..Len(to_dev') : i \in 1..Len(to_dev) \/ i = Len(to_dev) + 1
    BY <2>2
  <2> QED BY <1>1, <1>3, <2>1, <2>2, <2>3
<1>4. ASSUME to_dev # <<>>, to_dev' = Tail(to_dev)
      PROVE  Lines(to_dev', session, last.req, log)
  <2>1. \A i \in 1..Len(to_dev') : i + 1 \in 1..Len(to_dev) /\ to_dev'[i] = to_dev[i + 1]
    BY <1>0, <1>4, Taken
  <2> QED BY <1>1, <2>1
<1>5. CASE Connect
  <2>1. /\ Send(Envelope0) /\ hpc' = "hello"
        /\ UNCHANGED <<issued, session, last, requests, spc, log>>
    BY <1>5, HostFrame DEF Connect, Host, serialvars, queuevars
  <2>2. Envelope0 \in Envelope /\ Envelope0.req = 0
    BY BoundsAssumption DEF Envelope0, Envelope
  <2>3. Lines(to_dev', session, last.req, log)
    BY <1>3, <2>1, <2>2
  <2> HIDE DEF Lines, Queued
  <2> QED BY <1>1, <1>2, <2>1, <2>3
<1>6. CASE Request
  <2> DEFINE line == [req |-> issued + 1, session |-> hsession]
  <2>1. /\ Send(line) /\ issued' = issued + 1 /\ issued < MaxRequests
        /\ UNCHANGED <<session, last, requests, spc, log>>
    BY <1>6, HostFrame DEF Request, Host, serialvars, queuevars
  <2>2. line \in Envelope
    <3>1. issued + 1 \in 0..MaxRequests /\ hsession \in 0..MaxBoots
      BY <1>0, <2>1, BoundsAssumption DEF TypeOK, HostTypes
    <3> QED BY <3>1 DEF Envelope
  <2>3. line.req = issued + 1
    OBVIOUS
  <2>4. Below(log, issued' + 1)
    BY <1>0, <1>1, <2>1, Younger
  <2> HIDE DEF line
  <2>5. Lines(to_dev', session, last.req, log)
    BY <1>1, <1>3, <2>1, <2>2, <2>3
  <2> HIDE DEF Lines, Queued
  <2> QED BY <1>1, <1>2, <2>1, <2>4, <2>5
<1>7. CASE Retry
  <2> DEFINE line == [req |-> issued, session |-> hsession]
  <2>1. /\ Send(line) /\ hpc = "wait"
        /\ UNCHANGED <<hpc, hsession, issued, session, last, requests, spc, log>>
    BY <1>7, HostFrame DEF Retry, Host, serialvars, queuevars
  <2>2. line \in Envelope /\ line.req = issued /\ line.session = hsession
    BY DEF Envelope, TypeOK, HostTypes
  <2> HIDE DEF line
  <2>3. Lines(to_dev', session, last.req, log)
    BY <1>1, <1>3, <2>1, <2>2
  <2> HIDE DEF Lines, Queued, Wait
  <2> QED BY <1>1, <1>2, <2>1, <2>3
<1>8. CASE GiveUp \/ HostRead
  <2>1. UNCHANGED <<issued, to_dev, session, last, requests, spc, log>>
    BY <1>8, HostFrame DEF GiveUp, HostRead, Host, serialvars, queuevars, linevars
  <2>2. hpc' # "wait" \/ UNCHANGED <<hpc, hsession>>
    BY <1>8 DEF GiveUp, HostRead, Told
  <2> HIDE DEF Lines, Queued
  <2> QED BY <1>1, <1>2, <2>1, <2>2
<1>9. CASE LoseLine
  <2>1. UNCHANGED <<hpc, hsession, issued, session, last, requests, spc, log>>
    BY <1>9, LoseFrame DEF hostvars, serialvars, queuevars
  <2>2. Lines(to_dev', session, last.req, log)
    BY <1>1, <1>4, <1>9 DEF LoseLine
  <2> HIDE DEF Lines, Queued, Wait
  <2> QED BY <1>1, <1>2, <2>1, <2>2
<1>10. CASE Serial
  <2>0. UNCHANGED <<hpc, hsession, issued, session>>
    BY <1>10, SerialFrame DEF hostvars
  <2>1. CASE Ping \/ Repeat
    <3>1. /\ to_dev # <<>> /\ to_dev' = Tail(to_dev) /\ UNCHANGED <<last, requests, spc, log>>
      BY <2>1 DEF Ping, Repeat, NextLine, serialvars, queuevars
    <3>2. Lines(to_dev', session, last.req, log)
      BY <1>4, <3>1
    <3> HIDE DEF Lines, Queued, Wait
    <3> QED BY <1>1, <1>2, <2>0, <3>1, <3>2
  <2>2. ASSUME NextLine, Fresh(Head(to_dev)), last'.req = Head(to_dev).req
        PROVE  LET r == Head(to_dev).req
               IN  /\ r \in Requests /\ r <= issued /\ Below(log, r) /\ spc = "read"
                   /\ \A i \in 1..Len(to_dev') : to_dev'[i].req # 0 => r <= to_dev'[i].req
                   /\ \A i \in 1..Len(to_dev') : to_dev'[i].req \in Nat
    <3>1. Head(to_dev) = to_dev[1] /\ 1 \in 1..Len(to_dev) /\ Head(to_dev) \in Envelope
      BY <1>0, <2>2, Taken DEF NextLine
    <3>2. \A i \in 1..Len(to_dev') : i + 1 \in 1..Len(to_dev) /\ to_dev'[i] = to_dev[i + 1]
      BY <1>0, <2>2, Taken DEF NextLine
    <3>3. Head(to_dev).req \in Requests
      BY <2>2, <3>1 DEF Envelope, Fresh, Requests
    <3>4. ASSUME NEW i \in 1..Len(to_dev'), to_dev'[i].req # 0
          PROVE  Head(to_dev).req <= to_dev'[i].req
      <4>1. 1 < i + 1
        OBVIOUS
      <4> QED BY <2>2, <3>1, <3>2, <3>4, <4>1 DEF LineInv, Fresh
    <3>5. Head(to_dev).req <= issued /\ Below(log, Head(to_dev).req)
      BY <2>2, <3>1 DEF LineInv, LogInv
    <3>6. \A i \in 1..Len(to_dev') : to_dev'[i].req \in Nat
      BY <1>0, <3>2
    <3>7. spc = "read"
      BY <2>2 DEF NextLine
    <3> QED BY <3>3, <3>4, <3>5, <3>6, <3>7
  <2>3. CASE InputCommand
    <3> DEFINE r == Head(to_dev).req
    <3>1. /\ NextLine /\ Fresh(Head(to_dev)) /\ last'.req = r /\ UNCHANGED spc
          /\ log' = log \/ log' = Append(log, r)
      BY <2>3 DEF InputCommand
    <3>2. /\ r \in Requests /\ r <= issued /\ Below(log, r) /\ spc = "read"
          /\ \A i \in 1..Len(to_dev') : to_dev'[i].req # 0 => r <= to_dev'[i].req
          /\ \A i \in 1..Len(to_dev') : to_dev'[i].req \in Nat
      BY <2>2, <3>1
    <3> HIDE DEF r
    <3>3. \A x \in Nat : r < x => Below(log', x)
      <4>1. ASSUME NEW x \in Nat, r < x PROVE Below(log, x)
        BY <1>0, <3>2, <4>1, Younger DEF Requests
      <4> QED BY <1>0, <3>1, <3>2, <4>1, Grows
    <3>4. Lines(to_dev', session, r, log') /\ Below(log', issued + 1)
          /\ Wait(hpc, hsession, session, issued, r, log')
      BY <1>0, <3>2, <3>3 DEF Requests
    <3>5. Queued(spc', r, requests', log')
      BY <3>1, <3>2
    <3> HIDE DEF Lines, Queued, Wait
    <3> QED BY <1>2, <2>0, <3>1, <3>4, <3>5
  <2>4. CASE BootCommand
    <3> DEFINE r == Head(to_dev).req
    <3>1. /\ NextLine /\ Fresh(Head(to_dev)) /\ last'.req = r /\ spc' = "send"
          /\ log' = log
      BY <2>4 DEF BootCommand
    <3>2. /\ r \in Requests /\ r <= issued /\ Below(log, r)
          /\ \A i \in 1..Len(to_dev') : to_dev'[i].req # 0 => r <= to_dev'[i].req
          /\ \A i \in 1..Len(to_dev') : to_dev'[i].req \in Nat
      BY <2>2, <3>1
    <3> HIDE DEF r
    <3>3. \A x \in Nat : r <= x => Below(log, x)
      BY <1>0, <3>2, Younger DEF Requests
    <3>4. Lines(to_dev', session, r, log) /\ Below(log, issued + 1)
          /\ Wait(hpc, hsession, session, issued, r, log)
      BY <1>0, <1>1, <3>2, <3>3 DEF Requests
    <3>5. Queued(spc', r, requests', log)
      BY <3>1, <3>2
    <3> HIDE DEF Lines, Queued, Wait
    <3> QED BY <1>2, <2>0, <3>1, <3>4, <3>5
  <2>5. ASSUME last'.req = last.req, UNCHANGED <<to_dev, log>>,
               \/ spc' = "read"
               \/ spc' = "flag" /\ spc = "send" /\ requests' = <<last.req>>
               \/ spc' = "wait" /\ spc \in {"flag", "wait"} /\ requests' = requests
        PROVE  LogInv'
    <3>1. Queued(spc', last.req, requests', log)
      BY <1>1, <2>5
    <3> HIDE DEF Lines, Queued, Wait
    <3> QED BY <1>1, <1>2, <2>0, <2>5, <3>1
  <2>6. CASE ControlRequest \/ SetPending \/ TakeReply \/ WaitRunsOut
    BY <2>5, <2>6 DEF ControlRequest, SetPending, TakeReply, WaitRunsOut, Finish, linevars, queuevars
  <2> QED BY <1>10, <2>1, <2>3, <2>4, <2>6 DEF Serial
<1>11. CASE Boot
  <2>1. /\ UNCHANGED <<hsession, issued, to_dev, log>> /\ session' = session + 1
        /\ spc' = "read"
    BY <1>11, BootFrame DEF hostvars, linevars
  <2>2. Lines(to_dev', session', last'.req, log') /\ hsession' # session'
    BY <1>0, <2>1 DEF LineInv
  <2> HIDE DEF Lines
  <2> QED BY <1>1, <1>2, <2>1, <2>2
<1>12. CASE Main
  <2>0. UNCHANGED <<hpc, hsession, issued, session, to_dev, last, spc>>
    BY <1>12, MainFrame DEF hostvars, linevars, serialvars
  <2>1. CASE UNCHANGED log /\ (UNCHANGED requests \/ requests' = <<>>)
    <3>1. Queued(spc, last.req, requests', log)
      BY <1>1, <2>1
    <3> HIDE DEF Lines, Queued, Wait
    <3> QED BY <1>1, <1>2, <2>0, <2>1, <3>1
  <2>2. CASE ExecuteInSettings \/ ExecuteEnter
    <3>1. Receive("ok") /\ Effect /\ age = "fresh" /\ requests' = <<>>
      BY <2>2 DEF ExecuteInSettings, ExecuteEnter, Receive
    <3>2. /\ Below(log, last.req) /\ last.req \in Requests
          /\ log' = Append(log, last.req) /\ spc \in {"flag", "wait"}
      BY <3>1, Executes
    <3>3. \A x \in Nat : last.req < x => Below(log', x)
      <4>1. ASSUME NEW x \in Nat, last.req < x PROVE Below(log, x)
        BY <1>0, <3>2, <4>1, Younger
      <4> QED BY <1>0, <3>2, <4>1, Grows
    <3>4. Lines(to_dev, session, last.req, log') /\ Below(log', issued + 1)
          /\ Wait(hpc, hsession, session, issued, last.req, log')
      BY <1>0, <3>3 DEF LineInv
    <3>5. Queued(spc, last.req, <<>>, log')
      BY <3>2
    <3> HIDE DEF Lines, Queued, Wait
    <3> QED BY <1>2, <2>0, <3>1, <3>4, <3>5
  <2>3. CASE ~(ExecuteInSettings \/ ExecuteEnter)
    <3>1. UNCHANGED log /\ (UNCHANGED requests \/ requests' = <<>>)
      BY <1>12, <2>3 DEF Main, Poll, NothingQueued, Refuse, Receive, PollReply, LeaveSplash,
           Checked, RestartDue, GuestSleeps, GuestWakes, Advance, queuevars
    <3> QED BY <2>1, <3>1
  <2> QED BY <2>2, <2>3
<1>13. CASE Age \/ UNCHANGED vars
  <2>1. UNCHANGED <<hpc, hsession, issued, to_dev, session, last, requests, spc, log>>
    BY <1>13, AgeFrame DEF vars, hostvars, linevars, serialvars, queuevars
  <2> HIDE DEF Lines, Queued, Wait
  <2> QED BY <1>1, <1>2, <2>1
<1> QED
  BY <1>5, <1>6, <1>7, <1>8, <1>9, <1>10, <1>11, <1>12, <1>13, Steps DEF Host

LEMMA LogGrows ==
  TypeOK /\ TaskInv /\ LineInv /\ LogInv /\ [Next]_vars =>
    \A x : InLog(log, x) => InLog(log', x)
<1> SUFFICES ASSUME TypeOK, TaskInv, LineInv, LogInv, [Next]_vars
             PROVE  log' = log \/ \E q \in Requests : log' = Append(log, q)
  BY Grows DEF TypeOK, MainTypes
<1>1. CASE InputCommand
  <2>1. Head(to_dev) \in Envelope /\ Head(to_dev).req # 0
    BY <1>1, Taken DEF InputCommand, NextLine, Fresh, TypeOK, LineTypes
  <2>2. Head(to_dev).req \in Requests
    BY <2>1 DEF Envelope, Requests
  <2> QED BY <1>1, <2>2 DEF InputCommand
<1>2. CASE ExecuteInSettings \/ ExecuteEnter
  BY <1>2, Executes DEF ExecuteInSettings, ExecuteEnter
<1>3. CASE Serial /\ ~InputCommand
  BY <1>3 DEF Serial, Ping, Repeat, BootCommand, ControlRequest, SetPending, TakeReply, WaitRunsOut
<1>4. CASE Main /\ ~(ExecuteInSettings \/ ExecuteEnter)
  BY <1>4 DEF Main, Poll, NothingQueued, Refuse, PollReply, LeaveSplash, Checked, RestartDue, GuestSleeps, GuestWakes, Advance
<1>5. CASE Host \/ LoseLine \/ Age \/ Boot \/ UNCHANGED vars
  BY <1>5, HostFrame, LoseFrame, AgeFrame, BootFrame DEF vars
<1> QED BY <1>1, <1>2, <1>3, <1>4, <1>5, Steps

LEMMA OkStep == TypeOK /\ TaskInv /\ LineInv /\ LogInv /\ OkInv /\ [Next]_vars => OkInv'
<1> SUFFICES ASSUME TypeOK, TaskInv, LineInv, LogInv, OkInv, [Next]_vars PROVE OkInv'
  OBVIOUS
<1>0. \A x : InLog(log, x) => InLog(log', x)
  BY LogGrows
<1>1. to_dev \in Seq(Envelope) /\ to_host \in Seq(Line) /\ log \in Seq(Requests)
  BY DEF TypeOK, LineTypes, MainTypes
<1> DEFINE
     Said(reply, done) == reply.text = "ok" => InLog(done, reply.req)
     Queue(q, done) == \A i \in 1..Len(q) : Said(q[i], done)
     Lines(lines, done) ==
       \A i \in 1..Len(lines) :
         lines[i].req # 0 /\ lines[i].text = "ok" => InLog(done, lines[i].req)
<1>2. Said(last, log) /\ Said(doing, log) /\ Queue(replies, log) /\ Lines(to_host, log)
  BY DEF OkInv
<1>3. OkInv' <=> Said(last', log') /\ Said(doing', log') /\ Queue(replies', log')
                 /\ Lines(to_host', log')
  BY DEF OkInv
<1>4. Said(last, log') /\ Said(doing, log') /\ Queue(replies, log') /\ Lines(to_host, log')
  BY <1>0, <1>2
<1>5. ASSUME to_host # <<>>, to_host' = Tail(to_host)
      PROVE  Lines(to_host', log')
  <2>1. \A i \in 1..Len(to_host') : i + 1 \in 1..Len(to_host) /\ to_host'[i] = to_host[i + 1]
    BY <1>1, <1>5, Taken
  <2> QED BY <1>4, <2>1
<1>6. ASSUME NEW line \in Line, Answer(line),
             line.req # 0 /\ line.text = "ok" => InLog(log', line.req)
      PROVE  Lines(to_host', log')
  <2>1. \A i \in 1..Len(to_host) : to_host'[i] = to_host[i]
    BY <1>6, <1>1, Added DEF Answer
  <2>2. /\ Len(to_host') = Len(to_host) + 1 /\ to_host'[Len(to_host) + 1] = line
        /\ Len(to_host) \in Nat
    BY <1>6, <1>1, Added DEF Answer
  <2>3. \A i \in 1..Len(to_host') : i \in 1..Len(to_host) \/ i = Len(to_host) + 1
    BY <2>2
  <2> QED BY <1>4, <1>6, <2>1, <2>2, <2>3
<1>7. CASE Host
  <2>1. UNCHANGED <<last, doing, replies>>
    BY <1>7, HostFrame DEF serialvars, mainvars, queuevars
  <2>2. UNCHANGED to_host \/ (to_host # <<>> /\ to_host' = Tail(to_host))
    BY <1>7 DEF Host, Connect, Request, Retry, GiveUp, HostRead, linevars
  <2>3. Lines(to_host', log')
    BY <1>4, <1>5, <2>2
  <2> HIDE DEF Said, Queue, Lines
  <2> QED BY <1>3, <1>4, <2>1, <2>3
<1>8. CASE LoseLine
  <2>1. UNCHANGED <<last, doing, replies>>
    BY <1>8, LoseFrame DEF serialvars, mainvars, queuevars
  <2>2. Lines(to_host', log')
    BY <1>4, <1>5, <1>8 DEF LoseLine
  <2> HIDE DEF Said, Queue, Lines
  <2> QED BY <1>3, <1>4, <2>1, <2>2
<1>9. CASE Serial
  <2>0. UNCHANGED doing
    BY <1>9, SerialFrame DEF mainvars
  <2>1. ASSUME NEW q \in 0..MaxRequests, NEW text \in Texts, Answer(RES(q, text)),
               text = "ok" => InLog(log', q)
        PROVE  Lines(to_host', log')
    <3>1. /\ RES(q, text) \in Line /\ RES(q, text).req = q /\ RES(q, text).text = text
      BY BoundsAssumption DEF RES, Line
    <3> HIDE DEF Lines
    <3> QED BY <1>6, <2>1, <3>1
  <2>2. last.req \in 0..MaxRequests
    BY DEF TypeOK, SerialTypes
  <2>3. NextLine => Head(to_dev).req \in 0..MaxRequests
    <3>1. NextLine => Head(to_dev) \in Envelope
      BY <1>1, Taken DEF NextLine
    <3> QED BY <3>1 DEF Envelope
  <2>4. CASE Ping
    <3>1. PONG \in Line /\ PONG.req = 0
      BY BoundsAssumption DEF PONG, Line, Texts, TypeOK, SerialTypes
    <3>2. UNCHANGED <<last, replies>> /\ Answer(PONG)
      BY <2>4 DEF Ping, serialvars, queuevars
    <3>3. Lines(to_host', log')
      BY <1>6, <3>1, <3>2
    <3> HIDE DEF Said, Queue, Lines
    <3> QED BY <1>3, <1>4, <2>0, <3>2, <3>3
  <2>5. CASE Repeat
    <3>1. UNCHANGED <<last, replies>> /\ NextLine /\ spc = "read" /\ Head(to_dev).req # 0
      BY <2>5 DEF Repeat, NextLine, serialvars, queuevars
    <3>2. \/ Answer(RES(Head(to_dev).req, "err"))
          \/ Head(to_dev).req = last.req /\ Answer(RES(last.req, last.text)) /\ last.text \in Texts
      BY <2>5, <3>1 DEF Repeat, TaskInv
    <3>3. Lines(to_host', log')
      BY <1>4, <2>1, <2>2, <2>3, <3>1, <3>2 DEF Texts
    <3> HIDE DEF Said, Queue, Lines
    <3> QED BY <1>3, <1>4, <2>0, <3>1, <3>3
  <2>6. CASE InputCommand
    <3> DEFINE q == Head(to_dev).req
    <3>0. PICK text \in Texts :
            /\ last' = [req |-> q, text |-> text] /\ Answer(RES(q, text))
            /\ log' = IF text = "ok" THEN Append(log, q) ELSE log
      BY <2>6 DEF InputCommand
    <3>1. /\ NextLine /\ last' = [req |-> q, text |-> text] /\ Answer(RES(q, text))
          /\ text = "ok" => log' = Append(log, q)
          /\ UNCHANGED replies /\ text \in Texts /\ q # 0
      BY <2>6, <3>0 DEF InputCommand, queuevars, Fresh
    <3>2. q \in Requests
      BY <2>3, <3>1 DEF Requests
    <3> HIDE DEF q
    <3>3. text = "ok" => InLog(log', q)
      BY <1>1, <3>1, <3>2, Grows
    <3>4. Lines(to_host', log')
      BY <2>1, <3>1, <3>2, <3>3 DEF Requests
    <3>5. Said(last', log')
      BY <3>1, <3>3
    <3> HIDE DEF Said, Queue, Lines
    <3> QED BY <1>3, <1>4, <2>0, <3>1, <3>4, <3>5
  <2>7. CASE BootCommand
    <3>1. last'.text = "none" /\ UNCHANGED <<replies, to_host>>
      BY <2>7 DEF BootCommand, queuevars
    <3>2. Said(last', log')
      BY <3>1
    <3> HIDE DEF Said, Queue, Lines
    <3> QED BY <1>3, <1>4, <2>0, <3>1, <3>2
  <2>8. ASSUME NEW text \in Texts, Finish(text), replies' = replies \/ replies' = <<>>,
               text = "ok" => InLog(log, last.req)
        PROVE  OkInv'
    <3>1. last' = [req |-> last.req, text |-> text] /\ Answer(RES(last.req, text))
      BY <2>8 DEF Finish
    <3>2. Said(last', log')
      BY <1>0, <2>8, <3>1
    <3>3. Lines(to_host', log')
      BY <1>0, <2>1, <2>2, <2>8, <3>1
    <3>4. Queue(replies', log')
      BY <1>4, <2>8
    <3> HIDE DEF Said, Queue, Lines
    <3> QED BY <1>3, <1>4, <2>0, <3>2, <3>3, <3>4
  <2>9. ASSUME UNCHANGED <<last, to_host>>, replies' = replies \/ replies' = <<>>
        PROVE  OkInv'
    <3>1. Queue(replies', log')
      BY <1>4, <2>9
    <3> HIDE DEF Said, Queue, Lines
    <3> QED BY <1>3, <1>4, <2>0, <2>9, <3>1
  <2>10. CASE ControlRequest \/ SetPending \/ WaitRunsOut
    BY <2>8, <2>9, <2>10 DEF ControlRequest, SetPending, WaitRunsOut, linevars, queuevars, Texts
  <2>11. CASE TakeReply
    <3>1. Head(replies) = replies[1] /\ 1 \in 1..Len(replies) /\ Head(replies) \in Reply
      BY <2>11, Taken DEF TakeReply, TypeOK, QueueTypes
    <3>2. Head(replies).text \in Texts /\ Said(Head(replies), log)
      BY <1>2, <3>1 DEF Reply
    <3> QED BY <2>8, <2>9, <2>11, <3>2 DEF TakeReply
  <2> QED BY <1>9, <2>4, <2>5, <2>6, <2>7, <2>10, <2>11 DEF Serial
<1>10. CASE Boot
  <2>1. /\ last'.text = "none" /\ doing'.text = "none" /\ replies' = <<>> /\ UNCHANGED to_host
    BY <1>10, BootFrame DEF linevars, NoReply
  <2>2. Said(last', log') /\ Said(doing', log') /\ Queue(replies', log')
    BY <2>1
  <2> HIDE DEF Said, Queue, Lines
  <2> QED BY <1>3, <1>4, <2>1, <2>2
<1>11. CASE Main
  <2>0. UNCHANGED <<last, to_host>>
    BY <1>11, MainFrame DEF linevars, serialvars
  <2>1. CASE ExecuteInSettings \/ ExecuteEnter
    <3>1. /\ Receive("ok") /\ Effect /\ age = "fresh" /\ UNCHANGED replies
          /\ doing' = [req |-> Head(requests), text |-> "ok"]
      BY <2>1 DEF ExecuteInSettings, ExecuteEnter, Receive
    <3>2. Head(requests) = last.req /\ last.req \in Requests /\ log' = Append(log, last.req)
      BY <3>1, Executes
    <3>3. Said(doing', log')
      BY <1>1, <3>1, <3>2, Grows
    <3> HIDE DEF Said, Queue, Lines
    <3> QED BY <1>3, <1>4, <2>0, <3>1, <3>3
  <2>2. CASE Refuse
    <3>1. doing'.text = "err" /\ UNCHANGED replies
      BY <2>2 DEF Refuse, Receive
    <3>2. Said(doing', log')
      BY <3>1
    <3> HIDE DEF Said, Queue, Lines
    <3> QED BY <1>3, <1>4, <2>0, <3>1, <3>2
  <2>3. CASE PollReply
    <3>1. replies' = <<doing>> /\ doing'.text = "none"
      BY <2>3 DEF PollReply, NoReply
    <3>2. Queue(replies', log') /\ Said(doing', log')
      BY <1>4, <3>1
    <3> HIDE DEF Said, Queue, Lines
    <3> QED BY <1>3, <1>4, <2>0, <3>2
  <2>4. CASE UNCHANGED <<doing, replies>>
    <3> HIDE DEF Said, Queue, Lines
    <3> QED BY <1>3, <1>4, <2>0, <2>4
  <2>5. CASE ~(ExecuteInSettings \/ ExecuteEnter \/ Refuse \/ PollReply)
    BY <1>11, <2>4, <2>5 DEF Main, Poll, NothingQueued, LeaveSplash, Checked, RestartDue, GuestSleeps, GuestWakes, Advance, queuevars
  <2> QED BY <2>1, <2>2, <2>3, <2>5
<1>12. CASE Age \/ UNCHANGED vars
  <2>1. UNCHANGED <<last, doing, replies, to_host>>
    BY <1>12, AgeFrame DEF vars, linevars, serialvars, mainvars, queuevars
  <2> HIDE DEF Said, Queue, Lines
  <2> QED BY <1>3, <1>4, <2>1
<1> QED BY <1>7, <1>8, <1>9, <1>10, <1>11, <1>12, Steps

LEMMA FinalStep == TypeOK /\ TaskInv /\ LineInv /\ FinalInv /\ [Next]_vars => FinalInv'
<1> SUFFICES ASSUME TypeOK, TaskInv, LineInv, FinalInv, [Next]_vars PROVE FinalInv'
  OBVIOUS
<1>0. /\ issued \in Nat /\ session \in Nat /\ hsession \in Nat /\ last.req \in Nat
      /\ \A i \in 1..Len(to_dev) : to_dev[i].req \in Nat /\ to_dev[i].session \in Nat
      /\ to_dev \in Seq(Envelope) /\ to_host \in Seq(Line)
      /\ answer \in Seq(Texts \cup {"none"}) /\ Len(answer) = issued
  <2>1. answer \in Seq(Texts \cup {"none"}) /\ Len(answer) = issued
    BY DEF TypeOK, HostTypes
  <2> QED BY <2>1, Numbers
<1> DEFINE
     None(lines, s, l) == \A i \in 1..Len(lines) :
       ~(lines[i].req # 0 /\ lines[i].session = s /\ lines[i].req # l)
     Asked(pc, n, ans) == pc = "wait" => ans[n] = "none"
     Told1(n, ans, none, sp) == n > 0 /\ ans[n] = "ok" => none /\ sp = "read"
     Tells(line, n, none, sp, pc, hs, s, l) ==
       n > 0 /\ line.req = n /\ line.text = "ok" =>
         /\ none /\ sp = "read"
         /\ pc = "wait" => hs # s \/ l = n
     Lines(lines, n, none, sp, pc, hs, s, l) ==
       \A i \in 1..Len(lines) : Tells(lines[i], n, none, sp, pc, hs, s, l)
<1>1. /\ Asked(hpc, issued, answer)
      /\ Told1(issued, answer, None(to_dev, session, last.req), spc)
      /\ Lines(to_host, issued, None(to_dev, session, last.req), spc, hpc, hsession, session,
               last.req)
  BY DEF FinalInv, NothingFresh, Fresh
<1>2. FinalInv' <=>
        /\ Asked(hpc', issued', answer')
        /\ Told1(issued', answer', None(to_dev', session', last'.req), spc')
        /\ Lines(to_host', issued', None(to_dev', session', last'.req), spc', hpc', hsession',
                 session', last'.req)
  BY DEF FinalInv, NothingFresh, Fresh
<1>3. ASSUME NEW line \in Envelope, Send(line), None(to_dev, session, last.req),
             ~(line.req # 0 /\ line.session = session /\ line.req # last.req)
      PROVE  None(to_dev', session, last.req)
  <2>1. \A i \in 1..Len(to_dev) : to_dev'[i] = to_dev[i]
    BY <1>3, <1>0, Added DEF Send
  <2>2. Len(to_dev') = Len(to_dev) + 1 /\ to_dev'[Len(to_dev) + 1] = line /\ Len(to_dev) \in Nat
    BY <1>3, <1>0, Added DEF Send
  <2>3. \A i \in 1..Len(to_dev') : i \in 1..Len(to_dev) \/ i = Len(to_dev) + 1
    BY <2>2
  <2> QED BY <1>3, <2>1, <2>2, <2>3
<1>4. ASSUME to_dev # <<>>, to_dev' = Tail(to_dev)
      PROVE  /\ None(to_dev, session, last.req) => None(to_dev', session, last.req)
             /\ Head(to_dev) = to_dev[1] /\ 1 \in 1..Len(to_dev)
             /\ \A i \in 1..Len(to_dev') : i + 1 \in 1..Len(to_dev) /\ to_dev'[i] = to_dev[i + 1]
  <2>1. \A i \in 1..Len(to_dev') : i + 1 \in 1..Len(to_dev) /\ to_dev'[i] = to_dev[i + 1]
    BY <1>0, <1>4, Taken
  <2>2. Head(to_dev) = to_dev[1] /\ 1 \in 1..Len(to_dev)
    BY <1>0, <1>4, Taken
  <2> QED BY <2>1, <2>2
<1>5. ASSUME to_host # <<>>, to_host' = Tail(to_host)
      PROVE  /\ Head(to_host) = to_host[1] /\ 1 \in 1..Len(to_host)
             /\ \A i \in 1..Len(to_host') : i + 1 \in 1..Len(to_host) /\ to_host'[i] = to_host[i + 1]
  BY <1>0, <1>5, Taken
<1>6. ASSUME NEW line \in Line, Answer(line)
      PROVE  \A i \in 1..Len(to_host') :
               (i \in 1..Len(to_host) /\ to_host'[i] = to_host[i]) \/ to_host'[i] = line
  <2>1. \A i \in 1..Len(to_host) : to_host'[i] = to_host[i]
    BY <1>6, <1>0, Added DEF Answer
  <2>2. /\ Len(to_host') = Len(to_host) + 1 /\ to_host'[Len(to_host) + 1] = line
        /\ Len(to_host) \in Nat
    BY <1>6, <1>0, Added DEF Answer
  <2> QED BY <2>1, <2>2
<1>7. CASE Connect
  <2>1. /\ Send(Envelope0) /\ hpc' = "hello"
        /\ UNCHANGED <<hsession, issued, answer, to_host, session, last, spc>>
    BY <1>7, HostFrame DEF Connect, Host, serialvars
  <2>2. Envelope0 \in Envelope /\ Envelope0.req = 0
    BY BoundsAssumption DEF Envelope0, Envelope
  <2>3. None(to_dev, session, last.req) => None(to_dev', session, last.req)
    BY <1>3, <2>1, <2>2
  <2> HIDE DEF None
  <2> QED BY <1>1, <1>2, <2>1, <2>3
<1>8. CASE Request
  <2>1. /\ issued' = issued + 1 /\ answer' = Append(answer, "none") /\ UNCHANGED to_host
    BY <1>8 DEF Request
  <2>2. answer'[issued'] = "none"
    BY <1>0, <2>1, Added
  <2>3. \A i \in 1..Len(to_host') : to_host'[i].req # issued'
    BY <1>0, <2>1, Numbers DEF LineInv
  <2> HIDE DEF None
  <2> QED BY <1>2, <2>2, <2>3
<1>9. CASE Retry
  <2> DEFINE line == [req |-> issued, session |-> hsession]
  <2>1. /\ Send(line) /\ hpc = "wait"
        /\ UNCHANGED <<hpc, hsession, issued, answer, to_host, session, last, spc>>
    BY <1>9, HostFrame DEF Retry, Host, serialvars
  <2>2. line \in Envelope /\ line.req = issued /\ line.session = hsession
    BY DEF Envelope, TypeOK, HostTypes
  <2> HIDE DEF line
  <2>3. hsession # session \/ last.req = issued =>
          (None(to_dev, session, last.req) => None(to_dev', session, last.req))
    BY <1>3, <2>1, <2>2
  <2> HIDE DEF None
  <2> QED BY <1>1, <1>2, <2>1, <2>3
<1>10. ASSUME hpc = "wait", NEW text \in Texts, Told(text)
       PROVE  answer'[issued] = text /\ hpc' = "idle"
  <2>1. issued \in 1..Len(answer)
    BY <1>0, <1>10 DEF TaskInv
  <2> QED BY <1>0, <1>10, <2>1, Changed DEF Told
<1>11. CASE GiveUp
  <2>1. UNCHANGED <<hsession, issued, to_dev, to_host, session, last, spc>>
    BY <1>11, HostFrame DEF GiveUp, Host, serialvars, linevars
  <2>2. answer'[issued] = "err" /\ hpc' = "idle"
    BY <1>10, <1>11 DEF GiveUp, Texts
  <2> HIDE DEF None
  <2> QED BY <1>1, <1>2, <2>1, <2>2
<1>12. CASE HostRead
  <2>1. UNCHANGED <<issued, to_dev, session, last, spc>>
    BY <1>12, HostFrame DEF HostRead, Host, serialvars
  <2>2. to_host # <<>> /\ to_host' = Tail(to_host)
    BY <1>12 DEF HostRead
  <2>3. /\ Head(to_host) = to_host[1] /\ 1 \in 1..Len(to_host)
        /\ \A i \in 1..Len(to_host') : i + 1 \in 1..Len(to_host) /\ to_host'[i] = to_host[i + 1]
    BY <1>5, <2>2
  <2>4. Head(to_host) \in Line
    BY <1>0, <2>2, Taken
  <2>5. Head(to_host).text \in Texts
    BY <2>4 DEF Line
  <2> HIDE DEF None
  <2>6. Lines(to_host', issued, None(to_dev, session, last.req), spc, hpc, hsession, session,
              last.req)
    BY <1>1, <2>3
  <2>7. CASE hpc' = "idle" /\ UNCHANGED answer
    BY <1>1, <1>2, <2>1, <2>6, <2>7
  <2>8. CASE hpc = "wait" /\ Head(to_host).req = issued /\ Told(Head(to_host).text)
    <3>1. answer'[issued] = Head(to_host).text /\ hpc' = "idle"
      BY <1>10, <2>5, <2>8
    <3>2. issued > 0 /\ Head(to_host).text = "ok" => None(to_dev, session, last.req) /\ spc = "read"
      BY <1>1, <2>3, <2>8
    <3> QED BY <1>1, <1>2, <2>1, <2>6, <3>1, <3>2
  <2>9. CASE UNCHANGED <<hpc, hsession, answer>>
    BY <1>1, <1>2, <2>1, <2>6, <2>9
  <2> QED BY <1>12, <2>7, <2>8, <2>9 DEF HostRead
<1>13. CASE LoseLine
  <2>1. UNCHANGED <<hpc, hsession, issued, answer, session, last, spc>>
    BY <1>13, LoseFrame DEF hostvars, serialvars
  <2>2. CASE to_dev # <<>> /\ to_dev' = Tail(to_dev) /\ UNCHANGED to_host
    <3>1. None(to_dev, session, last.req) => None(to_dev', session, last.req)
      BY <1>4, <2>2
    <3> HIDE DEF None
    <3> QED BY <1>1, <1>2, <2>1, <2>2, <3>1
  <2>3. CASE to_host # <<>> /\ to_host' = Tail(to_host) /\ UNCHANGED to_dev
    <3> HIDE DEF None
    <3> QED BY <1>1, <1>2, <1>5, <2>1, <2>3
  <2> QED BY <1>13, <2>2, <2>3 DEF LoseLine
\* In the serial task: nothing that may act is left behind the request that
\* was just read, when it is the last that was made.
<1>14. ASSUME NEW lines \in Seq(Envelope), NEW l,
              \A i \in 1..Len(lines) : lines[i].req \in Nat /\ lines[i].req <= issued,
              \A i \in 1..Len(lines) : lines[i].req # 0 => l <= lines[i].req,
              l = issued
       PROVE  None(lines, session, l)
  BY <1>0, <1>14
<1>15. CASE Serial
  <2>0. UNCHANGED <<hpc, hsession, issued, answer, session>>
    BY <1>15, SerialFrame DEF hostvars
  <2>1. last.req \in 0..MaxRequests
    BY DEF TypeOK, SerialTypes
  <2>2. NextLine => Head(to_dev).req \in 0..MaxRequests
    <3>1. NextLine => Head(to_dev) \in Envelope
      BY <1>0, Taken DEF NextLine
    <3> QED BY <3>1 DEF Envelope
  <2>3. ASSUME NextLine
        PROVE  /\ to_dev' \in Seq(Envelope) /\ spc = "read"
               /\ \A i \in 1..Len(to_dev') : to_dev'[i].req \in Nat /\ to_dev'[i].req <= issued
               /\ \A i \in 1..Len(to_dev') : to_dev'[i].req # 0 => last.req <= to_dev'[i].req
               /\ Head(to_dev).req # 0 =>
                    \A i \in 1..Len(to_dev') : to_dev'[i].req # 0 => Head(to_dev).req <= to_dev'[i].req
               /\ None(to_dev, session, last.req) => None(to_dev', session, last.req)
               /\ None(to_dev, session, last.req) => ~Fresh(Head(to_dev))
    <3>1. /\ None(to_dev, session, last.req) => None(to_dev', session, last.req)
          /\ Head(to_dev) = to_dev[1] /\ 1 \in 1..Len(to_dev)
          /\ \A i \in 1..Len(to_dev') : i + 1 \in 1..Len(to_dev) /\ to_dev'[i] = to_dev[i + 1]
      BY <1>4, <2>3 DEF NextLine
    <3>2. to_dev' \in Seq(Envelope) /\ spc = "read"
      BY <1>0, <2>3, Taken DEF NextLine
    <3>3. /\ \A i \in 1..Len(to_dev') : to_dev'[i].req \in Nat /\ to_dev'[i].req <= issued
          /\ \A i \in 1..Len(to_dev') : to_dev'[i].req # 0 => last.req <= to_dev'[i].req
      BY <1>0, <3>1 DEF LineInv
    <3>4. ASSUME Head(to_dev).req # 0, NEW i \in 1..Len(to_dev'), to_dev'[i].req # 0
          PROVE  Head(to_dev).req <= to_dev'[i].req
      <4>1. 1 < i + 1
        OBVIOUS
      <4> QED BY <3>1, <3>4, <4>1 DEF LineInv
    <3>5. None(to_dev, session, last.req) => ~Fresh(Head(to_dev))
      BY <3>1 DEF Fresh
    <3> HIDE DEF None
    <3> QED BY <3>1, <3>2, <3>3, <3>4, <3>5
  \* A reply to what was not OK, or to what is now the last request read.
  <2>4. ASSUME NEW q \in 0..MaxRequests, NEW text \in Texts, Answer(RES(q, text))
        PROVE  \A i \in 1..Len(to_host') :
                 \/ i \in 1..Len(to_host) /\ to_host'[i] = to_host[i]
                 \/ to_host'[i].req = q /\ to_host'[i].text = text
    <3>1. RES(q, text) \in Line /\ RES(q, text).req = q /\ RES(q, text).text = text
      BY BoundsAssumption DEF RES, Line
    <3> QED BY <1>6, <2>4, <3>1
  <2>5. CASE Ping
    <3>1. PONG \in Line /\ PONG.req = 0
      BY BoundsAssumption DEF PONG, Line, Texts, TypeOK, SerialTypes
    <3>2. UNCHANGED <<last, spc>> /\ Answer(PONG) /\ NextLine
      BY <2>5 DEF Ping, serialvars
    <3>3. \A i \in 1..Len(to_host') :
            \/ i \in 1..Len(to_host) /\ to_host'[i] = to_host[i]
            \/ to_host'[i].req = 0
      BY <1>6, <3>1, <3>2
    <3>4. None(to_dev, session, last.req) => None(to_dev', session, last.req)
      BY <2>3, <3>2
    <3> HIDE DEF None
    <3> QED BY <1>1, <1>2, <2>0, <3>2, <3>3, <3>4
  <2>6. CASE Repeat
    <3>1. UNCHANGED <<last, spc>> /\ NextLine /\ spc = "read" /\ Head(to_dev).req # 0
      BY <2>6 DEF Repeat, NextLine, serialvars
    <3>2. /\ None(to_dev, session, last.req) => None(to_dev', session, last.req)
          /\ to_dev' \in Seq(Envelope)
          /\ \A i \in 1..Len(to_dev') : to_dev'[i].req \in Nat /\ to_dev'[i].req <= issued
          /\ \A i \in 1..Len(to_dev') : to_dev'[i].req # 0 => last.req <= to_dev'[i].req
      BY <2>3, <3>1
    <3>3. CASE Answer(RES(Head(to_dev).req, "err"))
      <4>1. \A i \in 1..Len(to_host') :
              \/ i \in 1..Len(to_host) /\ to_host'[i] = to_host[i]
              \/ to_host'[i].text = "err"
        BY <2>2, <2>4, <3>1, <3>3 DEF Texts
      <4> HIDE DEF None
      <4> QED BY <1>1, <1>2, <2>0, <3>1, <3>2, <4>1
    <3>4. CASE Answer(RES(last.req, last.text)) /\ last.text \in Texts
      <4>1. \A i \in 1..Len(to_host') :
              \/ i \in 1..Len(to_host) /\ to_host'[i] = to_host[i]
              \/ to_host'[i].req = last.req
        BY <2>1, <2>4, <3>4
      <4>2. last.req = issued => None(to_dev', session, last.req)
        BY <1>14, <3>2
      <4> HIDE DEF None
      <4> QED BY <1>1, <1>2, <2>0, <3>1, <3>2, <4>1, <4>2
    <3> QED BY <2>6, <3>1, <3>3, <3>4 DEF Repeat, TaskInv
  <2>7. CASE InputCommand
    <3> DEFINE q == Head(to_dev).req
    <3>1. /\ NextLine /\ Fresh(Head(to_dev)) /\ last'.req = q /\ UNCHANGED spc /\ q # 0
          /\ \E text \in Texts : Answer(RES(q, text))
      BY <2>7 DEF InputCommand, Texts, Fresh
    <3> HIDE DEF None
    <3>2. /\ ~None(to_dev, session, last.req) /\ spc = "read"
          /\ to_dev' \in Seq(Envelope)
          /\ \A i \in 1..Len(to_dev') : to_dev'[i].req \in Nat /\ to_dev'[i].req <= issued
          /\ \A i \in 1..Len(to_dev') : to_dev'[i].req # 0 => q <= to_dev'[i].req
      BY <2>3, <3>1
    <3>3. \A i \in 1..Len(to_host') :
            \/ i \in 1..Len(to_host) /\ to_host'[i] = to_host[i]
            \/ to_host'[i].req = q
      BY <2>2, <2>4, <3>1
    <3>4. q = issued => None(to_dev', session, q)
      BY <1>14, <3>2
    <3> HIDE DEF q
    <3> QED BY <1>1, <1>2, <2>0, <3>1, <3>2, <3>3, <3>4
  <2>8. CASE BootCommand
    <3>1. NextLine /\ Fresh(Head(to_dev)) /\ UNCHANGED to_host
      BY <2>8 DEF BootCommand
    <3>2. ~None(to_dev, session, last.req)
      BY <2>3, <3>1
    <3> HIDE DEF None
    <3> QED BY <1>1, <1>2, <2>0, <3>1, <3>2
  <2>9. ASSUME spc # "read", NEW text \in Texts, Finish(text), UNCHANGED to_dev
        PROVE  FinalInv'
    <3>1. last'.req = last.req /\ Answer(RES(last.req, text)) /\ spc' = "read"
      BY <2>9 DEF Finish
    <3>2. \A i \in 1..Len(to_host') :
            \/ i \in 1..Len(to_host) /\ to_host'[i] = to_host[i]
            \/ to_host'[i].req = last.req
      BY <2>1, <2>4, <3>1
    <3>3. last.req = issued => None(to_dev, session, last.req)
      BY <1>0, <1>14 DEF LineInv
    <3> HIDE DEF None
    <3> QED BY <1>1, <1>2, <2>0, <2>9, <3>1, <3>2, <3>3
  <2>10. spc # "read" /\ UNCHANGED <<last, to_dev, to_host>> => FinalInv'
    <3> HIDE DEF None
    <3> QED BY <1>1, <1>2, <2>0
  <2>11. CASE ControlRequest \/ SetPending \/ WaitRunsOut
    BY <2>9, <2>10, <2>11 DEF ControlRequest, SetPending, WaitRunsOut, linevars, Texts
  <2>12. CASE TakeReply
    <3>1. Head(replies) \in Reply
      BY <2>12, Taken DEF TakeReply, TypeOK, QueueTypes
    <3>2. Head(replies).text \in Texts
      BY <3>1 DEF Reply
    <3> QED BY <2>9, <2>10, <2>12, <3>2 DEF TakeReply
  <2> QED BY <1>15, <2>5, <2>6, <2>7, <2>8, <2>11, <2>12 DEF Serial
<1>16. CASE Boot
  <2>1. /\ UNCHANGED <<hpc, hsession, issued, answer, to_dev, to_host>>
        /\ session' = session + 1 /\ spc' = "read"
    BY <1>16, BootFrame DEF hostvars, linevars
  <2>2. None(to_dev', session', last'.req) /\ hsession' # session'
    BY <1>0, <2>1 DEF LineInv
  <2> HIDE DEF None
  <2> QED BY <1>1, <1>2, <2>1, <2>2
<1>17. CASE Age \/ Main \/ UNCHANGED vars
  <2>1. UNCHANGED <<hpc, hsession, issued, answer, to_dev, to_host, session, last, spc>>
    BY <1>17, AgeFrame, MainFrame DEF vars, hostvars, linevars, serialvars
  <2> HIDE DEF None
  <2> QED BY <1>1, <1>2, <2>1
<1> QED
  BY <1>7, <1>8, <1>9, <1>11, <1>12, <1>13, <1>15, <1>16, <1>17, Steps DEF Host

\* The flag of the CPU loop: a request is queued only while it is about to be
\* raised, and lowered only by a poll that takes the request.
LEMMA FlagStep == TypeOK /\ NoForgottenRequest /\ [Next]_vars => NoForgottenRequest'
<1> SUFFICES ASSUME TypeOK, NoForgottenRequest, [Next]_vars PROVE NoForgottenRequest'
  OBVIOUS
<1> USE DEF NoForgottenRequest
<1>1. CASE UNCHANGED <<requests, pending, mpc, spc>>
  BY <1>1
<1>2. CASE Host \/ LoseLine \/ Age \/ UNCHANGED vars
  BY <1>1, <1>2, HostFrame, LoseFrame, AgeFrame DEF vars, queuevars, mainvars, serialvars
<1>3. CASE Boot
  BY <1>3, BootFrame
<1>4. CASE Ping \/ Repeat \/ InputCommand
  BY <1>1, <1>4 DEF Ping, Repeat, InputCommand, serialvars, queuevars, mainvars
<1>5. CASE BootCommand
  BY <1>5 DEF BootCommand, NextLine, queuevars, mainvars
<1>6. CASE ControlRequest
  BY <1>6 DEF ControlRequest, Finish, mainvars
<1>7. CASE SetPending
  BY <1>7 DEF SetPending
<1>8. CASE TakeReply \/ WaitRunsOut
  BY <1>8 DEF TakeReply, WaitRunsOut, Finish, queuevars, mainvars
<1>9. CASE Main
  <2>1. UNCHANGED spc
    BY <1>9, MainFrame DEF serialvars
  <2>2. CASE \E tick \in BOOLEAN : Poll(tick)
    BY <2>2 DEF Poll
  <2>3. CASE NothingQueued
    BY <2>3 DEF NothingQueued, queuevars
  <2>4. CASE Refuse \/ ExecuteInSettings \/ ExecuteEnter
    BY <2>4 DEF Refuse, ExecuteInSettings, ExecuteEnter, Receive
  <2>5. CASE PollReply
    BY <2>1, <2>5 DEF PollReply
  <2>6. CASE LeaveSplash \/ Checked
    BY <2>1, <2>6 DEF LeaveSplash, Checked, queuevars
  <2>7. CASE RestartDue \/ GuestSleeps \/ GuestWakes \/ Advance
    BY <1>1, <2>1, <2>7 DEF RestartDue, GuestSleeps, GuestWakes, Advance, queuevars
  <2> QED BY <1>9, <2>2, <2>3, <2>4, <2>5, <2>6, <2>7 DEF Main
<1> QED BY <1>2, <1>3, <1>4, <1>5, <1>6, <1>7, <1>8, <1>9, Steps DEF Serial

\* ENTER's restart: the flag stays up while a restart is set, and the boot that
\* the restart begins holds the cookie.
LEMMA EnterStep == TypeOK /\ EnterRemembered /\ [Next]_vars => EnterRemembered'
<1> SUFFICES ASSUME TypeOK, EnterRemembered, [Next]_vars PROVE EnterRemembered'
  OBVIOUS
<1> USE DEF EnterRemembered
<1>1. CASE UNCHANGED <<entered, phase, restart, pending, mpc, hold>>
  BY <1>1
<1>2. CASE Host \/ LoseLine \/ Age \/ UNCHANGED vars
  BY <1>1, <1>2, HostFrame, LoseFrame, AgeFrame DEF vars, queuevars, mainvars, serialvars
<1>3. CASE Boot
  BY <1>3 DEF Boot, Restart, Crash, Start
<1>4. CASE Serial
  <2>1. UNCHANGED <<mainvars, entered>> /\ (pending => pending')
    <3>1. UNCHANGED <<mainvars, entered>>
      BY <1>4, SerialFrame
    <3>2. pending => pending'
      BY <1>4 DEF Serial, Ping, Repeat, InputCommand, BootCommand, NextLine, ControlRequest,
         SetPending, TakeReply, WaitRunsOut, Finish
    <3> QED BY <3>1, <3>2
  <2> QED BY <2>1 DEF mainvars
<1>5. CASE Main
  <2>1. CASE \E tick \in BOOLEAN : Poll(tick)
    <3>1. UNCHANGED <<entered, phase, hold, restart>>
      BY <2>1 DEF Poll
    <3>2. pending' = (restart # "none") /\ mpc = "run"
      BY <2>1 DEF Poll
    <3>3. restart # "none" => pending'
      BY <3>2, Zenon
    <3> QED BY <3>1, <3>2, <3>3
  <2>2. CASE NothingQueued
    BY <2>2 DEF NothingQueued
  <2>3. CASE Refuse \/ ExecuteInSettings
    BY <2>3 DEF Refuse, ExecuteInSettings, Receive
  <2>4. CASE ExecuteEnter
    <3>1. CASE phase \in {"boot", "settings"}
      BY <2>4, <3>1 DEF ExecuteEnter, Receive
    <3>2. CASE phase \in {"emulator", "stopped"}
      <4>1. restart' # "none"
        BY <2>4, <3>2 DEF ExecuteEnter
      <4>2. mpc' = "reply" /\ phase' = phase
        BY <2>4 DEF ExecuteEnter, Receive
      <4> QED BY <3>2, <4>1, <4>2
    <3>3. phase \in {"boot", "settings", "starting", "emulator", "stopped"}
      BY DEF TypeOK, MainTypes
    <3> QED BY <2>4, <3>1, <3>2, <3>3 DEF ExecuteEnter
  <2>5. CASE PollReply
    BY <2>5 DEF PollReply
  <2>6. CASE LeaveSplash \/ Checked
    BY <2>6 DEF LeaveSplash, Checked
  <2>7. CASE RestartDue \/ GuestSleeps \/ GuestWakes \/ Advance
    BY <2>7 DEF RestartDue, GuestSleeps, GuestWakes, Advance
  <2> QED BY <1>5, <2>1, <2>2, <2>3, <2>4, <2>5, <2>6, <2>7 DEF Main
<1> QED BY <1>2, <1>3, <1>4, <1>5, Steps

-----------------------------------------------------------------------------
IInv == TypeOK /\ TaskInv /\ LineInv /\ LogInv /\ OkInv /\ FinalInv /\ NoForgottenRequest

LEMMA Starts == Init => IInv
<1> SUFFICES ASSUME Init PROVE IInv
  OBVIOUS
<1> USE DEF Init
<1>1. HostTypes /\ SerialTypes
  BY BoundsAssumption DEF HostTypes, SerialTypes, NoReply
<1>2. LineTypes
  BY BoundsAssumption DEF LineTypes
<1>3. QueueTypes
  <2>1. requests \in Seq(Requests) /\ Len(requests) <= 1
    OBVIOUS
  <2>2. replies \in Seq(Reply) /\ Len(replies) <= 1
    OBVIOUS
  <2> QED BY <2>1, <2>2 DEF QueueTypes
<1>4. MainTypes
  <2>1. log \in Seq(Requests)
    OBVIOUS
  <2>2. doing \in Reply \cup {NoReply}
    OBVIOUS
  <2> QED BY <2>1, <2>2 DEF MainTypes
<1>5. TaskInv /\ LineInv /\ LogInv /\ OkInv /\ FinalInv /\ NoForgottenRequest
  BY DEF TaskInv, LineInv, LogInv, Below, OkInv, FinalInv, NoForgottenRequest, NoReply
<1> QED BY <1>1, <1>2, <1>3, <1>4, <1>5 DEF IInv, TypeOK

\* The lines, the queues, the tasks and the record of what has acted agree, in
\* every state that the host, the device and the losses can reach.
THEOREM Invariance == Spec => []IInv
<1>1. IInv /\ [Next]_vars => IInv'
  <2> SUFFICES ASSUME IInv, [Next]_vars PROVE IInv'
    OBVIOUS
  <2>1. TypeOK /\ TaskInv /\ LineInv /\ LogInv /\ OkInv /\ FinalInv /\ NoForgottenRequest
    BY DEF IInv
  <2>2. TypeOK'
    BY <2>1, HostTypeStep, LineTypeStep, SerialTypeStep, QueueTypeStep, MainTypeStep DEF TypeOK
  <2> QED
    BY <2>1, <2>2, TaskStep, LineStep, LogStep, OkStep, FinalStep, FlagStep DEF IInv
<1> QED BY <1>1, Starts, PTL DEF Spec

\* Type correctness of the host, the lines, the tasks and their queues.
THEOREM TypeCorrect == Spec => []TypeOK
<1>1. IInv => TypeOK
  BY DEF IInv
<1> QED BY <1>1, Invariance, PTL

\* A request in the queue is always about to be found: ControlRequest queues
\* it before it raises the flag, ControlPoll lowers the flag before it looks.
THEOREM RequestsAreFound == Spec => []NoForgottenRequest
<1>1. IInv => NoForgottenRequest
  BY DEF IInv
<1> QED BY <1>1, Invariance, PTL

\* An ENTER that restarts the device is remembered until the settings screen is
\* up, whatever else is asked for meanwhile: what the liveness of the restart
\* rests on.
THEOREM EnterNotForgotten == Spec => []EnterRemembered
<1>1. Init => EnterRemembered
  BY DEF Init, EnterRemembered
<1> QED BY <1>1, EnterStep, TypeCorrect, PTL DEF Spec

\* The flag serves both its uses, although each poll stores it anew while the
\* serial task raises it (BootGUI_ControlRequest, BootGUI_ControlPoll).
THEOREM NothingIsForgotten == Spec => []NothingForgotten
<1>1. NoForgottenRequest /\ EnterRemembered => NothingForgotten
  BY DEF NothingForgotten
<1> QED BY <1>1, RequestsAreFound, EnterNotForgotten, PTL

\* What the host reads back after an OK is not overtaken by what it asked for
\* before, whatever was lost, sent again or answered late.
THEOREM ReadBackStays == Spec => []ReadBackIsFinal
<1>1. IInv => ReadBackIsFinal
  BY DEF IInv, ReadBackIsFinal, FinalInv, NothingFresh, TaskInv
<1> QED BY <1>1, Invariance, PTL

\* A step of the protocol is a step of the promise, or changes nothing of it.
LEMMA OnceStep == IInv /\ [Next]_vars => [Once!Next]_Once!oncevars
<1> SUFFICES ASSUME IInv, [Next]_vars PROVE [Once!Next]_Once!oncevars
  OBVIOUS
<1>0. TypeOK /\ TaskInv /\ LineInv /\ LogInv /\ OkInv /\ FinalInv
  BY DEF IInv
<1>1. UNCHANGED <<issued, log, answer>> => [Once!Next]_Once!oncevars
  BY DEF Once!oncevars
<1>2. CASE Request
  BY <1>2 DEF Request, Once!Issue, Once!Next
<1>3. ASSUME NEW text \in Texts, hpc = "wait", Told(text), UNCHANGED <<issued, log>>,
             text = "ok" => InLog(log, issued)
      PROVE  Once!Next
  <2>1. issued > 0 /\ answer[issued] = "none"
    BY <1>0, <1>3 DEF TaskInv, FinalInv
  <2>2. Once!Tell(text)
    BY <1>3, <2>1 DEF Once!Tell, Told, InLog
  <2> QED BY <2>2 DEF Once!Next, Texts
<1>4. CASE GiveUp
  BY <1>3, <1>4 DEF GiveUp, Texts
<1>5. CASE HostRead
  <2>1. UNCHANGED <<issued, log>> /\ to_host # <<>>
    BY <1>5 DEF HostRead
  <2>2. CASE UNCHANGED answer
    BY <1>1, <2>1, <2>2
  <2>3. CASE hpc = "wait" /\ Head(to_host).req = issued /\ Told(Head(to_host).text)
    <3>1. Head(to_host) = to_host[1] /\ 1 \in 1..Len(to_host) /\ Head(to_host) \in Line
      BY <1>0, <2>1, Taken DEF TypeOK, LineTypes
    <3>2. Head(to_host).text \in Texts
      BY <3>1 DEF Line
    <3>3. issued # 0
      BY <1>0, <2>3, Numbers DEF TaskInv
    <3>4. Head(to_host).text = "ok" => InLog(log, issued)
      BY <1>0, <2>3, <3>1, <3>3 DEF OkInv
    <3> QED BY <1>3, <2>1, <2>3, <3>2, <3>4
  <2> QED BY <1>5, <2>2, <2>3 DEF HostRead
<1>6. ASSUME NEW q \in Requests, q <= issued, Below(log, q), log' = Append(log, q),
             UNCHANGED <<issued, answer>>
      PROVE  Once!Next
  <2>1. q \in 1..issued /\ Once!TakeEffect(q)
    BY <1>0, <1>6, Numbers DEF Once!TakeEffect, Below, Requests
  <2> QED BY <2>1 DEF Once!Next
<1>7. CASE InputCommand
  <2>1. /\ Head(to_dev) = to_dev[1] /\ 1 \in 1..Len(to_dev) /\ Head(to_dev) \in Envelope
        /\ Fresh(Head(to_dev))
    BY <1>0, <1>7, Taken DEF InputCommand, NextLine, TypeOK, LineTypes
  <2>2. Head(to_dev).req \in Requests
    BY <2>1 DEF Envelope, Fresh, Requests
  <2>3. Head(to_dev).req <= issued /\ Below(log, Head(to_dev).req)
    BY <1>0, <2>1 DEF LineInv, LogInv
  <2>4. UNCHANGED <<issued, answer>> /\ log' \in {log, Append(log, Head(to_dev).req)}
    BY <1>7 DEF InputCommand, hostvars
  <2> QED BY <1>1, <1>6, <2>2, <2>3, <2>4
<1>8. CASE ExecuteInSettings \/ ExecuteEnter
  <2>1. UNCHANGED <<issued, answer>>
    BY <1>8, MainFrame DEF Main, hostvars
  <2>2. Below(log, last.req) /\ last.req \in Requests /\ log' = Append(log, last.req)
    BY <1>0, <1>8, Executes DEF ExecuteInSettings, ExecuteEnter
  <2>3. last.req <= issued
    BY <1>0 DEF LineInv
  <2> QED BY <1>6, <2>1, <2>2, <2>3
<1>9. CASE Connect \/ Retry
  BY <1>1, <1>9 DEF Connect, Retry
<1>10. CASE LoseLine \/ Age \/ Boot \/ UNCHANGED vars
  BY <1>1, <1>10, LoseFrame, AgeFrame, BootFrame DEF hostvars, vars
<1>11. CASE Serial /\ ~InputCommand
  <2>1. UNCHANGED log
    BY <1>11 DEF Serial, Ping, Repeat, BootCommand, ControlRequest, SetPending, TakeReply, WaitRunsOut
  <2> QED BY <1>1, <1>11, <2>1, SerialFrame DEF hostvars
<1>12. CASE Main /\ ~(ExecuteInSettings \/ ExecuteEnter)
  <2>1. UNCHANGED log
    BY <1>12 DEF Main, Poll, NothingQueued, Refuse, PollReply, LeaveSplash, Checked, RestartDue,
         GuestSleeps, GuestWakes, Advance
  <2> QED BY <1>1, <1>12, <2>1, MainFrame DEF hostvars
<1> QED
  BY <1>2, <1>4, <1>5, <1>7, <1>8, <1>9, <1>10, <1>11, <1>12, Steps DEF Host

\* AUTOMATION.md's promise is kept: requests take effect in the order in which
\* they were made, each at most once, and OK is said only of one that did.
THEOREM RequestsActOnce == Spec => ActsOnce
<1>1. Init => Once!Init
  BY DEF Init, Once!Init
<1> QED BY <1>1, OnceStep, Invariance, PTL DEF Spec, ActsOnce, Once!Spec
=============================================================================
