------------------------------ MODULE Network ------------------------------
(***************************************************************************)
(* The NAT router and the Ethernet driver.                                 *)
(*                                                                         *)
(* Packets for the guest pass through a queue of pointers into a ring of   *)
(* as many buffers.  Two tasks fill it: the CPU, when a packet the guest   *)
(* writes is answered by the router itself, and net_rx_task, which polls   *)
(* the sockets.  The mutex of the connection table keeps them apart for    *)
(* TCP and UDP but not for ARP and ICMP, nothing keeps EtherInterrupt from *)
(* copying a buffer that is being filled again, and a full queue loses     *)
(* packets.  The guest's TCP, the remote hosts and lwIP are outside: a     *)
(* byte of a stream is its number, and what the guest sends is only told   *)
(* apart by its flags.                                                     *)
(***************************************************************************)
EXTENDS Integers, Sequences, FiniteSets

CONSTANTS
  PACKET_QUEUE_SIZE,
  MAX_NET_CONNECTIONS,
  Ports,           \* local ports the guest uses, one after the other
  Bytes,           \* bytes a remote host sends on a connection
  Segments         \* flags of the segments the guest sends

Slot   == 1..MAX_NET_CONNECTIONS
Buffer == 0..PACKET_QUEUE_SIZE - 1
Port   == 1..Ports
Flag   == {"SYN", "ACK", "FIN", "DATA", "RST"}
Seq0   == 1                      \* "Our initial sequence number"
MaxSeq == Seq0 + Bytes + 2       \* SYN, the bytes, FIN

ASSUME NetworkAssumption ==
  /\ PACKET_QUEUE_SIZE \in Nat \ {0} /\ MAX_NET_CONNECTIONS \in Nat \ {0}
  /\ Ports \in Nat \ {0} /\ Bytes \in Nat
  /\ Segments \subseteq SUBSET Flag

\* Packets for the guest: no port and no number for those that are not of its
\* streams (ARP, ICMP, DHCP, UDP, a bare ACK).  A torn one fails its checksum.
Packet == [kind: {"synack", "data", "fin"}, port: Port, seq: 1..MaxSeq, byte: 0..Bytes]
Other  == [kind |-> "other"]
Torn   == [kind |-> "torn"]
Task   == {"cpu", "rx"}
Filling(t) == [kind |-> t]       \* task t is copying into the buffer
Content == Packet \union {Other, Torn, Filling("cpu"), Filling("rx")}

TcpState == {"SYN_RCVD", "ESTABLISHED", "LAST_ACK", "FIN_WAIT_1", "FIN_WAIT_2",
             "CLOSING", "TIME_WAIT"}
Connection == [state: TcpState, port: Port, seq_out: 1..MaxSeq, idle: BOOLEAN,
               up: BOOLEAN, sent: 0..Bytes, taken: 0..Bytes, closed: BOOLEAN]
Unused == [state |-> "unused", port |-> 0, seq_out |-> 0, idle |-> FALSE,
           up |-> FALSE, sent |-> 0, taken |-> 0, closed |-> FALSE]

VARIABLES
  connections,     \* with the socket of each: connected, sent and taken bytes, end
  conn_mutex,
  rx_packet_queue, packet_buffers, next_buffer,
  out, buf, epc,   \* per task: packets it has to enqueue, its buffer, its place
  rx, polled,      \* net_rx_task, and the slot it polls
  running,         \* net_rx_task_running
  ether_flag,      \* INTFLAG_ETHER
  cpu,             \* the emulation task: the guest, or ether_exit
  irq, held,       \* inside EtherInterrupt; the buffer it has received, or -1
  port, gstate,    \* the guest's TCP: its port, closed, SYN sent or open
  rcv_nxt, got, gend, gfin
                   \* what it expects and has, saw of the end, and closed itself

queuevars == <<rx_packet_queue, packet_buffers, next_buffer>>
taskvars  == <<out, buf, epc>>
rxvars    == <<rx, polled>>
guestvars == <<port, gstate, rcv_nxt, got, gend, gfin>>
irqvars   == <<ether_flag, irq, held>>
exitvars  == <<cpu, running>>
connvars  == <<connections, conn_mutex>>
vars == <<connvars, queuevars, taskvars, rxvars, guestvars, irqvars,
          exitvars>>

ConnType ==
  /\ connections \in [Slot -> Connection \union {Unused}]
  /\ conn_mutex \in Task \union {"free"}
QueueType ==
  /\ rx_packet_queue \in Seq(Buffer) /\ Len(rx_packet_queue) <= PACKET_QUEUE_SIZE
  /\ packet_buffers \in [Buffer -> Content] /\ next_buffer \in Buffer
TaskType ==
  /\ out \in [Task -> Seq(Packet \union {Other})]
  /\ buf \in [Task -> Buffer] /\ epc \in [Task -> {"none", "took", "filling", "filled"}]
RxType ==
  /\ rx \in {"sleep", "polling", "signal", "stopped"}
  /\ polled \in 1..MAX_NET_CONNECTIONS + 1
GuestType ==
  /\ port \in 1..Ports + 1 /\ gstate \in {"closed", "syn_sent", "open"}
  /\ rcv_nxt \in 1..MaxSeq + 1 /\ got \in Seq(1..Bytes)
  /\ gend \in BOOLEAN /\ gfin \in BOOLEAN
IrqType == ether_flag \in BOOLEAN /\ irq \in BOOLEAN /\ held \in Buffer \union {-1}
ExitType == cpu \in {"guest", "stopping", "left", "exited"} /\ running \in BOOLEAN
TypeOK == ConnType /\ QueueType /\ TaskType /\ RxType /\ GuestType /\ IrqType /\ ExitType

\* router_init and ether_init.
Init ==
  /\ connections = [s \in Slot |-> Unused] /\ conn_mutex = "free"
  /\ rx_packet_queue = <<>> /\ packet_buffers = [b \in Buffer |-> Torn] /\ next_buffer = 0
  /\ out = [t \in Task |-> <<>>] /\ buf = [t \in Task |-> 0] /\ epc = [t \in Task |-> "none"]
  /\ rx = "sleep" /\ polled = 1 /\ running = TRUE
  /\ ether_flag = FALSE /\ cpu = "guest" /\ irq = FALSE /\ held = -1
  /\ port = 1 /\ gstate = "closed" /\ rcv_nxt = 1 /\ got = <<>> /\ gend = FALSE /\ gfin = FALSE

-----------------------------------------------------------------------------
(* router_enqueue_packet, in the two tasks. *)

EnqueueOnly == UNCHANGED <<rxvars, guestvars, irqvars, exitvars>>

TakeBuffer(t) ==
  /\ out[t] # <<>> /\ epc[t] = "none"
  /\ buf' = [buf EXCEPT ![t] = next_buffer]
  /\ epc' = [epc EXCEPT ![t] = "took"]
  /\ UNCHANGED <<connvars, queuevars, out>>
  /\ EnqueueOnly

\* The ring moves on before it is known that the queue has room.
StartCopy(t) ==
  /\ epc[t] = "took"
  /\ next_buffer' = (buf[t] + 1) % PACKET_QUEUE_SIZE
  /\ packet_buffers' = [packet_buffers EXCEPT ![buf[t]] = Filling(t)]
  /\ epc' = [epc EXCEPT ![t] = "filling"]
  /\ UNCHANGED <<connvars, rx_packet_queue, out, buf>>
  /\ EnqueueOnly

\* Two copies into one buffer may leave a mixture.
EndCopy(t) ==
  /\ epc[t] = "filling"
  /\ \E content \in {Head(out[t])} \union
                    IF packet_buffers[buf[t]] = Filling(t) THEN {} ELSE {Torn} :
       packet_buffers' = [packet_buffers EXCEPT ![buf[t]] = content]
  /\ epc' = [epc EXCEPT ![t] = "filled"]
  /\ UNCHANGED <<connvars, rx_packet_queue, next_buffer, out, buf>>
  /\ EnqueueOnly

\* xQueueSend without waiting; the handler gives its mutex after its last packet.
SendBuffer(t) ==
  /\ epc[t] = "filled"
  /\ rx_packet_queue' = IF Len(rx_packet_queue) < PACKET_QUEUE_SIZE
                        THEN Append(rx_packet_queue, buf[t]) ELSE rx_packet_queue
  /\ out' = [out EXCEPT ![t] = Tail(out[t])]
  /\ epc' = [epc EXCEPT ![t] = "none"] /\ buf' = [buf EXCEPT ![t] = 0]
  /\ conn_mutex' = IF t = "cpu" /\ conn_mutex = t /\ out'[t] = <<>> THEN "free"
                                                                  ELSE conn_mutex
  /\ UNCHANGED <<connections, packet_buffers, next_buffer>>
  /\ EnqueueOnly

Enqueue(t) == TakeBuffer(t) \/ StartCopy(t) \/ EndCopy(t) \/ SendBuffer(t)

-----------------------------------------------------------------------------
(* Packets the guest writes: router_write_packet, on the CPU. *)

\* The CPU runs the guest, or a protocol handler called by EtherInterrupt.
InGuest == cpu = "guest" /\ out["cpu"] = <<>> /\ held = -1

Find(p) == {s \in Slot : connections[s].state # "unused" /\ connections[s].port = p}
Free    == {s \in Slot : connections[s].state = "unused"}

\* What the handler leaves to be enqueued, under the mutex.
Answer(packets) ==
  /\ out' = [out EXCEPT !["cpu"] = packets]
  /\ conn_mutex' = IF packets = <<>> THEN "free" ELSE "cpu"

Update(s, c) == connections' = [connections EXCEPT ![s] = c]

Control(kind, p, seq) == [kind |-> kind, port |-> p, seq |-> seq, byte |-> 0]

\* A SYN without a connection: a slot, a socket that connects on its own, and
\* the SYN+ACK at once.  Without a slot, or when the socket fails, nothing.
NewConnection(p) ==
  \/ /\ \E s \in Free :
          /\ \A t \in Free : s <= t
          /\ Update(s, [Unused EXCEPT !.state = "SYN_RCVD", !.port = p, !.seq_out = Seq0 + 1])
     /\ Answer(<<Control("synack", p, Seq0)>>)
  \/ UNCHANGED connections /\ Answer(<<>>)

\* The state machine of handle_tcp for a connection in use.
Segment(s, flags) ==
  LET c == [connections[s] EXCEPT !.idle = FALSE]
      To(state, packets) == Update(s, [c EXCEPT !.state = state]) /\ Answer(packets)
      ack  == "ACK" \in flags
      fin  == "FIN" \in flags
      data == IF "DATA" \in flags THEN <<Other>> ELSE <<>>
  IN \/ c.state = "SYN_RCVD" /\ ack /\ To("ESTABLISHED", <<>>)
     \/ c.state = "ESTABLISHED" /\ ~fin /\ To("ESTABLISHED", data)
     \/ /\ c.state = "ESTABLISHED" /\ fin
        /\ Update(s, [c EXCEPT !.state = "LAST_ACK", !.seq_out = @ + 1])
        /\ Answer(data \o <<Other, Control("fin", c.port, c.seq_out)>>)
     \/ c.state = "LAST_ACK" /\ ack /\ Update(s, Unused) /\ Answer(<<>>)
     \/ c.state = "FIN_WAIT_1" /\ fin /\ ack /\ To("TIME_WAIT", <<Other>>)
     \/ c.state = "FIN_WAIT_1" /\ fin /\ ~ack /\ To("CLOSING", <<Other>>)
     \/ c.state = "FIN_WAIT_1" /\ ~fin /\ ack /\ To("FIN_WAIT_2", <<>>)
     \/ c.state = "FIN_WAIT_2" /\ fin /\ To("TIME_WAIT", <<Other>>)
     \/ c.state = "CLOSING" /\ ack /\ To("TIME_WAIT", <<>>)
     \/ /\ \/ c.state \in {"SYN_RCVD", "LAST_ACK", "CLOSING"} /\ ~ack
           \/ c.state = "FIN_WAIT_1" /\ ~fin /\ ~ack
           \/ c.state = "FIN_WAIT_2" /\ ~fin
           \/ c.state = "TIME_WAIT"
        /\ To(c.state, <<>>)

HandleTcp(p, flags) ==
  /\ conn_mutex = "free"
  /\ IF "RST" \in flags
     THEN /\ connections' = [s \in Slot |-> IF s \in Find(p) THEN Unused ELSE connections[s]]
          /\ Answer(<<>>)
     ELSE IF Find(p) # {} THEN \E s \in Find(p) : Segment(s, flags)
     ELSE IF "SYN" \in flags THEN NewConnection(p)
     ELSE UNCHANGED connections /\ Answer(<<>>)

\* What the guest's TCP may send in its state: SYN until it is answered, then
\* ACK, data and FIN on its connection; RST for a port it has given up.
GuestMay(p, flags) ==
  \/ "RST" \in flags /\ p < port
  \/ p = port /\ flags = {"SYN"} /\ gstate \in {"closed", "syn_sent"}
  \/ p = port /\ gstate = "open" /\ flags \intersect {"SYN", "RST"} = {}

\* Without Wi-Fi, memory or, for 100 ms, the mutex the segment is lost.
GuestWrites(p, flags) ==
  /\ InGuest /\ GuestMay(p, flags)
  /\ HandleTcp(p, flags) \/ UNCHANGED <<connvars, out>>
  /\ gstate' = IF flags = {"SYN"} THEN "syn_sent" ELSE gstate
  /\ gfin' = (gfin \/ (p = port /\ "FIN" \in flags))
  /\ UNCHANGED <<queuevars, buf, epc, rxvars, port, rcv_nxt, got, gend, irqvars, exitvars>>

\* ARP, ICMP and DHCP are answered without the mutex.
GuestAsks ==
  /\ InGuest
  /\ out' = [out EXCEPT !["cpu"] = <<Other>>]
  /\ UNCHANGED <<connvars, queuevars, buf, epc, rxvars, guestvars, irqvars,
                 exitvars>>

\* The guest gives up its connection, and opens the next from another port.
GuestLeaves ==
  /\ InGuest /\ gstate # "closed" /\ port <= Ports
  /\ port' = port + 1 /\ gstate' = "closed"
  /\ rcv_nxt' = 1 /\ got' = <<>> /\ gend' = FALSE /\ gfin' = FALSE
  /\ UNCHANGED <<connvars, queuevars, taskvars, rxvars, irqvars, exitvars>>

Guest == (\E p \in Port, flags \in Segments : GuestWrites(p, flags)) \/ GuestAsks
         \/ GuestLeaves

-----------------------------------------------------------------------------
(* The remote hosts and their sockets. *)

Remote(s, change) ==
  /\ connections[s].state # "unused" /\ ~connections[s].closed
  /\ Update(s, change)
  /\ UNCHANGED <<conn_mutex, queuevars, taskvars, rxvars, guestvars, irqvars, exitvars>>

RemoteAccepts(s) == /\ ~connections[s].up
                    /\ Remote(s, [connections[s] EXCEPT !.up = TRUE])
RemoteSends(s)   == /\ connections[s].up /\ connections[s].sent < Bytes
                    /\ Remote(s, [connections[s] EXCEPT !.sent = @ + 1])
RemoteCloses(s)  == /\ connections[s].up
                    /\ Remote(s, [connections[s] EXCEPT !.closed = TRUE])

\* SOCKET_TIMEOUT_MS without activity.
GrowsIdle(s) ==
  /\ connections[s].state # "unused" /\ ~connections[s].idle
  /\ Update(s, [connections[s] EXCEPT !.idle = TRUE])
  /\ UNCHANGED <<conn_mutex, queuevars, taskvars, rxvars, guestvars, irqvars, exitvars>>

-----------------------------------------------------------------------------
(* net_rx_task and router_poll. *)

RxOnly == UNCHANGED <<queuevars, buf, epc, guestvars, exitvars, irq, held>>

\* While Wi-Fi is down or memory critical the task sleeps on.
RxPoll ==
  /\ rx = "sleep" /\ running /\ conn_mutex = "free"
  /\ conn_mutex' = "rx" /\ rx' = "polling"
  /\ UNCHANGED <<connections, polled, out, ether_flag>>
  /\ RxOnly

\* The mutex was not free for 10 ms, or memory is low: only the signal.
RxSkips ==
  /\ rx = "sleep" /\ running
  /\ rx' = "signal"
  /\ UNCHANGED <<connvars, polled, out, ether_flag>>
  /\ RxOnly

Polling == rx = "polling" /\ out["rx"] = <<>> /\ polled \in Slot
Polled(c, packets) ==
  /\ Update(polled, c) /\ out' = [out EXCEPT !["rx"] = packets]
  /\ polled' = polled + 1
  /\ UNCHANGED <<conn_mutex, rx, ether_flag>>
  /\ RxOnly

Data(c) == [kind |-> "data", port |-> c.port, seq |-> c.seq_out, byte |-> c.taken + 1]
Pollable(c) == c.state = "ESTABLISHED" /\ c.up

\* Mutant: the sequence number moves on only if the queue has room.
PollData_IfQueued ==
  LET c == connections[polled] IN
  /\ Polling /\ Pollable(c) /\ c.taken < c.sent
  /\ Polled([c EXCEPT !.taken = @ + 1, !.idle = FALSE,
               !.seq_out = IF Len(rx_packet_queue) < PACKET_QUEUE_SIZE THEN @ + 1 ELSE @],
            <<Data(c)>>)

\* poll_tcp_connection: recv has data,
PollData ==
  LET c == connections[polled] IN
  /\ Polling /\ Pollable(c) /\ c.taken < c.sent
  /\ Polled([c EXCEPT !.taken = @ + 1, !.idle = FALSE, !.seq_out = @ + 1],
            <<Data(c)>>)

\* Mutant: the connection goes on after the end.
PollEnd_Again ==
  LET c == connections[polled] IN
  /\ Polling /\ Pollable(c) /\ c.taken = c.sent /\ c.closed
  /\ Polled([c EXCEPT !.seq_out = @ + 1], <<Control("fin", c.port, c.seq_out)>>)

\* Mutant: no data for now is taken for the end of the stream.
PollEnd_NoData ==
  LET c == connections[polled] IN
  /\ Polling /\ Pollable(c) /\ c.taken = c.sent
  /\ Polled([c EXCEPT !.state = "FIN_WAIT_1", !.seq_out = @ + 1],
            <<Control("fin", c.port, c.seq_out)>>)

\* or the end of the stream,
PollEnd ==
  LET c == connections[polled] IN
  /\ Polling /\ Pollable(c) /\ c.taken = c.sent /\ c.closed
  /\ Polled([c EXCEPT !.state = "FIN_WAIT_1", !.seq_out = @ + 1],
            <<Control("fin", c.port, c.seq_out)>>)

\* or nothing; or the slot is a UDP socket, with an answer.
PollNothing ==
  LET c == connections[polled] IN
  /\ Polling /\ ~(Pollable(c) /\ (c.taken < c.sent \/ c.closed))
  /\ \E packets \in {<<>>} \union IF c = Unused THEN {<<Other>>} ELSE {} : Polled(c, packets)

\* Mutant: only open connections expire.
EndPoll_Open(cleanup) ==
  /\ rx = "polling" /\ out["rx"] = <<>> /\ polled \notin Slot
  /\ connections' = [s \in Slot |-> IF /\ cleanup /\ connections[s].idle
                                       /\ connections[s].state = "ESTABLISHED"
                                    THEN Unused ELSE connections[s]]
  /\ conn_mutex' = "free" /\ rx' = "signal" /\ polled' = 1
  /\ UNCHANGED <<out, ether_flag>>
  /\ RxOnly

\* Every five seconds connections without activity are freed.
EndPoll(cleanup) ==
  /\ rx = "polling" /\ out["rx"] = <<>> /\ polled \notin Slot
  /\ connections' = [s \in Slot |-> IF cleanup /\ connections[s].idle THEN Unused
                                                                    ELSE connections[s]]
  /\ conn_mutex' = "free" /\ rx' = "signal" /\ polled' = 1
  /\ UNCHANGED <<out, ether_flag>>
  /\ RxOnly

\* Mutant: without a connection there is nothing to signal.
RxSignal_Connected ==
  /\ rx = "signal"
  /\ ether_flag' = (ether_flag \/ (rx_packet_queue # <<>> /\ Free # Slot))
  /\ rx' = "sleep"
  /\ UNCHANGED <<connvars, polled, out>>
  /\ RxOnly

\* SetInterruptFlagIfNew, whenever packets are waiting.
RxSignal ==
  /\ rx = "signal"
  /\ ether_flag' = (ether_flag \/ rx_packet_queue # <<>>)
  /\ rx' = "sleep"
  /\ UNCHANGED <<connvars, polled, out>>
  /\ RxOnly

RxStops ==
  /\ rx = "sleep" /\ ~running
  /\ rx' = "stopped"
  /\ UNCHANGED <<connvars, polled, out, ether_flag>>
  /\ RxOnly

NetRxTask == RxPoll \/ RxSkips \/ PollData \/ PollEnd \/ PollNothing
             \/ (\E cleanup \in BOOLEAN : EndPoll(cleanup)) \/ RxSignal \/ RxStops

-----------------------------------------------------------------------------
(* EtherInterrupt and ether_exit, on the CPU. *)

CpuOnly == UNCHANGED <<connvars, taskvars, rxvars>>

EtherInterrupt ==
  /\ InGuest /\ ~irq /\ ether_flag
  /\ ether_flag' = FALSE
  /\ irq' = (rx_packet_queue # <<>>)
  /\ UNCHANGED <<queuevars, held, guestvars, exitvars>>
  /\ CpuOnly

\* router_dequeue_packet: the pointer leaves the queue,
Receive ==
  /\ InGuest /\ irq /\ rx_packet_queue # <<>>
  /\ held' = Head(rx_packet_queue) /\ rx_packet_queue' = Tail(rx_packet_queue)
  /\ UNCHANGED <<packet_buffers, next_buffer, ether_flag, irq, guestvars, exitvars>>
  /\ CpuOnly

\* The guest's TCP takes the answer to its SYN, and then what is next in order.
Accepts(p) ==
  LET opens == gstate = "syn_sent" /\ p.kind = "synack"
      next  == gstate = "open" /\ ~gend /\ p.kind # "synack" /\ p.seq = rcv_nxt
  IN /\ p \in Packet /\ p.port = port /\ (opens \/ next)
     /\ gstate' = "open"
     /\ rcv_nxt' = p.seq + 1
     /\ got' = IF p.kind = "data" THEN Append(got, p.byte) ELSE got
     /\ gend' = (p.kind = "fin")
     /\ UNCHANGED <<port, gfin>>

\* and only then its buffer is copied, and passed to the protocol handler; the
\* packet is lost without one, or when the guest's TCP has no use for it.
Deliver ==
  /\ held # -1 /\ cpu = "guest"
  /\ Accepts(packet_buffers[held]) \/ UNCHANGED guestvars
  /\ held' = -1
  /\ UNCHANGED <<queuevars, ether_flag, irq, exitvars>>
  /\ CpuOnly

EndInterrupt ==
  /\ InGuest /\ irq /\ rx_packet_queue = <<>>
  /\ irq' = FALSE
  /\ UNCHANGED <<queuevars, ether_flag, held, guestvars, exitvars>>
  /\ CpuOnly

ExitStop ==
  /\ InGuest /\ ~irq
  /\ running' = FALSE /\ cpu' = "stopping"
  /\ UNCHANGED <<queuevars, irqvars, guestvars>>
  /\ CpuOnly

\* Mutant: the router goes without waiting for the task.
ExitRouter_NoWait ==
  /\ cpu = "stopping"
  /\ connections' = [s \in Slot |-> Unused]
  /\ cpu' = "exited"
  /\ UNCHANGED <<conn_mutex, taskvars, rxvars, queuevars, irqvars, guestvars, running>>

\* The task has stopped: router_exit.
ExitRouter ==
  /\ cpu = "stopping" /\ rx = "stopped"
  /\ connections' = [s \in Slot |-> Unused]
  /\ cpu' = "exited"
  /\ UNCHANGED <<conn_mutex, taskvars, rxvars, queuevars, irqvars, guestvars, running>>

\* It has not within two seconds: the router is left running.
ExitLeaves ==
  /\ cpu = "stopping" /\ rx # "stopped"
  /\ cpu' = "left"
  /\ UNCHANGED <<queuevars, irqvars, guestvars, running>>
  /\ CpuOnly

Cpu == EtherInterrupt \/ Receive \/ Deliver \/ EndInterrupt \/ ExitStop \/ ExitRouter
       \/ ExitLeaves

External == \E s \in Slot : RemoteAccepts(s) \/ RemoteSends(s) \/ RemoteCloses(s)
                            \/ GrowsIdle(s)

Next == (\E t \in Task : Enqueue(t)) \/ Guest \/ External \/ NetRxTask \/ Cpu

Spec == Init /\ [][Next]_vars

\* Every task goes on; memory, Wi-Fi and the mutex let the sockets be polled and
\* connections be cleaned up again and again; the CPU comes to serve a raised
\* interrupt, however much the guest sends.
Fairness ==
  /\ \A t \in Task : WF_vars(Enqueue(t))
  /\ SF_vars(RxPoll) /\ WF_vars(PollData \/ PollEnd \/ PollNothing)
  /\ WF_vars(\E cleanup \in BOOLEAN : EndPoll(cleanup)) /\ SF_vars(EndPoll(TRUE))
  /\ WF_vars(RxSignal) /\ WF_vars(RxStops)
  /\ SF_vars(EtherInterrupt) /\ SF_vars(Receive) /\ WF_vars(Deliver)
  /\ \A s \in Slot : WF_vars(GrowsIdle(s))

LiveSpec == Spec /\ Fairness

-----------------------------------------------------------------------------
(* Properties. *)

\* Packets are lost, delivered twice or torn when the queue is full, but the
\* guest never takes a byte of a stream for another: what it has accepted are
\* the first bytes the remote host sent.
GuestStream == \A i \in DOMAIN got : got[i] = i

\* The guest sees the end of a stream it has not closed itself only when it has
\* every byte the remote host sent: a page cut short is not taken for whole.
EndIsWhole ==
  gend /\ ~gfin => \A s \in Find(port) : Len(got) = connections[s].sent

\* The router is torn down only after net_rx_task has ended.
RouterLive == cpu = "exited" => rx = "stopped" /\ out["rx"] = <<>>

\* A packet in the queue reaches the guest: also the one the CPU itself has put
\* there, which raises no interrupt.
Delivered == rx_packet_queue # <<>> ~> held # -1 \/ cpu # "guest"

\* However a connection ends or hangs, its slot becomes free when the guest is
\* silent.
SlotsFreed ==
  <>[][~\E p \in Port, flags \in Segments : GuestWrites(p, flags)]_vars =>
    <>[](cpu # "guest" \/ Free = Slot)
=============================================================================
