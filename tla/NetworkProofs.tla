--------------------------- MODULE NetworkProofs ---------------------------
(***************************************************************************)
(* Theorems about Network: the guest takes no byte for another and no cut  *)
(* page for a whole one, and the router outlives the task that polls it.   *)
(*                                                                         *)
(* None of these is inductive.  They rest on what is said of the packets   *)
(* that are still in a buffer or about to be copied into one (OnTheWay):   *)
(* each agrees with its number, and the end of a stream with all that was  *)
(* sent; and on the table of connections, whose numbers agree with what    *)
(* was taken from the sockets and which has one entry for a port (Table).  *)
(***************************************************************************)
EXTENDS Network, TLAPS

Used(c) == c.state # "unused"

\* The numbers of a connection agree with what it has taken from its socket.
Numbered(c) == Used(c) =>
  /\ c.taken <= c.sent
  /\ c.state \in {"SYN_RCVD", "ESTABLISHED"} => c.seq_out = Seq0 + 1 + c.taken
  /\ c.state \notin {"SYN_RCVD", "ESTABLISHED"} => c.seq_out = Seq0 + 2 + c.taken

\* A connection belongs to a port the guest has used, and is established only
\* when the guest's TCP, at port pt in state gs, is.
Placed(c, pt, gs) == Used(c) =>
  /\ c.port <= pt
  /\ c.port = pt /\ c.state # "SYN_RCVD" => gs = "open"

Table(conns, pt, gs) ==
  /\ \A s \in Slot : Numbered(conns[s]) /\ Placed(conns[s], pt, gs)
  /\ \A s, t \in Slot : Used(conns[s]) /\ Used(conns[t]) /\ conns[s].port = conns[t].port
                          => s = t

\* What a slot may become, but for a new connection.
Follows(c, d) == Used(d) =>
  /\ Used(c) /\ d.port = c.port
  /\ c.closed => d.closed /\ d.sent = c.sent
Evolves(conns, then) == \A s \in Slot : Follows(conns[s], then[s])

\* A packet on its way says what its number says; the end of a stream that the
\* guest has not closed comes after all of it.
Sound(p, conns, pt, gs, closes) == p \in Packet =>
  /\ p.kind = "synack" => p.seq = Seq0
  /\ p.kind = "data" => p.byte = p.seq - Seq0
  /\ p.kind = "fin" =>
       /\ p.port <= pt
       /\ p.port = pt =>
            /\ gs = "open"
            /\ ~closes => \A s \in Slot : Used(conns[s]) /\ conns[s].port = pt
                            => conns[s].closed /\ p.seq = Seq0 + 1 + conns[s].sent

OnTheWay ==
  /\ \A t \in Task : \A i \in 1..Len(out[t]) :
       Sound(out[t][i], connections, port, gstate, gfin)
  /\ \A b \in Buffer : Sound(packet_buffers[b], connections, port, gstate, gfin)

Copying == \A t \in Task : epc[t] # "none" => out[t] # <<>>

\* The guest's TCP has what lies before the number it expects.
Received ==
  /\ gstate # "open" => got = <<>> /\ ~gend
  /\ gstate = "open" /\ ~gend => rcv_nxt = Seq0 + 1 + Len(got)
  /\ \A i \in 1..Len(got) : got[i] = i
  /\ gend /\ ~gfin => \A s \in Slot : Used(connections[s]) /\ connections[s].port = port
                        => connections[s].closed /\ Len(got) = connections[s].sent

Stopping ==
  /\ out["rx"] # <<>> => rx = "polling"
  /\ cpu = "exited" => rx = "stopped"

IInv == /\ TypeOK /\ Table(connections, port, gstate) /\ OnTheWay /\ Copying /\ Received
        /\ Stopping

-----------------------------------------------------------------------------
(* The table of connections. *)

Record == Connection \union {Unused}

LEMMA Fields ==
  ASSUME NEW c \in Record, NetworkAssumption
  PROVE  /\ Used(c) <=> c \in Connection
         /\ Used(c) => c.state \in TcpState /\ c.port \in Port /\ c.seq_out \in 1..MaxSeq
                       /\ c.taken \in 0..Bytes /\ c.sent \in 0..Bytes
                       /\ c.up \in BOOLEAN /\ c.closed \in BOOLEAN /\ c.idle \in BOOLEAN
         /\ ~Used(Unused)
  BY DEF Record, Connection, Unused, Used, TcpState

\* One slot changes to what it may become, or is newly taken by a port nobody uses.
LEMMA OneSlot ==
  ASSUME NEW conns \in [Slot -> Record], NEW s \in Slot, NEW d \in Record, NEW pt, NEW gs,
         Table(conns, pt, gs), Numbered(d), Placed(d, pt, gs),
         \/ Follows(conns[s], d)
         \/ \A t \in Slot : Used(conns[t]) => conns[t].port # d.port
  PROVE  LET then == [conns EXCEPT ![s] = d]
         IN /\ then \in [Slot -> Record] /\ Table(then, pt, gs)
            /\ Follows(conns[s], d) => Evolves(conns, then)
  BY DEF Table, Follows, Evolves

\* Slots are freed.
LEMMA SlotsFree ==
  ASSUME NEW conns \in [Slot -> Record], NEW freed \in SUBSET Slot, NEW pt, NEW gs,
         Table(conns, pt, gs), NetworkAssumption
  PROVE  LET then == [s \in Slot |-> IF s \in freed THEN Unused ELSE conns[s]]
         IN then \in [Slot -> Record] /\ Table(then, pt, gs) /\ Evolves(conns, then)
<1>1. ~Used(Unused) /\ Unused \in Record
  BY DEF Used, Unused, Record
<1> QED BY <1>1 DEF Table, Follows, Evolves, Numbered, Placed

\* The guest's TCP opens.
LEMMA TableOpens ==
  ASSUME NEW conns, NEW pt, NEW gs, NEW hs, Table(conns, pt, gs), gs = "open" => hs = "open"
  PROVE  Table(conns, pt, hs)
  BY DEF Table, Placed

\* A packet stays sound while its connection evolves.
LEMMA Kept ==
  ASSUME NEW conns, NEW then, NEW pt, NEW gs, NEW hs, NEW closes, NEW closed,
         gs = "open" => Evolves(conns, then) /\ hs = "open", closes => closed,
         NEW p, Sound(p, conns, pt, gs, closes)
  PROVE  Sound(p, then, pt, hs, closed)
  BY DEF Sound, Evolves, Follows

-----------------------------------------------------------------------------
(* Every step keeps the table, and lets a connection of an open port evolve. *)

Kind(c) == c.state \in {"SYN_RCVD", "ESTABLISHED"}

\* A connection moves on, or its socket does, without new numbers.
LEMMA Moves ==
  ASSUME NEW c \in Connection, NEW d \in Connection, Numbered(c), Placed(c, port, gstate),
         d.port = c.port, d.seq_out = c.seq_out, d.taken = c.taken, Kind(d) <=> Kind(c),
         d.sent >= c.sent, c.closed => d.closed /\ d.sent = c.sent,
         d.state = c.state \/ (d.port = port /\ d.state # "SYN_RCVD" => gstate = "open")
  PROVE  d \in Record /\ Numbered(d) /\ Placed(d, port, gstate) /\ Follows(c, d)
<1>1. /\ c.taken \in Int /\ c.sent \in Int /\ d.sent \in Int /\ c.taken <= c.sent
      /\ Used(c) /\ c.state \in TcpState /\ d.state \in TcpState
  BY DEF Connection, Used, Numbered, TcpState
<1> QED BY <1>1 DEF Record, Numbered, Placed, Follows, Used, Kind

\* There is a number for what an established connection sends.
LEMMA Room ==
  ASSUME NEW c \in Connection, Numbered(c), c.state = "ESTABLISHED", NetworkAssumption
  PROVE  /\ c.seq_out = Seq0 + 1 + c.taken /\ c.seq_out + 1 \in 1..MaxSeq
         /\ c.taken < c.sent => c.taken + 1 \in 0..Bytes
  BY DEF Connection, Used, Numbered, Seq0, MaxSeq, NetworkAssumption

\* It sends its FIN, or a byte from its socket.
LEMMA Sends ==
  ASSUME NEW c \in Connection, NEW d \in Connection, Numbered(c), Placed(c, port, gstate),
         c.state = "ESTABLISHED", d.port = c.port, d.seq_out = c.seq_out + 1,
         d.sent = c.sent, d.closed = c.closed,
         \/ d.state \in {"LAST_ACK", "FIN_WAIT_1"} /\ d.taken = c.taken
         \/ d.state = "ESTABLISHED" /\ d.taken = c.taken + 1 /\ c.taken < c.sent
  PROVE  d \in Record /\ Numbered(d) /\ Placed(d, port, gstate) /\ Follows(c, d)
<1>1. c.taken \in Int /\ c.sent \in Int /\ Used(c) /\ Used(d) /\ c.taken <= c.sent
  BY DEF Connection, Used, Numbered, TcpState
<1>2. c.seq_out = Seq0 + 1 + c.taken
  BY DEF Numbered, Used
<1> QED BY <1>1, <1>2 DEF Record, Numbered, Placed, Follows, Used, Seq0

\* What a step does to the table, and to it and the guest's TCP.
TableHolds ==
  /\ ConnType' /\ Table(connections', port, gstate)
  /\ gstate = "open" => Evolves(connections, connections')
TableKept ==
  /\ ConnType' /\ Table(connections', port', gstate')
  /\ port' = port /\ gstate = "open" => gstate' = "open" /\ Evolves(connections, connections')

LEMMA WithGuest ==
  ASSUME TableHolds, port' = port, gstate = "open" => gstate' = "open"
  PROVE  TableKept
<1>1. Table(connections', port, gstate')
  BY TableOpens DEF TableHolds
<1> QED BY <1>1 DEF TableHolds, TableKept

\* One slot moves on.
LEMMA SlotMoves ==
  ASSUME IInv, NEW s \in Slot, NEW d \in Record, Update(s, d), Numbered(d),
         Placed(d, port, gstate), Follows(connections[s], d),
         conn_mutex' \in Task \union {"free"}
  PROVE  TableHolds
<1>1. connections \in [Slot -> Record] /\ Table(connections, port, gstate)
  BY DEF IInv, TypeOK, ConnType, Record
<1> QED BY <1>1, OneSlot DEF TableHolds, ConnType, Update, Record

\* One slot is taken while the guest's TCP is not open.
LEMMA SlotTaken ==
  ASSUME IInv, NEW s \in Slot, NEW d \in Record, Update(s, d), Numbered(d),
         Placed(d, port, gstate), gstate # "open", Find(d.port) = {},
         conn_mutex' \in Task \union {"free"}
  PROVE  TableHolds
<1>1. connections \in [Slot -> Record] /\ Table(connections, port, gstate)
  BY DEF IInv, TypeOK, ConnType, Record
<1>2. \A t \in Slot : Used(connections[t]) => connections[t].port # d.port
  BY DEF Find, Used
<1> QED BY <1>1, <1>2, OneSlot DEF TableHolds, ConnType, Update, Record

\* Slots are freed.
LEMMA SlotsLeave ==
  ASSUME IInv, NEW freed \in SUBSET Slot, NetworkAssumption,
         connections' = [s \in Slot |-> IF s \in freed THEN Unused ELSE connections[s]],
         conn_mutex' \in Task \union {"free"}
  PROVE  TableHolds
<1>1. connections \in [Slot -> Record] /\ Table(connections, port, gstate)
  BY DEF IInv, TypeOK, ConnType, Record
<1> QED BY <1>1, SlotsFree DEF TableHolds, ConnType, Record

\* None changes.
LEMMA TableStays ==
  ASSUME IInv, UNCHANGED connections, conn_mutex' \in Task \union {"free"}
  PROVE  TableHolds
  BY DEF TableHolds, IInv, TypeOK, ConnType, Evolves, Follows

\* A connection in use, in full.
LEMMA InUse ==
  ASSUME IInv, NEW s \in Slot, Used(connections[s]), NetworkAssumption
  PROVE  /\ connections[s] \in Connection /\ Numbered(connections[s])
         /\ Placed(connections[s], port, gstate)
<1>1. connections[s] \in Record
  BY DEF IInv, TypeOK, ConnType, Record
<1> QED BY <1>1, Fields DEF IInv, Table

LEMMA MutexFollows ==
  ASSUME NEW packets, Answer(packets)
  PROVE  conn_mutex' \in Task \union {"free"}
  BY DEF Answer, Task

\* handle_tcp on a connection in use, from a guest whose TCP is open there.
LEMMA SegmentHolds ==
  ASSUME IInv, NetworkAssumption, NEW s \in Slot, Used(connections[s]), NEW flags,
         gstate = "open" \/ flags = {"SYN"}, Segment(s, flags)
  PROVE  TableHolds
<1> DEFINE c == connections[s]
           i == [c EXCEPT !.idle = FALSE]
           To(state) == [i EXCEPT !.state = state]
<1>1. c \in Connection /\ Numbered(c) /\ Placed(c, port, gstate)
  BY InUse
<1>2. /\ i \in Connection /\ i.state = c.state /\ i.port = c.port /\ i.seq_out = c.seq_out
      /\ i.taken = c.taken /\ i.sent = c.sent /\ i.closed = c.closed
  BY <1>1 DEF Connection
<1>3. \A state \in TcpState :
        /\ To(state) \in Connection /\ To(state).state = state /\ To(state).port = c.port
        /\ To(state).seq_out = c.seq_out /\ To(state).taken = c.taken
        /\ To(state).sent = c.sent /\ To(state).closed = c.closed
  <2> HIDE DEF i
  <2> QED BY <1>2 DEF Connection
<1>4. c.sent \in Int /\ c.state \in TcpState
  BY <1>1 DEF Connection
<1> DEFINE Fine(d) == Numbered(d) /\ Placed(d, port, gstate) /\ Follows(c, d)
<1>5. \A state \in TcpState :
        (Kind(To(state)) <=> Kind(c)) /\ (state = c.state \/ gstate = "open")
          => To(state) \in Record /\ Fine(To(state))
  <2> SUFFICES ASSUME NEW state \in TcpState, Kind(To(state)) <=> Kind(c),
                      state = c.state \/ gstate = "open"
               PROVE  To(state) \in Record /\ Fine(To(state))
    OBVIOUS
  <2>1. /\ To(state) \in Connection /\ To(state).state = state /\ To(state).port = c.port
        /\ To(state).seq_out = c.seq_out /\ To(state).taken = c.taken
        /\ To(state).sent = c.sent /\ To(state).closed = c.closed
    BY <1>3
  <2> HIDE DEF To, c, i
  <2> QED BY <1>1, <1>4, <2>1, Moves
<1>6. ASSUME NEW state \in TcpState, NEW packets, Update(s, To(state)), Answer(packets),
             Kind(To(state)) <=> Kind(c), state = c.state \/ gstate = "open"
      PROVE  TableHolds
  BY <1>5, <1>6, MutexFollows, SlotMoves
<1>7. ASSUME NEW packets, Update(s, Unused), Answer(packets)
      PROVE  TableHolds
  <2>1. Unused \in Record /\ Numbered(Unused) /\ Placed(Unused, port, gstate)
          /\ Follows(connections[s], Unused)
    BY DEF Unused, Record, Numbered, Placed, Follows, Used
  <2> QED BY <1>7, <2>1, MutexFollows, SlotMoves
<1>8. ASSUME NEW packets, c.state = "ESTABLISHED", Answer(packets),
             Update(s, [i EXCEPT !.state = "LAST_ACK", !.seq_out = @ + 1])
      PROVE  TableHolds
  <2> DEFINE d == [i EXCEPT !.state = "LAST_ACK", !.seq_out = @ + 1]
  <2>1. c.seq_out + 1 \in 1..MaxSeq
    BY <1>1, <1>8, Room
  <2>2. /\ d \in Connection /\ d.state = "LAST_ACK" /\ d.port = c.port
        /\ d.seq_out = c.seq_out + 1 /\ d.taken = c.taken
        /\ d.sent = c.sent /\ d.closed = c.closed
    <3> HIDE DEF i
    <3> QED BY <1>2, <2>1 DEF Connection, TcpState
  <2>3. Update(s, d)
    BY <1>8
  <2> HIDE DEF d, c, i
  <2>4. d \in Record /\ Fine(d)
    BY <1>1, <1>8, <2>2, Sends
  <2> QED BY <1>8, <2>3, <2>4, MutexFollows, SlotMoves DEF c
<1> HIDE DEF Fine
<1> DEFINE Goes(state) == \E packets : Update(s, To(state)) /\ Answer(packets)
<1>9. \/ Goes(c.state)
      \/ gstate = "open" /\ \E state \in TcpState : (Kind(To(state)) <=> Kind(c)) /\ Goes(state)
      \/ \E packets : Update(s, Unused) /\ Answer(packets)
      \/ \E packets : /\ c.state = "ESTABLISHED" /\ Answer(packets)
                     /\ Update(s, [i EXCEPT !.state = "LAST_ACK", !.seq_out = @ + 1])
  <2> DEFINE data == IF "DATA" \in flags THEN <<Other>> ELSE <<>>
  <2>1. CASE c.state = "SYN_RCVD" /\ "ACK" \in flags
    <3>1. Goes("ESTABLISHED") /\ gstate = "open"
      BY <1>2, <2>1 DEF Segment
    <3>2. "ESTABLISHED" \in TcpState
      BY DEF TcpState
    <3>3. Kind(To("ESTABLISHED")) /\ Kind(c)
      BY <1>3, <2>1, <3>2 DEF Kind
    <3> HIDE DEF Goes, To, c
    <3> QED BY <3>1, <3>2, <3>3
  <2>2. CASE c.state = "ESTABLISHED"
    BY <1>2, <2>2 DEF Segment
  <2>3. CASE c.state = "LAST_ACK" /\ "ACK" \in flags
    BY <1>2, <2>3 DEF Segment
  <2>4. CASE c.state \in {"FIN_WAIT_1", "FIN_WAIT_2", "CLOSING"} /\ gstate = "open"
    <3>1. \/ Goes("TIME_WAIT") \/ Goes("CLOSING") \/ Goes("FIN_WAIT_2") \/ Goes(c.state)
      BY <1>2, <2>4 DEF Segment
    <3>2. {"TIME_WAIT", "CLOSING", "FIN_WAIT_2"} \subseteq TcpState
      BY DEF TcpState
    <3>3. \A state \in {"TIME_WAIT", "CLOSING", "FIN_WAIT_2"} : ~Kind(To(state)) /\ ~Kind(c)
      BY <1>3, <2>4, <3>2 DEF Kind
    <3> HIDE DEF Goes, To, c
    <3> QED BY <2>4, <3>1, <3>2, <3>3
  <2>5. CASE c.state \in {"FIN_WAIT_1", "FIN_WAIT_2", "CLOSING"} /\ flags = {"SYN"}
    BY <1>2, <2>5 DEF Segment
  <2>6. CASE c.state \in {"SYN_RCVD", "LAST_ACK"} /\ "ACK" \notin flags
    BY <1>2, <2>6 DEF Segment
  <2>7. CASE c.state = "TIME_WAIT"
    BY <1>2, <2>7 DEF Segment
  <2> QED
    BY <1>4, <2>1, <2>2, <2>3, <2>4, <2>5, <2>6, <2>7 DEF TcpState
<1>10. Kind(To(c.state)) <=> Kind(c)
  BY <1>3, <1>4 DEF Kind
<1>11. CASE Goes(c.state)
  BY <1>4, <1>6, <1>10, <1>11
<1> HIDE DEF To
<1> QED
  BY <1>6, <1>7, <1>8, <1>9, <1>11

\* handle_tcp, for what the guest may send.
LEMMA TcpHolds ==
  ASSUME IInv, NetworkAssumption, NEW p \in Port, NEW flags, GuestMay(p, flags),
         HandleTcp(p, flags)
  PROVE  TableHolds
<1>1. CASE "RST" \in flags
  <2>1. /\ connections' = [s \in Slot |-> IF s \in Find(p) THEN Unused ELSE connections[s]]
        /\ Answer(<<>>)
    BY <1>1 DEF HandleTcp
  <2>2. Find(p) \in SUBSET Slot
    BY DEF Find
  <2> QED BY <2>1, <2>2, SlotsLeave, MutexFollows
<1>2. ASSUME "RST" \notin flags, NEW s \in Find(p), Segment(s, flags)
      PROVE  TableHolds
  <2>1. s \in Slot /\ Used(connections[s]) /\ (gstate = "open" \/ flags = {"SYN"})
    BY <1>2 DEF Find, Used, GuestMay
  <2> QED BY <1>2, <2>1, SegmentHolds
<1>3. ASSUME NEW s \in Free, Find(p) = {}, p = port, gstate # "open",
             Update(s, [Unused EXCEPT !.state = "SYN_RCVD", !.port = p, !.seq_out = Seq0 + 1]),
             Answer(<<Control("synack", p, Seq0)>>)
      PROVE  TableHolds
  <2> DEFINE d == [Unused EXCEPT !.state = "SYN_RCVD", !.port = p, !.seq_out = Seq0 + 1]
  <2>1. /\ d \in Record /\ d.state = "SYN_RCVD" /\ d.port = p /\ d.seq_out = Seq0 + 1
        /\ d.taken = 0 /\ d.sent = 0
    <3>1. Unused \in [state: {"unused"}, port: {0}, seq_out: {0}, idle: BOOLEAN, up: BOOLEAN,
                      sent: {0}, taken: {0}, closed: BOOLEAN]
      BY DEF Unused
    <3>2. Seq0 + 1 \in 1..MaxSeq /\ 0 \in 0..Bytes /\ "SYN_RCVD" \in TcpState
      BY DEF TcpState, Seq0, MaxSeq, NetworkAssumption
    <3> QED BY <3>1, <3>2 DEF Record, Connection
  <2>2. Update(s, d) /\ s \in Slot
    BY <1>3 DEF Free
  <2>3. port \in Int
    BY DEF IInv, TypeOK, GuestType, NetworkAssumption
  <2> HIDE DEF d
  <2>4. Numbered(d) /\ Placed(d, port, gstate)
    BY <1>3, <2>1, <2>3 DEF Numbered, Placed, Seq0
  <2> QED BY <1>3, <2>1, <2>2, <2>4, SlotTaken, MutexFollows
<1>4. ASSUME UNCHANGED connections, Answer(<<>>) PROVE TableHolds
  BY <1>4, TableStays, MutexFollows
<1>5. CASE "RST" \notin flags /\ Find(p) = {} /\ "SYN" \in flags
  <2>1. p = port /\ gstate # "open"
    BY <1>5 DEF GuestMay
  <2> QED BY <1>3, <1>4, <1>5, <2>1 DEF HandleTcp, NewConnection
<1> QED
  BY <1>1, <1>2, <1>4, <1>5 DEF HandleTcp

LEMMA TableStep == NetworkAssumption /\ IInv /\ [Next]_vars => TableKept
<1> SUFFICES ASSUME NetworkAssumption, IInv, [Next]_vars PROVE TableKept
  OBVIOUS
<1>0. conn_mutex \in Task \union {"free"}
  BY DEF IInv, TypeOK, ConnType
<1>1. ASSUME NEW t \in Task, Enqueue(t) PROVE TableKept
  <2>1. UNCHANGED <<connections, port, gstate>> /\ conn_mutex' \in Task \union {"free"}
    BY <1>0, <1>1 DEF Enqueue, TakeBuffer, StartCopy, EndCopy, SendBuffer, EnqueueOnly,
       connvars, guestvars
  <2> QED BY <2>1, TableStays, WithGuest
<1>2. ASSUME NEW p \in Port, NEW flags \in Segments, GuestWrites(p, flags) PROVE TableKept
  <2>1. GuestMay(p, flags) /\ port' = port /\ (gstate = "open" => gstate' = "open")
    BY <1>2 DEF GuestWrites, GuestMay, guestvars
  <2>2. TableHolds
    BY <1>0, <1>2, <2>1, TcpHolds, TableStays DEF GuestWrites, connvars
  <2> QED BY <2>1, <2>2, WithGuest
<1>3. CASE GuestAsks
  BY <1>0, <1>3, TableStays, WithGuest DEF GuestAsks, connvars, guestvars
<1>4. CASE GuestLeaves
  <2>1. UNCHANGED <<connections, conn_mutex>> /\ port' = port + 1 /\ port \in Int
    BY <1>4 DEF GuestLeaves, connvars, IInv, TypeOK, GuestType, NetworkAssumption
  <2>2. \A s \in Slot : Used(connections[s]) => connections[s].port \in Int
    BY InUse DEF Connection, Port, NetworkAssumption
  <2>3. Table(connections, port + 1, gstate')
    BY <2>1, <2>2 DEF IInv, Table, Placed
  <2> QED BY <2>1, <2>3 DEF TableKept, IInv, TypeOK, ConnType
<1>5. ASSUME NEW s \in Slot, RemoteAccepts(s) \/ RemoteSends(s) \/ RemoteCloses(s) \/ GrowsIdle(s)
      PROVE  TableKept
  <2> DEFINE c == connections[s]
  <2>1. /\ UNCHANGED <<conn_mutex, port, gstate>> /\ Used(c)
        /\ \/ ~c.closed /\ Update(s, [c EXCEPT !.up = TRUE])
           \/ ~c.closed /\ c.sent < Bytes /\ Update(s, [c EXCEPT !.sent = @ + 1])
           \/ ~c.closed /\ Update(s, [c EXCEPT !.closed = TRUE])
           \/ Update(s, [c EXCEPT !.idle = TRUE])
    BY <1>5 DEF RemoteAccepts, RemoteSends, RemoteCloses, GrowsIdle, Remote, Used, guestvars
  <2>2. c \in Connection /\ Numbered(c) /\ Placed(c, port, gstate)
    BY <2>1, InUse
  <2>3. c.sent \in 0..Bytes
    BY <2>2 DEF Connection
  <2>4. PICK d \in Connection :
          /\ Update(s, d) /\ d.state = c.state /\ d.port = c.port /\ d.seq_out = c.seq_out
          /\ d.taken = c.taken /\ d.sent >= c.sent /\ (c.closed => d.closed /\ d.sent = c.sent)
    <3> HIDE DEF c
    <3>1. CASE Update(s, [c EXCEPT !.up = TRUE])
      <4> DEFINE d == [c EXCEPT !.up = TRUE]
      <4>1. /\ d \in Connection /\ d.state = c.state /\ d.port = c.port
            /\ d.seq_out = c.seq_out /\ d.taken = c.taken /\ d.sent = c.sent
            /\ c.closed => d.closed
        BY <2>2 DEF Connection
      <4>2. Update(s, d)
        BY <3>1
      <4> HIDE DEF d
      <4> QED BY <2>3, <4>1, <4>2
    <3>2. CASE ~c.closed /\ c.sent < Bytes /\ Update(s, [c EXCEPT !.sent = @ + 1])
      BY <2>2, <2>3, <3>2 DEF Connection, NetworkAssumption
    <3>3. CASE Update(s, [c EXCEPT !.closed = TRUE])
      <4> DEFINE d == [c EXCEPT !.closed = TRUE]
      <4>1. /\ d \in Connection /\ d.state = c.state /\ d.port = c.port
            /\ d.seq_out = c.seq_out /\ d.taken = c.taken /\ d.sent = c.sent
            /\ c.closed => d.closed
        BY <2>2 DEF Connection
      <4>2. Update(s, d)
        BY <3>3
      <4> HIDE DEF d
      <4> QED BY <2>3, <4>1, <4>2
    <3>4. CASE Update(s, [c EXCEPT !.idle = TRUE])
      <4> DEFINE d == [c EXCEPT !.idle = TRUE]
      <4>1. /\ d \in Connection /\ d.state = c.state /\ d.port = c.port
            /\ d.seq_out = c.seq_out /\ d.taken = c.taken /\ d.sent = c.sent
            /\ c.closed => d.closed
        BY <2>2 DEF Connection
      <4>2. Update(s, d)
        BY <3>4
      <4> HIDE DEF d
      <4> QED BY <2>3, <4>1, <4>2
    <3> QED BY <2>1, <3>1, <3>2, <3>3, <3>4
  <2>5. d \in Record /\ Numbered(d) /\ Placed(d, port, gstate) /\ Follows(c, d)
    <3> HIDE DEF c
    <3> QED BY <2>2, <2>4, Moves DEF Kind
  <2> QED BY <1>0, <2>1, <2>4, <2>5, SlotMoves, WithGuest
<1>6. CASE RxPoll
  BY <1>6, TableStays, WithGuest DEF RxPoll, RxOnly, Task, guestvars
<1>7. CASE RxSkips \/ RxSignal \/ RxStops
  BY <1>0, <1>7, TableStays, WithGuest DEF RxSkips, RxSignal, RxStops, RxOnly, connvars, guestvars
<1>8. ASSUME Polling, NEW d \in Record, NEW packets, Polled(d, packets), Numbered(d),
             Placed(d, port, gstate), Follows(connections[polled], d)
      PROVE  TableKept
  <2>1. UNCHANGED <<conn_mutex, port, gstate>> /\ Update(polled, d) /\ polled \in Slot
    BY <1>8 DEF Polling, Polled, RxOnly, guestvars
  <2> QED BY <1>0, <1>8, <2>1, SlotMoves, WithGuest
<1>9. CASE PollData \/ PollEnd
  <2> DEFINE c == connections[polled]
             d == [c EXCEPT !.taken = @ + 1, !.idle = FALSE, !.seq_out = @ + 1]
             e == [c EXCEPT !.state = "FIN_WAIT_1", !.seq_out = @ + 1]
  <2>1. /\ Polling /\ polled \in Slot /\ c.state = "ESTABLISHED"
        /\ \E packets : (c.taken < c.sent /\ Polled(d, packets)) \/ Polled(e, packets)
    BY <1>9 DEF PollData, PollEnd, Polling, Pollable
  <2>2. c \in Connection /\ Numbered(c) /\ Placed(c, port, gstate)
    BY <2>1, InUse DEF Used
  <2> HIDE DEF c
  <2>3. c.seq_out + 1 \in 1..MaxSeq /\ (c.taken < c.sent => c.taken + 1 \in 0..Bytes)
    BY <2>1, <2>2, Room
  <2>4. /\ e \in Connection /\ e.state = "FIN_WAIT_1" /\ e.port = c.port
        /\ e.seq_out = c.seq_out + 1 /\ e.taken = c.taken
        /\ e.sent = c.sent /\ e.closed = c.closed
    BY <2>2, <2>3 DEF Connection, TcpState
  <2>5. c.taken < c.sent =>
          /\ d \in Connection /\ d.state = c.state /\ d.port = c.port
          /\ d.seq_out = c.seq_out + 1 /\ d.taken = c.taken + 1
          /\ d.sent = c.sent /\ d.closed = c.closed
    BY <2>2, <2>3 DEF Connection
  <2> HIDE DEF d, e
  <2>6. e \in Record /\ Numbered(e) /\ Placed(e, port, gstate) /\ Follows(c, e)
    BY <2>1, <2>2, <2>4, Sends
  <2>7. c.taken < c.sent =>
          d \in Record /\ Numbered(d) /\ Placed(d, port, gstate) /\ Follows(c, d)
    BY <2>1, <2>2, <2>5, Sends
  <2> QED BY <1>8, <2>1, <2>6, <2>7 DEF c
<1>10. CASE PollNothing
  <2>1. /\ Polling /\ polled \in Slot
        /\ \E packets : Polled(connections[polled], packets)
    BY <1>10 DEF PollNothing, Polling
  <2>2. connections[polled] \in Record /\ Numbered(connections[polled])
          /\ Placed(connections[polled], port, gstate)
    BY <2>1 DEF IInv, TypeOK, ConnType, Record, Table
  <2>3. Follows(connections[polled], connections[polled])
    BY DEF Follows
  <2> QED BY <1>8, <2>1, <2>2, <2>3
<1>11. ASSUME NEW cleanup \in BOOLEAN, EndPoll(cleanup) PROVE TableKept
  <2> DEFINE freed == {s \in Slot : cleanup /\ connections[s].idle}
  <2>1. /\ connections' = [s \in Slot |-> IF s \in freed THEN Unused ELSE connections[s]]
        /\ conn_mutex' \in Task \union {"free"} /\ UNCHANGED <<port, gstate>>
    BY <1>11 DEF EndPoll, RxOnly, guestvars
  <2> QED BY <2>1, SlotsLeave, WithGuest
<1>12. CASE EtherInterrupt \/ Receive \/ EndInterrupt \/ ExitStop \/ ExitLeaves
  BY <1>0, <1>12, TableStays, WithGuest DEF EtherInterrupt, Receive, EndInterrupt, ExitStop,
     ExitLeaves, CpuOnly, connvars, guestvars
<1>13. CASE Deliver
  <2>1. UNCHANGED <<connections, conn_mutex, port>> /\ (gstate = "open" => gstate' = "open")
    BY <1>13 DEF Deliver, Accepts, CpuOnly, connvars, guestvars
  <2> QED BY <1>0, <2>1, TableStays, WithGuest
<1>14. CASE ExitRouter
  <2>1. /\ connections' = [s \in Slot |-> IF s \in Slot THEN Unused ELSE connections[s]]
        /\ UNCHANGED <<conn_mutex, port, gstate>>
    BY <1>14 DEF ExitRouter, guestvars
  <2> QED BY <1>0, <2>1, SlotsLeave, WithGuest
<1>15. CASE UNCHANGED vars
  BY <1>0, <1>15, TableStays, WithGuest DEF vars, connvars, guestvars
<1> QED
  BY <1>1, <1>2, <1>3, <1>4, <1>5, <1>6, <1>7, <1>8, <1>9, <1>10, <1>11, <1>12, <1>13,
     <1>14, <1>15 DEF Next, Guest, External, NetRxTask, Cpu

-----------------------------------------------------------------------------
(* What is on its way to the guest stays sound. *)

LEMMA NoPackets == Other \notin Packet /\ Torn \notin Packet /\ \A t \in Task : Filling(t) \notin Packet
  BY DEF Other, Torn, Filling, Packet, Task

\* The guest's TCP closes for good, until it takes another port.
LEMMA PortStep ==
  ASSUME [Next]_vars
  PROVE  \/ port' = port /\ (gfin => gfin')
         \/ port' = port + 1
<1>1. ASSUME NEW t \in Task, Enqueue(t) PROVE port' = port /\ gfin' = gfin
  BY <1>1 DEF Enqueue, TakeBuffer, StartCopy, EndCopy, SendBuffer, EnqueueOnly, guestvars
<1>2. ASSUME NEW p \in Port, NEW flags \in Segments, GuestWrites(p, flags)
      PROVE  port' = port /\ (gfin => gfin')
  BY <1>2 DEF GuestWrites
<1>3. CASE GuestAsks
  BY <1>3 DEF GuestAsks, guestvars
<1>4. CASE GuestLeaves
  BY <1>4 DEF GuestLeaves
<1>5. ASSUME NEW s \in Slot, RemoteAccepts(s) \/ RemoteSends(s) \/ RemoteCloses(s) \/ GrowsIdle(s)
      PROVE  port' = port /\ gfin' = gfin
  BY <1>5 DEF RemoteAccepts, RemoteSends, RemoteCloses, GrowsIdle, Remote, guestvars
<1>6. CASE NetRxTask
  BY <1>6 DEF NetRxTask, RxPoll, RxSkips, PollData, PollEnd, PollNothing, Polled, EndPoll,
     RxSignal, RxStops, RxOnly, guestvars
<1>7. CASE EtherInterrupt \/ Receive \/ EndInterrupt \/ ExitStop \/ ExitLeaves \/ ExitRouter
  BY <1>7 DEF EtherInterrupt, Receive, EndInterrupt, ExitStop, ExitLeaves, ExitRouter, guestvars
<1>8. CASE Deliver
  BY <1>8 DEF Deliver, Accepts, guestvars
<1>9. CASE UNCHANGED vars
  BY <1>9 DEF vars, guestvars
<1> QED
  BY <1>1, <1>2, <1>3, <1>4, <1>5, <1>6, <1>7, <1>8, <1>9 DEF Next, Guest, External, Cpu

SoundThen(p) == Sound(p, connections', port', gstate', gfin')

LEMMA SoundStays ==
  ASSUME NetworkAssumption, IInv, [Next]_vars,
         NEW p, Sound(p, connections, port, gstate, gfin)
  PROVE  SoundThen(p)
<1>1. TableKept
  BY TableStep
<1>2. CASE port' = port /\ (gfin => gfin')
  BY <1>1, <1>2, Kept DEF SoundThen, TableKept
<1>3. CASE port' = port + 1
  <2>1. port \in Int /\ (p \in Packet => p.port \in Int)
    BY DEF IInv, TypeOK, GuestType, Packet, Port, NetworkAssumption
  <2> QED BY <1>3, <2>1 DEF SoundThen, Sound
<1> QED BY <1>2, <1>3, PortStep

\* The packets on their way, in a step that adds none.
WayKept ==
  /\ \A t \in Task : \A i \in 1..Len(out[t]) : SoundThen(out[t][i])
  /\ \A b \in Buffer : SoundThen(packet_buffers[b])

LEMMA WayStays == NetworkAssumption /\ IInv /\ [Next]_vars => WayKept
  BY SoundStays DEF WayKept, IInv, OnTheWay

\* What a step shows of the packets.
WayOK == TaskType' /\ QueueType' /\ Copying' /\ OnTheWay'

\* None is added,
LEMMA NoneAdded ==
  ASSUME NetworkAssumption, IInv, WayKept, UNCHANGED <<out, buf, epc, packet_buffers, next_buffer>>,
         \/ UNCHANGED rx_packet_queue
         \/ rx_packet_queue # <<>> /\ rx_packet_queue' = Tail(rx_packet_queue)
  PROVE  WayOK
<1>1. QueueType'
  <2>1. QueueType
    BY DEF IInv, TypeOK
  <2>2. rx_packet_queue # <<>> =>
          Tail(rx_packet_queue) \in Seq(Buffer) /\ Len(Tail(rx_packet_queue)) <= PACKET_QUEUE_SIZE
    BY <2>1 DEF QueueType, NetworkAssumption
  <2> QED BY <2>1, <2>2 DEF QueueType
<1>2. TaskType' /\ Copying'
  BY DEF IInv, TypeOK, TaskType, Copying
<1> QED BY <1>1, <1>2 DEF WayOK, OnTheWay, WayKept, SoundThen

\* or a task that has none to enqueue comes by some.
LEMMA SomeAdded ==
  ASSUME IInv, WayKept, UNCHANGED <<buf, epc, queuevars>>, NEW t \in Task, out[t] = <<>>,
         NEW packets \in Seq(Packet \union {Other}), out' = [out EXCEPT ![t] = packets],
         \A i \in 1..Len(packets) : SoundThen(packets[i])
  PROVE  WayOK
<1>1. QueueType'
  BY DEF IInv, TypeOK, QueueType, queuevars
<1>2. TaskType' /\ Copying'
  BY DEF IInv, TypeOK, TaskType, Copying
<1>3. \A u \in Task : out'[u] = IF u = t THEN packets ELSE out[u]
  BY DEF IInv, TypeOK, TaskType
<1> QED BY <1>1, <1>2, <1>3 DEF WayOK, OnTheWay, WayKept, SoundThen, queuevars

LEMMA EnqueueWay ==
  ASSUME NetworkAssumption, IInv, WayKept, NEW t \in Task, Enqueue(t)
  PROVE  WayOK
<1>0. TaskType /\ QueueType /\ Copying
  BY DEF IInv, TypeOK
<1>1. CASE TakeBuffer(t)
  <2>1. TaskType' /\ QueueType'
    BY <1>0, <1>1 DEF TakeBuffer, TaskType, QueueType, queuevars
  <2>2. Copying'
    BY <1>0, <1>1 DEF TakeBuffer, TaskType, Copying
  <2>3. OnTheWay'
    BY <1>1 DEF TakeBuffer, OnTheWay, WayKept, SoundThen, queuevars
  <2> QED BY <2>1, <2>2, <2>3 DEF WayOK
<1>2. CASE StartCopy(t)
  <2>1. Filling(t) \in Content
    BY DEF Content, Task
  <2>2. TaskType' /\ QueueType'
    BY <1>0, <1>2, <2>1 DEF StartCopy, TaskType, QueueType, Buffer, NetworkAssumption
  <2>3. Copying'
    BY <1>0, <1>2 DEF StartCopy, TaskType, Copying
  <2>4. SoundThen(Filling(t))
    BY NoPackets DEF SoundThen, Sound
  <2>5. \A b \in Buffer : packet_buffers'[b] \in {packet_buffers[b], Filling(t)}
    BY <1>0, <1>2 DEF StartCopy, QueueType
  <2>6. OnTheWay'
    BY <1>2, <2>4, <2>5 DEF StartCopy, OnTheWay, WayKept, SoundThen
  <2> QED BY <2>2, <2>3, <2>6 DEF WayOK
<1>3. CASE EndCopy(t)
  <2>1. PICK content \in {Head(out[t]), Torn} :
          packet_buffers' = [packet_buffers EXCEPT ![buf[t]] = content]
    BY <1>3 DEF EndCopy
  <2>2. out[t] \in Seq(Packet \union {Other}) /\ out[t] # <<>>
    BY <1>0, <1>3 DEF EndCopy, TaskType, Copying
  <2>3. Head(out[t]) \in Packet \union {Other} /\ Head(out[t]) = out[t][1] /\ 1 \in 1..Len(out[t])
    BY <2>2
  <2>4. content \in Content /\ SoundThen(content)
    BY <2>1, <2>3, NoPackets DEF Content, WayKept, SoundThen, Sound
  <2>5. TaskType' /\ QueueType'
    BY <1>0, <1>3, <2>1, <2>4 DEF EndCopy, TaskType, QueueType
  <2>6. Copying'
    BY <1>0, <1>3 DEF EndCopy, TaskType, Copying
  <2>7. \A b \in Buffer : packet_buffers'[b] \in {packet_buffers[b], content}
    BY <1>0, <2>1 DEF QueueType
  <2>8. OnTheWay'
    BY <1>3, <2>4, <2>7 DEF EndCopy, OnTheWay, WayKept, SoundThen
  <2> QED BY <2>5, <2>6, <2>8 DEF WayOK
<1>4. CASE SendBuffer(t)
  <2>1. out[t] \in Seq(Packet \union {Other}) /\ out[t] # <<>>
    BY <1>0, <1>4 DEF SendBuffer, TaskType, Copying
  <2>2. /\ Tail(out[t]) \in Seq(Packet \union {Other})
        /\ \A i \in 1..Len(Tail(out[t])) : i + 1 \in 1..Len(out[t]) /\ Tail(out[t])[i] = out[t][i + 1]
    BY <2>1
  <2>3. TaskType'
    <3>1. 0 \in Buffer
      BY DEF Buffer, NetworkAssumption
    <3> QED BY <1>0, <1>4, <2>2, <3>1 DEF SendBuffer, TaskType
  <2>4. QueueType'
    <3>1. buf[t] \in Buffer
      BY <1>0 DEF TaskType
    <3>2. CASE Len(rx_packet_queue) < PACKET_QUEUE_SIZE
      <4>1. rx_packet_queue' = Append(rx_packet_queue, buf[t])
        BY <1>4, <3>2 DEF SendBuffer
      <4> QED BY <1>0, <1>4, <3>1, <3>2, <4>1 DEF SendBuffer, QueueType, NetworkAssumption
    <3>3. CASE ~(Len(rx_packet_queue) < PACKET_QUEUE_SIZE)
      BY <1>0, <1>4, <3>3 DEF SendBuffer, QueueType
    <3> QED BY <3>2, <3>3
  <2>5. Copying'
    BY <1>0, <1>4 DEF SendBuffer, TaskType, Copying
  <2>6. \A u \in Task : out'[u] = IF u = t THEN Tail(out[t]) ELSE out[u]
    BY <1>0, <1>4 DEF SendBuffer, TaskType
  <2>7. OnTheWay'
    BY <1>4, <2>2, <2>6 DEF SendBuffer, OnTheWay, WayKept, SoundThen
  <2> QED BY <2>3, <2>4, <2>5, <2>7 DEF WayOK
<1> QED BY <1>1, <1>2, <1>3, <1>4 DEF Enqueue

\* What handle_tcp leaves to be enqueued.
LEMMA SegmentWay ==
  ASSUME NetworkAssumption, IInv, NEW s \in Slot, Used(connections[s]), NEW flags \in Segments,
         Segment(s, flags), port' = port, gstate = "open" => gstate' = "open",
         gstate = "open" \/ flags = {"SYN"}, "FIN" \in flags => gfin'
  PROVE  \E packets \in Seq(Packet \union {Other}) :
           /\ out' = [out EXCEPT !["cpu"] = packets]
           /\ \A i \in 1..Len(packets) : SoundThen(packets[i])
<1> DEFINE c == connections[s]
           fin == Control("fin", c.port, c.seq_out)
           Sendable == {Other, fin}
<1>1. c \in Connection /\ Numbered(c) /\ Placed(c, port, gstate)
  BY InUse
<1>2. c.port \in Port /\ c.port <= port /\ port \in Int /\ c.seq_out \in 1..MaxSeq
  BY <1>1 DEF Connection, Placed, IInv, TypeOK, GuestType, NetworkAssumption
<1>3. SoundThen(Other)
  BY NoPackets DEF SoundThen, Sound
<1>4. CASE c.state = "ESTABLISHED" /\ "FIN" \in flags
  <2>1. fin \in Packet /\ fin.kind = "fin" /\ fin.port = c.port
    BY <1>2 DEF Control, Packet, NetworkAssumption
  <2>2. gstate' = "open" /\ gfin'
    BY <1>4
  <2> HIDE DEF fin
  <2>3. SoundThen(fin)
    BY <1>2, <2>1, <2>2 DEF SoundThen, Sound
  <2> DEFINE data == IF "DATA" \in flags THEN <<Other>> ELSE <<>>
             packets == data \o <<Other, fin>>
  <2>4. out' = [out EXCEPT !["cpu"] = packets]
    BY <1>4 DEF Segment, Answer, fin
  <2>5. /\ packets \in Seq(Packet \union {Other})
        /\ \A i \in 1..Len(packets) : packets[i] \in {Other, fin}
    <3>1. CASE "DATA" \in flags
      BY <2>1, <3>1
    <3>2. CASE "DATA" \notin flags
      BY <2>1, <3>2
    <3> QED BY <3>1, <3>2
  <2> HIDE DEF packets
  <2>6. \A i \in 1..Len(packets) : SoundThen(packets[i])
    BY <1>3, <2>3, <2>5
  <2> QED BY <2>4, <2>5, <2>6
<1>5. CASE ~(c.state = "ESTABLISHED" /\ "FIN" \in flags)
  <2>1. \E packets \in {<<>>, <<Other>>} : Answer(packets)
    BY <1>5 DEF Segment
  <2>2. PICK packets \in {<<>>, <<Other>>} : out' = [out EXCEPT !["cpu"] = packets]
    BY <2>1 DEF Answer
  <2>3. packets \in Seq(Packet \union {Other}) /\ \A i \in 1..Len(packets) : packets[i] = Other
    <3>1. CASE packets = <<>>
      BY <3>1
    <3>2. CASE packets = <<Other>>
      BY <3>2
    <3> QED BY <3>1, <3>2
  <2> QED BY <1>3, <2>2, <2>3
<1> QED BY <1>4, <1>5

LEMMA WritesWay ==
  ASSUME NetworkAssumption, IInv, WayKept, NEW p \in Port, NEW flags \in Segments,
         GuestWrites(p, flags)
  PROVE  WayOK
<1>1. /\ UNCHANGED <<buf, epc, queuevars>> /\ out["cpu"] = <<>> /\ "cpu" \in Task
      /\ GuestMay(p, flags) /\ port' = port /\ ("FIN" \in flags => gfin' \/ p # port)
      /\ flags # {"SYN"} => gstate' = gstate
  BY DEF GuestWrites, InGuest, Task, queuevars
<1>2. CASE UNCHANGED <<connvars, out>>
  BY <1>1, <1>2, NoneAdded DEF queuevars
<1>3. ASSUME Answer(<<>>) PROVE WayOK
  <2>1. out' = [out EXCEPT !["cpu"] = <<>>]
    BY <1>3 DEF Answer
  <2>2. <<>> \in Seq(Packet \union {Other}) /\ \A i \in 1..Len(<<>>) : FALSE
    OBVIOUS
  <2> DEFINE packets == <<>>
  <2>3. /\ packets \in Seq(Packet \union {Other}) /\ out' = [out EXCEPT !["cpu"] = packets]
        /\ \A i \in 1..Len(packets) : SoundThen(packets[i])
    BY <2>1, <2>2
  <2> HIDE DEF packets
  <2> QED BY <1>1, <2>3, SomeAdded
<1>4. CASE "RST" \in flags /\ HandleTcp(p, flags)
  BY <1>3, <1>4 DEF HandleTcp
<1>5. ASSUME "RST" \notin flags, NEW s \in Find(p), Segment(s, flags)
      PROVE  WayOK
  <2>1. /\ s \in Slot /\ Used(connections[s]) /\ (gstate = "open" \/ flags = {"SYN"})
        /\ p = port /\ (gstate = "open" => flags # {"SYN"})
    BY <1>1, <1>5 DEF Find, Used, GuestMay
  <2>2. PICK packets \in Seq(Packet \union {Other}) :
          /\ out' = [out EXCEPT !["cpu"] = packets]
          /\ \A i \in 1..Len(packets) : SoundThen(packets[i])
    BY <1>1, <1>5, <2>1, SegmentWay
  <2> QED BY <1>1, <2>2, SomeAdded
<1>6. ASSUME flags = {"SYN"}, Answer(<<Control("synack", p, Seq0)>>)
      PROVE  WayOK
  <2> DEFINE packet == Control("synack", p, Seq0)
  <2>1. packet \in Packet /\ packet.kind = "synack" /\ packet.seq = Seq0
    BY DEF Control, Packet, Seq0, MaxSeq, NetworkAssumption
  <2>2. out' = [out EXCEPT !["cpu"] = <<packet>>]
    BY <1>6 DEF Answer
  <2> HIDE DEF packet
  <2>3. SoundThen(packet)
    BY <2>1 DEF SoundThen, Sound
  <2>4. <<packet>> \in Seq(Packet \union {Other}) /\ \A i \in 1..Len(<<packet>>) : <<packet>>[i] = packet
    BY <2>1
  <2> QED BY <1>1, <2>2, <2>3, <2>4, SomeAdded
<1> QED
  BY <1>1, <1>2, <1>3, <1>4, <1>5, <1>6 DEF GuestWrites, HandleTcp, NewConnection, GuestMay

LEMMA PollWay ==
  ASSUME NetworkAssumption, IInv, WayKept, PollData \/ PollEnd \/ PollNothing
  PROVE  WayOK
<1> DEFINE c == connections[polled]
<1>1. /\ UNCHANGED <<buf, epc, queuevars, port, gstate, gfin>> /\ out["rx"] = <<>> /\ "rx" \in Task
      /\ polled \in Slot
  BY DEF PollData, PollEnd, PollNothing, Polling, Polled, RxOnly, Task, guestvars, queuevars
<1>2. ASSUME NEW packet \in Packet \union {Other}, SoundThen(packet),
             out' = [out EXCEPT !["rx"] = <<packet>>]
      PROVE  WayOK
  <2>1. <<packet>> \in Seq(Packet \union {Other}) /\ \A i \in 1..Len(<<packet>>) : <<packet>>[i] = packet
    OBVIOUS
  <2> QED BY <1>1, <1>2, <2>1, SomeAdded
<1>3. Used(c) => c \in Connection /\ Numbered(c) /\ Placed(c, port, gstate)
  BY <1>1, InUse
<1>4. port \in Int
  BY DEF IInv, TypeOK, GuestType, NetworkAssumption
<1>5. CASE PollData
  <2>1. /\ c.state = "ESTABLISHED" /\ c.taken < c.sent
        /\ out' = [out EXCEPT !["rx"] = <<Data(c)>>]
    BY <1>5 DEF PollData, Pollable, Polled
  <2>2. Used(c)
    BY <2>1 DEF Used
  <2> HIDE DEF c
  <2>3. /\ c.seq_out = Seq0 + 1 + c.taken /\ c.seq_out \in 1..MaxSeq
        /\ c.taken + 1 \in 0..Bytes /\ c.port \in Port /\ c.taken \in Int
    BY <1>3, <2>1, <2>2, Room DEF Connection
  <2>4. Data(c) \in Packet /\ SoundThen(Data(c))
    <3>1. /\ Data(c).kind = "data" /\ Data(c).seq = c.seq_out /\ Data(c).byte = c.taken + 1
          /\ Data(c) \in Packet
      BY <2>3 DEF Data, Packet
    <3> HIDE DEF Data
    <3> QED BY <2>3, <3>1 DEF SoundThen, Sound, Seq0
  <2> QED BY <1>2, <2>1, <2>4
<1>6. CASE PollEnd
  <2> DEFINE fin == Control("fin", c.port, c.seq_out)
  <2>1. /\ c.state = "ESTABLISHED" /\ c.taken = c.sent /\ c.closed
        /\ out' = [out EXCEPT !["rx"] = <<fin>>]
        /\ connections' = [connections EXCEPT ![polled] = [c EXCEPT !.state = "FIN_WAIT_1", !.seq_out = @ + 1]]
    BY <1>6 DEF PollEnd, Pollable, Polled, Update
  <2>2. Used(c)
    BY <2>1 DEF Used
  <2>3. /\ c \in Connection /\ c.seq_out = Seq0 + 1 + c.taken /\ c.seq_out \in 1..MaxSeq
        /\ c.port \in Port /\ c.port <= port /\ (c.port = port => gstate = "open")
    <3> HIDE DEF c
    <3> QED BY <1>3, <2>1, <2>2, Room DEF Connection, Placed
  <2>4. \A s \in Slot : Used(connections'[s]) /\ connections'[s].port = c.port
          => connections'[s].closed /\ c.seq_out = Seq0 + 1 + connections'[s].sent
    <3> SUFFICES ASSUME NEW s \in Slot, Used(connections'[s]), connections'[s].port = c.port
                 PROVE  connections'[s].closed /\ c.seq_out = Seq0 + 1 + connections'[s].sent
      OBVIOUS
    <3>1. connections \in [Slot -> Record]
      BY DEF IInv, TypeOK, ConnType, Record
    <3>2. CASE s = polled
      <4>1. connections'[s] = [c EXCEPT !.state = "FIN_WAIT_1", !.seq_out = @ + 1]
        BY <2>1, <3>1, <3>2
      <4>2. connections'[s].closed = c.closed /\ connections'[s].sent = c.sent
        <5> HIDE DEF c
        <5> QED BY <2>3, <4>1 DEF Connection
      <4> QED BY <2>1, <2>3, <4>2
    <3>3. CASE s # polled
      <4>1. connections'[s] = connections[s]
        BY <2>1, <3>1, <3>3
      <4> QED BY <1>1, <2>2, <3>3, <4>1 DEF IInv, Table
    <3> QED BY <3>2, <3>3
  <2>5. fin \in Packet /\ fin.kind = "fin" /\ fin.port = c.port /\ fin.seq = c.seq_out
    BY <2>3 DEF Control, Packet, NetworkAssumption
  <2> HIDE DEF fin, c
  <2>6. SoundThen(fin)
    BY <1>1, <2>3, <2>4, <2>5 DEF SoundThen, Sound
  <2> QED BY <1>2, <2>1, <2>5, <2>6
<1>7. CASE PollNothing
  <2>1. out' = [out EXCEPT !["rx"] = <<>>] \/ out' = [out EXCEPT !["rx"] = <<Other>>]
    BY <1>7 DEF PollNothing, Polled
  <2>2. CASE out' = [out EXCEPT !["rx"] = <<>>]
    <3>1. out' = out
      BY <1>1, <2>2 DEF IInv, TypeOK, TaskType
    <3> QED BY <1>1, <3>1, NoneAdded DEF queuevars
  <2>3. CASE out' = [out EXCEPT !["rx"] = <<Other>>]
    BY <1>2, <2>3, NoPackets DEF SoundThen, Sound
  <2> QED BY <2>1, <2>2, <2>3
<1> QED BY <1>5, <1>6, <1>7

LEMMA WayStep == NetworkAssumption /\ IInv /\ [Next]_vars => WayOK
<1> SUFFICES ASSUME NetworkAssumption, IInv, [Next]_vars PROVE WayOK
  OBVIOUS
<1>0. WayKept
  BY WayStays
<1>1. ASSUME NEW t \in Task, Enqueue(t) PROVE WayOK
  BY <1>0, <1>1, EnqueueWay
<1>2. ASSUME NEW p \in Port, NEW flags \in Segments, GuestWrites(p, flags) PROVE WayOK
  BY <1>0, <1>2, WritesWay
<1>3. CASE GuestAsks
  <2>1. /\ out' = [out EXCEPT !["cpu"] = <<Other>>] /\ out["cpu"] = <<>> /\ "cpu" \in Task
        /\ UNCHANGED <<buf, epc, queuevars>>
    BY <1>3 DEF GuestAsks, InGuest, Task
  <2>2. <<Other>> \in Seq(Packet \union {Other}) /\ \A i \in 1..Len(<<Other>>) : <<Other>>[i] = Other
    OBVIOUS
  <2>3. SoundThen(Other)
    BY NoPackets DEF SoundThen, Sound
  <2> QED BY <1>0, <2>1, <2>2, <2>3, SomeAdded
<1>4. CASE GuestLeaves
  BY <1>0, <1>4, NoneAdded DEF GuestLeaves, taskvars, queuevars
<1>5. ASSUME NEW s \in Slot, RemoteAccepts(s) \/ RemoteSends(s) \/ RemoteCloses(s) \/ GrowsIdle(s)
      PROVE  WayOK
  BY <1>0, <1>5, NoneAdded DEF RemoteAccepts, RemoteSends, RemoteCloses, GrowsIdle, Remote,
     taskvars, queuevars
<1>6. CASE RxPoll \/ RxSkips \/ RxSignal \/ RxStops \/ \E cleanup \in BOOLEAN : EndPoll(cleanup)
  BY <1>0, <1>6, NoneAdded DEF RxPoll, RxSkips, RxSignal, RxStops, EndPoll, RxOnly, queuevars
<1>7. CASE PollData \/ PollEnd \/ PollNothing
  BY <1>0, <1>7, PollWay
<1>8. CASE EtherInterrupt \/ Deliver \/ EndInterrupt \/ ExitStop \/ ExitLeaves \/ ExitRouter
  BY <1>0, <1>8, NoneAdded DEF EtherInterrupt, Deliver, EndInterrupt, ExitStop, ExitLeaves,
     ExitRouter, CpuOnly, taskvars, queuevars
<1>9. CASE Receive
  BY <1>0, <1>9, NoneAdded DEF Receive, CpuOnly, taskvars
<1>10. CASE UNCHANGED vars
  BY <1>0, <1>10, NoneAdded DEF vars, taskvars, queuevars
<1> QED
  BY <1>1, <1>2, <1>3, <1>4, <1>5, <1>6, <1>7, <1>8, <1>9, <1>10
     DEF Next, Guest, External, NetRxTask, Cpu

-----------------------------------------------------------------------------
(* What the guest has received. *)

ReceivedOK == GuestType' /\ Received'

\* The guest's TCP is not touched, but that it may send a SYN or a FIN.
LEMMA ReceivedStays ==
  ASSUME NetworkAssumption, IInv, TableKept, UNCHANGED <<port, rcv_nxt, got, gend>>,
         gstate' = gstate \/ (gstate \in {"closed", "syn_sent"} /\ gstate' = "syn_sent"),
         gfin' \in BOOLEAN, gfin => gfin'
  PROVE  ReceivedOK
<1>1. GuestType'
  BY DEF IInv, TypeOK, GuestType
<1>2. gend => gstate = "open" /\ Evolves(connections, connections')
  BY DEF IInv, Received, TableKept
<1>3. gend' /\ ~gfin' => \A s \in Slot : Used(connections'[s]) /\ connections'[s].port = port'
                          => connections'[s].closed /\ Len(got') = connections'[s].sent
  BY <1>2 DEF IInv, Received, Evolves, Follows
<1> QED BY <1>1, <1>3 DEF ReceivedOK, IInv, Received

\* It takes a packet.
LEMMA AcceptsReceived ==
  ASSUME NetworkAssumption, IInv, UNCHANGED connections, NEW p, Accepts(p),
         Sound(p, connections, port, gstate, gfin)
  PROVE  ReceivedOK
<1>1. /\ p \in Packet /\ p.port = port /\ UNCHANGED <<port, gfin>>
      /\ gstate' = "open" /\ rcv_nxt' = p.seq + 1 /\ gend' = (p.kind = "fin")
      /\ got' = IF p.kind = "data" THEN Append(got, p.byte) ELSE got
      /\ \/ gstate = "syn_sent" /\ p.kind = "synack"
         \/ gstate = "open" /\ ~gend /\ p.kind # "synack" /\ p.seq = rcv_nxt
  BY DEF Accepts
<1>2. p.kind \in {"synack", "data", "fin"} /\ p.seq \in 1..MaxSeq /\ p.byte \in 0..Bytes
  BY <1>1 DEF Packet
<1>3. GuestType /\ Received
  BY DEF IInv, TypeOK
<1>4. got \in Seq(1..Bytes) /\ Len(got) \in Nat
  BY <1>3 DEF GuestType
<1>5. CASE gstate = "syn_sent" /\ p.kind = "synack"
  <2>1. p.seq = Seq0 /\ got = <<>> /\ got' = got /\ gend' = FALSE
    BY <1>1, <1>3, <1>5 DEF Sound, Received
  <2>2. rcv_nxt' \in 1..MaxSeq + 1
    BY <1>1, <2>1 DEF MaxSeq, Seq0, NetworkAssumption
  <2>3. GuestType'
    BY <1>1, <1>3, <2>1, <2>2 DEF GuestType
  <2> QED BY <1>1, <2>1, <2>3 DEF ReceivedOK, Received, Seq0
<1>6. CASE gstate = "open" /\ ~gend /\ p.kind = "data" /\ p.seq = rcv_nxt
  <2>1. p.byte = Len(got) + 1 /\ p.seq = Seq0 + 1 + Len(got)
    BY <1>1, <1>3, <1>4, <1>6 DEF Sound, Received, Seq0
  <2>2. /\ got' = Append(got, p.byte) /\ p.byte \in 1..Bytes /\ gend' = FALSE
        /\ got' \in Seq(1..Bytes) /\ Len(got') = Len(got) + 1
        /\ \A i \in 1..Len(got') : got'[i] = IF i = Len(got) + 1 THEN p.byte ELSE got[i]
    <3>1. got' = Append(got, p.byte) /\ gend' = FALSE
      BY <1>1, <1>6
    <3>2. p.byte \in 1..Bytes
      BY <1>2, <1>4, <2>1 DEF NetworkAssumption
    <3> QED BY <1>4, <3>1, <3>2
  <2>3. rcv_nxt' \in 1..MaxSeq + 1
    BY <1>1, <1>2 DEF MaxSeq, Seq0, NetworkAssumption
  <2>5. GuestType'
    BY <1>1, <1>3, <2>2, <2>3 DEF GuestType
  <2>4. \A i \in 1..Len(got') : got'[i] = i
    BY <1>3, <1>4, <2>1, <2>2 DEF Received
  <2> QED BY <1>1, <1>4, <2>1, <2>2, <2>4, <2>5 DEF ReceivedOK, Received, Seq0
<1>7. CASE gstate = "open" /\ ~gend /\ p.kind = "fin" /\ p.seq = rcv_nxt
  <2>1. got' = got /\ gend' /\ p.seq = Seq0 + 1 + Len(got)
    BY <1>1, <1>3, <1>7 DEF Received
  <2>2. ~gfin => \A s \in Slot : Used(connections[s]) /\ connections[s].port = port
                   => connections[s].closed /\ p.seq = Seq0 + 1 + connections[s].sent
    BY <1>1, <1>7 DEF Sound
  <2>3. \A s \in Slot : Used(connections[s]) => connections[s].sent \in Int
    BY InUse DEF Connection
  <2>4. ~gfin => \A s \in Slot : Used(connections[s]) /\ connections[s].port = port
                   => connections[s].closed /\ Len(got) = connections[s].sent
    BY <1>4, <2>1, <2>2, <2>3 DEF Seq0
  <2>5. GuestType'
    BY <1>1, <1>2, <1>3, <2>1 DEF GuestType, MaxSeq, Seq0, NetworkAssumption
  <2> QED BY <1>1, <1>3, <2>1, <2>4, <2>5 DEF ReceivedOK, Received
<1> QED BY <1>1, <1>2, <1>5, <1>6, <1>7

LEMMA ReceivedStep == NetworkAssumption /\ IInv /\ [Next]_vars => ReceivedOK
<1> SUFFICES ASSUME NetworkAssumption, IInv, [Next]_vars PROVE ReceivedOK
  OBVIOUS
<1>0. TableKept /\ gfin \in BOOLEAN
  BY TableStep DEF IInv, TypeOK, GuestType
<1>1. ASSUME UNCHANGED guestvars PROVE ReceivedOK
  <2>1. UNCHANGED <<port, gstate, rcv_nxt, got, gend, gfin>>
    BY <1>1 DEF guestvars
  <2>2. gfin' \in BOOLEAN /\ (gfin => gfin')
    BY <1>0, <2>1
  <2>3. UNCHANGED <<port, rcv_nxt, got, gend>> /\ gstate' = gstate
    BY <2>1
  <2> QED BY <1>0, <2>2, <2>3, ReceivedStays
<1>2. ASSUME NEW p \in Port, NEW flags \in Segments, GuestWrites(p, flags) PROVE ReceivedOK
  <2>1. UNCHANGED <<port, rcv_nxt, got, gend>>
    BY <1>2 DEF GuestWrites
  <2>2. gfin' \in BOOLEAN /\ (gfin => gfin')
    BY <1>2 DEF GuestWrites
  <2>3. gstate' = gstate \/ (gstate \in {"closed", "syn_sent"} /\ gstate' = "syn_sent")
    <3>1. CASE flags # {"SYN"}
      BY <1>2, <3>1 DEF GuestWrites
    <3>2. CASE flags = {"SYN"}
      <4>1. "RST" \notin flags /\ "SYN" \in flags \intersect {"SYN", "RST"}
        BY <3>2
      <4>2. gstate \in {"closed", "syn_sent"} /\ gstate' = "syn_sent"
        BY <1>2, <3>2, <4>1 DEF GuestWrites, GuestMay
      <4> QED BY <4>2
    <3> QED BY <3>1, <3>2
  <2> QED BY <1>0, <2>1, <2>2, <2>3, ReceivedStays
<1>3. CASE GuestLeaves
  <2>1. /\ port' = port + 1 /\ port <= Ports /\ port \in 1..Ports + 1 /\ gstate' = "closed"
        /\ rcv_nxt' = 1 /\ got' = <<>> /\ gend' = FALSE /\ gfin' = FALSE
    BY <1>3 DEF GuestLeaves, IInv, TypeOK, GuestType
  <2>2. port' \in 1..Ports + 1 /\ rcv_nxt' \in 1..MaxSeq + 1 /\ got' \in Seq(1..Bytes)
    BY <2>1 DEF MaxSeq, Seq0, NetworkAssumption
  <2>3. GuestType'
    BY <2>1, <2>2 DEF GuestType
  <2> QED BY <2>1, <2>3 DEF ReceivedOK, Received
<1>4. CASE Deliver
  <2>1. CASE UNCHANGED guestvars
    BY <1>1, <2>1
  <2>2. CASE Accepts(packet_buffers[held])
    <3>1. UNCHANGED connections /\ held \in Buffer
      BY <1>4 DEF Deliver, CpuOnly, connvars, IInv, TypeOK, IrqType
    <3>2. Sound(packet_buffers[held], connections, port, gstate, gfin)
      BY <3>1 DEF IInv, OnTheWay
    <3> QED BY <2>2, <3>1, <3>2, AcceptsReceived
  <2> QED BY <1>4, <2>1, <2>2 DEF Deliver
<1>5. ASSUME NEW t \in Task, Enqueue(t) PROVE UNCHANGED guestvars
  BY <1>5 DEF Enqueue, TakeBuffer, StartCopy, EndCopy, SendBuffer, EnqueueOnly, guestvars
<1>6. CASE GuestAsks
  BY <1>1, <1>6 DEF GuestAsks
<1>7. ASSUME NEW s \in Slot, RemoteAccepts(s) \/ RemoteSends(s) \/ RemoteCloses(s) \/ GrowsIdle(s)
      PROVE  UNCHANGED guestvars
  BY <1>7 DEF RemoteAccepts, RemoteSends, RemoteCloses, GrowsIdle, Remote
<1>8. ASSUME NetRxTask PROVE UNCHANGED guestvars
  BY <1>8 DEF NetRxTask, RxPoll, RxSkips, PollData, PollEnd, PollNothing, Polled, EndPoll,
     RxSignal, RxStops, RxOnly
<1>9. ASSUME EtherInterrupt \/ Receive \/ EndInterrupt \/ ExitStop \/ ExitLeaves \/ ExitRouter
      PROVE  UNCHANGED guestvars
  BY <1>9 DEF EtherInterrupt, Receive, EndInterrupt, ExitStop, ExitLeaves, ExitRouter
<1>10. CASE UNCHANGED vars
  BY <1>1, <1>10 DEF vars
<1> QED
  BY <1>1, <1>2, <1>3, <1>4, <1>5, <1>6, <1>7, <1>8, <1>9, <1>10 DEF Next, Guest, External, Cpu

-----------------------------------------------------------------------------
(* The task, the interrupt and the end. *)

RestOK == RxType' /\ IrqType' /\ ExitType' /\ Stopping'

LEMMA RestStep == NetworkAssumption /\ IInv /\ [Next]_vars => RestOK
<1> SUFFICES ASSUME NetworkAssumption, IInv, [Next]_vars PROVE RestOK
  OBVIOUS
<1>0. RxType /\ IrqType /\ ExitType /\ Stopping /\ TaskType /\ QueueType
  BY DEF IInv, TypeOK
<1>1. ASSUME UNCHANGED <<rxvars, irqvars, exitvars>>, UNCHANGED out \/ out'["rx"] = out["rx"]
      PROVE  RestOK
  BY <1>0, <1>1 DEF RestOK, RxType, IrqType, ExitType, Stopping, rxvars, irqvars, exitvars
<1>2. ASSUME NEW t \in Task, Enqueue(t) PROVE RestOK
  <2>1. UNCHANGED <<rxvars, irqvars, exitvars>>
    BY <1>2 DEF Enqueue, TakeBuffer, StartCopy, EndCopy, SendBuffer, EnqueueOnly
  <2>2. CASE UNCHANGED out
    BY <1>1, <2>1, <2>2
  <2>3. CASE SendBuffer(t)
    <3>1. out["rx"] = <<>> => out'["rx"] = <<>>
      BY <1>0, <2>3 DEF SendBuffer, TaskType, IInv, Copying
    <3> QED BY <1>0, <2>1, <3>1 DEF RestOK, RxType, IrqType, ExitType, Stopping, rxvars,
               irqvars, exitvars
  <2> QED BY <1>2, <2>2, <2>3 DEF Enqueue, TakeBuffer, StartCopy, EndCopy
<1>3. ASSUME NEW p \in Port, NEW flags \in Segments, GuestWrites(p, flags) PROVE RestOK
  <2>1. UNCHANGED out \/ out'["rx"] = out["rx"]
    <3>1. UNCHANGED out \/ \E packets : out' = [out EXCEPT !["cpu"] = packets]
      BY <1>3 DEF GuestWrites, HandleTcp, Segment, NewConnection, Answer
    <3> QED BY <1>0, <3>1 DEF TaskType, Task
  <2> QED BY <1>1, <1>3, <2>1 DEF GuestWrites
<1>4. CASE GuestAsks
  BY <1>0, <1>1, <1>4 DEF GuestAsks, TaskType, Task
<1>5. CASE GuestLeaves
  BY <1>1, <1>5 DEF GuestLeaves, taskvars
<1>6. ASSUME NEW s \in Slot, RemoteAccepts(s) \/ RemoteSends(s) \/ RemoteCloses(s) \/ GrowsIdle(s)
      PROVE  RestOK
  BY <1>1, <1>6 DEF RemoteAccepts, RemoteSends, RemoteCloses, GrowsIdle, Remote, taskvars
<1>7. CASE PollData \/ PollEnd \/ PollNothing
  <2>1. /\ rx = "polling" /\ polled \in Slot /\ polled' = polled + 1
        /\ UNCHANGED <<rx, ether_flag, irq, held, cpu, running>>
    BY <1>7 DEF PollData, PollEnd, PollNothing, Polling, Polled, RxOnly, exitvars
  <2> QED BY <1>0, <2>1 DEF RestOK, RxType, IrqType, ExitType, Stopping, Slot, NetworkAssumption
<1>8. ASSUME NEW cleanup \in BOOLEAN, EndPoll(cleanup) PROVE RestOK
  <2>1. /\ rx = "polling" /\ rx' = "signal" /\ polled' = 1 /\ out["rx"] = <<>>
        /\ UNCHANGED <<out, ether_flag, irq, held, cpu, running>>
    BY <1>8 DEF EndPoll, RxOnly, exitvars
  <2> QED BY <1>0, <2>1 DEF RestOK, RxType, IrqType, ExitType, Stopping, NetworkAssumption
<1>9. CASE RxPoll \/ RxSkips \/ RxSignal \/ RxStops
  <2>1. /\ rx \in {"sleep", "signal"} /\ rx' \in {"sleep", "polling", "signal", "stopped"}
        /\ UNCHANGED <<out, polled, irq, held, cpu, running>> /\ ether_flag' \in BOOLEAN
    BY <1>0, <1>9 DEF RxPoll, RxSkips, RxSignal, RxStops, RxOnly, exitvars, IrqType
  <2> QED BY <1>0, <2>1 DEF RestOK, RxType, IrqType, ExitType, Stopping
<1>10. CASE EtherInterrupt \/ Deliver \/ EndInterrupt \/ ExitStop \/ ExitLeaves
  <2>1. /\ UNCHANGED <<rx, polled, out>> /\ IrqType' /\ ExitType' /\ cpu' # "exited"
    BY <1>0, <1>10 DEF EtherInterrupt, Deliver, EndInterrupt, ExitStop, ExitLeaves, CpuOnly,
       InGuest, taskvars, rxvars, irqvars, exitvars, IrqType, ExitType
  <2> QED BY <1>0, <2>1 DEF RestOK, RxType, Stopping
<1>11. CASE Receive
  <2>1. Head(rx_packet_queue) \in Buffer
    BY <1>0, <1>11 DEF Receive, QueueType
  <2> QED BY <1>0, <1>11, <2>1 DEF Receive, CpuOnly, taskvars, rxvars, exitvars, RestOK,
             RxType, IrqType, ExitType, Stopping
<1>12. CASE ExitRouter
  BY <1>0, <1>12 DEF ExitRouter, taskvars, rxvars, irqvars, RestOK, RxType, IrqType, ExitType,
     Stopping
<1>13. CASE UNCHANGED vars
  BY <1>1, <1>13 DEF vars, taskvars
<1> QED
  BY <1>2, <1>3, <1>4, <1>5, <1>6, <1>7, <1>8, <1>9, <1>10, <1>11, <1>12, <1>13
     DEF Next, Guest, External, NetRxTask, Cpu

-----------------------------------------------------------------------------
(* Theorems. *)

LEMMA InitOK == NetworkAssumption /\ Init => IInv
<1> SUFFICES ASSUME NetworkAssumption, Init PROVE IInv
  OBVIOUS
<1>1. ~Used(Unused) /\ Torn \in Content
  BY DEF Used, Unused, Content
<1>2. ConnType /\ Table(connections, port, gstate)
  BY <1>1 DEF Init, ConnType, Table, Numbered, Placed
<1>3. <<>> \in Seq(Buffer) /\ <<>> \in Seq(Packet \union {Other}) /\ <<>> \in Seq(1..Bytes)
      /\ Len(<<>>) = 0
  OBVIOUS
<1>4. QueueType /\ TaskType
  BY <1>1, <1>3 DEF Init, QueueType, TaskType, Buffer, Task, NetworkAssumption
<1>5. RxType /\ GuestType /\ IrqType /\ ExitType
  <2>1. 1 \in 1..MAX_NET_CONNECTIONS + 1 /\ 1 \in 1..Ports + 1 /\ 1 \in 1..MaxSeq + 1
    BY DEF MaxSeq, Seq0, NetworkAssumption
  <2> QED BY <1>3, <2>1 DEF Init, RxType, GuestType, IrqType, ExitType
<1>6. OnTheWay
  BY <1>3, NoPackets DEF Init, OnTheWay, Sound
<1>7. Copying /\ Received /\ Stopping
  BY <1>3 DEF Init, Copying, Received, Stopping, Task
<1> QED BY <1>2, <1>4, <1>5, <1>6, <1>7 DEF IInv, TypeOK

\* The invariant that the theorems below rest on.
THEOREM Invariance == Spec => []IInv
<1>1. IInv /\ [Next]_vars => IInv'
  <2> SUFFICES ASSUME IInv, [Next]_vars PROVE IInv'
    OBVIOUS
  <2>1. TableKept /\ WayOK /\ ReceivedOK /\ RestOK
    BY NetworkAssumption, TableStep, WayStep, ReceivedStep, RestStep
  <2>2. TypeOK'
    BY <2>1 DEF TableKept, WayOK, ReceivedOK, RestOK, TypeOK
  <2>3. Table(connections, port, gstate)'
    BY <2>1 DEF TableKept
  <2> QED BY <2>1, <2>2, <2>3 DEF WayOK, ReceivedOK, RestOK, IInv
<1>2. Init => IInv
  BY NetworkAssumption, InitOK
<1> QED BY <1>1, <1>2, PTL DEF Spec

\* The state of the router, its tasks and the guest's TCP keeps its type.
THEOREM TypeCorrect == Spec => []TypeOK
<1>1. IInv => TypeOK
  BY DEF IInv
<1> QED BY <1>1, Invariance, PTL

\* Whatever is lost, repeated or torn by the packet ring (router_enqueue_packet,
\* router_dequeue_packet), what the guest accepts are the first bytes of the
\* remote host's stream.
THEOREM StreamIntact == Spec => []GuestStream
<1>1. IInv => GuestStream
  BY DEF IInv, Received, GuestStream, TypeOK, GuestType
<1> QED BY <1>1, Invariance, PTL

\* The FIN of poll_tcp_connection is accepted only after all the data.
THEOREM EndsWhole == Spec => []EndIsWhole
<1>1. IInv => EndIsWhole
  BY DEF IInv, Received, EndIsWhole, Find, Used
<1> QED BY <1>1, Invariance, PTL

\* router_exit runs after net_rx_task has ended.
THEOREM RouterOutlivesTask == Spec => []RouterLive
<1>1. IInv => RouterLive
  BY DEF IInv, Stopping, RouterLive
<1> QED BY <1>1, Invariance, PTL
=============================================================================
