-------------------------------- MODULE Tcp ---------------------------------
(* kernel/tcp.c on two machines and the network between them.              *)
(*                                                                         *)
(* tcp_receive runs inside the network card's interrupt, so it may fall    *)
(* between the two halves of any call made outside it: send_tracked puts   *)
(* the segment on the wire before it advances snd_next, and tcp_tick clears *)
(* ack_pending before it sends.  `busy' is the half of such a call that is *)
(* still to run.  The network loses, repeats and reorders: a segment that  *)
(* was sent stays deliverable, and need never be delivered.  Timeouts are  *)
(* taken to have run out whenever the tick asks.                           *)
EXTENDS Integers, Sequences, FiniteSets

CONSTANTS Slots,       \* slots of the connection table (TCP_MAX_CONNECTIONS)
          Ports,       \* ports the client gives its connections, in order
          SeqMod,      \* sequence numbers are counted modulo this (2^32)
          IssGap,      \* how far apart two initial sequence numbers are
          RecvBuffer,  \* bytes a receive ring holds
          MaxTries,    \* RTO_MAX_TRIES
          MaxOpens,    \* bound: connections opened, actively or passively
          MaxBytes,    \* bound: bytes a program sends on one connection
          WireSize,    \* bound: segments under way to each machine
          Speakers,    \* the machines whose programs send
          Leaves       \* whether a frame tcp_send hands over leaves: {TRUE} when
                       \* a transmit buffer and the next hop are always there

VARIABLES conns,       \* the connection table of each machine
          listening,   \* whether the server's port is in its listen table
          opened,      \* connections opened so far: stands for the tick count
          nextPort,    \* the client's next_port
          busy,        \* the rest of the call a machine is in, outside interrupts
          wire         \* segments sent, with the machine each is for

tcpVars == <<conns, listening, opened, nextPort, busy, wire>>

Hosts == {"client", "server"}
Peer(h) == IF h = "client" THEN "server" ELSE "client"
\* A slot that is not in use; kmemset clears a slot when it is taken again.
Unused == [state |-> "UNUSED"]

\* The initial sequence number, which the tick count drives: connections
\* opened at different times start IssGap apart.
Iss == (SeqMod - 2 + opened * IssGap) % SeqMod

\* tcp_conn_t.  The pending segment is there when its flags are not empty.
\* The last three fields are not in the code: the bytes tcp_send reported
\* taken, the bytes the program has read, and whether something was received
\* since the last segment that left, which would have acknowledged it.  A FIN
\* carries how many bytes came before it.
NewConn(port, state, rcvNext) ==
  [state |-> state, port |-> port, sndNext |-> Iss, sndUna |-> Iss,
   rcvNext |-> rcvNext, pflags |-> {}, pseq |-> 0, pdata |-> <<>>, tries |-> 0,
   recv |-> <<>>, fin |-> FALSE, ackp |-> FALSE, accepted |-> FALSE, adv |-> 0,
   taken |-> 0, got |-> <<>>, owed |-> FALSE, total |-> 0]

Plus(a, n) == (a + n) % SeqMod

\* The signed difference is not positive.
seq_le(a, b) == LET d == (a - b) % SeqMod IN d = 0 \/ d >= SeqMod \div 2

recv_free(c) == RecvBuffer - Len(c.recv)

\* SYN and FIN occupy one sequence number each.
Occupies(flags, data) == Len(data) + (IF flags \cap {"SYN", "FIN"} # {} THEN 1 ELSE 0)

Segment(c, flags, seq, data) ==
  [port |-> c.port, flags |-> flags, seq |-> seq, ack |-> c.rcvNext, data |-> data,
   total |-> IF "FIN" \in flags THEN c.taken ELSE 0]

\* send_segment: the window is noted even when the frame does not leave.
Sent(c, left) == [c EXCEPT !.adv = recv_free(c), !.owed = @ /\ ~left]

\* A segment joins those under way to the other machine.  Any of them may be
\* lost to make room; the rest may arrive in any order and any number of times.
Transmit(h, seg) ==
  \E under \in SUBSET (wire[Peer(h)] \cup {seg}) :
    /\ Cardinality(under) <= WireSize[Peer(h)]
    /\ Cardinality(wire[Peer(h)]) >= WireSize[Peer(h)] \/ under = wire[Peer(h)] \cup {seg}
    /\ Cardinality(under) >= Cardinality(wire[Peer(h)])
    /\ wire' = [wire EXCEPT ![Peer(h)] = under]

\* The first half of send_tracked: the segment is remembered, then sent.
Track(c, flags, data) ==
  [c EXCEPT !.pseq = c.sndNext, !.pflags = flags, !.pdata = data]

\* The second half: what was sent now counts as sent.
Tracked(c, n) == [c EXCEPT !.sndNext = Plus(@, n), !.tries = 0]

TableFree(h) == {i \in Slots : conns[h][i] = Unused}
First(S) == CHOOSE i \in S : \A j \in S : i <= j
NotBusy == [slot |-> 0, then |-> "no", adds |-> 0]
Idle(h) == busy[h] = NotBusy

-----------------------------------------------------------------------------
(* Receiving, inside the interrupt.                                        *)

\* Nothing is in flight; what the code leaves in these fields is not read again.
Retired(c) == [c EXCEPT !.pflags = {}, !.pdata = <<>>, !.pseq = 0, !.tries = 0]

\* An acknowledgement of what is in flight retires it.
Acknowledge(c, s) ==
  IF ~(/\ "ACK" \in s.flags
       /\ seq_le(c.sndUna, s.ack)
       /\ seq_le(s.ack, c.sndNext))
  THEN c
  ELSE IF seq_le(Plus(c.pseq, Occupies(c.pflags, c.pdata)), s.ack)
       THEN [Retired(c) EXCEPT !.sndUna = s.ack]
       ELSE [c EXCEPT !.sndUna = s.ack]


\* In-order data, all of the segment or none of it.
TakeData(c, s) ==
  IF s.data = <<>> THEN c
  ELSE IF s.seq = c.rcvNext /\ Len(s.data) <= recv_free(c)
       THEN [c EXCEPT !.recv = @ \o s.data, !.rcvNext = Plus(@, Len(s.data)), !.ackp = TRUE,
                      !.owed = TRUE]
       ELSE [c EXCEPT !.ackp = TRUE]

TakeFinEarly(c, s) ==
  IF "FIN" \in s.flags
  THEN [c EXCEPT !.rcvNext = Plus(@, 1), !.fin = TRUE, !.ackp = TRUE, !.owed = TRUE, !.total = s.total,
                 !.state = IF @ = "ESTABLISHED" THEN "CLOSE_WAIT" ELSE "TIME_WAIT"]
  ELSE c

TakeFin(c, s) ==
  CASE "FIN" \in s.flags /\ seq_le(s.seq, c.rcvNext) ->
         [c EXCEPT !.rcvNext = Plus(@, 1), !.fin = TRUE, !.ackp = TRUE, !.owed = TRUE, !.total = s.total,
                   !.state = IF @ = "ESTABLISHED" THEN "CLOSE_WAIT" ELSE "TIME_WAIT"]
    [] "FIN" \notin s.flags \/ ~seq_le(s.seq, c.rcvNext) ->
         IF "ACK" \in s.flags /\ c.state = "FIN_WAIT_1" /\ seq_le(c.sndNext, s.ack)
         THEN [c EXCEPT !.state = "FIN_WAIT_2"]
         ELSE c

\* tcp_receive for a segment of a connection in the table.
ReceiveOn(c0, s) ==
  LET c == Acknowledge(c0, s) IN
  CASE "RST" \in s.flags -> [c0 EXCEPT !.state = "CLOSED"]
    [] "RST" \notin s.flags /\ c0.state = "SYN_RECEIVED" ->
         IF "ACK" \in s.flags
         THEN [Retired(c) EXCEPT !.state = "ESTABLISHED"] ELSE c
    [] "RST" \notin s.flags /\ c0.state = "SYN_SENT" ->
         IF {"SYN", "ACK"} \subseteq s.flags
         THEN [c EXCEPT !.rcvNext = Plus(s.seq, 1), !.state = "ESTABLISHED", !.ackp = TRUE,
                        !.owed = TRUE]
         ELSE c
    [] "RST" \notin s.flags /\ c0.state \in {"ESTABLISHED", "FIN_WAIT_1", "FIN_WAIT_2"} ->
         TakeFin(TakeData(c, s), s)
    [] "RST" \notin s.flags /\ c0.state = "LAST_ACK" ->
         IF "ACK" \in s.flags THEN [c EXCEPT !.state = "CLOSED"] ELSE c
    [] OTHER -> c

Matching(h, s) == {i \in Slots : conns[h][i] # Unused /\ conns[h][i].port = s.port}

\* A SYN for a listening port takes a slot and is answered.
AcceptSyn(h, s) ==
  LET i == First(TableFree(h))
      c == Track(NewConn(s.port, "SYN_RECEIVED", Plus(s.seq, 1)), {"SYN", "ACK"}, <<>>)
  IN /\ opened < MaxOpens /\ opened' = opened + 1
     /\ conns' = [conns EXCEPT ![h][i] = Tracked(Sent(c, TRUE), 1)]
     /\ Transmit(h, Segment(c, {"SYN", "ACK"}, c.pseq, <<>>))

SendReset(h, s) ==
  /\ IF "RST" \in s.flags THEN UNCHANGED wire
     ELSE Transmit(h, [port |-> s.port, flags |-> {"RST"}, seq |-> s.ack, ack |-> 0,
                       data |-> <<>>, total |-> 0])
  /\ UNCHANGED <<conns, opened>>

tcp_receive(h) ==
  \E s \in wire[h] :
    /\ LET mine == Matching(h, s) IN
       \/ /\ mine # {}
          /\ conns' = [conns EXCEPT ![h][First(mine)] = ReceiveOn(@, s)]
          /\ UNCHANGED <<wire, opened>>
       \/ /\ mine = {}
          /\ IF /\ s.flags = {"SYN"} /\ h = "server" /\ listening
                /\ TableFree(h) # {}
             THEN AcceptSyn(h, s)
             ELSE SendReset(h, s)
    /\ UNCHANGED <<listening, nextPort, busy>>

-----------------------------------------------------------------------------
(* Calls, outside the interrupt.                                           *)

\* A call that ends in send_tracked: the first half of it.
Tracks(h, i, c, flags, data, left, then) ==
  LET t == Track(c, flags, data) IN
  /\ conns' = [conns EXCEPT ![h][i] = Sent(t, left)]
  /\ IF left THEN Transmit(h, Segment(t, flags, t.pseq, data)) ELSE UNCHANGED wire
  /\ busy' = [busy EXCEPT ![h] = [slot |-> i, then |-> then, adds |-> Occupies(flags, data)]]

tcp_connect ==
  /\ Idle("client") /\ nextPort \in Ports /\ TableFree("client") # {}
  /\ Tracks("client", First(TableFree("client")), NewConn(nextPort, "SYN_SENT", 0),
            {"SYN"}, <<>>, TRUE, "return")
  /\ nextPort' = nextPort + 1
  /\ opened < MaxOpens /\ opened' = opened + 1
  /\ UNCHANGED listening

\* A program has the handle of a connection it opened or accepted.
Holds(h, i) == conns[h][i] # Unused /\ (h = "client" \/ conns[h][i].accepted)

\* One byte per segment; the program's bytes are numbered in the order it
\* hands them over, so a byte offered again has the same number.  A frame the
\* card drops, or that waits for ARP, is tracked all the same and reported as
\* not taken.
tcp_send(h, i) ==
  LET c == conns[h][i] IN
  /\ Idle(h) /\ Holds(h, i)
  /\ h \in Speakers /\ c.state = "ESTABLISHED" /\ c.pflags = {} /\ c.taken < MaxBytes
  /\ \E left \in Leaves :
       Tracks(h, i, c, {"ACK", "PSH"}, <<c.taken + 1>>, left, IF left THEN "taken" ELSE "return")
  /\ UNCHANGED <<listening, opened, nextPort>>

tcp_close(h, i) ==
  LET c == conns[h][i] IN
  /\ Idle(h) /\ Holds(h, i)
  /\ IF c.state \in {"ESTABLISHED", "CLOSE_WAIT"}
     THEN Tracks(h, i, c, {"ACK", "FIN"}, <<>>, TRUE,
                 IF c.state = "ESTABLISHED" THEN "FIN_WAIT_1" ELSE "LAST_ACK")
     ELSE /\ conns' = [conns EXCEPT ![h][i] = Unused]
          /\ UNCHANGED <<wire, busy>>
  /\ UNCHANGED <<listening, opened, nextPort>>

\* The second half of send_tracked, and what its caller does with the result.
\* tcp_close sets the state whatever the interrupt made of it meanwhile.
FinishTrack(h) ==
  /\ busy[h].then \in {"taken", "return", "FIN_WAIT_1", "LAST_ACK"}
  /\ LET i == busy[h].slot  c == conns[h][i]  then == busy[h].then IN
     conns' = [conns EXCEPT ![h][i] =
       LET t == Tracked(c, busy[h].adds) IN
       CASE then = "taken" -> [t EXCEPT !.taken = @ + 1]
         [] then = "return" -> t
         [] then \in {"FIN_WAIT_1", "LAST_ACK"} -> [t EXCEPT !.state = then]]
  /\ busy' = [busy EXCEPT ![h] = NotBusy]
  /\ UNCHANGED <<listening, opened, nextPort, wire>>

\* tcp_recv empties the ring; the window update is asked for.
tcp_recv(h, i) ==
  LET c == conns[h][i] IN
  /\ Idle(h) /\ Holds(h, i) /\ c.recv # <<>>
  /\ conns' = [conns EXCEPT ![h][i] =
       [c EXCEPT !.got = @ \o c.recv, !.recv = <<>>, !.ackp = @ \/ RecvBuffer >= c.adv + 1]]
  /\ UNCHANGED <<listening, opened, nextPort, busy, wire>>

tcp_accept ==
  LET ready == {i \in Slots : conns["server"][i] # Unused /\ ~conns["server"][i].accepted
                              /\ conns["server"][i].state = "ESTABLISHED"} IN
  /\ Idle("server") /\ ready # {}
  /\ conns' = [conns EXCEPT !["server"][First(ready)].accepted = TRUE]
  /\ UNCHANGED <<listening, opened, nextPort, busy, wire>>

\* The server's program starts and stops listening between connections.
tcp_listen ==
  /\ Idle("server") /\ TableFree("server") = Slots
  /\ ~listening /\ listening' = TRUE
  /\ UNCHANGED <<conns, opened, nextPort, busy, wire>>

tcp_unlisten ==
  /\ Idle("server") /\ TableFree("server") = Slots
  /\ listening /\ listening' = FALSE
  /\ UNCHANGED <<conns, opened, nextPort, busy, wire>>

\* tcp_tick on one connection, up to the acknowledgement.
TickReap(h, i) ==
  /\ Idle(h) /\ conns[h][i] # Unused
  /\ conns[h][i].state \in {"CLOSED", "TIME_WAIT"}
  /\ conns' = [conns EXCEPT ![h][i] = Unused]
  /\ UNCHANGED <<listening, opened, nextPort, busy, wire>>

\* ack_pending is cleared before the acknowledgement is sent.
TickAck(h, i) ==
  /\ Idle(h) /\ conns[h][i] # Unused /\ conns[h][i].state # "CLOSED" /\ conns[h][i].ackp
  /\ conns' = [conns EXCEPT ![h][i].ackp = FALSE]
  /\ busy' = [busy EXCEPT ![h] = [slot |-> i, then |-> "ack", adds |-> 0]]
  /\ UNCHANGED <<listening, opened, nextPort, wire>>


\* What tick does when the acknowledgement did not leave: it asks again.
AskAgain(c) == [c EXCEPT !.ackp = TRUE]
SendAck(h) ==
  /\ busy[h].then = "ack"
  /\ LET i == busy[h].slot  c == conns[h][i] IN
     \/ /\ conns' = [conns EXCEPT ![h][i] = Sent(c, TRUE)]
        /\ Transmit(h, Segment(c, {"ACK"}, c.sndNext, <<>>))
     \/ /\ conns' = [conns EXCEPT ![h][i] = AskAgain(Sent(c, FALSE))]
        /\ UNCHANGED wire
  /\ busy' = [busy EXCEPT ![h] = IF conns[h][@.slot].pflags = {} THEN NotBusy
                                 ELSE [@ EXCEPT !.then = "resend"]]
  /\ UNCHANGED <<listening, opened, nextPort>>

\* The pending segment is sent again once its deadline has passed.
TickResend(h, i) ==
  /\ Idle(h) \/ (busy[h].slot = i /\ busy[h].then = "resend")
  /\ conns[h][i] # Unused
  /\ LET c == conns[h][i] IN
     /\ c.pflags # {} /\ (Idle(h) => c.state # "CLOSED" /\ ~c.ackp)
     /\ IF c.tries + 1 > MaxTries
        THEN /\ conns' = [conns EXCEPT ![h][i] = [c EXCEPT !.state = "CLOSED", !.tries = @ + 1]]
             /\ UNCHANGED wire
        ELSE /\ conns' = [conns EXCEPT ![h][i] = [Sent(c, TRUE) EXCEPT !.tries = @ + 1]]
             /\ Transmit(h, Segment(c, c.pflags, c.pseq, c.pdata))
  /\ busy' = [busy EXCEPT ![h] = NotBusy]
  /\ UNCHANGED <<listening, opened, nextPort>>

\* The deadline of the pending segment has not passed.
TickNotDue(h) ==
  /\ busy[h].then = "resend"
  /\ busy' = [busy EXCEPT ![h] = NotBusy]
  /\ UNCHANGED <<conns, listening, opened, nextPort, wire>>

-----------------------------------------------------------------------------
TcpInit ==
  /\ conns = [h \in Hosts |-> [i \in Slots |-> Unused]]
  /\ listening = FALSE
  /\ opened = 0
  /\ nextPort = First(Ports)
  /\ busy = [h \in Hosts |-> NotBusy]
  /\ wire = [h \in Hosts |-> {}]

TcpNext ==
  \/ tcp_connect \/ tcp_accept \/ tcp_listen \/ tcp_unlisten
  \/ \E h \in Hosts :
       \/ tcp_receive(h) \/ FinishTrack(h) \/ SendAck(h) \/ TickNotDue(h)
       \/ \E i \in Slots : \/ tcp_send(h, i) \/ tcp_recv(h, i)
                           \/ tcp_close(h, i) \/ TickReap(h, i) \/ TickAck(h, i)
                           \/ TickResend(h, i)

TcpSpec == TcpInit /\ [][TcpNext]_tcpVars

-----------------------------------------------------------------------------
Open(h) == {i \in Slots : conns[h][i] # Unused}

\* What a program has read and what waits in its ring are the peer's bytes
\* from the first on, none missing, none twice, none out of order (the in-order
\* test of tcp_receive, the retransmission of tcp_tick, the wrapping compare).
StreamExact ==
  \A h \in Hosts : \A i \in Open(h) :
    LET c == conns[h][i]  all == c.got \o c.recv IN all = [n \in 1..Len(all) |-> n]

\* peer_finished is only set once every byte the peer was told was taken has
\* arrived: end of file never cuts a stream short.
EofExact ==
  \A h \in Hosts : \A i \in Open(h) :
    conns[h][i].fin => Len(conns[h][i].got) + Len(conns[h][i].recv) = conns[h][i].total

=============================================================================
