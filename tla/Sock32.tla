------------------------------- MODULE Sock32 -------------------------------
(***************************************************************************)
(* Descriptors and local sockets of the 32-bit kernel: kernel/socket.c and *)
(* the descriptor calls of kernel/posix.c.                                 *)
(*                                                                         *)
(* A call is one step.  One that has to wait parks its process on the      *)
(* sockets it looked at and is made again when one of them is woken.  The  *)
(* bytes of a queue are counted, and a passed descriptor stands in the     *)
(* queue at the distance the reader still has to it.                       *)
(***************************************************************************)
EXTENDS Integers, Sequences, FiniteSets

CONSTANTS
  Procs,        \* processes, numbered; the first starts, the others are forked
  NSocks,       \* MAX_SOCKETS
  NFds,         \* descriptors of a process (POSIX_MAX_FDS)
  SockBuf,      \* SOCK_BUF_SIZE
  MaxBacklog,   \* MAX_BACKLOG
  MaxPassed,    \* MAX_PASSED_FDS
  NFlight,      \* MAX_IN_FLIGHT
  SockCalls,    \* the calls programs make, as tuples
  Corners       \* of "pair", "listener", "table", "quiet": the corners programs go into

VARIABLES
  socks,        \* sockets[]
  fds,          \* fds[] of each process: a socket, or 0
  flight,       \* in_flight[]: a socket, or 0
  bound,        \* the socket bound to the one path there is, or 0
  alive,        \* processes that exist
  parked        \* what each process waits in, NotParked if it runs

sockVars == <<socks, fds, flight, bound, alive, parked>>

NotParked == [call |-> <<>>, on |-> {}]

FreeSock == [state |-> "free", refs |-> 0, peer |-> 0, peerClosed |-> FALSE,
             shutRd |-> FALSE, shutWr |-> FALSE, count |-> 0, passed |-> <<>>, backlog |-> <<>>]

World == [socks |-> socks, fds |-> fds, flight |-> flight, bound |-> bound,
          alive |-> alive, parked |-> parked]

NowIs(w) ==
  /\ socks' = w.socks
  /\ fds' = w.fds
  /\ flight' = w.flight
  /\ bound' = w.bound
  /\ alive' = w.alive
  /\ parked' = w.parked

First(S) == CHOOSE x \in S : \A y \in S : x <= y
LessOf(a, b) == IF a < b THEN a ELSE b

(***************************************************************************)
(* Sockets.                                                                *)
(***************************************************************************)
FreeSocks(w) == {s \in 1..NSocks : w.socks[s].state = "free"}

sock_alloc(w, s) ==
  [w EXCEPT !.socks[s] = [FreeSock EXCEPT !.state = "unbound", !.refs = 1]]

sock_free(w, s) ==
  [w EXCEPT !.socks[s] = FreeSock, !.bound = IF @ = s THEN 0 ELSE @]

link_pair(w, a, b) ==
  [w EXCEPT !.socks[a].peer = b, !.socks[a].state = "connected",
            !.socks[b].peer = a, !.socks[b].state = "connected"]

\* scheduler_wake_on() with room for everyone: all who parked on the socket.
WakeSocket(w, s) ==
  [w EXCEPT !.parked = [p \in Procs |->
     IF s \in @[p].on THEN [@[p] EXCEPT !.on = {}] ELSE @[p]]]

socket_ref(w, s) == [w EXCEPT !.socks[s].refs = @ + 1]

HangUp(w, s) ==
  LET peer == w.socks[s].peer
  IN IF peer = 0 THEN w
     ELSE WakeSocket([w EXCEPT !.socks[peer].peerClosed = TRUE, !.socks[peer].peer = 0], peer)

RECURSIVE socket_close(_, _), DiscardAll(_, _), FreeBacklog(_, _)

FreeBacklog(w, list) ==
  IF list = <<>> THEN w ELSE FreeBacklog(sock_free(w, Head(list)), Tail(list))

\* posix_fd_discard() of every descriptor still queued in a socket that goes.
DiscardAll(w, passed) ==
  IF passed = <<>> THEN w
  ELSE LET tok == Head(passed).tok
       IN DiscardAll([socket_close(w, w.flight[tok]) EXCEPT !.flight[tok] = 0], Tail(passed))

socket_close(w, s) ==
  LET k == w.socks[s]
  IN IF k.refs > 1 THEN [w EXCEPT !.socks[s].refs = @ - 1]
     ELSE DiscardAll(sock_free(FreeBacklog(HangUp(w, s), k.backlog), s), k.passed)

(***************************************************************************)
(* Descriptors.                                                            *)
(***************************************************************************)
FreeFds(w, p) == {f \in 1..NFds : w.fds[p][f] = 0}

posix_fd_install_socket(w, p, s) == [w EXCEPT !.fds[p][First(FreeFds(w, p))] = s]

sys_close(w, p, fd) == [socket_close(w, w.fds[p][fd]) EXCEPT !.fds[p][fd] = 0]

fd_dup_to(w, p, old, new) ==
  LET closed == IF w.fds[p][new] # 0 THEN sys_close(w, p, new) ELSE w
  IN IF old = new THEN w
     ELSE socket_ref([closed EXCEPT !.fds[p][new] = w.fds[p][old]], w.fds[p][old])

sys_dup(w, p, fd) ==
  IF FreeFds(w, p) = {} THEN w ELSE fd_dup_to(w, p, fd, First(FreeFds(w, p)))

\* A pair that does not fit the socket table leaves nothing behind.
TwoLinked(w) ==
  LET a == First(FreeSocks(w))
      b == First(FreeSocks(w) \ {a})
  IN [ok |-> Cardinality(FreeSocks(w)) >= 2, a |-> a, b |-> b,
      w |-> link_pair(sock_alloc(sock_alloc(w, a), b), a, b)]

\* The second descriptor failing closes both ends, but leaves the first
\* descriptor naming the end that is gone.
do_socketpair(w, p) ==
  IF Cardinality(FreeSocks(w)) < 2 THEN w
  ELSE LET two == TwoLinked(w)
           one == posix_fd_install_socket(two.w, p, two.a)
           Undo(x) == socket_close(socket_close(x, two.a), two.b)
       IN IF FreeFds(w, p) = {} THEN Undo(two.w)
          ELSE IF FreeFds(one, p) = {} THEN Undo(one)
          ELSE posix_fd_install_socket(one, p, two.b)

sys_pipe(w, p) ==
  IF Cardinality(FreeSocks(w)) < 2 THEN w
  ELSE LET two == TwoLinked(w)
           cut == [two.w EXCEPT !.socks[two.a].shutWr = TRUE, !.socks[two.b].shutRd = TRUE]
           one == posix_fd_install_socket(cut, p, two.a)
           rfd == First(FreeFds(w, p))
       IN IF FreeFds(w, p) = {} THEN socket_close(socket_close(cut, two.a), two.b)
          ELSE IF FreeFds(one, p) = {} THEN socket_close(sys_close(one, p, rfd), two.b)
          ELSE posix_fd_install_socket(one, p, two.b)

RECURSIVE CloseAll(_, _, _)
CloseAll(w, p, S) ==
  IF S = {} THEN w ELSE CloseAll(sys_close(w, p, First(S)), p, S \ {First(S)})

\* The end of a process: every descriptor it holds.
ProcessExit(w, p) ==
  [CloseAll(w, p, {f \in 1..NFds : w.fds[p][f] # 0}) EXCEPT !.alive = @ \ {p}]

\* A forked child holds what its parent holds.
ForkFds(w, p, child) ==
  LET held(s) == Cardinality({f \in 1..NFds : w.fds[p][f] = s})
  IN [w EXCEPT !.fds[child] = w.fds[p], !.alive = @ \cup {child},
               !.socks = [s \in 1..NSocks |->
                  [w.socks[s] EXCEPT !.refs = @ + IF w.socks[s].state = "free" THEN 0 ELSE held(s)]]]

(***************************************************************************)
(* Moving data and descriptors.                                            *)
(***************************************************************************)
Park(w, p, c, S) == [w EXCEPT !.parked[p] = [call |-> c, on |-> S]]
Served(w, p) == [w EXCEPT !.parked[p] = NotParked]

\* A write never waits: a full queue is -EAGAIN.
socket_write(w, s, n) ==
  LET k == w.socks[s]
      fits == LessOf(n, SockBuf - w.socks[k.peer].count)
  IN IF k.state # "connected" \/ k.shutWr \/ k.peerClosed \/ k.peer = 0 THEN w
     ELSE IF fits = 0 THEN w
     ELSE WakeSocket([w EXCEPT !.socks[k.peer].count = @ + fits], k.peer)

\* Reading stops in front of a descriptor the reader has not come to.
q_limit(k) ==
  First({k.count} \cup {k.passed[i].dist : i \in {j \in DOMAIN k.passed : k.passed[j].dist > 0}})

q_get(w, s, n) ==
  LET take == LessOf(n, q_limit(w.socks[s]))
  IN [w EXCEPT !.socks[s].count = @ - take,
               !.socks[s].passed = [i \in DOMAIN @ |-> [@[i] EXCEPT !.dist = @ - take]]]

Here(k) == Cardinality({i \in DOMAIN k.passed : k.passed[i].dist <= 0})

socket_readSilent(w, p, s, c) ==
  LET k == w.socks[s]
  IN IF k.shutRd THEN Served(w, p)
     ELSE IF k.count = 0
          THEN IF k.peerClosed \/ k.peer = 0 THEN Served(w, p) ELSE Park(w, p, c, {s})
     ELSE Served(q_get(w, s, c[3]), p)

\* read() throws away the descriptors of the message it stands at.
socket_read(w, p, s, c) ==
  LET k == w.socks[s]
      bare == IF k.count > 0
              THEN [w EXCEPT !.socks[s].passed = SubSeq(@, Here(k) + 1, Len(@))] ELSE w
      got == q_get(bare, s, c[3])
  IN IF k.shutRd THEN Served(w, p)
     ELSE IF k.count = 0
          THEN IF k.peerClosed \/ k.peer = 0 THEN Served(w, p) ELSE Park(w, p, c, {s})
     ELSE IF k.peer = 0 THEN Served(got, p) ELSE WakeSocket(Served(got, p), k.peer)


posix_fd_export(w, s) ==
  LET tok == First({t \in 1..NFlight : w.flight[t] = 0})
  IN socket_ref([w EXCEPT !.flight[tok] = s], s)

\* A message with a descriptor: the descriptor is queued before the bytes are
\* written, and stays queued when they are not.
do_sendmsg(w, p, s, fd, n) ==
  LET peer == w.socks[s].peer
      room == {t \in 1..NFlight : w.flight[t] = 0}
      queued == [posix_fd_export(w, w.fds[p][fd]) EXCEPT
                   !.socks[peer].passed = Append(@, [tok |-> First(room), dist |-> w.socks[peer].count])]
  IN IF peer = 0 \/ room = {} THEN w
     ELSE IF Len(w.socks[peer].passed) >= MaxPassed THEN w
     ELSE socket_write(queued, s, n)

posix_fd_import(w, p, tok) ==
  IF FreeFds(w, p) = {} THEN w
  ELSE [posix_fd_install_socket(w, p, w.flight[tok]) EXCEPT !.flight[tok] = 0]

RECURSIVE ImportFirst(_, _, _, _)
ImportFirst(w, p, s, n) ==
  IF n = 0 THEN w
  ELSE ImportFirst([posix_fd_import(w, p, Head(w.socks[s].passed).tok) EXCEPT
                      !.socks[s].passed = Tail(@)], p, s, n - 1)

\* recvmsg() takes the descriptors it stands at, then bytes; it does not wake
\* whoever waits to write.
do_recvmsg(w, p, s, c) ==
  LET k == w.socks[s]
      taken == ImportFirst(w, p, s, Here(k))
  IN IF k.count = 0
     THEN IF Here(k) > 0 \/ k.peerClosed \/ k.peer = 0 THEN Served(taken, p)
          ELSE Park(taken, p, c, {s})
     ELSE q_get(Served(taken, p), s, c[3])

shutdown(w, s, how) ==
  LET k == w.socks[s]
      rd == IF how \in {"rd", "rdwr"} THEN [w EXCEPT !.socks[s].shutRd = TRUE] ELSE w
      wr == [rd EXCEPT !.socks[s].shutWr = TRUE]
  IN IF how = "rd" THEN rd
     ELSE IF k.peer = 0 THEN wr
     ELSE WakeSocket([wr EXCEPT !.socks[k.peer].peerClosed = TRUE], k.peer)

(***************************************************************************)
(* Listening and connecting.                                               *)
(***************************************************************************)
do_socket(w, p) ==
  IF FreeSocks(w) = {} \/ FreeFds(w, p) = {} THEN w
  ELSE LET s == First(FreeSocks(w)) IN posix_fd_install_socket(sock_alloc(w, s), p, s)

do_bind(w, s) ==
  IF w.socks[s].state # "unbound" \/ w.bound # 0 THEN w
  ELSE [w EXCEPT !.bound = s, !.socks[s].state = "bound"]

do_listen(w, s) ==
  IF w.socks[s].state # "bound" THEN w ELSE [w EXCEPT !.socks[s].state = "listening"]

\* unlink() of the path takes the name, and the listening, from its socket.
socket_unbind_path(w) ==
  IF w.bound = 0 THEN w ELSE [w EXCEPT !.socks[w.bound].state = "unbound", !.bound = 0]

do_connect(w, s) ==
  LET l == w.bound
      end == First(FreeSocks(w))
  IN IF w.socks[s].state = "connected" \/ l = 0 THEN w
     ELSE IF \/ w.socks[l].state # "listening" \/ Len(w.socks[l].backlog) >= MaxBacklog
             \/ FreeSocks(w) = {}
          THEN w
     ELSE WakeSocket([link_pair(sock_alloc(w, end), s, end) EXCEPT
                        !.socks[l].backlog = Append(@, end)], l)

do_accept(w, p, s, c) ==
  LET k == w.socks[s]
      took == [w EXCEPT !.socks[s].backlog = Tail(@)]
  IN IF k.state # "listening" THEN Served(w, p)
     ELSE IF k.backlog = <<>> THEN Park(w, p, c, {s})
     ELSE IF FreeFds(w, p) = {} THEN Served(socket_close(took, Head(k.backlog)), p)
     ELSE Served(posix_fd_install_socket(took, p, Head(k.backlog)), p)

(***************************************************************************)
(* Waiting for readiness.                                                  *)
(***************************************************************************)
socket_poll_mask(w, s) ==
  LET k == w.socks[s]
  IN IF k.state = "listening" THEN IF k.backlog # <<>> THEN {"in"} ELSE {}
     ELSE (IF k.count > 0 \/ k.shutRd THEN {"in"} ELSE {}) \cup
          (IF k.peerClosed \/ k.peer = 0 THEN {"in", "hup"}
           ELSE IF k.state = "connected" /\ ~k.shutWr /\ w.socks[k.peer].count < SockBuf
                THEN {"out"} ELSE {})

\* poll() and select() on one descriptor, without a timeout.
sys_poll(w, p, s, c) ==
  IF socket_poll_mask(w, s) \cap {c[3], "hup"} # {} THEN Served(w, p) ELSE Park(w, p, c, {s})

(***************************************************************************)
(* The calls of a process.                                                 *)
(***************************************************************************)
NoFd == {"pair", "pipe", "socket", "fork", "exit", "unlink"}

sock_syscall(w, p, c) ==
  LET s == IF c[1] \in NoFd THEN 0 ELSE w.fds[p][c[2]]
  IN CASE c[1] = "pair"     -> do_socketpair(w, p)
       [] c[1] = "pipe"     -> sys_pipe(w, p)
       [] c[1] = "socket"   -> do_socket(w, p)
       [] c[1] = "fork"     -> ForkFds(w, p, First(Procs \ w.alive))
       [] c[1] = "exit"     -> ProcessExit(w, p)
       [] c[1] = "unlink"   -> socket_unbind_path(w)
       [] c[1] = "close"    -> sys_close(w, p, c[2])
       [] c[1] = "dup"      -> sys_dup(w, p, c[2])
       [] c[1] = "dup2"     -> fd_dup_to(w, p, c[2], c[3])
       [] c[1] = "write"    -> socket_write(w, s, c[3])
       [] c[1] = "read"     -> socket_read(w, p, s, c)
       [] c[1] = "sendmsg"  -> do_sendmsg(w, p, s, c[3], 1)
       [] c[1] = "recvmsg"  -> do_recvmsg(w, p, s, c)
       [] c[1] = "shutdown" -> shutdown(w, s, c[3])
       [] c[1] = "bind"     -> do_bind(w, s)
       [] c[1] = "listen"   -> do_listen(w, s)
       [] c[1] = "connect"  -> do_connect(w, s)
       [] c[1] = "accept"   -> do_accept(w, p, s, c)
       [] c[1] = "poll"     -> sys_poll(w, p, s, c)

\* The descriptors a call names are open, and there is a process left to fork.
Names(p, c) ==
  /\ c[1] \notin NoFd => fds[p][c[2]] # 0
  /\ c[1] = "sendmsg" => fds[p][c[3]] # 0
  /\ c[1] = "fork" => Procs \ alive # {}

\* Corners the code gets wrong: a pair made with one descriptor left, a listener
\* closed on connections nobody has accepted, a descriptor received with none
\* left, and two calls that wake nobody, unlink() of the name of a listener and
\* shutdown() of reading, made while somebody sleeps there.
Avoids(p, c) ==
  LET shut == CASE c[1] = "close" -> {fds[p][c[2]]}
                [] c[1] = "dup2" -> {fds[p][c[3]]}
                [] c[1] = "exit" -> {fds[p][f] : f \in 1..NFds}
                [] OTHER -> {}
      quiet == CASE c[1] = "unlink" -> bound
                 [] c[1] = "shutdown" /\ c[3] # "wr" -> fds[p][c[2]]
                 [] OTHER -> 0
  IN /\ quiet # 0 /\ "quiet" \notin Corners => \A q \in alive : quiet \notin parked[q].on
     /\ c[1] = "pair" /\ "pair" \notin Corners => Cardinality(FreeFds(World, p)) # 1
     /\ "listener" \notin Corners => \A s \in shut \ {0} : socks[s].backlog = <<>>
     /\ c[1] = "recvmsg" /\ "table" \notin Corners =>
          Cardinality(FreeFds(World, p)) >= Here(socks[fds[p][c[2]]])

SockCall(p) ==
  /\ p \in alive
  /\ parked[p].on = {}
  /\ \E c \in IF parked[p].call = <<>> THEN SockCalls ELSE {parked[p].call} :
       /\ Names(p, c)
       /\ Avoids(p, c)
       /\ \E w \in {sock_syscall([World EXCEPT !.parked[p] = NotParked], p, c)} : NowIs(w)

SockInit ==
  /\ socks = [s \in 1..NSocks |-> FreeSock]
  /\ fds = [p \in Procs |-> [f \in 1..NFds |-> 0]]
  /\ flight = [t \in 1..NFlight |-> 0]
  /\ bound = 0
  /\ alive = {First(Procs)}
  /\ parked = [p \in Procs |-> NotParked]

\* A poll is woken after POLL_SAFETY_TICKS whatever happened.
PollSafety(p) ==
  /\ parked[p].on # {}
  /\ parked[p].call[1] = "poll"
  /\ parked' = [parked EXCEPT ![p].on = {}]
  /\ UNCHANGED <<socks, fds, flight, bound, alive>>

SockNext == \E p \in Procs : SockCall(p) \/ PollSafety(p)

SockSpec == SockInit /\ [][SockNext]_sockVars

(***************************************************************************)
(* Properties.                                                             *)
(***************************************************************************)

\* A socket is open exactly as long as something names it, and counts its
\* names: descriptors of processes, descriptors in flight, a place in a
\* backlog.  What is in flight is in one queue, from which it will be taken
\* or discarded (socket_ref, socket_close, posix_fd_discard).
NamesCounted32 ==
  /\ \A s \in 1..NSocks :
       LET named == Cardinality({<<p, f>> \in Procs \X (1..NFds) : fds[p][f] = s})
                    + Cardinality({t \in 1..NFlight : flight[t] = s})
                    + Cardinality({l \in 1..NSocks : \E i \in DOMAIN socks[l].backlog : socks[l].backlog[i] = s})
       IN socks[s].refs = named /\ (socks[s].state = "free") = (named = 0)
  /\ \A t \in 1..NFlight : flight[t] # 0 =>
       Cardinality({s \in 1..NSocks : \E i \in DOMAIN socks[s].passed : socks[s].passed[i].tok = t}) = 1

\* Two ends know each other, or one has been told the other is gone: no end
\* is left pointing at a socket that has been freed or belongs to another
\* connection (socket_close).
PeersMutual ==
  \A s \in 1..NSocks : socks[s].peer # 0 => socks[socks[s].peer].peer = s

\* Nobody sleeps on a socket that would answer: every change that makes a
\* socket readable, writable or hung up wakes those parked on it.
SleepersServed ==
  \A p \in alive : parked[p].on # {} =>
    LET c == parked[p].call
        s == fds[p][c[2]]
        k == socks[s]
    IN CASE c[1] = "accept" -> k.state = "listening" /\ k.backlog = <<>>
         [] c[1] = "poll" -> socket_poll_mask(World, s) \cap {c[3], "hup"} = {}
         [] OTHER -> k.count = 0 /\ ~k.peerClosed /\ k.peer # 0 /\ (c[1] = "read" => ~k.shutRd)
=============================================================================
