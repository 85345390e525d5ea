------------------------------- MODULE Ipc64 --------------------------------
(***************************************************************************)
(* Byte streams between processes: kernel/pipe64.c, kernel/sock64.c and    *)
(* the descriptor layer of kernel/syscall64.c - pipes, socket pairs,       *)
(* listening sockets, dup, fork, close, and descriptors sent by sendmsg.   *)
(*                                                                         *)
(* A system call is one step (interrupts are off until it returns or       *)
(* parks).  Any runnable thread may make the next call: consecutive timer  *)
(* ticks can bring any of them to the CPU.  A call that parks is re-run    *)
(* from the top by the thread it woke, so call[i] keeps it.                *)
(*                                                                         *)
(* Bytes are counted, not named.  Descriptors 0 to 2, which are files from *)
(* the start, are left out.  pipe64_create fails for want of a slot only.  *)
(***************************************************************************)
EXTENDS SchedTable, Sequences, SequencesExt

CONSTANTS Pids,         \* process ids
          MaxPipes,     \* PIPE64_MAX
          PipeBuf,      \* PIPE64_BUF
          Inflight,     \* PIPE64_INFLIGHT
          MaxSocks,     \* SOCK64_MAX
          Backlog,      \* SOCK64_BACKLOG
          Files,        \* nodes of ordinary files
          Paths,        \* names sockets are bound to
          Nodes,        \* filesystem nodes for them
          MaxBatch,     \* how many descriptors a message carries at most
          Rooms,        \* what receivers offer for them: see RecvMsg
          Leader,       \* the process whose exit ends the run
          Setups        \* the machines and programs a run explores

VARIABLES tasks,        \* the task table
          fds,          \* each process's descriptors
          pipes,
          socks,
          openers,      \* how many descriptors are open on a file node
          names,        \* the node a path names, and which nodes are free
          call,         \* the call a thread is inside, to be re-run
          sig,          \* a thread has a signal that ends a wait
          wprog,        \* stream_write's progress, by task slot
          unclaimed,    \* auxiliary: bytes written and not yet reported
          setup         \* which of the setups this is; it never changes

kernel == <<tasks, fds, pipes, socks, openers, names>>
vars == <<kernel, call, sig, wprog, unclaimed, setup>>

FdMax == setup.fds          \* FD_MAX
MaxRefs == setup.refs       \* bound on the counts that failed calls leave too high

None == -1
Fds == 3 .. FdMax - 1
Pipes == 0 .. MaxPipes - 1
Socks == 0 .. MaxSocks - 1

PipeKey(p) == <<"pipe", p>>
SockKey(k) == <<"sock", k>>

NoCall == [op |-> "none"]

ClosedFd == [used |-> FALSE, kind |-> "file", node |-> None, rx |-> None,
             tx |-> None, sock |-> None, flags |-> {}]

FreePipe == [used |-> FALSE, len |-> 0, readers |-> 0, writers |-> 0,
             inflight |-> <<>>]

FreeSock == [used |-> FALSE, state |-> "unbound", node |-> None,
             backlog |-> 0, queue |-> <<>>]

Thread(pid) == [used |-> TRUE, blocked |-> FALSE, pid |-> pid,
                wait_addr |-> NoKey, wait_bits |-> {1}, deadline |-> 0,
                signal_restart |-> FALSE, wake_rax |-> "nr", rax |-> "nr",
                rewound |-> 0]

NoThread == [Thread(AnyPid) EXCEPT !.used = FALSE]

Idle == [active |-> FALSE, fd |-> 0, n |-> 0, done |-> 0]

-----------------------------------------------------------------------------
(* The kernel's state as one record, which the functions of the three      *)
(* files are operators on.                                                 *)

Kernel == [tasks |-> tasks, fds |-> fds, pipes |-> pipes, socks |-> socks,
           openers |-> openers, names |-> names]

Commit(s) == /\ tasks' = s.tasks /\ fds' = s.fds /\ pipes' = s.pipes
             /\ socks' = s.socks /\ openers' = s.openers /\ names' = s.names
             /\ UNCHANGED setup

\* The lowest free index of a table, or None.
Lowest(free) == IF free = {} THEN None ELSE Min(free)

FreePipes(s) == {p \in Pipes : ~s.pipes[p].used}

FdAlloc(s, pid) == Lowest({fd \in Fds : ~s.fds[pid][fd].used})

\* sched64_wake, all waiters on the key.
WakeAll(s, key) ==
  [s EXCEPT !.tasks = WakeFutex(@, key, MaxTasks, {1}, AnyPid)]

PipeValid(s, p) == p \in Pipes /\ s.pipes[p].used

PipeCreate(s, p) == [s EXCEPT !.pipes[p] = [FreePipe EXCEPT !.used = TRUE]]

Ref(s, p, reader, writer) ==
  IF ~PipeValid(s, p) THEN s
  ELSE [s EXCEPT !.pipes[p].readers = @ + reader,
                 !.pipes[p].writers = @ + writer]

RECURSIVE Unref(_, _, _, _)
\* pipe64_unref: the last end to go frees the pipe, and gives back the
\* descriptors that were sent into it and never received.
Unref(s, p, reader, writer) ==
  IF ~PipeValid(s, p) THEN s
  ELSE
    LET q == [s.pipes[p] EXCEPT !.readers = Max({0, @ - reader}),
                                !.writers = Max({0, @ - writer})]
        Drop(t, d) ==
          IF d.kind = "file"
          THEN [t EXCEPT !.openers[d.node] = Max({0, @ - 1})]
          ELSE Unref(Unref(t, d.rx, 1, 0), d.tx, 0, 1)
        t == FoldLeft(Drop, [s EXCEPT !.pipes[p] = q], FlattenSeq(q.inflight))
    IN  IF q.readers = 0 /\ q.writers = 0
        THEN [t EXCEPT !.pipes[p] = FreePipe]
        ELSE [s EXCEPT !.pipes[p] = q]

UnrefEnds(s, d) == Unref(Unref(s, d.rx, 1, 0), d.tx, 0, 1)

\* What drop_inflight does with one descriptor.
DropInflight(s, d) ==
  IF d.kind = "file" THEN [s EXCEPT !.openers[d.node] = Max({0, @ - 1})]
  ELSE UnrefEnds(s, d)

\* Mutant: only pipes are counted.
TakeRefPipes(s, d) == Ref(Ref(s, d.rx, 1, 0), d.tx, 0, 1)

\* fd_take_ref, and the same choice in proc64_fork_from and sendmsg.
TakeRef(s, d) ==
  IF d.kind = "file" THEN [s EXCEPT !.openers[d.node] = @ + 1]
  ELSE Ref(Ref(s, d.rx, 1, 0), d.tx, 0, 1)

IsStream(d) == \/ d.kind = "pipe"
               \/ d.kind = "socket" /\ (d.rx # None \/ d.tx # None)

\* sock64_destroy: connections nobody accepted are given back.
SockDestroy(s, k) ==
  IF ~s.socks[k].used THEN s
  ELSE LET t == FoldLeft(UnrefEnds, s, s.socks[k].queue)
       IN  [t EXCEPT !.socks[k] = FreeSock]

WakePipe(s, p) == IF p = None THEN s ELSE WakeAll(s, PipeKey(p))

FdRelease(s, pid, fd) ==
  LET d  == s.fds[pid][fd]
      s1 == IF d.kind = "socket" /\ d.sock # None
            THEN SockDestroy(WakeAll(s, SockKey(d.sock)), d.sock) ELSE s
      s2 == IF d.kind = "file"
            THEN [s1 EXCEPT !.openers[d.node] = Max({0, @ - 1})] ELSE s1
      s3 == IF IsStream(d)
            THEN WakePipe(WakePipe(UnrefEnds(s2, d), d.rx), d.tx) ELSE s2
  IN  IF d.used THEN [s3 EXCEPT !.fds[pid][fd] = ClosedFd] ELSE s

\* Descriptors released one after the other, in the order of their numbers.
ReleaseAll(s, pid, which) ==
  FoldLeft(LAMBDA t, fd : FdRelease(t, pid, fd), s,
           SelectSeq([n \in 1 .. FdMax - 3 |-> n + 2], LAMBDA fd : fd \in which))

\* fd_init_pipe: a descriptor that references the ends it is given.
InitPipeFd(s, pid, fd, rx, tx, flags) ==
  LET d == [used |-> TRUE, kind |-> "pipe", node |-> None, rx |-> rx,
            tx |-> tx, sock |-> None, flags |-> flags]
  IN  TakeRef([s EXCEPT !.fds[pid][fd] = d], d)

\* fd_adopt_pipe: one whose ends were referenced for it already.
AdoptFd(s, pid, fd, rx, tx, sock, flags) ==
  [s EXCEPT !.fds[pid][fd] =
     [used |-> TRUE, kind |-> "socket", node |-> None, rx |-> rx, tx |-> tx,
      sock |-> sock, flags |-> flags]]

-----------------------------------------------------------------------------
(* How a call ends.                                                        *)

Pid(i) == tasks[i].pid
Fd(i, fd) == fds[Pid(i)][fd]

\* It returns, and a pending signal is taken on the way out.
Done(i, s) == /\ Commit(s)
              /\ call' = [call EXCEPT ![i] = NoCall]
              /\ sig' = [sig EXCEPT ![i] = FALSE]

Return(i, s) == Done(i, s) /\ UNCHANGED <<wprog, unclaimed>>

\* The scheduler would have somebody to run in its place.
CanPark(i) == Runnable(tasks) # {i}

ParkedOn(i, key) == [tasks EXCEPT ![i].blocked = TRUE, ![i].wait_addr = key]

\* It waits on a key to be re-run, unless a descriptor that does not block, a
\* signal, or a system with nothing else to run makes it return an error.
Wait(i, c, key, flags) ==
  IF "nonblock" \in flags \/ sig[i] \/ ~CanPark(i) THEN Return(i, Kernel)
  ELSE /\ tasks' = ParkedOn(i, key)
       /\ call' = [call EXCEPT ![i] = c]
       /\ UNCHANGED <<setup, fds, pipes, socks, openers, names, sig, wprog, unclaimed>>
-----------------------------------------------------------------------------
(* Making descriptors.                                                     *)

\* pipe2: the read end is claimed before the write end is looked for.
Pipe2(i, c) ==
  LET p  == Lowest(FreePipes(Kernel))
      s1 == PipeCreate(Kernel, p)
      rd == FdAlloc(s1, Pid(i))
      s2 == InitPipeFd(s1, Pid(i), rd, p, None, c.flags)
      wr == FdAlloc(s2, Pid(i))
  IN  Return(i, IF p = None THEN Kernel
                ELSE IF rd = None THEN Unref(s1, p, 0, 0)
                ELSE IF wr = None THEN FdRelease(s2, Pid(i), rd)
                ELSE InitPipeFd(s2, Pid(i), wr, None, p, c.flags))

Socketpair(i, c) ==
  LET p  == Lowest(FreePipes(Kernel))
      s1 == PipeCreate(Kernel, p)
      q  == Lowest(FreePipes(s1))
      s2 == PipeCreate(s1, q)
      a  == FdAlloc(s2, Pid(i))
      s3 == InitPipeFd(s2, Pid(i), a, p, q, c.flags)
      b  == FdAlloc(s3, Pid(i))
  IN  Return(i, IF p = None THEN Kernel
                ELSE IF q = None THEN Unref(s1, p, 0, 0)
                ELSE IF a = None THEN Unref(Unref(s2, p, 0, 0), q, 0, 0)
                ELSE IF b = None THEN Unref(FdRelease(s3, Pid(i), a), q, 0, 0)
                ELSE InitPipeFd(s3, Pid(i), b, q, p, c.flags))

\* openat of a file that exists.
Open(i, c) ==
  LET fd == FdAlloc(Kernel, Pid(i))
      d  == [ClosedFd EXCEPT !.used = TRUE, !.node = c.file, !.flags = c.flags]
  IN  Return(i, IF fd = None THEN Kernel
                ELSE TakeRef([Kernel EXCEPT !.fds[Pid(i)][fd] = d], d))

Close(i, c) == Return(i, FdRelease(Kernel, Pid(i), c.fd))

\* dup, F_DUPFD and F_DUPFD_CLOEXEC.
Dup(i, c) ==
  LET d  == Fd(i, c.fd)
      fd == FdAlloc(Kernel, Pid(i))
      e  == [d EXCEPT !.flags = (@ \ {"cloexec"}) \cup c.cloexec]
  IN  Return(i, IF ~d.used \/ fd = None THEN Kernel
                ELSE TakeRef([Kernel EXCEPT !.fds[Pid(i)][fd] = e], e))

\* dup2 and dup3: whatever was at the new number is closed first.
Dup2(i, c) ==
  LET d == Fd(i, c.fd)
      e == [d EXCEPT !.flags = (@ \ {"cloexec"}) \cup c.cloexec]
      s == FdRelease(Kernel, Pid(i), c.to)
  IN  Return(i, IF ~d.used \/ c.fd = c.to THEN Kernel
                ELSE TakeRef([s EXCEPT !.fds[Pid(i)][c.to] = e], e))

\* fcntl F_SETFL and F_SETFD.
SetFlags(i, c) ==
  Return(i, IF ~Fd(i, c.fd).used THEN Kernel
            ELSE [Kernel EXCEPT !.fds[Pid(i)][c.fd].flags =
                    (@ \ {c.bit}) \cup (c.flags \cap {c.bit})])


Shutdown(i, c) ==
  LET d  == Fd(i, c.fd)
      s1 == IF "rd" \in c.how /\ d.rx # None
            THEN WakePipe([Unref(Kernel, d.rx, 1, 0)
                             EXCEPT !.fds[Pid(i)][c.fd].rx = None], d.rx)
            ELSE Kernel
      s2 == IF "wr" \in c.how /\ d.tx # None
            THEN WakePipe([Unref(s1, d.tx, 0, 1)
                             EXCEPT !.fds[Pid(i)][c.fd].tx = None], d.tx)
            ELSE s1
  IN  Return(i, IF d.used /\ IsStream(d) THEN s2 ELSE Kernel)

-----------------------------------------------------------------------------
(* Moving bytes.                                                           *)

\* pipe64_read would answer -EAGAIN.
Dry(p) == PipeValid(Kernel, p) /\ pipes[p].len = 0 /\ pipes[p].writers > 0

\* The state after pipe64_read, and the wake for the room it made.
Drained(s, p, n) ==
  IF ~PipeValid(s, p) \/ s.pipes[p].len = 0 THEN s
  ELSE WakePipe([s EXCEPT !.pipes[p].len = Max({0, @ - n})], p)

\* read, readv, recvfrom: a short count, end of file, or a wait.
Read(i, c) ==
  LET d == Fd(i, c.fd)
  IN  IF d.used /\ IsStream(d) /\ d.rx # None /\ Dry(d.rx)
      THEN Wait(i, c, PipeKey(d.rx), d.flags)
      ELSE Return(i, IF d.used /\ IsStream(d) THEN Drained(Kernel, d.rx, c.n)
                     ELSE Kernel)

Space(p) == IF pipes[p].used THEN PipeBuf - pipes[p].len ELSE 0

\* What pipe64_write takes of n bytes: nothing without a reader.
Accepted(p, n) == IF ~PipeValid(Kernel, p) \/ pipes[p].readers = 0 THEN 0
                  ELSE Min({n, Space(p)})

Filled(s, p, n) ==
  IF n = 0 THEN s ELSE WakePipe([s EXCEPT !.pipes[p].len = @ + n], p)

\* Mutant: the restart forgets what has gone.
SkipNothing(i, c) == 0

\* The bytes of this call that an earlier run of it already wrote.
Skip(i, c) == IF wprog[i].active /\ wprog[i].fd = c.fd /\ wprog[i].n = c.n
              THEN wprog[i].done ELSE 0

\* stream_write put `put' bytes and answers `done', or an error when done = 0.
Wrote(i, s, put, done) ==
  /\ Done(i, s)
  /\ wprog' = [wprog EXCEPT ![i] = Idle]
  /\ unclaimed' = [unclaimed EXCEPT ![i] = @ + put - done]

\* write, writev and sendto: all of it, keeping count across the waits.
StreamWrite(i, c) ==
  LET d    == Fd(i, c.fd)
      left == c.n - Skip(i, c)
      put  == Accepted(d.tx, left)
      done == Skip(i, c) + put
      full == PipeValid(Kernel, d.tx) /\ pipes[d.tx].readers > 0 /\ put < left
      s    == Filled(Kernel, d.tx, put)
  IN  IF ~d.used \/ ~IsStream(d) THEN Return(i, Kernel)
      ELSE IF d.tx = None THEN Wrote(i, Kernel, 0, Skip(i, c))
      ELSE IF ~full \/ "nonblock" \in d.flags \/ sig[i] \/ Runnable(s.tasks) = {i}
      THEN Wrote(i, s, put, done)
      ELSE /\ Commit([s EXCEPT !.tasks[i].blocked = TRUE,
                               !.tasks[i].wait_addr = PipeKey(d.tx)])
           /\ call' = [call EXCEPT ![i] = c]
           /\ wprog' = [wprog EXCEPT ![i] = [active |-> TRUE, fd |-> c.fd,
                                             n |-> c.n, done |-> done]]
           /\ unclaimed' = [unclaimed EXCEPT ![i] = @ + put]
           /\ UNCHANGED sig

-----------------------------------------------------------------------------
(* Descriptors in flight.                                                  *)

RefsBelowMax ==
  /\ \A p \in Pipes : pipes[p].readers < MaxRefs /\ pipes[p].writers < MaxRefs
  /\ \A f \in Files : openers[f] < MaxRefs

\* One descriptor of the control data: referenced for the receiver, or the
\* call fails with the ones before it referenced.
Carry(i, acc, sfd) ==
  LET d == Fd(i, sfd)
  IN  IF ~acc.ok \/ ~d.used \/ (d.kind = "socket" /\ d.sock # None)
      THEN [acc EXCEPT !.ok = FALSE]
      ELSE [s |-> TakeRef(acc.s, d), ok |-> TRUE,
            list |-> Append(acc.list, [kind |-> d.kind, node |-> d.node,
                                       rx |-> d.rx, tx |-> d.tx])]

UndoCarry(s, list) == FoldLeft(DropInflight, s, list)

InflightFull(p) == Len(pipes[p].inflight) >= Inflight

\* sendmsg: the descriptors are queued, then the bytes are written.
SendMsg(i, c) ==
  LET d   == Fd(i, c.fd)
      acc == FoldLeft(LAMBDA a, sfd : Carry(i, a, sfd),
                      [s |-> Kernel, list |-> <<>>, ok |-> TRUE], c.sent)
      s   == IF acc.list = <<>> THEN acc.s
             ELSE [acc.s EXCEPT !.pipes[d.tx].inflight = Append(@, acc.list)]
      put == Accepted(d.tx, c.n)
  IN  /\ RefsBelowMax
      /\ IF ~d.used \/ ~IsStream(d) \/ d.tx = None THEN Return(i, Kernel)
         ELSE IF ~acc.ok THEN Return(i, acc.s)
         ELSE IF acc.list # <<>> /\ InflightFull(d.tx)
         THEN Return(i, UndoCarry(acc.s, acc.list))
         ELSE Return(i, Filled(s, d.tx, put))

\* One received descriptor takes the reference sendmsg made for it, or is
\* given back - as a pipe, whatever it is - when the table is full.
Install(i, s, d) ==
  LET fd == FdAlloc(s, Pid(i))
  IN  IF fd = None THEN UnrefEnds(s, d)
      ELSE [s EXCEPT !.fds[Pid(i)][fd] =
              [used |-> TRUE, kind |-> d.kind, node |-> d.node, rx |-> d.rx,
               tx |-> d.tx, sock |-> None, flags |-> {}]]

\* recvmsg: bytes as read gives them, then the oldest batch.  c.room is what
\* the caller offers for it: "none" no buffer, "short" too small a one.
RecvMsg(i, c) ==
  LET d     == Fd(i, c.fd)
      s     == Drained(Kernel, d.rx, c.n)
      q     == pipes[d.rx].inflight
      batch == IF q = <<>> THEN <<>> ELSE Head(q)
      t     == IF q = <<>> THEN s ELSE [s EXCEPT !.pipes[d.rx].inflight = Tail(@)]
  IN  IF ~d.used \/ ~IsStream(d) \/ d.rx = None THEN Return(i, Kernel)
      ELSE IF Dry(d.rx) THEN Wait(i, c, PipeKey(d.rx), d.flags)
      ELSE Return(i, CASE c.room = "none"  -> t
                       [] c.room = "short" -> FoldLeft(UnrefEnds, t, batch)
                       [] c.room = "ample" ->
                            FoldLeft(LAMBDA u, e : Install(i, u, e), t, batch))

-----------------------------------------------------------------------------
(* Listening sockets.                                                      *)

Socket(i, c) ==
  LET k  == Lowest({n \in Socks : ~socks[n].used})
      fd == FdAlloc(Kernel, Pid(i))
      s  == [Kernel EXCEPT !.socks[k] = [FreeSock EXCEPT !.used = TRUE]]
  IN  Return(i, IF k = None THEN Kernel
                ELSE IF fd = None THEN SockDestroy(s, k)
                ELSE AdoptFd(s, Pid(i), fd, None, None, k, c.flags))

IsSocket(d) == d.used /\ d.kind = "socket" /\ d.sock # None

\* bind: the name is made first, and stays when sock64_bind refuses.
Bind(i, c) ==
  LET d == Fd(i, c.fd)
      n == Head(names.free)
      s == [Kernel EXCEPT !.names = [path |-> [@.path EXCEPT ![c.path] = n],
                                     free |-> Tail(@.free)]]
      k == socks[d.sock]
  IN  Return(i, IF \/ ~IsSocket(d) \/ names.path[c.path] # None
                   \/ names.free = <<>> THEN Kernel
                ELSE IF ~k.used \/ k.state # "unbound" THEN s
                ELSE [s EXCEPT !.socks[d.sock].node = n,
                               !.socks[d.sock].state = "bound"])

\* unlink of a socket's name: nothing holds the node, so its index is the
\* next one handed out.
Unlink(i, c) ==
  LET n == names.path[c.path]
  IN  Return(i, IF n = None THEN Kernel
                ELSE [Kernel EXCEPT !.names =
                        [path |-> [@.path EXCEPT ![c.path] = None],
                         free |-> <<n>> \o @.free]])

Listen(i, c) ==
  LET d == Fd(i, c.fd)
      k == socks[d.sock]
  IN  Return(i, IF ~IsSocket(d) \/ ~k.used \/ k.state \notin {"bound", "listening"}
                THEN Kernel
                ELSE [Kernel EXCEPT
                        !.socks[d.sock].state = "listening",
                        !.socks[d.sock].backlog = Max({1, Min({Backlog, c.n})})])

ListenerForNode(n) == Lowest({k \in Socks : /\ socks[k].used
                                            /\ socks[k].state = "listening"
                                            /\ socks[k].node = n})

QueueFull(k) == Len(socks[k].queue) >= socks[k].backlog

\* sock64_connect: a crossed pair, the far half left on the queue.
Connected(s, k, l, a, b) ==
  LET t == Ref(Ref(PipeCreate(PipeCreate(s, a), b), a, 1, 1), b, 1, 1)
      u == [t EXCEPT !.socks[l].queue = Append(@, [rx |-> a, tx |-> b])]
  IN  [u EXCEPT !.socks[k].state = "connected"]

Connect(i, c) ==
  LET d == Fd(i, c.fd)
      n == names.path[c.path]
      l == ListenerForNode(n)
      a == Lowest(FreePipes(Kernel))
      b == Lowest(FreePipes(Kernel) \ {a})
      s == Connected(Kernel, d.sock, l, a, b)
  IN  Return(i, IF \/ ~IsSocket(d) \/ n = None \/ l = None
                   \/ ~socks[d.sock].used \/ socks[d.sock].state = "connected"
                   \/ QueueFull(l) \/ a = None \/ b = None
                THEN Kernel
                ELSE WakeAll([s EXCEPT !.fds[Pid(i)][c.fd].rx = b,
                                       !.fds[Pid(i)][c.fd].tx = a], SockKey(l)))

\* accept: the pair at the head of the queue moves into a new descriptor.
Accept(i, c) ==
  LET d  == Fd(i, c.fd)
      k  == socks[d.sock]
      s  == [Kernel EXCEPT !.socks[d.sock].queue = Tail(@)]
      fd == FdAlloc(s, Pid(i))
      e  == Head(k.queue)
  IN  IF ~IsSocket(d) \/ ~k.used \/ k.state # "listening" THEN Return(i, Kernel)
      ELSE IF k.queue = <<>> THEN Wait(i, c, SockKey(d.sock), d.flags)
      ELSE Return(i, IF fd = None THEN UnrefEnds(s, e)
                     ELSE AdoptFd(s, Pid(i), fd, e.rx, e.tx, None, c.flags))

-----------------------------------------------------------------------------
(* Waiting for any of several things.                                      *)

\* What do_poll finds on an open descriptor.
Events(d) ==
  IF IsSocket(d) /\ socks[d.sock].used /\ socks[d.sock].state = "listening"
  THEN IF socks[d.sock].queue # <<>> THEN {"in"} ELSE {}
  ELSE IF ~IsStream(d) THEN {"in", "out"}
  ELSE (IF d.rx # None /\ (pipes[d.rx].len > 0 \/ pipes[d.rx].writers = 0)
        THEN {"in"} ELSE {})
       \cup (IF d.tx # None /\ Space(d.tx) > 0 THEN {"out"} ELSE {})
       \cup (IF d.tx # None /\ pipes[d.tx].readers = 0 THEN {"hup"} ELSE {})

PollReady(d, want) == ~d.used \/ Events(d) \cap (want \cup {"hup"}) # {}

\* poll without a timeout: parks on the shared key, or goes round again when
\* there is nobody to give the CPU to.
Poll(i, c) ==
  IF PollReady(Fd(i, c.fd), c.want) \/ sig[i] THEN Return(i, Kernel)
  ELSE /\ tasks' = IF CanPark(i) THEN ParkedOn(i, CondKey) ELSE tasks
       /\ call' = [call EXCEPT ![i] = c]
       /\ UNCHANGED <<setup, fds, pipes, socks, openers, names, sig, wprog, unclaimed>>

-----------------------------------------------------------------------------
(* Threads and processes.                                                  *)

\* A slot whose thread ended, or never was: wait_slot_reset leaves wprog.
Cleared(f, which, value) == [i \in Slots |-> IF i \in which THEN value ELSE f[i]]

\* clone of a thread; fork of a process when `child' is a new pid, its
\* descriptors copied and counted.
Spawn(i, s, child) ==
  LET slot == FreeSlot(tasks)
  IN  Return(i, IF slot = NoTask THEN Kernel
                ELSE [s EXCEPT !.tasks[slot] = Thread(child)])

Clone(i, c) == Spawn(i, Kernel, Pid(i))

\* Mutant: the child's copies are not counted.
InheritUncounted(s, pid, child) == [s EXCEPT !.fds[child] = s.fds[pid]]

Inherit(s, pid, child) ==
  FoldLeft(LAMBDA t, fd : IF s.fds[pid][fd].used THEN TakeRef(t, s.fds[pid][fd])
                          ELSE t,
           [s EXCEPT !.fds[child] = s.fds[pid]],
           [n \in 1 .. FdMax - 3 |-> n + 2])

Unused(pid) == PidTasks(tasks, pid) = {} /\ \A fd \in Fds : ~fds[pid][fd].used

Fork(i, c) ==
  \E child \in {p \in Pids : Unused(p)} :
    /\ FreeSlot(tasks) # NoTask
    /\ Spawn(i, Inherit(Kernel, Pid(i), child), child)

\* fork when vmspace64_create or vmspace64_clone_cow fails: the child is
\* reaped, and nothing gives back what proc64_fork_from counted.
ForkNoMemory(i, c) ==
  /\ RefsBelowMax
  /\ \E child \in {p \in Pids : Unused(p)} :
       Return(i, [Inherit(Kernel, Pid(i), child) EXCEPT !.fds[child] = fds[child]])

\* execve closes what was marked for it.
Exec(i, c) ==
  Return(i, ReleaseAll(Kernel, Pid(i),
                       {fd \in Fds : /\ Fd(i, fd).used
                                     /\ "cloexec" \in Fd(i, fd).flags}))

\* The threads in `gone' end, the whole process when `all'; the parent, if
\* there still is one, is woken for its wait4.
Leave(i, gone, all) ==
  \E orphan \in BOOLEAN :
    LET s == IF all THEN ReleaseAll(Kernel, Pid(i), Fds) ELSE Kernel
        t == IF all /\ ~orphan THEN WakeAll(s, <<"wait4", Pid(i)>>) ELSE s
    IN  /\ Commit([t EXCEPT !.tasks = Cleared(@, gone, NoThread)])
        /\ call' = Cleared(call, gone, NoCall)
        /\ sig' = Cleared(sig, gone, FALSE)
        /\ unclaimed' = Cleared(unclaimed, gone, 0)
        /\ UNCHANGED wprog

Exit(i, c) ==
  LET last == PidTasks(tasks, Pid(i)) = {i}
  IN  ~(last /\ Pid(i) = Leader) /\ Leave(i, {i}, last)

ExitGroup(i, c) == Pid(i) # Leader /\ Leave(i, PidTasks(tasks, Pid(i)), TRUE)

\* tkill with a signal that has a handler and is not blocked.
Tkill(i, c) ==
  /\ tasks[c.tid].used
  /\ tasks' = WakeTid(tasks, c.tid)
  /\ sig' = [sig EXCEPT ![c.tid] = (c.tid # i)]
  /\ call' = [call EXCEPT ![i] = NoCall]
  /\ UNCHANGED <<setup, fds, pipes, socks, openers, names, wprog, unclaimed>>

-----------------------------------------------------------------------------
Cloexec(flags) == {f \cap {"cloexec"} : f \in flags}

\* The requests of each setup's programs: descriptors, flags descriptors are
\* made with, byte counts, and the calls that are made.
Requests ==
  [u \in Setups |->
     LET F == 3 .. u.fds - 1
     IN  {c \in     [op : {"pipe2", "socketpair", "socket"}, flags : u.flags]
               \cup [op : {"open"}, file : Files, flags : u.flags]
               \cup [op : {"close"}, fd : F]
               \cup [op : {"dup"}, fd : F, cloexec : Cloexec(u.flags)]
               \cup [op : {"dup2"}, fd : F, to : F, cloexec : Cloexec(u.flags)]
               \cup [op : {"setflags"}, fd : F, flags : u.flags,
                     bit : {"nonblock", "cloexec"}]
               \cup [op : {"shutdown"}, fd : F, how : {{"rd"}, {"wr"}, {"rd", "wr"}}]
               \cup [op : {"read", "write", "listen"}, fd : F, n : u.sizes]
               \cup [op : {"sendmsg"}, fd : F, n : u.sizes,
                     sent : UNION {[1 .. k -> F] : k \in 0 .. MaxBatch}]
               \cup [op : {"recvmsg"}, fd : F, n : u.sizes, room : Rooms]
               \cup [op : {"bind", "connect"}, fd : F, path : Paths]
               \cup [op : {"unlink"}, path : Paths]
               \cup [op : {"accept"}, fd : F, flags : u.flags]
               \cup [op : {"poll"}, fd : F, want : {{"in"}, {"out"}}]
               \cup [op : {"tkill"}, tid : Slots]
               \cup [op : {"clone", "fork", "forknomem", "exec", "exit", "exit_group"}]
            : c.op \in u.calls}]

Syscall(i, c) ==
  \/ c.op = "pipe2"      /\ Pipe2(i, c)
  \/ c.op = "socketpair" /\ Socketpair(i, c)
  \/ c.op = "open"       /\ Open(i, c)
  \/ c.op = "close"      /\ Close(i, c)
  \/ c.op = "dup"        /\ Dup(i, c)
  \/ c.op = "dup2"       /\ Dup2(i, c)
  \/ c.op = "setflags"   /\ SetFlags(i, c)
  \/ c.op = "shutdown"   /\ Shutdown(i, c)
  \/ c.op = "read"       /\ Read(i, c)
  \/ c.op = "write"      /\ StreamWrite(i, c)
  \/ c.op = "sendmsg"    /\ SendMsg(i, c)
  \/ c.op = "recvmsg"    /\ RecvMsg(i, c)
  \/ c.op = "socket"     /\ Socket(i, c)
  \/ c.op = "bind"       /\ Bind(i, c)
  \/ c.op = "unlink"     /\ Unlink(i, c)
  \/ c.op = "listen"     /\ Listen(i, c)
  \/ c.op = "connect"    /\ Connect(i, c)
  \/ c.op = "accept"     /\ Accept(i, c)
  \/ c.op = "poll"       /\ Poll(i, c)
  \/ c.op = "clone"      /\ Clone(i, c)
  \/ c.op = "fork"       /\ Fork(i, c)
  \/ c.op = "forknomem"  /\ ForkNoMemory(i, c)
  \/ c.op = "exec"       /\ Exec(i, c)
  \/ c.op = "exit"       /\ Exit(i, c)
  \/ c.op = "exit_group" /\ ExitGroup(i, c)
  \/ c.op = "tkill"      /\ Tkill(i, c)

\* One thread of the leader, nothing open.
Init ==
  /\ setup \in Setups
  /\ tasks = [i \in Slots |-> IF i = 0 THEN Thread(Leader) ELSE NoThread]
  /\ fds = [p \in Pids |-> [fd \in Fds |-> ClosedFd]]
  /\ pipes = [p \in Pipes |-> FreePipe]
  /\ socks = [k \in Socks |-> FreeSock]
  /\ openers = [f \in Files |-> 0]
  /\ names = [path |-> [p \in Paths |-> None], free |-> SetToSeq(Nodes)]
  /\ call = [i \in Slots |-> NoCall]
  /\ sig = [i \in Slots |-> FALSE]
  /\ wprog = [i \in Slots |-> Idle]
  /\ unclaimed = [i \in Slots |-> 0]

\* A thread makes one of the requests, or makes again the call it is inside.
Next ==
  \E i \in Runnable(tasks) :
    \E c \in (IF call[i] = NoCall THEN Requests[setup] ELSE {call[i]}) : Syscall(i, c)

Spec == Init /\ [][Next]_vars

-----------------------------------------------------------------------------
(* Properties.                                                             *)

\* No ring holds more than PIPE64_BUF bytes or PIPE64_INFLIGHT batches, no
\* queue more than its backlog, and a slot that is given back is empty.
WithinLimits ==
  /\ \A p \in Pipes : /\ pipes[p].len \in 0 .. PipeBuf
                      /\ Len(pipes[p].inflight) <= Inflight
                      /\ ~pipes[p].used => pipes[p] = FreePipe
  /\ \A k \in Socks : /\ socks[k].backlog \in 0 .. Backlog
                      /\ Len(socks[k].queue) <= Backlog
                      /\ ~socks[k].used => socks[k] = FreeSock

\* How many names the end `e' ("rx" or "tx") of pipe p has: descriptors,
\* connections nobody has accepted, and descriptors nobody has received.
EndNames(p, e) ==
  Cardinality({x \in Pids \X Fds : LET d == fds[x[1]][x[2]]
                                   IN  d.used /\ d[e] = p})
  + Cardinality({x \in Socks \X (1 .. Backlog) :
                   LET q == socks[x[1]].queue
                   IN  x[2] <= Len(q) /\ q[x[2]][e] = p})
  + Cardinality({x \in Pipes \X (1 .. Inflight) \X (1 .. MaxBatch) :
                   LET q == pipes[x[1]].inflight
                   IN  x[2] <= Len(q) /\ x[3] <= Len(q[x[2]]) /\ q[x[2]][x[3]][e] = p})

FileNames(f) ==
  Cardinality({x \in Pids \X Fds : LET d == fds[x[1]][x[2]]
                                   IN  d.used /\ d.node = f})
  + Cardinality({x \in Pipes \X (1 .. Inflight) \X (1 .. MaxBatch) :
                   LET q == pipes[x[1]].inflight
                   IN  x[2] <= Len(q) /\ x[3] <= Len(q[x[2]]) /\ q[x[2]][x[3]].node = f})

\* Whatever dup, fork, connect, accept, sendmsg, a fork that fails and close
\* did, no end of a pipe and no file has more names than pipe64.c and the
\* node count: nobody is told end of file or EPIPE early, and nothing is
\* freed and handed out again under a name that is still in use.
NamesCounted ==
  /\ WithinLimits
  /\ \A p \in Pipes : /\ pipes[p].readers >= EndNames(p, "rx")
                      /\ pipes[p].writers >= EndNames(p, "tx")
                      /\ pipes[p].used <=> pipes[p].readers + pipes[p].writers > 0
  /\ \A f \in Files : openers[f] >= FileNames(f)

\* The counts are exact, so that end of file and EPIPE do come and a pipe
\* lives no longer than the last name of it.
RefsExact ==
  /\ NamesCounted
  /\ \A p \in Pipes : /\ pipes[p].readers = EndNames(p, "rx")
                      /\ pipes[p].writers = EndNames(p, "tx")
  /\ \A f \in Files : openers[f] = FileNames(f)

Asleep(i, op) == tasks[i].used /\ tasks[i].blocked /\ call[i].op = op

StreamWaits(i) ==
  /\ \A op \in {"read", "recvmsg"} : Asleep(i, op) =>
       \E p \in Pipes : tasks[i].wait_addr = PipeKey(p) /\ Dry(p)
  /\ Asleep(i, "write") =>
       \E p \in Pipes : /\ tasks[i].wait_addr = PipeKey(p)
                        /\ pipes[p].readers > 0 /\ Space(p) = 0

PollWaits(i) ==
  Asleep(i, "poll") => \/ ~Fd(i, call[i].fd).used
                       \/ ~PollReady(Fd(i, call[i].fd), call[i].want)

AcceptWaits(i) ==
  Asleep(i, "accept") =>
    \E k \in Socks : /\ tasks[i].wait_addr = SockKey(k)
                     /\ socks[k].used /\ socks[k].queue = <<>>

\* No thread sleeps in a read whose pipe has bytes or has lost its last
\* writer, in a write whose pipe has room or has lost its last reader, in a
\* poll on an open descriptor that is ready, or in an accept while a
\* connection waits for it: whatever made the wait pointless also woke it
\* (do_pipe_read, stream_write, fd_release, shutdown, connect).
SleepersJustified ==
  \A i \in Slots : StreamWaits(i) /\ PollWaits(i) /\ AcceptWaits(i)

\* A write that is over has answered exactly the bytes it put in the pipe,
\* through every park, wake, restart and signal: stream_write neither loses
\* count nor writes a byte twice.
WriteExact == \A i \in Slots : call[i] = NoCall => unclaimed[i] = 0
=============================================================================
