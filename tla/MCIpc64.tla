------------------------------ MODULE MCIpc64 -------------------------------
(***************************************************************************)
(* Ipc64 for TLC: two processes of up to two threads, pipes of one byte,   *)
(* a backlog of one, tables that run out.                                  *)
(***************************************************************************)
EXTENDS Ipc64

\* Streams between two processes.
Streams == [fds |-> 5, refs |-> 3, flags |-> {{}}, sizes |-> {2},
            calls |-> {"pipe2", "socketpair", "read", "write", "poll", "close",
                       "shutdown", "fork", "exit_group", "tkill"}]

\* Two threads and one name.
Sockets == [fds |-> 6, refs |-> 3, flags |-> {{}}, sizes |-> {2},
            calls |-> {"socket", "bind", "listen", "connect", "accept", "poll",
                       "unlink", "close", "clone", "exit"}]

\* Messages of up to two descriptors, one of which may be a file.
Messages == [fds |-> 6, refs |-> 2, flags |-> {{"cloexec"}}, sizes |-> {1},
             calls |-> {"socketpair", "open", "sendmsg", "recvmsg", "close", "dup", "dup2",
                        "setflags", "exec", "forknomem"}]

\* A thread that reads from a connection nobody has accepted.
Connects == [fds |-> 6, refs |-> 3, flags |-> {{}}, sizes |-> {1},
             calls |-> {"socket", "bind", "listen", "connect", "read", "close", "clone"}]

IpcSetups == {Streams, Sockets, Messages}
ConnectSetups == {Connects}

\* Whatever dup, fork, connect, accept, sendmsg, a fork that fails and close
\* did, no end of a pipe and no file has more names than its count; and where
\* no call fails half way the count is exact, so that end of file and EPIPE do
\* come (fd_release, sock64_destroy).
NamesHeld == NamesCounted /\ (setup # Messages => RefsExact)

\* Nobody sleeps in a read, write or poll of a stream that has an answer, nor
\* in an accept while a connection waits for it (do_pipe_read, stream_write,
\* fd_release, shutdown, connect).  The clients of a listener that is closed
\* are v_listener_closed's.
SleepersServed ==
  IF setup = Sockets THEN \A i \in Slots : AcceptWaits(i) ELSE SleepersJustified
=============================================================================
