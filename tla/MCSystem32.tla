---------------------------- MODULE MCSystem32 ------------------------------
(***************************************************************************)
(* The 32-bit kernel for TLC: its components side by side.  A behaviour is *)
(* one of the component that `part' names from the start; some components  *)
(* come in several instances, which differ in the calls programs make.     *)
(* The components use the same variables s1 to s11, each as many as it     *)
(* has, and leave the rest at 0.                                           *)
(***************************************************************************)
EXTENDS Integers, Sequences, FiniteSets

CONSTANT Parts          \* the components a run explores

VARIABLES part, s1, s2, s3, s4, s5, s6, s7, s8, s9, s10, s11

state == <<s1, s2, s3, s4, s5, s6, s7, s8, s9, s10, s11>>

\* Threads and children that are joined and waited for.
Families == INSTANCE Kernel32 WITH
  tasks <- s1, procs <- s2, current <- s3, slice <- s4, idle <- s5, lastPid <- s6,
  MaxTasks <- 4, MaxProcs <- 3, Slice <- 1, Sigs <- {9, 10, 11, 12}, MaxNest <- 2,
  MaxPids <- 3,
  Calls32 <- {<<"clone">>, <<"fork">>, <<"exit">>, <<"exitgroup">>, <<"wait", 0>>,
              <<"join", 2, -1>>, <<"join", 2, 2>>, <<"join", 1, -1>>, <<"join", 3, -1>>}

\* Handlers inside handlers, masks, and programs that replace themselves.
Handlers == INSTANCE Kernel32 WITH
  tasks <- s1, procs <- s2, current <- s3, slice <- s4, idle <- s5, lastPid <- s6,
  MaxTasks <- 2, MaxProcs <- 2, Slice <- 1, Sigs <- {10, 11}, MaxNest <- 2, MaxPids <- 2,
  Calls32 <- {<<"fork">>, <<"exit">>, <<"kill", 1, 10>>, <<"kill", 2, 10>>, <<"mask", {10}>>,
              <<"mask", {}>>, <<"sigreturn">>, <<"action", 10, "handler">>,
              <<"action", 11, "handler">>, <<"exec", TRUE>>, <<"fault">>}

\* One vfork at a time, sleeps, yields and signals to a thread.
Borrowers == INSTANCE Kernel32 WITH
  tasks <- s1, procs <- s2, current <- s3, slice <- s4, idle <- s5, lastPid <- s6,
  MaxTasks <- 2, MaxProcs <- 2, Slice <- 1, Sigs <- {9, 10}, MaxNest <- 1, MaxPids <- 3,
  Calls32 <- {<<"vfork">>, <<"exec", TRUE>>, <<"exec", FALSE>>, <<"exit">>, <<"sleep", 1, 2>>,
              <<"yield">>, <<"wait", 0>>, <<"tgkill", 1, 10>>, <<"sigreturn">>,
              <<"action", 10, "handler">>}

Fd3 == 1..3

\* Pairs and pipes that are shared, copied, shut down and polled.
Pairs == INSTANCE Sock32 WITH
  socks <- s1, fds <- s2, flight <- s3, bound <- s4, alive <- s5, parked <- s6,
  Procs <- {1, 2}, NSocks <- 2, NFds <- 3, SockBuf <- 2, MaxBacklog <- 1, MaxPassed <- 2,
  NFlight <- 2, Corners <- {},
  SockCalls <- {<<"pair">>, <<"pipe">>, <<"fork">>, <<"exit">>, <<"dup2", 1, 2>>, <<"dup", 1>>}
               \cup {<<"close", f>> : f \in Fd3} \cup {<<"write", f, 2>> : f \in Fd3}
               \cup {<<"read", f, 1>> : f \in Fd3} \cup {<<"shutdown", f, "wr">> : f \in Fd3}
               \cup {<<"shutdown", 1, "rdwr">>}
               \cup {<<"poll", f, e>> : f \in Fd3, e \in {"in", "out"}}

\* A listener, its backlog, and the ends it hands out.
Listeners == INSTANCE Sock32 WITH
  socks <- s1, fds <- s2, flight <- s3, bound <- s4, alive <- s5, parked <- s6,
  Procs <- {1, 2}, NSocks <- 3, NFds <- 3, SockBuf <- 2, MaxBacklog <- 1, MaxPassed <- 2,
  NFlight <- 2, Corners <- {},
  SockCalls <- {<<"socket">>, <<"fork">>, <<"exit">>, <<"bind", 1>>, <<"listen", 1>>,
                <<"connect", 2>>, <<"accept", 1>>, <<"unlink">>, <<"poll", 1, "in">>, <<"write", 2, 1>>,
                <<"read", 2, 1>>} \cup {<<"close", f>> : f \in Fd3}

\* Descriptors that travel, also into the queue of the socket they name.
Passed == INSTANCE Sock32 WITH
  socks <- s1, fds <- s2, flight <- s3, bound <- s4, alive <- s5, parked <- s6,
  Procs <- {1, 2}, NSocks <- 2, NFds <- 3, SockBuf <- 2, MaxBacklog <- 1, MaxPassed <- 2,
  NFlight <- 2, Corners <- {},
  SockCalls <- {<<"pair">>, <<"fork">>, <<"exit">>, <<"sendmsg", 1, 2>>, <<"sendmsg", 1, 3>>,
                <<"recvmsg", 2, 2>>, <<"poll", 2, "in">>, <<"dup", 1>>}
               \cup {<<"close", f>> : f \in Fd3}

\* A volume of two clusters and one power cut.
Volume == INSTANCE Fat32 WITH
  fat <- s1, hint <- s2, nodes <- s3, fatDisk <- s4, dirDisk <- s5, dataDisk <- s6, todo <-
  s7, call <- s8, files <- s9, cuts <- s10, torn <- s11,
  Names <- {"a", "b"}, NClusters <- 2, CB <- 2, Values <- {"x"}, MaxLen <- 3, MaxCuts <- 1,
  FatCalls <- {"create", "mkdir", "write", "truncate", "unlink", "rename"},
  Fragile <- {"mkdir", "truncate", "rename"}

\* Two windows dragged, snapped and closed; the size of a program's window; two
\* programs whose windows are closed under them.
Windows == INSTANCE Desktop WITH
  wm <- s1, shell <- s2, NWindows <- 2, Sizes <- {"s"}, Apps <- {"files", "alert"},
  Memory <- {TRUE}, NSlots <- 1, QueueMax <- 1, Inputs <- {"windows", "close"},
  MaxEntries <- 0, QueryMax <- 0
Resized == INSTANCE Desktop WITH
  wm <- s1, shell <- s2, NWindows <- 1, Sizes <- {"s"}, Apps <- {"wine"},
  Memory <- {TRUE}, NSlots <- 1, QueueMax <- 2, Inputs <- {"keys", "snap", "close"},
  MaxEntries <- 0, QueryMax <- 0
Programs == INSTANCE Desktop WITH
  wm <- s1, shell <- s2, NWindows <- 2, Sizes <- {"s"}, Apps <- {"wine"},
  Memory <- BOOLEAN, NSlots <- 2, QueueMax <- 1, Inputs <- {"keys", "close", "switcher"},
  MaxEntries <- 0, QueryMax <- 0

\* The taskbar and the switcher over two windows, and the start menu.
Taskbar == INSTANCE Desktop WITH
  wm <- s1, shell <- s2, NWindows <- 2, Sizes <- {"s"}, Apps <- {"about", "monitor"},
  Memory <- {TRUE}, NSlots <- 1, QueueMax <- 1,
  Inputs <- {"taskbar", "switcher", "show desktop"}, MaxEntries <- 0, QueryMax <- 0
StartMenu == INSTANCE Desktop WITH
  wm <- s1, shell <- s2, NWindows <- 1, Sizes <- {"s"}, Apps <- {"monitor"},
  Memory <- {TRUE}, NSlots <- 1, QueueMax <- 1,
  Inputs <- {"menu", "taskbar", "start", "close"}, MaxEntries <- 2, QueryMax <- 1

\* The variables a component of two or six does not have.
Rest2 == <<s3, s4, s5, s6>>
Zero3 == s3 = 0 /\ s4 = 0 /\ s5 = 0 /\ s6 = 0
Rest6 == <<s7, s8, s9, s10, s11>>
Zero7 == s7 = 0 /\ s8 = 0 /\ s9 = 0 /\ s10 = 0 /\ s11 = 0

Init ==
  /\ part \in Parts
  /\ \/ part = "families" /\ Families!KernelInit /\ Zero7
     \/ part = "handlers" /\ Handlers!KernelInit /\ Zero7
     \/ part = "borrowers" /\ Borrowers!KernelInit /\ Zero7
     \/ part = "pairs" /\ Pairs!SockInit /\ Zero7
     \/ part = "listeners" /\ Listeners!SockInit /\ Zero7
     \/ part = "passed" /\ Passed!SockInit /\ Zero7
     \/ part = "fat" /\ Volume!FatInit
     \/ /\ Zero3 /\ Zero7
        /\ \/ part = "windows" /\ Windows!DesktopInit
           \/ part = "resized" /\ Resized!DesktopInit
           \/ part = "programs" /\ Programs!DesktopInit
           \/ part = "taskbar" /\ Taskbar!DesktopInit
           \/ part = "start" /\ StartMenu!DesktopInit

Next ==
  /\ \/ part = "families" /\ Families!KernelNext /\ UNCHANGED Rest6
     \/ part = "handlers" /\ Handlers!KernelNext /\ UNCHANGED Rest6
     \/ part = "borrowers" /\ Borrowers!KernelNext /\ UNCHANGED Rest6
     \/ part = "pairs" /\ Pairs!SockNext /\ UNCHANGED Rest6
     \/ part = "listeners" /\ Listeners!SockNext /\ UNCHANGED Rest6
     \/ part = "passed" /\ Passed!SockNext /\ UNCHANGED Rest6
     \/ part = "fat" /\ Volume!FatNext
     \/ /\ \/ part = "windows" /\ Windows!DesktopNext
           \/ part = "resized" /\ Resized!DesktopNext
           \/ part = "programs" /\ Programs!DesktopNext
           \/ part = "taskbar" /\ Taskbar!DesktopNext
           \/ part = "start" /\ StartMenu!DesktopNext
        /\ UNCHANGED <<Rest2, Rest6>>
  /\ UNCHANGED part

Spec == Init /\ [][Next]_<<part, state>>

-----------------------------------------------------------------------------
\* Exactly the current task runs, and a run of programs ends only when none of
\* its tasks is left (scheduler_exit_current).
RunsToTheEnd ==
  part \in {"families", "handlers", "borrowers"} => Families!RunsToTheEnd


\* A program that is back in none of its handlers has the mask it chose itself
\* (deliver, posix_sigreturn_common).
MaskRestored == part = "handlers" => Handlers!MaskRestored



\* Nobody sleeps on a socket that would answer (socket_read, socket_write,
\* socket_close, do_connect).
SleepersServed == part \in {"pairs", "listeners", "passed"} => Pairs!SleepersServed


\* After a power cut no two entries share a cluster and no entry leads into
\* free space (WriteMeta, fat_unlink).
VolumeSound == part = "fat" => Volume!VolumeSound


\* The taskbar shows the windows there are, and the marks of the start menu and
\* of the switcher are on what is there (taskbar_layout, start_layout,
\* switcher_step).
ShellFresh ==
  /\ part = "programs" => Programs!TaskbarFresh /\ Programs!MarksInRange
  /\ part = "taskbar" => Taskbar!TaskbarFresh /\ Taskbar!MarksInRange
  /\ part = "start" => StartMenu!TaskbarFresh /\ StartMenu!MarksInRange
=============================================================================
