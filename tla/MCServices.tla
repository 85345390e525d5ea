---------------------------- MODULE MCServices ------------------------------
(***************************************************************************)
(* What the kernel does around its processes, for TLC: the network stack,  *)
(* the system update and the RAM filesystem of the 64-bit kernel.  A       *)
(* behaviour is one of the component that `part' names from the start.     *)
(* The components use the same variables s1 to s12, each as many as it     *)
(* has, and leave the rest at 0.                                           *)
(***************************************************************************)
EXTENDS Integers, Sequences, FiniteSets

CONSTANT Parts          \* the components a run explores

VARIABLES part, s1, s2, s3, s4, s5, s6, s7, s8, s9, s10, s11, s12

state == <<s1, s2, s3, s4, s5, s6, s7, s8, s9, s10, s11, s12>>

\* Two machines that open two connections in a row, over a wire that loses,
\* repeats and reorders.
Stream == INSTANCE Tcp WITH
  conns <- s1, listening <- s2, opened <- s3, nextPort <- s4, busy <- s5, wire <- s6,
  Slots <- {1}, Ports <- {1}, SeqMod <- 64, IssGap <- 16, RecvBuffer <- 1, MaxTries <- 1,
  MaxOpens <- 2, MaxBytes <- 2, WireSize <- [client |-> 1, server |-> 1],
  Speakers <- {"client"}, Leaves <- {TRUE}

\* Two DHCP servers that offer the same address, asked more than once.
Lease == INSTANCE Net WITH
  cfg <- s1, arp <- s2, port <- s3, queue <- s4, names <- s5, pc <- s6, xid <- s7, try <- s8,
  opt <- s9, asked <- s10, air <- s11, leased <- s12,
  Servers <- {"s1", "s2"}, Pool <- {"p1"}, Hosts <- {"a", "b"}, ArpEntries <- 1,
  UdpQueue <- 2, IdMod <- 8, Attempts <- 2, MaxCalls <- 2

\* The same with two names looked up one after the other.
Resolve == INSTANCE Net WITH
  cfg <- s1, arp <- s2, port <- s3, queue <- s4, names <- s5, pc <- s6, xid <- s7, try <- s8,
  opt <- s9, asked <- s10, air <- s11, leased <- s12,
  Servers <- {"s1", "s2"}, Pool <- {"p1"}, Hosts <- {"a", "b"}, ArpEntries <- 1,
  UdpQueue <- 2, IdMod <- 8, Attempts <- 1, MaxCalls <- 3

\* A first update, and the power that may go during it.
Updater == INSTANCE Update WITH
  published <- s1, upc <- s2, manifest <- s3, body <- s4, from <- s5, kernel <- s6, initrd
  <- s7, disk <- s8, updates <- s9,
  Releases <- {1, 2, 3}, ImageSize <- 2, MaxUpdates <- 1

\* Files and directories opened, moved and removed; links and the working
\* directory; a directory read while it changes; the bytes of one file.
Tree == INSTANCE Files64 WITH
  fs <- s1, fds <- s2, cwd <- s3, met <- s4, NNodes <- 4, NFds <- 2, Names <- {"a", "b"},
  Paths <- {<<"a">>, <<"b">>, <<"a", "b">>}, Targets <- {}, LinkMax <- 2,
  Calls <- {"open", "mkdir", "unlink", "rmdir", "rename", "dup"},
  MaxLen <- 0, Contiguous <- 0, Page <- 1, Memory <- {TRUE}
Links == INSTANCE Files64 WITH
  fs <- s1, fds <- s2, cwd <- s3, met <- s4, NNodes <- 4, NFds <- 1, Names <- {"a", "b"},
  Paths <- {<<"a">>, <<"b">>, <<"a", "b">>}, Targets <- {<<"b">>}, LinkMax <- 2,
  Calls <- {"open", "mkdir", "unlink", "rename", "symlink"},
  MaxLen <- 0, Contiguous <- 0, Page <- 1, Memory <- {TRUE}
Working == INSTANCE Files64 WITH
  fs <- s1, fds <- s2, cwd <- s3, met <- s4, NNodes <- 3, NFds <- 1, Names <- {"a", "b"},
  Paths <- {<<"a">>, <<"b">>, <<"..", "b">>}, Targets <- {<<"b">>}, LinkMax <- 2,
  Calls <- {"open", "mkdir", "unlink", "rename", "symlink", "cwd"},
  MaxLen <- 0, Contiguous <- 0, Page <- 1, Memory <- {TRUE}
Listing == INSTANCE Files64 WITH
  fs <- s1, fds <- s2, cwd <- s3, met <- s4, NNodes <- 4, NFds <- 1, Names <- {"a", "b"},
  Paths <- {<<"a">>, <<"b">>, <<"a", "a">>, <<"a", "b">>}, Targets <- {}, LinkMax <- 2,
  Calls <- {"open", "mkdir", "unlink", "rmdir", "rename", "getdents"},
  MaxLen <- 0, Contiguous <- 0, Page <- 1, Memory <- {TRUE}
Contents == INSTANCE Files64 WITH
  fs <- s1, fds <- s2, cwd <- s3, met <- s4, NNodes <- 2, NFds <- 1, Names <- {"a"},
  Paths <- {<<"a">>}, Targets <- {}, LinkMax <- 2,
  Calls <- {"open", "write", "seek", "resize", "mmap", "trunc", "append"},
  MaxLen <- 3, Contiguous <- 2, Page <- 2, Memory <- {TRUE, FALSE}

\* The variables a component of four, six or nine does not have.
Rest4 == <<s5, s6>>
Rest6 == <<s7, s8, s9, s10, s11, s12>>
Rest9 == <<s10, s11, s12>>
Zero10 == s10 = 0 /\ s11 = 0 /\ s12 = 0
Zero7 == s7 = 0 /\ s8 = 0 /\ s9 = 0 /\ Zero10

Init ==
  /\ part \in Parts
  /\ \/ part = "tcp" /\ Stream!TcpInit /\ Zero7
     \/ part = "lease" /\ Lease!NetInit
     \/ part = "resolve" /\ Resolve!NetInit
     \/ part = "update" /\ Updater!UpdateInit /\ Zero10
     \/ /\ s5 = 0 /\ s6 = 0 /\ Zero7
        /\ \/ part = "tree" /\ Tree!FilesInit
           \/ part = "links" /\ Links!FilesInit
           \/ part = "working" /\ Working!FilesInit
           \/ part = "listing" /\ Listing!FilesInit
           \/ part = "contents" /\ Contents!FilesInit

Next ==
  /\ \/ part = "tcp" /\ Stream!TcpNext /\ UNCHANGED Rest6
     \/ part = "lease" /\ Lease!NetNext
     \/ part = "resolve" /\ Resolve!NetNext
     \/ part = "update" /\ Updater!UpdateNext /\ UNCHANGED Rest9
     \/ /\ \/ part = "tree" /\ Tree!FilesNext
           \/ part = "links" /\ Links!FilesNext
           \/ part = "working" /\ Working!FilesNext
           \/ part = "listing" /\ Listing!FilesNext
           \/ part = "contents" /\ Contents!FilesNext
        /\ UNCHANGED <<Rest4, Rest6>>
  /\ UNCHANGED part

Spec == Init /\ [][Next]_<<part, state>>

-----------------------------------------------------------------------------



\* The boot loader finds two whole images of one release, or no marker
\* (write_file, download_verified).
BootsWhole == part = "update" => Updater!BootsWhole

=============================================================================
