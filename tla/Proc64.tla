------------------------------- MODULE Proc64 -------------------------------
(***************************************************************************)
(* The life of a process: kernel/proc64.c and the calls of                 *)
(* kernel/syscall64.c that begin and end one - fork, vfork, clone, execve, *)
(* exit, exit_group, wait4, kill - over the task table of SchedTable.      *)
(*                                                                         *)
(* A system call is one step, by any runnable thread.  Pids are never      *)
(* reused.  The process table has ProcMax slots; which of several dead     *)
(* children wait4 finds first depends on their slots and is left open.     *)
(* There are as many address spaces as memory has room for, and which free *)
(* one is taken does not matter.                                           *)
(* A run ends when its leader does, so the leader neither exits nor is     *)
(* killed, or when an exit leaves nobody to run.  A signal is caught by a  *)
(* handler or ends the process, whichever is so when it is taken.          *)
(***************************************************************************)
EXTENDS SchedTable

CONSTANTS ProcMax,      \* PROC64_MAX
          MaxPid,       \* bound on the pids ever handed out
          Spaces,       \* the address spaces memory has room for
          NoSpace,      \* the space of a slot nobody uses
          Calls         \* the system calls threads make

ASSUME ProcAssumption ==
  /\ {ProcMax, MaxPid} \subseteq Nat \ {0}
  /\ Spaces # {} /\ NoSpace \notin Spaces

VARIABLES tasks,        \* the task table, each task with its address space
          procs,        \* the process table, by pid
          next_pid,
          live,         \* the address spaces that exist
          pend,         \* the processes with a signal not yet taken
          call          \* the call a thread is inside

vars == <<tasks, procs, next_pid, live, pend, call>>

Pids == 1 .. MaxPid
Leader == 1
NoPid == 0
NoCall == [op |-> "none"]

WaitKey(pid) == <<"wait4", pid>>
VforkKey(pid) == <<"vfork", pid>>

Thread(pid, space) ==
  [used |-> TRUE, blocked |-> FALSE, pid |-> pid, space |-> space,
   wait_addr |-> NoKey, wait_bits |-> {1}, deadline |-> 0,
   signal_restart |-> FALSE, wake_rax |-> "nr", rax |-> "nr", rewound |-> 0]

NoThread == [Thread(AnyPid, NoSpace) EXCEPT !.used = FALSE]

NoProc == [used |-> FALSE, parent |-> NoPid, exited |-> FALSE,
           vfork_parent |-> NoPid, space |-> NoSpace]

-----------------------------------------------------------------------------
(* The kernel's state as one record.                                       *)

Kernel == [tasks |-> tasks, procs |-> procs, next_pid |-> next_pid,
           live |-> live, pend |-> pend, call |-> call]

Commit(s) == /\ tasks' = s.tasks /\ procs' = s.procs /\ next_pid' = s.next_pid
             /\ live' = s.live /\ pend' = s.pend /\ call' = s.call

Pid(i) == tasks[i].pid

WakeAll(s, key) ==
  [s EXCEPT !.tasks = WakeFutex(@, key, MaxTasks, {1}, AnyPid)]

SpaceInUse(s, space) == \E i \in Live(s.tasks) : s.tasks[i].space = space

\* Mutant: a space is destroyed when its process is done with it.
DestroyAlways(s, space) == [s EXCEPT !.live = @ \ {space}]

\* vmspace64_destroy, behind the question its callers ask first.
DestroyUnused(s, space) ==
  IF SpaceInUse(s, space) THEN s ELSE [s EXCEPT !.live = @ \ {space}]

VforkRelease(s, pid) ==
  IF s.procs[pid].vfork_parent = NoPid THEN s
  ELSE WakeAll([s EXCEPT !.procs[pid].vfork_parent = NoPid], VforkKey(pid))

\* The threads in `gone' leave the scheduler.
Removed(s, gone) ==
  [s EXCEPT !.tasks = [i \in Slots |-> IF i \in gone THEN NoThread ELSE @[i]],
            !.call = [i \in Slots |-> IF i \in gone THEN NoCall ELSE @[i]]]

WakeParent(s, pid) ==
  IF s.procs[pid].parent = NoPid THEN s
  ELSE WakeAll(s, WaitKey(s.procs[pid].parent))

\* Mutant: a parent in wait4 is not told.
ProcessEndsQuiet(s, pid) ==
  [VforkRelease(s, pid) EXCEPT !.procs[pid].exited = TRUE]

\* What every ending of a process does before its threads go: the vfork
\* parent, the record, the parent in wait4.
ProcessEnds(s, pid) ==
  LET t == [VforkRelease(s, pid) EXCEPT !.procs[pid].exited = TRUE]
  IN  WakeParent(t, pid)

\* exit_group and die_by_signal: the address space goes too, unless there is
\* nobody to switch to and the run ends.
EndProcess(s, i) ==
  LET t == Removed(ProcessEnds(s, Pid(i)), PidTasks(s.tasks, Pid(i)))
  IN  IF Runnable(t.tasks) = {} THEN t ELSE DestroyUnused(t, tasks[i].space)

\* The end of syscall64_dispatch: a pending signal is taken, and enters its
\* handler or ends the process.
Return(i, s) ==
  LET t == [s EXCEPT !.call[i] = NoCall, !.pend = @ \ {Pid(i)}]
  IN  \/ Commit(t)
      \/ Pid(i) \in s.pend \ {Leader} /\ Commit(EndProcess(t, i))

\* sched64_block_current would find somebody else to run.
CanPark(s, i) == Runnable(s.tasks) # {i}

Parked(s, i, c, key) ==
  [s EXCEPT !.tasks[i].blocked = TRUE, !.tasks[i].wait_addr = key,
            !.call[i] = c]

-----------------------------------------------------------------------------
(* Beginning.                                                              *)

\* clone of a thread.
Clone(i, c) ==
  LET slot == FreeSlot(tasks)
  IN  Return(i, IF slot = NoTask THEN Kernel
                ELSE [Kernel EXCEPT !.tasks[slot] = Thread(Pid(i), tasks[i].space)])

Children(s, pid) == {p \in Pids : s.procs[p].used /\ s.procs[p].parent = pid}

TableFull(s) == Cardinality({p \in Pids : s.procs[p].used}) >= ProcMax

\* proc64_fork_from, and the address space.
NewProcess(s, i, child, space) ==
  [s EXCEPT !.procs[child] = [NoProc EXCEPT !.used = TRUE, !.parent = Pid(i),
                                            !.space = space],
            !.next_pid = @ + 1,
            !.live = @ \cup {space}]

\* do_fork_common: refused with the process table full, undone without
\* memory; without a task slot the space goes and the record stays.
Fork(i, c) ==
  LET child == next_pid
      slot  == FreeSlot(tasks)
      Started(s, space) == [s EXCEPT !.tasks[slot] = Thread(child, space)]
      Vforked(s) == [s EXCEPT !.procs[child].vfork_parent = Pid(i),
                              !.tasks[i].wake_rax = "ok"]
  IN  \/ TableFull(Kernel) /\ Return(i, Kernel)
      \/ /\ ~TableFull(Kernel) /\ next_pid <= MaxPid
         /\ \/ /\ Spaces \subseteq live
               /\ Return(i, [Kernel EXCEPT !.next_pid = @ + 1])
            \/ \E space \in Spaces \ live :
                 LET s == NewProcess(Kernel, i, child, space)
                 IN  IF slot = NoTask
                     THEN Return(i, [s EXCEPT !.live = @ \ {space}])
                     ELSE IF c.op = "fork" THEN Return(i, Started(s, space))
                     ELSE Commit(Parked(Vforked(Started(s, space)), i, c,
                                        VforkKey(child)))

\* A vfork parent that was let go carries on after its call.
VforkResume(i) ==
  /\ call[i].op = "vfork"
  /\ Commit([Kernel EXCEPT !.call[i] = NoCall, !.tasks[i].wake_rax = "nr",
                           !.tasks[i].rax = "nr"])

\* execve: the old space goes when nobody stands in it, and a vfork parent
\* may run again.
Exec(i, c) ==
  LET pid == Pid(i)
      Became(fresh) == [VforkRelease(Kernel, pid) EXCEPT
                          !.live = @ \cup {fresh}, !.procs[pid].space = fresh,
                          !.tasks[i].space = fresh]
  IN  \/ Spaces \subseteq live /\ Return(i, Kernel)
      \/ \E fresh \in Spaces \ live :
           Commit(DestroyUnused(Became(fresh), procs[pid].space))

-----------------------------------------------------------------------------
(* Ending.                                                                 *)

\* exit: a thread, or the process when it is the last one - whose address
\* space nothing here destroys.
Exit(i, c) ==
  LET last == PidTasks(tasks, Pid(i)) = {i}
  IN  /\ ~(last /\ Pid(i) = Leader)
      /\ Commit(Removed(IF last THEN ProcessEnds(Kernel, Pid(i)) ELSE Kernel, {i}))

\* exit_group, and with the same effect a fatal signal to oneself, a fault
\* nobody handles and a page there is no memory for.
ExitGroup(i, c) == Pid(i) # Leader /\ Commit(EndProcess(Kernel, i))

Wanted(s, i, want) == {p \in Children(s, Pid(i)) : want \in {p, NoPid}}

\* wait4: reap, refuse, or wait to look again.
Wait4(i, c) ==
  LET kids == Wanted(Kernel, i, c.want)
      dead == {p \in kids : procs[p].exited}
  IN  \/ \E p \in dead : Return(i, [Kernel EXCEPT !.procs[p] = NoProc])
      \/ /\ dead = {}
         /\ IF kids = {} \/ c.nohang \/ Pid(i) \in pend \/ ~CanPark(Kernel, i)
            THEN Return(i, Kernel)
            ELSE Commit(Parked(Kernel, i, c, WaitKey(Pid(i))))

\* Mutant: the sleepers of the target are left asleep.
KillQuiet(i, c) ==
  /\ c.pid # Pid(i) /\ procs[c.pid].used /\ ~procs[c.pid].exited
  /\ Return(i, [Kernel EXCEPT !.pend = @ \cup {c.pid}])

\* kill of another process: recorded, and its sleepers woken.
Kill(i, c) ==
  /\ c.pid # Pid(i) /\ procs[c.pid].used /\ ~procs[c.pid].exited
  /\ Return(i, [Kernel EXCEPT !.pend = @ \cup {c.pid},
                              !.tasks = WakePid(@, c.pid)])

-----------------------------------------------------------------------------
Requests ==
  {c \in     [op : {"clone", "fork", "vfork", "exec", "exit", "exit_group"}]
        \cup [op : {"wait4"}, want : {NoPid} \cup Pids, nohang : BOOLEAN]
        \cup [op : {"kill"}, pid : Pids]
     : c.op \in Calls}

Syscall(i, c) ==
  \/ c.op = "clone"            /\ Clone(i, c)
  \/ c.op \in {"fork", "vfork"} /\ Fork(i, c)
  \/ c.op = "exec"             /\ Exec(i, c)
  \/ c.op = "exit"             /\ Exit(i, c)
  \/ c.op = "exit_group"       /\ ExitGroup(i, c)
  \/ c.op = "wait4"            /\ Wait4(i, c)
  \/ c.op = "kill"             /\ Kill(i, c)

\* A runnable thread makes a call, or re-runs the one it was woken in.
Run(i) ==
  /\ i \in Runnable(tasks)
  /\ \/ call[i] = NoCall /\ \E c \in Requests : Syscall(i, c)
     \/ call[i].op = "wait4" /\ Wait4(i, call[i])
     \/ VforkResume(i)

Init ==
  /\ \E space \in Spaces :
       /\ tasks = [i \in Slots |-> IF i = 0 THEN Thread(Leader, space)
                                  ELSE NoThread]
       /\ procs = [p \in Pids |->
                     IF p = Leader
                     THEN [NoProc EXCEPT !.used = TRUE, !.space = space]
                     ELSE NoProc]
       /\ live = {space}
  /\ next_pid = 2
  /\ pend = {}
  /\ call = [i \in Slots |-> NoCall]

Next == \E i \in Slots : Run(i)

Spec == Init /\ [][Next]_vars

-----------------------------------------------------------------------------
(* Properties.                                                             *)

Asleep(i, op) == tasks[i].used /\ tasks[i].blocked /\ call[i].op = op

\* No thread, running or asleep, stands in an address space that execve,
\* exit_group or a fatal signal of another thread or process destroyed, no
\* two processes share one, and a process that has exited, whose record wait4
\* may hand out and free at any moment, has no thread left.
SpacesHeld ==
  /\ \A i \in Live(tasks) :
       /\ tasks[i].space \in live
       /\ procs[tasks[i].pid].used /\ ~procs[tasks[i].pid].exited
  /\ \A i, j \in Live(tasks) :
       tasks[i].space = tasks[j].space => tasks[i].pid = tasks[j].pid

\* No thread sleeps in wait4 when a child it asked for has exited, nor when
\* it has no such child, nor in vfork for a child that has called execve or
\* ended: every ending of a process wakes its parent, and a sibling that
\* reaps the child leaves nobody behind.
WaitersJustified ==
  \A i \in Slots :
    /\ Asleep(i, "wait4") =>
         /\ Wanted(Kernel, i, call[i].want) # {}
         /\ \A p \in Wanted(Kernel, i, call[i].want) : ~procs[p].exited
    /\ Asleep(i, "vfork") =>
         \E p \in Pids : /\ tasks[i].wait_addr = VforkKey(p)
                         /\ procs[p].used /\ ~procs[p].exited
                         /\ procs[p].vfork_parent = tasks[i].pid

\* A signal sent to a process whose threads sleep in wait4 finds them: none
\* is asleep there while a signal for its process has not been taken.
SignalsNoticed ==
  \A i \in Slots : Asleep(i, "wait4") => tasks[i].pid \notin pend

=============================================================================
