------------------------------ MODULE Kernel32 ------------------------------
(***************************************************************************)
(* The 32-bit kernel's tasks, processes and signals: kernel/scheduler.c,   *)
(* kernel/posix_proc.c, kernel/posix_thread.c, kernel/posix_signal.c and   *)
(* the process calls of kernel/posix.c.                                    *)
(*                                                                         *)
(* A call runs with interrupts off, so it is one step.  Two things end     *)
(* that: a call that waits gives the CPU away, and one that waits when     *)
(* nobody else can run halts inside the kernel with interrupts on until    *)
(* its deadline.  A waiting call is not continued but made again: its task *)
(* keeps it in `call'.  Deadlines are kept as the ticks that are left.     *)
(***************************************************************************)
EXTENDS Integers, Sequences, FiniteSets

CONSTANTS
  MaxTasks,    \* entries of the task table (MAX_PROCESSES)
  MaxProcs,    \* entries of the process table (POSIX_MAX_PROCS)
  Slice,       \* SCHED_TICKS_PER_SLICE
  Calls32,     \* the calls programs make, as tuples <<name, arguments>>
  Sigs,        \* the signals they send
  MaxNest,     \* handlers a task has open at once
  MaxPids      \* bound on the process numbers given out

VARIABLES
  tasks,       \* process_table[0..process_count-1], in order
  procs,       \* procs[], by slot
  current,     \* index of the running task, 0 once the run has ended
  slice,       \* tick_countdown
  idle,        \* the wait `current' halts for inside the kernel, NotIdle if none
  lastPid      \* next_pid - 1

kernelVars == <<tasks, procs, current, slice, idle, lastPid>>

SIGKILL == 9
SIGSEGV == 11
Never == -1                          \* a wait without a deadline
NotIdle == [wait |-> {}, left |-> Never, retry |-> FALSE]

Kernel == [tasks |-> tasks, procs |-> procs, current |-> current,
           slice |-> slice, idle |-> idle, lastPid |-> lastPid]

Becomes(k) ==
  /\ tasks' = k.tasks
  /\ procs' = k.procs
  /\ current' = k.current
  /\ slice' = k.slice
  /\ idle' = k.idle
  /\ lastPid' = k.lastPid

Least(S) == CHOOSE x \in S : \A y \in S : x <= y

NewTask(as, frames, clear) ==
  [st |-> "ready", as |-> as, wait |-> {}, left |-> Never, retry |-> FALSE,
   call |-> <<>>, frames |-> frames, clear |-> clear, cleared |-> FALSE]

NewProc(pid) ==
  [used |-> TRUE, pid |-> pid, ppid |-> 0, exited |-> FALSE, vforkParent |-> 0,
   sleepKey |-> 0, sleepLeft |-> 0, pending |-> {}, mask |-> {}, chosen |-> {},
   acts |-> [n \in Sigs |-> "default"]]

(***************************************************************************)
(* The scheduler.                                                          *)
(***************************************************************************)
Runnable(k, t) == k.tasks[t].st \in {"ready", "running"}

scan_runnable(k) ==
  LET n == Len(k.tasks)
      After(o) == ((k.current - 1 + o) % n) + 1
      hits == {o \in 1..n : Runnable(k, After(o))}
  IN IF hits = {} THEN 0 ELSE After(Least(hits))

\* The waker writes the result of a call that is not made again; one that is
\* keeps its call.
wake_one(x) ==
  [x EXCEPT !.st = "ready", !.wait = {}, !.left = Never, !.retry = FALSE,
            !.call = IF x.retry THEN @ ELSE <<>>]

WakeAll(k, S) ==
  [k EXCEPT !.tasks = [t \in DOMAIN @ |->
     IF t \in S THEN wake_one(k.tasks[t]) ELSE @[t]]]

Blocked(k) == {t \in DOMAIN k.tasks : k.tasks[t].st = "blocked"}

wake_every_blocked(k) == WakeAll(k, Blocked(k))

\* The first `max' sleepers in table order; pd = 0 looks in every address space.
wake_on_common(k, pd, key, max) ==
  LET sleepers == {t \in Blocked(k) : /\ key \in k.tasks[t].wait
                                      /\ pd \in {0, k.tasks[t].as}}
      rank(t) == Cardinality({u \in sleepers : u < t})
  IN WakeAll(k, {t \in sleepers : rank(t) < max})

switch_to(k, next) ==
  [k EXCEPT !.current = next, !.tasks[next].st = "running", !.idle = NotIdle]

LeaveCpuParked(k) ==
  LET next == scan_runnable(k)
  IN IF next = 0 THEN [k EXCEPT !.current = 0, !.idle = NotIdle] ELSE switch_to(k, next)

\* A zombie leaves the CPU: the next runnable task, every blocked one woken if
\* none is, or the end of the run.
LeaveCpu(k) ==
  LET woken == IF scan_runnable(k) = 0 THEN wake_every_blocked(k) ELSE k
      next == scan_runnable(woken)
  IN IF next = 0 THEN [woken EXCEPT !.current = 0, !.idle = NotIdle]
     ELSE switch_to(woken, next)

OtherRunnable(k) == scan_runnable(k) \notin {0, k.current}

block_common(k, wait, left, retry) ==
  LET me == k.current
      parked == [k EXCEPT !.tasks[me] = [k.tasks[me] EXCEPT !.wait = wait, !.left = left,
                                                            !.retry = retry, !.st = "blocked"],
                          !.slice = Slice]
  IN switch_to(parked, scan_runnable(k))

yield_from_trap(k) ==
  IF OtherRunnable(k)
  THEN switch_to([k EXCEPT !.tasks[k.current].st = "ready", !.slice = Slice],
                 scan_runnable(k))
  ELSE k

(***************************************************************************)
(* Processes.                                                              *)
(***************************************************************************)
Me(k) == k.tasks[k.current]

\* The slot of the process an address space belongs to: posix_current().
SlotOf(k, as) ==
  CHOOSE s \in DOMAIN k.procs : /\ k.procs[s].used /\ ~k.procs[s].exited
                                /\ k.procs[s].pid = as
MySlot(k) == SlotOf(k, Me(k).as)

SlotsOfPid(k, pid) ==
  {s \in DOMAIN k.procs : k.procs[s].used /\ k.procs[s].pid = pid}

Siblings(k) == {t \in DOMAIN k.tasks \ {k.current} :
                  k.tasks[t].as = Me(k).as /\ k.tasks[t].st # "zombie"}

ProcKey(s) == <<"proc", s>>
TidKey(t) == <<"tid", t>>

vfork_release(k, s) ==
  IF k.procs[s].vforkParent = 0 THEN k
  ELSE wake_on_common([k EXCEPT !.procs[s].vforkParent = 0], 0, ProcKey(s), 1)


\* The end of a process: the parent in vfork and the parent in wait4.
EndProcess(k) ==
  LET s == MySlot(k)
      freed == vfork_release(k, s)
      gone == [freed EXCEPT !.procs[s].exited = TRUE]
      parents == SlotsOfPid(gone, gone.procs[s].ppid)
  IN IF parents = {} THEN gone
     ELSE wake_on_common(gone, 0, ProcKey(Least(parents)), 1)

process_teardown(k) == IF Siblings(k) # {} THEN k ELSE EndProcess(k)

posix_exit_status(k) ==
  LeaveCpu([process_teardown(k) EXCEPT !.tasks[k.current].st = "zombie"])

posix_exit_process_group(k) ==
  LET ended == EndProcess(k)
  IN LeaveCpu([ended EXCEPT !.tasks = [t \in DOMAIN @ |->
       IF @[t].as = Me(k).as THEN [@[t] EXCEPT !.st = "zombie"] ELSE @[t]]])

\* A thread that exits clears the word its joiners wait on and wakes them all.
posix_thread_exiting(k) ==
  IF ~Me(k).clear THEN k
  ELSE wake_on_common([k EXCEPT !.tasks[k.current].cleared = TRUE],
                      Me(k).as, TidKey(k.current), MaxTasks)

(***************************************************************************)
(* Signals.  Mask, pending set and actions belong to the process; the      *)
(* frame a handler returns through is on the stack of the task it          *)
(* interrupted, and holds the mask and the call it was about to make.      *)
(***************************************************************************)
deliverMaskLate(k, signo) ==
  LET t == k.current
      s == MySlot(k)
      mask == (k.procs[s].mask \cup {signo}) \ {SIGKILL}
  IN [k EXCEPT !.tasks[t].frames = Append(@, [mask |-> mask, call |-> k.tasks[t].call]),
               !.tasks[t].call = <<>>,
               !.procs[s].mask = mask]

deliver(k, signo) ==
  LET t == k.current
      s == MySlot(k)
      frame == [mask |-> k.procs[s].mask, call |-> k.tasks[t].call]
  IN [k EXCEPT !.tasks[t] = [k.tasks[t] EXCEPT !.frames = Append(k.tasks[t].frames, frame),
                                               !.call = <<>>],
               !.procs[s].mask = (@ \cup {signo}) \ {SIGKILL}]

default_action(k) == posix_exit_status(k)

posix_deliver_pending(k) ==
  LET s == MySlot(k)
      p == k.procs[s]
      ready == p.pending \ p.mask
      heard == {n \in ready : p.acts[n] # "ignore"}
      signo == Least(heard)
      taken == [k EXCEPT !.procs[s].pending = @ \ {n \in ready : n <= signo}]
  IN IF heard = {} THEN [k EXCEPT !.procs[s].pending = @ \ ready]
     ELSE IF p.acts[signo] = "default" THEN default_action(taken)
     ELSE deliver(taken, signo)

raise(k, s, signo) == [k EXCEPT !.procs[s].pending = @ \cup {signo}]

\* kill(): the own process, a process by its number, or a thread by its own.
sys_kill(k, pid, signo) ==
  LET alive == {s \in SlotsOfPid(k, pid) : ~k.procs[s].exited}
  IN IF alive = {} THEN k ELSE raise(k, Least(alive), signo)

sys_tgkill(k, tid, signo) ==
  raise(k, IF tid \in DOMAIN k.tasks /\ k.tasks[tid].st # "zombie"
           THEN SlotOf(k, k.tasks[tid].as) ELSE MySlot(k), signo)

posix_sys_rt_sigaction(k, signo, act) ==
  IF signo = SIGKILL THEN k ELSE [k EXCEPT !.procs[MySlot(k)].acts[signo] = act]

\* `chosen' remembers the mask the program set while in no handler.
posix_sys_rt_sigprocmask(k, set) ==
  LET s == MySlot(k)
      p == k.procs[s]
      new == set \ {SIGKILL}
  IN [k EXCEPT !.procs[s] =
        [p EXCEPT !.mask = new, !.chosen = IF Me(k).frames = <<>> THEN new ELSE p.chosen]]

posix_sigreturn_common(k) ==
  LET t == k.current
      f == k.tasks[t].frames
      top == f[Len(f)]
  IN [k EXCEPT !.procs[MySlot(k)].mask = top.mask \ {SIGKILL},
               !.tasks[t] = [k.tasks[t] EXCEPT !.frames = SubSeq(f, 1, Len(f) - 1),
                                               !.call = top.call]]

\* A fault goes to its handler, or takes every thread of the process with it.
handle_user_fault(k) ==
  LET p == k.procs[MySlot(k)]
  IN IF p.acts[SIGSEGV] = "handler" /\ SIGSEGV \notin p.mask
     THEN deliver(k, SIGSEGV)
     ELSE posix_exit_process_group(k)

(***************************************************************************)
(* The calls.  A call that waits ends in Wait, which parks the task to     *)
(* make it again, halts in the kernel, or spins through the program.       *)
(***************************************************************************)
Wait(k, c, wait, left) ==
  LET asked == [k EXCEPT !.tasks[k.current].call = c]
  IN IF OtherRunnable(k) THEN block_common(asked, wait, left, TRUE)
     ELSE IF left = Never THEN asked
     ELSE [asked EXCEPT !.idle = [wait |-> wait, left |-> left, retry |-> TRUE]]

Done(k) == [k EXCEPT !.tasks[k.current].call = <<>>]

posix_proc_clone(k, slot) ==
  [k EXCEPT !.lastPid = @ + 1,
            !.procs[slot] = [k.procs[MySlot(k)] EXCEPT !.pid = k.lastPid + 1,
                                                       !.ppid = Me(k).as]]


\* The caller of vfork sleeps until the child lets it go.
Suspend(k, slot) ==
  block_common([k EXCEPT !.procs[slot].vforkParent = Me(k).as], {ProcKey(slot)}, Never, FALSE)

\* A full process table and a full task table both leave everything as it was,
\* except the number a process was given.
fork_common(k, vfork) ==
  LET free == {s \in DOMAIN k.procs : ~k.procs[s].used}
      slot == Least(free)
      cloned == posix_proc_clone(k, slot)
      forked == [cloned EXCEPT !.tasks = Append(@, NewTask(k.lastPid + 1, Me(k).frames, FALSE))]
  IN IF free = {} THEN k
     ELSE IF Len(k.tasks) = MaxTasks THEN [k EXCEPT !.lastPid = @ + 1]
     ELSE IF vfork THEN Suspend(forked, slot) ELSE forked

posix_sys_clone(k) ==
  IF Len(k.tasks) = MaxTasks THEN k
  ELSE [k EXCEPT !.tasks = Append(@, NewTask(Me(k).as, <<>>, TRUE))]

\* A loaded image keeps the mask; a file that turns out not to load ends the
\* process, its old image being gone.
sys_execve(k, loads) ==
  LET s == MySlot(k)
      fresh == [k EXCEPT !.procs[s] = [k.procs[s] EXCEPT !.acts = [n \in Sigs |-> "default"],
                                                         !.pending = {},
                                                         !.chosen = k.procs[s].mask],
                         !.tasks[k.current] = [Me(k) EXCEPT !.frames = <<>>, !.clear = FALSE]]
  IN IF loads THEN vfork_release(fresh, s)
     ELSE posix_exit_status([k EXCEPT !.tasks[k.current].clear = FALSE])

Children(k, pid) ==
  {s \in DOMAIN k.procs : /\ k.procs[s].used /\ k.procs[s].ppid = Me(k).as
                          /\ pid \in {0, k.procs[s].pid}}

sys_wait4(k, c) ==
  LET kids == Children(k, c[2])
      dead == {s \in kids : k.procs[s].exited}
  IN IF kids = {} THEN Done(k)
     ELSE IF dead # {} THEN [Done(k) EXCEPT !.procs[Least(dead)].used = FALSE]
     ELSE Wait(k, c, {ProcKey(MySlot(k))}, Never)

\* FUTEX_WAIT on the word a thread clears when it ends, with or without a limit.
posix_sys_futex(k, c) ==
  LET t == c[2]
  IN IF t \notin DOMAIN k.tasks \/ k.tasks[t].as # Me(k).as \/ ~k.tasks[t].clear
        \/ k.tasks[t].cleared
     THEN Done(k)
     ELSE IF OtherRunnable(k) THEN block_common(k, {TidKey(t)}, c[3], FALSE)
     ELSE IF c[3] = Never THEN [k EXCEPT !.tasks[k.current].call = c]
     ELSE [k EXCEPT !.idle = [wait |-> {TidKey(t)}, left |-> c[3], retry |-> FALSE]]

\* The deadline of a sleep is kept in the process between its retries, under
\* the address of the caller's timespec.
sys_nanosleep(k, c) ==
  LET s == MySlot(k)
      p == k.procs[s]
      left == IF p.sleepKey # c[2] THEN c[3] ELSE p.sleepLeft
      Keeping(q, ticks) == [k EXCEPT !.procs[s] = [p EXCEPT !.sleepKey = q, !.sleepLeft = ticks]]
  IN IF left = 0 THEN Done(Keeping(0, 0)) ELSE Wait(Keeping(c[2], left), c, {}, left)

posix_syscall(k, c) ==
  CASE c[1] = "fork"      -> fork_common(k, FALSE)
    [] c[1] = "vfork"     -> fork_common(k, TRUE)
    [] c[1] = "clone"     -> posix_sys_clone(k)
    [] c[1] = "exec"      -> sys_execve(k, c[2])
    [] c[1] = "exit"      -> posix_exit_status(posix_thread_exiting(k))
    [] c[1] = "exitgroup" -> posix_exit_process_group(k)
    [] c[1] = "wait"      -> sys_wait4(k, c)
    [] c[1] = "join"      -> posix_sys_futex(k, c)
    [] c[1] = "sleep"     -> sys_nanosleep(k, c)
    [] c[1] = "yield"     -> yield_from_trap(k)
    [] c[1] = "kill"      -> sys_kill(k, c[2], c[3])
    [] c[1] = "tgkill"    -> sys_tgkill(k, c[2], c[3])
    [] c[1] = "action"    -> posix_sys_rt_sigaction(k, c[2], c[3])
    [] c[1] = "mask"      -> posix_sys_rt_sigprocmask(k, c[2])
    [] c[1] = "sigreturn" -> posix_sigreturn_common(k)
    [] c[1] = "fault"     -> handle_user_fault(k)

\* Signals are looked at on the way back to the program, and only when the way
\* back is to the task that came in.
Return(k, t) ==
  IF k.current = t /\ k.idle = NotIdle THEN posix_deliver_pending(k) ELSE k

(***************************************************************************)
(* The steps: a call by the running task, which is the one it was waiting  *)
(* in if it had one, and a timer tick.                                     *)
(***************************************************************************)
InUser == current # 0 /\ idle = NotIdle

\* Calls a program cannot be making: returning from no handler, replacing the
\* image under its own threads, and what the bounds leave out.
Sensible(c) ==
  LET me == tasks[current]
  IN /\ c[1] = "sigreturn" => me.frames # <<>>
     /\ c[1] = "exec" => Siblings(Kernel) = {}
     /\ c[1] \in {"fork", "vfork"} => lastPid < MaxPids
     /\ c[1] \in {"kill", "tgkill", "fault"} => \A t \in DOMAIN tasks : Len(tasks[t].frames) < MaxNest

Syscall(t) ==
  /\ InUser /\ current = t
  /\ \E c \in IF tasks[t].call = <<>> THEN Calls32 ELSE {tasks[t].call} :
       /\ Sensible(c)
       /\ \E k \in {Return(posix_syscall(Kernel, c), t)} : Becomes(k)

Minus1(n) == IF n > 0 THEN n - 1 ELSE n

\* The clock moves and scheduler_expire_waits() wakes what is due.
Elapsed(k) ==
  LET aged == [k EXCEPT
        !.tasks = [t \in DOMAIN @ |-> [k.tasks[t] EXCEPT !.left = Minus1(@)]],
        !.procs = [s \in DOMAIN @ |-> [k.procs[s] EXCEPT !.sleepLeft = Minus1(@)]],
        !.idle.left = Minus1(@)]
  IN WakeAll(aged, {t \in Blocked(aged) : aged.tasks[t].left = 0})

\* scheduler_tick(): only a program is preempted, at the end of its slice.
scheduler_tick ==
  /\ InUser
  /\ \E k \in {Elapsed(Kernel)} :
       IF k.slice > 0 THEN Becomes(Return([k EXCEPT !.slice = @ - 1], current))
       ELSE Becomes(switch_to([k EXCEPT !.slice = Slice, !.tasks[current].st = "ready"],
                              scan_runnable(k)))

\* A tick in the halt loop: the deadline has come, or there is someone to give
\* the CPU to.
IdleTick ==
  /\ current # 0 /\ idle # NotIdle
  /\ \E k \in {Elapsed(Kernel)} :
       Becomes(IF k.idle.left = 0 THEN Return([k EXCEPT !.idle = NotIdle], current)
               ELSE IF OtherRunnable(k)
                    THEN block_common(k, k.idle.wait, k.idle.left, k.idle.retry)
               ELSE k)

KernelInit ==
  /\ tasks = <<[NewTask(1, <<>>, FALSE) EXCEPT !.st = "running"]>>
  /\ procs = [s \in 1..MaxProcs |-> [NewProc(1) EXCEPT !.used = (s = 1)]]
  /\ current = 1
  /\ slice = Slice
  /\ idle = NotIdle
  /\ lastPid = 1

KernelNext ==
  \/ \E t \in 1..MaxTasks : Syscall(t)
  \/ scheduler_tick
  \/ IdleTick

KernelSpec == KernelInit /\ [][KernelNext]_kernelVars

(***************************************************************************)
(* Properties.                                                             *)
(***************************************************************************)

\* Exactly the current task runs, and a run of programs ends only when none of
\* its tasks is left: scheduler_exit_current() wakes whoever is parked rather
\* than unwinding past it.
RunsToTheEnd ==
  /\ current # 0 => {t \in DOMAIN tasks : tasks[t].st = "running"} = {current}
  /\ current = 0 => \A t \in DOMAIN tasks : tasks[t].st = "zombie"

\* Nobody sleeps in wait4 over a child that waits to be collected, unless a
\* thread of the same process is on its way for each of those children:
\* process_teardown() wakes one waiter for every child that ends.
WaitersServed ==
  \A t \in Blocked(Kernel) :
    tasks[t].call # <<>> /\ tasks[t].call[1] = "wait" =>
      LET kids == {s \in DOMAIN procs : procs[s].used /\ procs[s].ppid = tasks[t].as
                                        /\ tasks[t].call[2] \in {0, procs[s].pid}}
          dead == {s \in kids : procs[s].exited}
          coming == {u \in DOMAIN tasks : /\ Runnable(Kernel, u) /\ tasks[u].as = tasks[t].as
                                          /\ tasks[u].call # <<>> /\ tasks[u].call[1] = "wait"}
      IN Cardinality(dead) <= Cardinality(coming)

\* Nobody sleeps on the word of a thread that has ended: "a thread exiting has
\* to clear the word its creator asked for, or a joiner waits for ever"
\* (SYS_exit in posix_syscall).
JoinersReleased ==
  \A t \in Blocked(Kernel), u \in DOMAIN tasks :
    TidKey(u) \in tasks[t].wait => tasks[u].st # "zombie"

\* Whatever handlers ran and however they nested, a program that is back in none
\* of them has the mask it chose itself: deliver() saves the mask in the frame
\* and sigreturn puts it back.
MaskRestored ==
  \A t \in DOMAIN tasks :
    tasks[t].st # "zombie" /\ tasks[t].frames = <<>> =>
      LET p == procs[SlotOf(Kernel, tasks[t].as)] IN p.mask = p.chosen

=============================================================================
