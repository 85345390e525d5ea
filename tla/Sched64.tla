------------------------------ MODULE Sched64 -------------------------------
(***************************************************************************)
(* The scheduler of the 64-bit kernel: kernel/sched64.c with the parts of  *)
(* syscall64.c and kmain64.c that call it.                                 *)
(*                                                                         *)
(* One CPU, one kernel stack, interrupts off inside a syscall: every call  *)
(* below is one step, and the timer can only arrive in ring 3 (Tick) or in *)
(* the idle loop's `sti; hlt' (IdleTick).                                  *)
(*                                                                         *)
(* `cpu' is what the processor holds: the thread pointers FS and GS, the   *)
(* x87/SSE file, the address space in CR3, the process proc64_current_pid  *)
(* answers with, and the frame ring 3 runs from.  `want' is an auxiliary   *)
(* variable: what each thread last had in those registers in ring 3, which *)
(* is what it must find there the next time it runs.                       *)
(***************************************************************************)
EXTENDS SchedTable

CONSTANTS Pids,         \* process ids
          FutexKeys,    \* the addresses and keys that threads wait on
          Bits,         \* the bits of a futex bit set
          Masks,        \* the bit sets that waits and wakes are given
          MaxSleep,     \* bound on a timeout, in ticks
          Ctx,          \* values of FS, GS, FPU and CR3
          Ctx0          \* the value a thread that never ran starts with

ASSUME PidAssumption == Pids \subseteq Nat
ASSUME FutexKeyAssumption == NoKey \notin FutexKeys /\ CondKey \notin FutexKeys
ASSUME MaskAssumption == Masks \subseteq SUBSET Bits
ASSUME SleepAssumption == MaxSleep \in Nat
ASSUME CtxAssumption == Ctx0 \in Ctx

VARIABLES tasks,        \* the task table
          task_total,   \* the counter sched64_tick returns early on
          current,      \* the slot that runs, NoTask outside a run
          idling,       \* inside idle_until_runnable
          masked,       \* IRQ0 is masked
          cpu,
          want

vars == <<tasks, task_total, current, idling, masked, cpu, want>>

Keys == FutexKeys \cup {CondKey}

Task == [used : BOOLEAN, blocked : BOOLEAN, pid : Pids \cup {AnyPid},
         wait_addr : Keys \cup {NoKey}, wait_bits : SUBSET Bits,
         deadline : 0 .. MaxSleep, signal_restart : BOOLEAN,
         wake_rax : RaxValues, timeout_rax : RaxValues,
         rax : RaxValues, rewound : Nat,
         fs : Ctx, gs : Ctx, fpu : Ctx, space : Ctx]

Cpu == [fs : Ctx, gs : Ctx, fpu : Ctx, space : Ctx,
        pid : Pids \cup {AnyPid}, rax : RaxValues, rewound : Nat]

Context == [fs : Ctx, gs : Ctx, fpu : Ctx, space : Ctx]

Context0 == [fs |-> Ctx0, gs |-> Ctx0, fpu |-> Ctx0, space |-> Ctx0]

EmptyTask == [used |-> FALSE, blocked |-> FALSE, pid |-> AnyPid,
              wait_addr |-> NoKey, wait_bits |-> {}, deadline |-> 0,
              signal_restart |-> FALSE, wake_rax |-> "user",
              timeout_rax |-> "user", rax |-> "user", rewound |-> 0,
              fs |-> Ctx0, gs |-> Ctx0, fpu |-> Ctx0, space |-> Ctx0]

InUser == current # NoTask /\ ~idling

-----------------------------------------------------------------------------
\* The three kinds of wait.  Most calls are re-run from the top; a futex wait
\* resumes after its syscall and leaves its number for a signal to go back
\* with; vfork resumes after its syscall with the child's pid.
WaitKinds == {"rerun", "futex", "vfork"}

WaitFrame(kind, timed) ==
  [rewound |-> IF kind = "rerun" THEN 1 ELSE 0,
   rax     |-> IF kind = "rerun" THEN "nr" ELSE "ok",
   wake    |-> IF kind = "rerun" THEN "nr" ELSE "ok",
   timeout |-> IF kind = "rerun" THEN "nr"
               ELSE IF kind = "futex" /\ timed THEN "timedout" ELSE "ok",
   restart |-> kind = "futex"]

\* What the processor loads when slot n of table ts is resumed.
Loaded(ts, n) == [fs |-> ts[n].fs, gs |-> ts[n].gs, fpu |-> ts[n].fpu,
                  space |-> ts[n].space, pid |-> ts[n].pid,
                  rax |-> ts[n].rax, rewound |-> ts[n].rewound]

Resume(ts, n) == tasks' = ts /\ current' = n /\ cpu' = Loaded(ts, n)

\* The part of a frame saved on every way out of ring 3.
SaveFrame(ts, c, fs, rax, rewound) ==
  [ts EXCEPT ![c] = [@ EXCEPT !.fs = fs, !.rax = rax, !.rewound = rewound]]

\* Back to ring 3 in the thread that made the call, with an answer in rax.
ReturnToCaller(ts) ==
  /\ tasks' = ts
  /\ cpu' = [cpu EXCEPT !.rax = "user", !.rewound = 0]
  /\ UNCHANGED current

\* Mutant: GS is not part of what a switch saves.
SaveLateNoGs(ts, c) == [ts EXCEPT ![c].fpu = cpu.fpu]

\* fpu_save and gs_base, done at the moment of the switch.
SaveLate(ts, c) == [ts EXCEPT ![c] = [@ EXCEPT !.gs = cpu.gs, !.fpu = cpu.fpu]]

-----------------------------------------------------------------------------
Init ==
  /\ tasks = [i \in Slots |-> EmptyTask]
  /\ task_total = 0
  /\ current = NoTask
  /\ idling = FALSE
  /\ masked = TRUE
  /\ cpu = [fs |-> Ctx0, gs |-> Ctx0, fpu |-> Ctx0, space |-> Ctx0,
            pid |-> AnyPid, rax |-> "user", rewound |-> 0]
  /\ want = [i \in Slots |-> Context0]

\* sched64_init: the top of a bring-up layer that starts from nothing.
SchedInit ==
  /\ current = NoTask
  /\ tasks' = [i \in Slots |-> [tasks[i] EXCEPT !.used = FALSE]]
  /\ task_total' = 0
  /\ UNCHANGED <<current, idling, masked, cpu, want>>

\* The fields sched64_add_frame_for writes; the rest of the slot is left as
\* its last occupant had it.
NewTask(old, pid, fs, space) ==
  [old EXCEPT !.used = TRUE, !.blocked = FALSE, !.pid = pid,
              !.wait_addr = NoKey, !.rax = "ok", !.rewound = 0,
              !.fs = fs, !.gs = cpu.gs, !.fpu = Ctx0, !.space = space]

\* A layer starts a program: its task goes into a free slot, is named current
\* and is entered directly rather than switched to.  Programs an earlier run
\* left behind are still in the table.
StartRun(pid, space) ==
  /\ current = NoTask
  /\ PidTasks(tasks, pid) = {}
  /\ LET i == FreeSlot(tasks) IN
     /\ i # NoTask
     /\ tasks' = [tasks EXCEPT ![i] = NewTask(tasks[i], pid, cpu.fs, space)]
     /\ current' = i
     /\ cpu' = [cpu EXCEPT !.space = space, !.pid = pid,
                           !.rax = "user", !.rewound = 0]
     /\ want' = [want EXCEPT ![i] = [fs |-> cpu.fs, gs |-> cpu.gs,
                                     fpu |-> cpu.fpu, space |-> space]]
  /\ task_total' = task_total + 1
  /\ masked' \in BOOLEAN
  /\ UNCHANGED idling

\* A new task, which starts with its creator's GS and a clean FPU.  Refused
\* when the table is full.
AddFrame(pid, fs, space) ==
  /\ LET i == FreeSlot(tasks) IN
     IF i = NoTask
     THEN ReturnToCaller(tasks) /\ UNCHANGED <<task_total, want>>
     ELSE /\ ReturnToCaller([tasks EXCEPT
                              ![i] = NewTask(tasks[i], pid, fs, space)])
          /\ task_total' = task_total + 1
          /\ want' = [want EXCEPT ![i] = [fs |-> fs, gs |-> cpu.gs,
                                          fpu |-> Ctx0, space |-> space]]
  /\ UNCHANGED <<idling, masked>>

\* clone(2): a thread of this process, in this space, with its own FS.
Clone(fs) == AddFrame(tasks[current].pid, fs, tasks[current].space)

\* fork(2): another process, in a space of its own, with its parent's FS.
Fork(pid, space) == PidTasks(tasks, pid) = {} /\ AddFrame(pid, cpu.fs, space)

\* The thread changes its own registers in ring 3: arch_prctl(SET_FS, SET_GS),
\* floating point, and ordinary instructions.
UserRuns(fs, gs, fpu) ==
  /\ InUser
  /\ cpu' = [cpu EXCEPT !.fs = fs, !.gs = gs, !.fpu = fpu,
                        !.rax = "user", !.rewound = 0]
  /\ want' = [want EXCEPT ![current].fs = fs, ![current].gs = gs,
                          ![current].fpu = fpu]
  /\ UNCHANGED <<tasks, task_total, current, idling, masked>>

\* execve: the task's copy of the space and CR3 together.
SetCurrentSpace(space) ==
  /\ InUser
  /\ tasks' = [tasks EXCEPT ![current].space = space]
  /\ cpu' = [cpu EXCEPT !.space = space, !.rax = "user", !.rewound = 0]
  /\ want' = [want EXCEPT ![current].space = space]
  /\ UNCHANGED <<task_total, current, idling, masked>>

-----------------------------------------------------------------------------
Parked(kind, key, deadline, bits) ==
  LET f == WaitFrame(kind, deadline > 0)
  IN  [tasks EXCEPT ![current] = [tasks[current] EXCEPT
         !.fs = cpu.fs, !.rax = f.rax, !.rewound = f.rewound,
         !.blocked = TRUE, !.wait_addr = key, !.wake_rax = f.wake,
         !.timeout_rax = f.timeout, !.wait_bits = bits,
         !.deadline = deadline, !.signal_restart = f.restart]]

Unpark(ts, c) ==
  [ts EXCEPT ![c] = [@ EXCEPT !.blocked = FALSE, !.wait_addr = NoKey,
                              !.deadline = 0]]

\* sched64_block_until_ex: park, hand over to the next runnable task, idle if
\* there is none but the clock will make one, refuse otherwise.
BlockUntilEx(kind, key, deadline, bits) ==
  /\ InUser
  /\ LET ts   == Parked(kind, key, deadline, bits)
         next == NextTask(ts, current)
     IN  \/ /\ ~ts[next].blocked
            /\ Resume(SaveLate(ts, current), next)
            /\ UNCHANGED idling
         \/ /\ ts[next].blocked
            /\ masked \/ ~AnyDeadline(ts)
            /\ ReturnToCaller(Unpark(ts, current))
            /\ UNCHANGED idling
         \/ /\ ts[next].blocked
            /\ ~masked /\ AnyDeadline(ts)
            /\ tasks' = ts
            /\ idling' = TRUE
            /\ UNCHANGED <<current, cpu>>
  /\ UNCHANGED <<task_total, masked, want>>

\* sched64_yield_current: stay runnable and let the next task run.
YieldCurrent(kind) ==
  /\ InUser
  /\ kind \in {"rerun", "vfork"}
  /\ LET f    == WaitFrame(kind, FALSE)
         ts   == SaveFrame(tasks, current, cpu.fs, f.rax, f.rewound)
         next == NextTask(ts, current)
     IN  IF next = current
         THEN /\ tasks' = ts
              /\ cpu' = [cpu EXCEPT !.rax = f.rax, !.rewound = f.rewound]
              /\ UNCHANGED current
         ELSE Resume(SaveLate(ts, current), next)
  /\ UNCHANGED <<task_total, idling, masked, want>>

-----------------------------------------------------------------------------
\* The three wakes, made by a running thread.
Wake(key, max, bits, pid) ==
  /\ InUser
  /\ ReturnToCaller(WakeFutex(tasks, key, max, bits, pid))
  /\ UNCHANGED <<task_total, idling, masked, want>>

SignalPid(pid) ==
  /\ InUser
  /\ ReturnToCaller(WakePid(tasks, pid))
  /\ UNCHANGED <<task_total, idling, masked, want>>

SignalTid(tid) ==
  /\ InUser
  /\ ReturnToCaller(WakeTid(tasks, tid))
  /\ UNCHANGED <<task_total, idling, masked, want>>

-----------------------------------------------------------------------------
Removed(ts, gone) == [i \in Slots |-> IF i \in gone
                                      THEN [ts[i] EXCEPT !.used = FALSE]
                                      ELSE ts[i]]

\* A run that ends leaves IRQ0 masked and no current task.
EndRun(ts) == /\ tasks' = ts
              /\ current' = NoTask
              /\ masked' = TRUE
              /\ UNCHANGED <<cpu, idling>>

\* Mutant: idles without asking whether anything waits on the clock.
LeaveToAlwaysIdle(ts) ==
  LET next == FirstRunnable(ts)
  IN  \/ next # NoTask /\ Resume(ts, next) /\ UNCHANGED <<idling, masked>>
      \/ /\ next = NoTask /\ ~masked
         /\ tasks' = ts /\ idling' = TRUE
         /\ UNCHANGED <<current, cpu, masked>>
      \/ next = NoTask /\ masked /\ EndRun(ts)

\* The common end of sched64_exit_current and sched64_exit_process: the first
\* runnable slot, the idle loop if only the clock can make one, or nothing.
LeaveTo(ts) ==
  LET next == FirstRunnable(ts)
  IN  \/ next # NoTask /\ Resume(ts, next) /\ UNCHANGED <<idling, masked>>
      \/ /\ next = NoTask /\ ~masked /\ AnyDeadline(ts)
         /\ tasks' = ts /\ idling' = TRUE
         /\ UNCHANGED <<current, cpu, masked>>
      \/ /\ next = NoTask /\ (masked \/ ~AnyDeadline(ts))
         /\ EndRun(ts)

ExitCurrent ==
  /\ InUser
  /\ task_total' = IF task_total > 0 THEN task_total - 1 ELSE 0
  /\ LeaveTo(Removed(tasks, {current}))
  /\ UNCHANGED want

Without(n, total) == IF total > n THEN total - n ELSE 0

\* Mutant: one task is counted out, however many there were.
ExitProcessOne ==
  /\ InUser
  /\ task_total' = Without(1, task_total)
  /\ LeaveTo(Removed(tasks, PidTasks(tasks, tasks[current].pid)))
  /\ UNCHANGED want

ExitProcess ==
  /\ InUser
  /\ LET gone == PidTasks(tasks, tasks[current].pid) IN
     /\ task_total' = Without(Cardinality(gone), task_total)
     /\ LeaveTo(Removed(tasks, gone))
  /\ UNCHANGED want

\* The leader of a run ends: its tasks go, and the run with them.
RemovePid ==
  /\ InUser
  /\ LET gone == PidTasks(tasks, tasks[current].pid) IN
     /\ task_total' = Without(Cardinality(gone), task_total)
     /\ EndRun(Removed(tasks, gone))
  /\ UNCHANGED want

-----------------------------------------------------------------------------
\* The timer interrupt in ring 3.
Tick ==
  /\ InUser /\ ~masked
  /\ \E ts \in {ExpireDeadlines(tasks)} : \E next \in {NextTask(ts, current)} :
         IF task_total < 2 \/ next = current
         THEN tasks' = ts /\ UNCHANGED <<current, cpu>>
         ELSE Resume(SaveLate(SaveFrame(ts, current, cpu.fs, cpu.rax,
                                        cpu.rewound), current), next)
  /\ UNCHANGED <<task_total, idling, masked, want>>

\* The timer interrupt in the idle loop.  sched64_tick releases what is due
\* and returns at `idling'; the loop then leaves for the first runnable task.
\* A thread that parked is saved on the way; one that exited is not.
IdleTick ==
  /\ idling
  /\ \E ts \in {ExpireDeadlines(tasks)} : \E next \in {FirstRunnable(ts)} :
         IF next # NoTask
         THEN /\ Resume(IF ts[current].used THEN SaveLate(ts, current) ELSE ts,
                        next)
              /\ idling' = FALSE
              /\ UNCHANGED masked
         ELSE IF AnyDeadline(ts)
         THEN tasks' = ts /\ UNCHANGED <<current, cpu, idling, masked>>
         ELSE /\ idling' = FALSE
              /\ IF ts[current].used
                 THEN ReturnToCaller(Unpark(ts, current)) /\ UNCHANGED masked
                 ELSE /\ tasks' = ts /\ current' = NoTask /\ masked' = TRUE
                      /\ UNCHANGED cpu
  /\ UNCHANGED <<task_total, want>>

-----------------------------------------------------------------------------
Block ==
  \/ \E key \in FutexKeys, d \in 0 .. MaxSleep, bits \in Masks :
        BlockUntilEx("futex", key, d, bits)
  \/ \E key \in FutexKeys : BlockUntilEx("rerun", key, 0, Bits)
  \/ \E d \in 0 .. MaxSleep : BlockUntilEx("rerun", CondKey, d, Bits)
  \/ \E key \in FutexKeys : BlockUntilEx("vfork", key, 0, Bits)

Wakes ==
  \/ \E key \in FutexKeys, max \in {1, MaxTasks}, bits \in Masks,
        pid \in Pids \cup {AnyPid} : Wake(key, max, bits, pid)
  \/ \E pid \in Pids : SignalPid(pid)
  \/ \E tid \in Slots : SignalTid(tid)

Run == \/ Block
       \/ \E kind \in WaitKinds : YieldCurrent(kind)
       \/ Wakes
       \/ \E fs, gs, fpu \in Ctx : UserRuns(fs, gs, fpu)
       \/ \E space \in Ctx : SetCurrentSpace(space)

Next == \/ SchedInit
        \/ \E pid \in Pids, space \in Ctx : StartRun(pid, space)
        \/ \E fs \in Ctx : InUser /\ Clone(fs)
        \/ \E pid \in Pids, space \in Ctx : InUser /\ Fork(pid, space)
        \/ Run
        \/ ExitCurrent \/ ExitProcess \/ RemovePid
        \/ Tick \/ IdleTick

Spec == Init /\ [][Next]_vars

\* A steady run: a full table of threads, none of which ends, and a timer that
\* keeps interrupting - in ring 3 and in the idle loop - which is the only
\* fairness assumed.
SteadyInit ==
  /\ \E owner \in [Slots -> Pids] :
       tasks = [i \in Slots |-> [EmptyTask EXCEPT !.used = TRUE,
                                                 !.pid = owner[i]]]
  /\ task_total = MaxTasks
  /\ current = 0
  /\ idling = FALSE
  /\ masked = FALSE
  /\ cpu = Loaded(tasks, 0)
  /\ want = [i \in Slots |-> Context0]

SteadyNext ==
  \/ \E key \in FutexKeys, d \in 0 .. MaxSleep :
        BlockUntilEx("futex", key, d, Bits)
  \/ BlockUntilEx("rerun", CondKey, MaxSleep, Bits)
  \/ YieldCurrent("vfork")
  \/ \E key \in FutexKeys : Wake(key, 1, Bits, AnyPid)
  \/ \E pid \in Pids : SignalPid(pid)
  \/ Tick \/ IdleTick

SteadySpec == SteadyInit /\ [][SteadyNext]_vars /\ WF_vars(Tick)
                                                /\ WF_vars(IdleTick)

-----------------------------------------------------------------------------
\* Every variable has its type.
TypeOK ==
  /\ tasks \in [Slots -> Task]
  /\ task_total \in Nat
  /\ current \in Slots \cup {NoTask}
  /\ idling \in BOOLEAN
  /\ masked \in BOOLEAN
  /\ cpu \in Cpu
  /\ want \in [Slots -> Context]

\* Whatever runs in ring 3 is a live task that nothing has parked, and it runs
\* as the process it belongs to: no switch (block, yield, exit, tick or idle)
\* ever resumes a thread that still waits.
CurrentRunnable ==
  InUser => /\ current \in Runnable(tasks)
            /\ cpu.pid = tasks[current].pid

\* The idle loop is only ever in a state the clock gets out of: nothing is
\* runnable, some wait has a deadline, and the timer can interrupt the halt.
IdleHasFuture ==
  idling => /\ Runnable(tasks) = {}
            /\ AnyDeadline(tasks)
            /\ ~masked

\* task_total, on which sched64_tick decides not to switch at all, counts the
\* live tasks exactly, across exits of threads, of processes and of a leader.
TotalExact == task_total = Cardinality(Live(tasks))

\* Where slot i's registers are: in the processor while it runs, in the table
\* when it was switched out, and in between while it idles, having parked.
Holds(i) ==
  IF i = current /\ ~idling THEN
     [fs |-> cpu.fs, gs |-> cpu.gs, fpu |-> cpu.fpu, space |-> cpu.space]
  ELSE IF i = current THEN
     [fs |-> tasks[i].fs, gs |-> cpu.gs, fpu |-> cpu.fpu,
      space |-> tasks[i].space]
  ELSE
     [fs |-> tasks[i].fs, gs |-> tasks[i].gs, fpu |-> tasks[i].fpu,
      space |-> tasks[i].space]

\* No switch gives a thread another thread's FS, GS, floating-point registers
\* or address space: each finds what it last had in ring 3.
ContextKept ==
  \A i \in Live(tasks) : /\ Holds(i) = want[i]
                         /\ tasks[i].space = want[i].space

\* A frame about to re-run its syscall has the number in rax and points at
\* the instruction, once; a frame that resumes after it has an answer there.
GoodFrame(rewound, rax) == rewound = IF rax = "nr" THEN 1 ELSE 0

\* Whichever way a wait ended - woken, timed out, by a signal, refused - the
\* thread's frame agrees with itself (wake_rax and signal_restart).
FrameConsistent ==
  /\ \A i \in Runnable(tasks) : i # current =>
        GoodFrame(tasks[i].rewound, tasks[i].rax)
  /\ InUser => GoodFrame(cpu.rewound, cpu.rax)

\* What makes the invariants above inductive: the idle loop was entered by some
\* slot, and a parked frame is ready for each of the ways its wait may end.
IdleSlot == idling => current \in Slots

ParkedFrames ==
  \A i \in Live(tasks) : tasks[i].blocked =>
     /\ GoodFrame(tasks[i].rewound, tasks[i].wake_rax)
     /\ GoodFrame(tasks[i].rewound, tasks[i].timeout_rax)
     /\ tasks[i].signal_restart => tasks[i].rewound = 0

\* Round robin starves nobody: a thread that is runnable gets the CPU, however
\* the others block, yield, wake and are preempted.
EveryRunnableRuns ==
  \A i \in Slots : i \in Runnable(tasks) ~> (current = i /\ ~idling)

\* A wait with a deadline ends, whatever else the system is doing - also when
\* every thread is asleep and only the idle loop is left.
TimedWaitEnds ==
  \A i \in Slots : (tasks[i].blocked /\ tasks[i].deadline > 0)
                     ~> ~tasks[i].blocked
=============================================================================
