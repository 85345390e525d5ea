---------------------------- MODULE Sched64Proofs ---------------------------
(***************************************************************************)
(* Proofs about Sched64 for every size of the task table, every set of     *)
(* processes and keys, every bound on a timeout and every register value.  *)
(***************************************************************************)
EXTENDS Sched64, SchedTableProofs, TLAPS

-----------------------------------------------------------------------------
(* Type correctness.                                                       *)

\* Every operation on one task keeps it a task.
LEMMA TaskOps ==
  ASSUME NEW t \in Task
  PROVE  /\ ExpireOne(t) \in Task
         /\ Release(t) \in Task
         /\ ReleaseCond(t) \in Task
         /\ WokenBySignal(t) \in Task
         /\ [t EXCEPT !.used = FALSE] \in Task
<1>1. NoKey \in Keys \cup {NoKey} /\ 0 \in 0 .. MaxSleep
  BY SleepAssumption
<1>2. t.deadline > 1 => t.deadline - 1 \in 0 .. MaxSleep
  BY SleepAssumption DEF Task
<1>3. ExpireOne(t) \in Task
  BY <1>1, <1>2, Zenon DEF ExpireOne, Task
<1>4. Release(t) \in Task
  BY <1>1, Zenon DEF Release, Task
<1>5. ReleaseCond(t) \in Task
  BY <1>1, <1>4, Zenon DEF ReleaseCond, Task
<1>6. WokenBySignal(t) \in Task
  <2>1. CASE t.signal_restart
    <3>1. "nr" \in RaxValues /\ t.rewound + 1 \in Nat
      BY DEF RaxValues, Task
    <3> QED
      BY <1>1, <2>1, <3>1, Zenon DEF WokenBySignal, Task
  <2>2. CASE ~t.signal_restart
    BY <1>4, <2>2, Zenon DEF WokenBySignal
  <2> QED
    BY <2>1, <2>2, Zenon
<1>7. [t EXCEPT !.used = FALSE] \in Task
  BY Zenon DEF Task
<1> QED
  BY <1>3, <1>4, <1>5, <1>6, <1>7, Zenon

\* And so does every operation on the table.
LEMMA TableOps ==
  ASSUME NEW ts \in [Slots -> Task]
  PROVE  /\ ExpireDeadlines(ts) \in [Slots -> Task]
         /\ \A key, max, bits, pid :
               WakeFutex(ts, key, max, bits, pid) \in [Slots -> Task]
         /\ \A pid : WakePid(ts, pid) \in [Slots -> Task]
         /\ \A tid : WakeTid(ts, tid) \in [Slots -> Task]
         /\ \A gone : Removed(ts, gone) \in [Slots -> Task]
<1>1. ExpireDeadlines(ts) \in [Slots -> Task]
  BY TaskOps, Zenon DEF ExpireDeadlines
<1>2. ASSUME NEW key, NEW max, NEW bits, NEW pid
      PROVE  WakeFutex(ts, key, max, bits, pid) \in [Slots -> Task]
  BY TaskOps, Zenon DEF WakeFutex
<1>3. ASSUME NEW pid PROVE WakePid(ts, pid) \in [Slots -> Task]
  BY TaskOps, Zenon DEF WakePid
<1>4. ASSUME NEW tid PROVE WakeTid(ts, tid) \in [Slots -> Task]
  BY TaskOps, Zenon DEF WakeTid
<1>5. ASSUME NEW gone PROVE Removed(ts, gone) \in [Slots -> Task]
  BY TaskOps, Zenon DEF Removed
<1> QED
  BY <1>1, <1>2, <1>3, <1>4, <1>5, Zenon

\* What a switch saves and loads is well typed.
LEMMA SwitchTypes ==
  ASSUME TypeOK, NEW ts \in [Slots -> Task], NEW n \in Slots
  PROVE  /\ Loaded(ts, n) \in Cpu
         /\ SaveLate(ts, n) \in [Slots -> Task]
         /\ Unpark(ts, n) \in [Slots -> Task]
         /\ \A fs \in Ctx, rax \in RaxValues, rewound \in Nat :
               SaveFrame(ts, n, fs, rax, rewound) \in [Slots -> Task]
         /\ [cpu EXCEPT !.rax = "user", !.rewound = 0] \in Cpu
<1>0. ts[n] \in Task
  BY Zenon
<1>1. Loaded(ts, n) \in Cpu
  BY Zenon DEF Loaded, Cpu, Task
<1>2. SaveLate(ts, n) \in [Slots -> Task]
  <2>1. [ts[n] EXCEPT !.gs = cpu.gs, !.fpu = cpu.fpu] \in Task
    BY <1>0, Zenon DEF TypeOK, Cpu, Task
  <2> QED
    BY <2>1, Zenon DEF SaveLate
<1>3. Unpark(ts, n) \in [Slots -> Task]
  <2>0. NoKey \in Keys \cup {NoKey} /\ 0 \in 0 .. MaxSleep
    BY SleepAssumption
  <2>1. [ts[n] EXCEPT !.blocked = FALSE, !.wait_addr = NoKey, !.deadline = 0]
           \in Task
    BY <1>0, <2>0, Zenon DEF Task
  <2> QED
    BY <2>1, Zenon DEF Unpark
<1>4. ASSUME NEW fs \in Ctx, NEW rax \in RaxValues, NEW rewound \in Nat
      PROVE  SaveFrame(ts, n, fs, rax, rewound) \in [Slots -> Task]
  <2>1. [ts[n] EXCEPT !.fs = fs, !.rax = rax, !.rewound = rewound] \in Task
    BY <1>0, Zenon DEF Task
  <2> QED
    BY <2>1, Zenon DEF SaveFrame
<1>5. [cpu EXCEPT !.rax = "user", !.rewound = 0] \in Cpu
  BY Zenon DEF TypeOK, Cpu, RaxValues
<1> QED
  BY <1>1, <1>2, <1>3, <1>4, <1>5, Zenon

\* A slot filled by clone, fork or a new run.
LEMMA NewTaskType ==
  ASSUME TypeOK, NEW i \in Slots, NEW pid \in Pids \cup {AnyPid}, NEW fs \in Ctx,
         NEW space \in Ctx
  PROVE  [tasks EXCEPT ![i] = NewTask(tasks[i], pid, fs, space)]
            \in [Slots -> Task]
<1>1. tasks[i] \in Task /\ cpu.gs \in Ctx /\ "ok" \in RaxValues
  BY Zenon DEF TypeOK, Cpu, RaxValues
<1>2. NewTask(tasks[i], pid, fs, space) \in Task
  BY <1>1, CtxAssumption, Zenon DEF NewTask, Task
<1> QED
  BY <1>2, Zenon DEF TypeOK

\* A thread parked by any of the three kinds of wait.
LEMMA ParkedType ==
  ASSUME TypeOK, current \in Slots, NEW kind \in WaitKinds, NEW key \in Keys,
         NEW d \in 0 .. MaxSleep, NEW bits \in SUBSET Bits
  PROVE  Parked(kind, key, d, bits) \in [Slots -> Task]
<1> DEFINE f == WaitFrame(kind, d > 0)
           t == [tasks[current] EXCEPT
                   !.fs = cpu.fs, !.rax = f.rax, !.rewound = f.rewound,
                   !.blocked = TRUE, !.wait_addr = key, !.wake_rax = f.wake,
                   !.timeout_rax = f.timeout, !.wait_bits = bits,
                   !.deadline = d, !.signal_restart = f.restart]
<1>1. /\ f.rax \in RaxValues /\ f.wake \in RaxValues /\ f.timeout \in RaxValues
      /\ f.rewound \in Nat /\ f.restart \in BOOLEAN
  BY Zenon DEF WaitFrame, RaxValues
<1>2. tasks[current] \in Task /\ cpu.fs \in Ctx
  BY Zenon DEF TypeOK, Cpu
<1>3. t \in Task
  <2> HIDE DEF f
  <2> QED
    BY <1>1, <1>2, Zenon DEF Task
<1>4. Parked(kind, key, d, bits) = [tasks EXCEPT ![current] = t]
  BY Zenon DEF Parked
<1> HIDE DEF t
<1> QED
  BY <1>3, <1>4, Zenon DEF TypeOK

\* The processes and sets of slots that exits remove from the count.
LEMMA CountTypes ==
  ASSUME NEW ts, NEW pid, NEW total \in Nat
  PROVE  Without(Cardinality(PidTasks(ts, pid)), total) \in Nat
<1>1. IsFiniteSet(Slots)
  BY FS_Interval, MaxTasksAssumption DEF Slots
<1>2. PidTasks(ts, pid) \subseteq Slots
  BY Zenon DEF PidTasks, Live
<1>3. Cardinality(PidTasks(ts, pid)) \in Nat
  BY <1>1, <1>2, FS_Subset, FS_CardinalityType, Zenon
<1> QED
  BY <1>3 DEF Without

\* The way out of an exit is well typed.
LEMMA LeaveToTypes ==
  ASSUME TypeOK, NEW ts \in [Slots -> Task], LeaveTo(ts)
  PROVE  /\ tasks' \in [Slots -> Task]
         /\ current' \in Slots \cup {NoTask}
         /\ idling' \in BOOLEAN /\ masked' \in BOOLEAN
         /\ cpu' \in Cpu
<1>1. FirstRunnable(ts) # NoTask => FirstRunnable(ts) \in Slots
  BY FirstRunnableIs, Zenon DEF Runnable
<1>2. FirstRunnable(ts) # NoTask => Loaded(ts, FirstRunnable(ts)) \in Cpu
  BY <1>1, SwitchTypes, Zenon
<1> QED
  BY <1>1, <1>2, Zenon DEF LeaveTo, Resume, EndRun, TypeOK

\* Every wait the kernel makes is a sched64_block_until_ex with these arguments.
LEMMA BlockIs ==
  ASSUME Block
  PROVE  \E kind \in WaitKinds, key \in Keys, d \in 0 .. MaxSleep,
            bits \in SUBSET Bits : BlockUntilEx(kind, key, d, bits)
<1>1. 0 \in 0 .. MaxSleep /\ Bits \in SUBSET Bits
  BY SleepAssumption
<1> QED
  BY <1>1, MaskAssumption, Zenon DEF Block, Keys, WaitKinds

\* Type correctness is inductive.
LEMMA TypeStep == TypeOK /\ IdleSlot /\ [Next]_vars => TypeOK'
<1> SUFFICES ASSUME TypeOK, IdleSlot, [Next]_vars PROVE TypeOK'
  BY Zenon
<1> USE DEF TypeOK
<1>a. [cpu EXCEPT !.rax = "user", !.rewound = 0] \in Cpu
  BY Zenon DEF Cpu, RaxValues
<1>0. CASE UNCHANGED vars
  BY <1>0, Zenon DEF vars
<1>1. CASE SchedInit
  BY <1>1, TaskOps, Zenon DEF SchedInit
<1>2. ASSUME NEW pid \in Pids, NEW space \in Ctx, StartRun(pid, space)
      PROVE  TypeOK'
  <2>1. FreeSlot(tasks) \in Slots
    BY <1>2, FreeSlotIs, Zenon DEF StartRun
  <2>2. tasks' \in [Slots -> Task]
    BY <1>2, <2>1, NewTaskType, Zenon DEF StartRun, Cpu
  <2>3. cpu' \in Cpu
    BY <1>2, Zenon DEF StartRun, Cpu, RaxValues
  <2>4. want' \in [Slots -> Context]
    BY <1>2, <2>1, Zenon DEF StartRun, Cpu, Context
  <2> QED
    BY <1>2, <2>1, <2>2, <2>3, <2>4 DEF StartRun
<1>3. ASSUME NEW pid \in Pids \cup {AnyPid}, NEW fs \in Ctx, NEW space \in Ctx,
             AddFrame(pid, fs, space)
      PROVE  TypeOK'
  <2>1. CASE FreeSlot(tasks) = NoTask
    BY <1>3, <2>1, <1>a, Zenon DEF AddFrame, ReturnToCaller
  <2>2. CASE FreeSlot(tasks) # NoTask
    <3>1. FreeSlot(tasks) \in Slots
      BY <2>2, FreeSlotIs, Zenon
    <3>2. tasks' \in [Slots -> Task]
      BY <1>3, <2>2, <3>1, NewTaskType DEF AddFrame, ReturnToCaller
    <3>3. cpu' \in Cpu
      BY <1>3, <2>2, <1>a, Zenon DEF AddFrame, ReturnToCaller
    <3>4. want' \in [Slots -> Context]
      BY <1>3, <2>2, <3>1, CtxAssumption
         DEF AddFrame, ReturnToCaller, Cpu, Context
    <3> QED
      BY <1>3, <2>2, <3>2, <3>3, <3>4 DEF AddFrame, ReturnToCaller
  <2> QED
    BY <2>1, <2>2, Zenon
<1>4. ASSUME NEW kind \in WaitKinds, NEW key \in Keys, NEW d \in 0 .. MaxSleep,
             NEW bits \in SUBSET Bits, BlockUntilEx(kind, key, d, bits)
      PROVE  TypeOK'
  <2> DEFINE ts == Parked(kind, key, d, bits)
             next == NextTask(ts, current)
  <2>1. current \in Slots
    BY <1>4, Zenon DEF BlockUntilEx, InUser
  <2>2. ts \in [Slots -> Task]
    BY <2>1, ParkedType, Zenon
  <2>3. next \in Slots
    BY <2>1, NextTaskIs, Zenon
  <2> HIDE DEF ts, next
  <2>4. /\ SaveLate(ts, current) \in [Slots -> Task]
        /\ Unpark(ts, current) \in [Slots -> Task]
        /\ [cpu EXCEPT !.rax = "user", !.rewound = 0] \in Cpu
    BY <2>1, <2>2, SwitchTypes, Zenon
  <2>5. Loaded(SaveLate(ts, current), next) \in Cpu
    BY <2>3, <2>4, SwitchTypes, Zenon
  <2>6. \/ /\ Resume(SaveLate(ts, current), next)
           /\ UNCHANGED idling
        \/ ReturnToCaller(Unpark(ts, current)) /\ UNCHANGED idling
        \/ tasks' = ts /\ idling' = TRUE /\ UNCHANGED <<current, cpu>>
    BY <1>4, Zenon DEF BlockUntilEx, ts, next
  <2>7. UNCHANGED <<task_total, masked, want>>
    BY <1>4, Zenon DEF BlockUntilEx
  <2> QED
    BY <2>1, <2>2, <2>3, <2>4, <2>5, <2>6, <2>7, Zenon DEF Resume, ReturnToCaller
<1>5. ASSUME NEW kind \in WaitKinds, YieldCurrent(kind) PROVE TypeOK'
  <2> DEFINE f    == WaitFrame(kind, FALSE)
             ts   == SaveFrame(tasks, current, cpu.fs, f.rax, f.rewound)
             next == NextTask(ts, current)
  <2>1. current \in Slots
    BY <1>5, Zenon DEF YieldCurrent, InUser
  <2>2. f.rax \in RaxValues /\ f.rewound \in Nat /\ cpu.fs \in Ctx
    BY Zenon DEF WaitFrame, RaxValues, Cpu
  <2>3. ts \in [Slots -> Task]
    BY <2>1, <2>2, SwitchTypes, Zenon
  <2>4. next \in Slots
    BY <2>1, NextTaskIs, Zenon
  <2>5. [cpu EXCEPT !.rax = f.rax, !.rewound = f.rewound] \in Cpu
    BY <2>2, Zenon DEF Cpu
  <2>6. \/ /\ tasks' = ts
           /\ cpu' = [cpu EXCEPT !.rax = f.rax, !.rewound = f.rewound]
           /\ UNCHANGED current
        \/ Resume(SaveLate(ts, current), next)
    BY <1>5, Zenon DEF YieldCurrent
  <2>7. UNCHANGED <<task_total, idling, masked, want>>
    BY <1>5, Zenon DEF YieldCurrent
  <2> HIDE DEF ts, next, f
  <2>8. SaveLate(ts, current) \in [Slots -> Task]
    BY <2>1, <2>3, SwitchTypes, Zenon
  <2>9. Loaded(SaveLate(ts, current), next) \in Cpu
    BY <2>4, <2>8, SwitchTypes, Zenon
  <2> QED
    BY <2>1, <2>3, <2>4, <2>5, <2>6, <2>7, <2>8, <2>9, Zenon DEF Resume
<1>6. CASE Wakes
  <2>1. PICK ts \in [Slots -> Task] :
           ReturnToCaller(ts) /\ UNCHANGED <<task_total, idling, masked, want>>
    BY <1>6, TableOps, Zenon DEF Wakes, Wake, SignalPid, SignalTid
  <2>2. cpu' \in Cpu
    BY <2>1, <1>a, Zenon DEF ReturnToCaller
  <2> QED
    BY <2>1, <2>2, Zenon DEF ReturnToCaller
<1>7. ASSUME NEW fs \in Ctx, NEW gs \in Ctx, NEW fpu \in Ctx,
             UserRuns(fs, gs, fpu)
      PROVE  TypeOK'
  <2>1. cpu' \in Cpu
    BY <1>7, Zenon DEF UserRuns, Cpu, RaxValues
  <2>2. want' \in [Slots -> Context]
    BY <1>7, ZenonT(30) DEF UserRuns, Context, InUser
  <2> QED
    BY <1>7, <2>1, <2>2, Zenon DEF UserRuns
<1>8. ASSUME NEW space \in Ctx, SetCurrentSpace(space) PROVE TypeOK'
  <2>1. cpu' \in Cpu
    BY <1>8, Zenon DEF SetCurrentSpace, Cpu, RaxValues
  <2>2. want' \in [Slots -> Context]
    BY <1>8, Zenon DEF SetCurrentSpace, Context, InUser
  <2>3. tasks' \in [Slots -> Task]
    <3>1. current \in Slots /\ tasks[current] \in Task
      BY <1>8, Zenon DEF SetCurrentSpace, InUser
    <3>2. [tasks[current] EXCEPT !.space = space] \in Task
      BY <3>1, Zenon DEF Task
    <3> QED
      BY <1>8, <3>1, <3>2, Zenon DEF SetCurrentSpace
  <2> QED
    BY <1>8, <2>1, <2>2, <2>3, Zenon DEF SetCurrentSpace
<1>9. CASE ExitCurrent
  <2>1. task_total' \in Nat
    BY <1>9 DEF ExitCurrent
  <2>2. Removed(tasks, {current}) \in [Slots -> Task]
    BY TableOps, Zenon
  <2> QED
    BY <1>9, <2>1, <2>2, LeaveToTypes, Zenon DEF ExitCurrent
<1>10. CASE ExitProcess
  <2> DEFINE gone == PidTasks(tasks, tasks[current].pid)
  <2>1. task_total' \in Nat
    BY <1>10, CountTypes, Zenon DEF ExitProcess
  <2>2. Removed(tasks, gone) \in [Slots -> Task]
    BY TableOps, Zenon
  <2>3. LeaveTo(Removed(tasks, gone)) /\ UNCHANGED want
    BY <1>10, Zenon DEF ExitProcess
  <2> HIDE DEF gone
  <2> QED
    BY <2>1, <2>2, <2>3, LeaveToTypes, Zenon
<1>11. CASE RemovePid
  BY <1>11, CountTypes, TableOps, Zenon DEF RemovePid, EndRun
<1>12. CASE Tick
  <2> DEFINE ts == ExpireDeadlines(tasks)
             next == NextTask(ts, current)
             sv == SaveFrame(ts, current, cpu.fs, cpu.rax, cpu.rewound)
  <2>1. current \in Slots
    BY <1>12, Zenon DEF Tick, InUser
  <2>2. ts \in [Slots -> Task] /\ next \in Slots
    BY <2>1, TableOps, NextTaskIs, Zenon
  <2>3. \/ tasks' = ts /\ UNCHANGED <<current, cpu>>
        \/ Resume(SaveLate(sv, current), next)
    BY <1>12, Zenon DEF Tick
  <2>4. UNCHANGED <<task_total, idling, masked, want>>
    BY <1>12, Zenon DEF Tick
  <2>5. sv \in [Slots -> Task]
    <3> HIDE DEF ts
    <3> QED
      BY <2>1, <2>2, SwitchTypes, Zenon DEF Cpu
  <2> HIDE DEF ts, next, sv
  <2>6. SaveLate(sv, current) \in [Slots -> Task]
    BY <2>1, <2>5, SwitchTypes, Zenon
  <2>7. Loaded(SaveLate(sv, current), next) \in Cpu
    BY <2>2, <2>6, SwitchTypes, Zenon
  <2> QED
    BY <2>1, <2>2, <2>3, <2>4, <2>6, <2>7, Zenon DEF Resume
<1>13. CASE IdleTick
  <2> DEFINE ts == ExpireDeadlines(tasks)
             next == FirstRunnable(ts)
             sv == IF ts[current].used THEN SaveLate(ts, current) ELSE ts
  <2>1. current \in Slots
    BY <1>13, Zenon DEF IdleTick, IdleSlot
  <2>2. ts \in [Slots -> Task]
    BY TableOps, Zenon
  <2>3. next # NoTask => next \in Slots
    BY FirstRunnableIs, Zenon DEF Runnable
  <2>4. UNCHANGED <<task_total, want>>
    BY <1>13, Zenon DEF IdleTick
  <2>5. \/ next # NoTask /\ Resume(sv, next) /\ idling' = FALSE /\ UNCHANGED masked
        \/ tasks' = ts /\ UNCHANGED <<current, cpu, idling, masked>>
        \/ /\ idling' = FALSE /\ UNCHANGED masked
           /\ ReturnToCaller(Unpark(ts, current))
        \/ /\ idling' = FALSE /\ tasks' = ts /\ current' = NoTask
           /\ masked' = TRUE /\ UNCHANGED cpu
    BY <1>13, Zenon DEF IdleTick
  <2>6. SaveLate(ts, current) \in [Slots -> Task] /\ Unpark(ts, current) \in [Slots -> Task]
    <3> HIDE DEF ts
    <3> QED
      BY <2>1, <2>2, SwitchTypes, Zenon
  <2> HIDE DEF ts, next
  <2>7. sv \in [Slots -> Task]
    BY <2>2, <2>6, Zenon
  <2> HIDE DEF sv
  <2>8. next # NoTask => Loaded(sv, next) \in Cpu
    BY <2>3, <2>7, SwitchTypes, Zenon
  <2> QED
    BY <1>a, <2>1, <2>2, <2>3, <2>4, <2>5, <2>6, <2>7, <2>8, Zenon
       DEF Resume, ReturnToCaller
<1>14. CASE Block
  BY <1>4, <1>14, BlockIs, Zenon
<1>15. ASSUME NEW fs \in Ctx, InUser, Clone(fs) PROVE TypeOK'
  <2>1. tasks[current] \in Task
    BY <1>15, Zenon DEF InUser
  <2> QED
    BY <1>3, <1>15, <2>1, Zenon DEF Clone, Task
<1>16. ASSUME NEW pid \in Pids, NEW space \in Ctx, Fork(pid, space)
       PROVE  TypeOK'
  BY <1>3, <1>16, Zenon DEF Fork, Cpu
<1> QED
  BY <1>0, <1>1, <1>2, <1>5, <1>6, <1>7, <1>8, <1>9, <1>10, <1>11,
     <1>12, <1>13, <1>14, <1>15, <1>16, Zenon DEF Next, Run

-----------------------------------------------------------------------------
(* What runs is runnable, and what idles has a future.                     *)

\* Who is runnable, and as which process, is all that is at stake.
Same(ts, us) == /\ Runnable(ts) = Runnable(us)
                /\ \A i \in Slots : ts[i].pid = us[i].pid

Scheduled == IdleSlot /\ CurrentRunnable /\ IdleHasFuture

\* Saving registers changes neither.
LEMMA SavesKeep ==
  ASSUME NEW ts \in [Slots -> Task], NEW c \in Slots
  PROVE  /\ Same(SaveLate(ts, c), ts)
         /\ \A fs, rax, rewound : Same(SaveFrame(ts, c, fs, rax, rewound), ts)
<1>1. ASSUME NEW i \in Slots
      PROVE  /\ SaveLate(ts, c)[i].used = ts[i].used
             /\ SaveLate(ts, c)[i].blocked = ts[i].blocked
             /\ SaveLate(ts, c)[i].pid = ts[i].pid
  BY Zenon DEF SaveLate, Task
<1>2. ASSUME NEW i \in Slots, NEW fs, NEW rax, NEW rewound
      PROVE  /\ SaveFrame(ts, c, fs, rax, rewound)[i].used = ts[i].used
             /\ SaveFrame(ts, c, fs, rax, rewound)[i].blocked = ts[i].blocked
             /\ SaveFrame(ts, c, fs, rax, rewound)[i].pid = ts[i].pid
  BY ZenonT(30) DEF SaveFrame, Task
<1> QED
  BY <1>1, <1>2 DEF Same, Runnable

\* A switch to a runnable slot establishes the invariant.
LEMMA ResumeSchedules ==
  ASSUME NEW ts \in [Slots -> Task], NEW n \in Runnable(ts), Resume(ts, n),
         idling' = FALSE
  PROVE  Scheduled'
BY Zenon DEF Scheduled, IdleSlot, CurrentRunnable, IdleHasFuture, Resume, Loaded,
       Runnable, InUser

\* A call that leaves its caller runnable, and returns to it, keeps it.
LEMMA ReturnSchedules ==
  ASSUME TypeOK, InUser, CurrentRunnable, NEW ts, ReturnToCaller(ts),
         UNCHANGED idling, current \in Runnable(ts),
         ts[current].pid = tasks[current].pid
  PROVE  Scheduled'
BY Zenon DEF Scheduled, IdleSlot, CurrentRunnable, IdleHasFuture, ReturnToCaller,
       Runnable, InUser, TypeOK, Cpu

\* No wake touches a task that is not parked.
LEMMA WakesKeepRunnable ==
  ASSUME NEW ts \in [Slots -> Task], NEW i \in Runnable(ts)
  PROVE  /\ \A key, max, bits, pid :
               WakeFutex(ts, key, max, bits, pid)[i] = ts[i]
         /\ \A pid : WakePid(ts, pid)[i] = ts[i]
         /\ \A tid : WakeTid(ts, tid)[i] = ts[i]
         /\ ExpireDeadlines(ts)[i] = ts[i]
<1>1. ASSUME NEW key, NEW max, NEW bits, NEW pid
      PROVE  WakeFutex(ts, key, max, bits, pid)[i] = ts[i]
  <2>1. i \notin Woken(ts, key, max, bits, pid)
    BY Zenon DEF Woken, Waiters, Runnable
  <2> QED
    BY <2>1, Zenon DEF WakeFutex, ReleaseCond, Runnable
<1>2. ASSUME NEW pid PROVE WakePid(ts, pid)[i] = ts[i]
  BY Zenon DEF WakePid, Runnable
<1>3. ASSUME NEW tid PROVE WakeTid(ts, tid)[i] = ts[i]
  BY Zenon DEF WakeTid, Runnable
<1>4. ExpireDeadlines(ts)[i] = ts[i]
  BY Zenon DEF ExpireDeadlines, ExpireOne, Runnable
<1> QED
  BY <1>1, <1>2, <1>3, <1>4, Zenon

\* After a tick a wait with a deadline still has one, or is over.
LEMMA ExpiryProgresses ==
  ASSUME NEW ts \in [Slots -> Task], AnyDeadline(ts)
  PROVE  \/ Runnable(ExpireDeadlines(ts)) # {}
         \/ AnyDeadline(ExpireDeadlines(ts))
<1>1. PICK i \in Slots : ts[i].used /\ ts[i].blocked /\ ts[i].deadline > 0
  BY Zenon DEF AnyDeadline
<1>2. ExpireDeadlines(ts)[i] = ExpireOne(ts[i])
  BY Zenon DEF ExpireDeadlines
<1>3. ts[i] \in Task /\ ts[i].deadline \in Nat
  BY SleepAssumption DEF Task
<1>4. CASE ts[i].deadline > 1
  <2>1. ExpireOne(ts[i]) = [ts[i] EXCEPT !.deadline = ts[i].deadline - 1]
    BY <1>1, <1>4, Zenon DEF ExpireOne
  <2>2. /\ ExpireOne(ts[i]).used /\ ExpireOne(ts[i]).blocked
        /\ ExpireOne(ts[i]).deadline > 0
    BY <1>1, <1>3, <1>4, <2>1 DEF Task
  <2> QED
    BY <1>2, <2>2, Zenon DEF AnyDeadline
<1>5. CASE ~(ts[i].deadline > 1)
  <2>1. ExpireOne(ts[i]).used /\ ~ExpireOne(ts[i]).blocked
    BY <1>1, <1>3, <1>5, Zenon DEF ExpireOne, Task
  <2> QED
    BY <1>2, <2>1, Zenon DEF Runnable
<1> QED
  BY <1>4, <1>5, Zenon

\* An exit leaves for a runnable slot, for an idle loop that will end, or
\* ends the run.
LEMMA LeaveSchedules ==
  ASSUME InUser, TypeOK, NEW ts \in [Slots -> Task], LeaveTo(ts)
  PROVE  Scheduled'
<1>1. CASE FirstRunnable(ts) # NoTask
  <2>1. FirstRunnable(ts) \in Runnable(ts)
    BY <1>1, FirstRunnableIs, Zenon
  <2>2. Resume(ts, FirstRunnable(ts)) /\ idling' = FALSE
    BY <1>1, Zenon DEF LeaveTo, InUser, TypeOK
  <2> QED
    BY <2>1, <2>2, ResumeSchedules, Zenon
<1>2. CASE FirstRunnable(ts) = NoTask
  <2>1. Runnable(ts) = {}
    BY <1>2, FirstRunnableIs, Zenon
  <2>2. CASE ~masked /\ AnyDeadline(ts)
    <3>1. tasks' = ts /\ idling' = TRUE /\ UNCHANGED <<current, masked>>
      BY <1>2, <2>2, Zenon DEF LeaveTo
    <3> QED
      BY <2>1, <2>2, <3>1, Zenon DEF Scheduled, IdleSlot, CurrentRunnable,
         IdleHasFuture, InUser, TypeOK, AnyDeadline, Runnable
  <2>3. CASE ~(~masked /\ AnyDeadline(ts))
    <3>1. EndRun(ts)
      BY <1>2, <2>3, Zenon DEF LeaveTo
    <3> QED
      BY <3>1, Zenon DEF EndRun, Scheduled, IdleSlot, CurrentRunnable, IdleHasFuture,
         InUser, TypeOK
  <2> QED
    BY <2>2, <2>3, Zenon
<1> QED
  BY <1>1, <1>2, Zenon

LEMMA ScheduledStep == TypeOK /\ Scheduled /\ [Next]_vars => Scheduled'
<1> SUFFICES ASSUME TypeOK, Scheduled, [Next]_vars PROVE Scheduled'
  BY Zenon
<1>a. /\ InUser => current \in Runnable(tasks) /\ current \in Slots
      /\ tasks \in [Slots -> Task]
  BY Zenon DEF Scheduled, CurrentRunnable, TypeOK, Runnable
<1>b. ASSUME current = NoTask, current' = NoTask, UNCHANGED idling
      PROVE  Scheduled'
  BY <1>b, SlotsNat, Zenon DEF Scheduled, IdleSlot, CurrentRunnable, IdleHasFuture, InUser
<1>0. CASE UNCHANGED vars
  BY <1>0, Zenon DEF vars, Scheduled, IdleSlot, CurrentRunnable, IdleHasFuture, InUser,
     Runnable, AnyDeadline
<1>1. CASE SchedInit
  BY <1>1, <1>b, Zenon DEF SchedInit
<1>2. ASSUME NEW pid \in Pids, NEW space \in Ctx, StartRun(pid, space)
      PROVE  Scheduled'
  <2> DEFINE i == FreeSlot(tasks)
             t == NewTask(tasks[i], pid, cpu.fs, space)
  <2>1. i \in Slots /\ tasks[i] \in Task
    BY <1>2, <1>a, FreeSlotIs, Zenon DEF StartRun
  <2>2. t.used /\ ~t.blocked /\ t.pid = pid
    BY <2>1, Zenon DEF NewTask, Task
  <2>3. /\ tasks' = [tasks EXCEPT ![i] = t] /\ current' = i
        /\ cpu'.pid = pid /\ idling' = FALSE
    BY <1>2, SlotsNat, Zenon DEF StartRun, TypeOK, Cpu, Scheduled, IdleSlot
  <2> HIDE DEF t, i
  <2> QED
    BY <1>a, <2>1, <2>2, <2>3, Zenon DEF Scheduled, IdleSlot, CurrentRunnable, IdleHasFuture,
       InUser, Runnable
<1>3. ASSUME NEW pid, NEW fs, NEW space, InUser, AddFrame(pid, fs, space)
      PROVE  Scheduled'
  <2>1. PICK ts : /\ ReturnToCaller(ts) /\ ts[current] = tasks[current]
    <3>1. CASE FreeSlot(tasks) = NoTask
      BY <1>3, <3>1, Zenon DEF AddFrame
    <3>2. CASE FreeSlot(tasks) # NoTask
      <4>1. FreeSlot(tasks) # current
        BY <1>3, <1>a, <3>2, FreeSlotIs, Zenon DEF Live, Runnable
      <4> DEFINE us == [tasks EXCEPT ![FreeSlot(tasks)] =
                          NewTask(tasks[FreeSlot(tasks)], pid, fs, space)]
      <4>2. ReturnToCaller(us)
        BY <1>3, <3>2, Zenon DEF AddFrame
      <4>3. us[current] = tasks[current]
        BY <1>3, <1>a, <4>1, Zenon
      <4> QED
        BY <4>2, <4>3, Zenon
    <3> QED
      BY <3>1, <3>2, Zenon
  <2>2. current \in Runnable(ts) /\ UNCHANGED idling
    BY <1>3, <1>a, <2>1, Zenon DEF Runnable, AddFrame
  <2> QED
    BY <1>3, <2>1, <2>2, ReturnSchedules, Zenon DEF Scheduled
<1>4. ASSUME NEW kind \in WaitKinds, NEW key \in Keys, NEW d \in 0 .. MaxSleep,
             NEW bits \in SUBSET Bits, BlockUntilEx(kind, key, d, bits)
      PROVE  Scheduled'
  <2> DEFINE ts == Parked(kind, key, d, bits)
             next == NextTask(ts, current)
  <2>1. InUser /\ current \in Runnable(tasks) /\ current \in Slots
    BY <1>4, <1>a, Zenon DEF BlockUntilEx
  <2>2. ts \in [Slots -> Task]
    BY <2>1, ParkedType, Zenon DEF TypeOK
  <2>3. ts[current].blocked /\ ts[current].used /\ ts[current].pid = tasks[current].pid
    BY <2>1, <1>a DEF Parked, Task, Runnable
  <2>4. next \in Slots /\ (~ts[next].blocked => next \in Runnable(ts))
                      /\ (ts[next].blocked => Runnable(ts) = {})
    <3> HIDE DEF ts
    <3> QED
      BY <2>1, <2>3, NextTaskIs, Zenon DEF Runnable
  <2>5. \/ ~ts[next].blocked /\ Resume(SaveLate(ts, current), next) /\ UNCHANGED idling
        \/ ReturnToCaller(Unpark(ts, current)) /\ UNCHANGED idling
        \/ /\ ts[next].blocked /\ ~masked /\ AnyDeadline(ts)
           /\ tasks' = ts /\ idling' = TRUE /\ UNCHANGED <<current, masked>>
    BY <1>4, Zenon DEF BlockUntilEx
  <2> HIDE DEF ts, next
  <2>6. CASE ~ts[next].blocked /\ Resume(SaveLate(ts, current), next) /\ UNCHANGED idling
    <3>1. SaveLate(ts, current) \in [Slots -> Task]
      BY <2>1, <2>2, SwitchTypes, Zenon
    <3>2. next \in Runnable(SaveLate(ts, current))
      BY <2>1, <2>2, <2>4, <2>6, SavesKeep, Zenon DEF Same
    <3> QED
      BY <2>1, <2>6, <3>1, <3>2, ResumeSchedules, Zenon DEF InUser, TypeOK
  <2>7. CASE ReturnToCaller(Unpark(ts, current)) /\ UNCHANGED idling
    <3>1. /\ current \in Runnable(Unpark(ts, current))
          /\ Unpark(ts, current)[current].pid = tasks[current].pid
      BY <2>1, <2>2, <2>3, ZenonT(30) DEF Unpark, Runnable, Task
    <3> QED
      BY <2>1, <2>7, <3>1, ReturnSchedules, Zenon DEF Scheduled
  <2>8. CASE /\ ts[next].blocked /\ ~masked /\ AnyDeadline(ts)
             /\ tasks' = ts /\ idling' = TRUE /\ UNCHANGED <<current, masked>>
    BY <2>1, <2>4, <2>8, Zenon DEF Scheduled, IdleSlot, CurrentRunnable, IdleHasFuture,
       InUser, Runnable, AnyDeadline
  <2> QED
    BY <2>5, <2>6, <2>7, <2>8, Zenon
<1>5. ASSUME NEW kind \in WaitKinds, YieldCurrent(kind) PROVE Scheduled'
  <2> DEFINE f    == WaitFrame(kind, FALSE)
             ts   == SaveFrame(tasks, current, cpu.fs, f.rax, f.rewound)
             next == NextTask(ts, current)
  <2>1. InUser /\ current \in Runnable(tasks) /\ current \in Slots /\ idling' = FALSE
    BY <1>5, <1>a, Zenon DEF YieldCurrent, InUser, TypeOK
  <2>2. f.rax \in RaxValues /\ f.rewound \in Nat /\ cpu.fs \in Ctx
    BY Zenon DEF WaitFrame, RaxValues, Cpu, TypeOK
  <2>3. ts \in [Slots -> Task]
    BY <1>a, <2>1, <2>2, SwitchTypes, Zenon
  <2>4. Same(ts, tasks)
    BY <1>a, <2>1, SavesKeep, Zenon
  <2>5. \/ /\ tasks' = ts /\ current' = current
           /\ cpu' = [cpu EXCEPT !.rax = f.rax, !.rewound = f.rewound]
        \/ Resume(SaveLate(ts, current), next)
    BY <1>5, Zenon DEF YieldCurrent
  <2> HIDE DEF ts, f
  <2>6. next \in Runnable(ts)
    BY <2>1, <2>4, NextTaskIs, Zenon DEF Same
  <2> HIDE DEF next
  <2>7. CASE /\ tasks' = ts /\ current' = current
             /\ cpu' = [cpu EXCEPT !.rax = f.rax, !.rewound = f.rewound]
    BY <2>1, <2>4, <2>7, Zenon DEF Same, Scheduled, IdleSlot, CurrentRunnable,
       IdleHasFuture, InUser, Runnable, TypeOK, Cpu
  <2>8. CASE Resume(SaveLate(ts, current), next)
    <3>1. SaveLate(ts, current) \in [Slots -> Task]
      BY <2>1, <2>3, SwitchTypes, Zenon
    <3>2. next \in Runnable(SaveLate(ts, current))
      BY <2>1, <2>3, <2>6, SavesKeep, Zenon DEF Same
    <3> QED
      BY <2>1, <2>8, <3>1, <3>2, ResumeSchedules, Zenon
  <2> QED
    BY <2>5, <2>7, <2>8, Zenon
<1>6. CASE Wakes
  <2>1. InUser /\ UNCHANGED idling
    BY <1>6, Zenon DEF Wakes, Wake, SignalPid, SignalTid
  <2>2. PICK ts : ReturnToCaller(ts) /\ ts[current] = tasks[current]
    BY <1>6, <1>a, <2>1, WakesKeepRunnable DEF Wakes, Wake, SignalPid, SignalTid
  <2>3. current \in Runnable(ts)
    BY <1>a, <2>1, <2>2, Zenon DEF Runnable
  <2> QED
    BY <2>1, <2>2, <2>3, ReturnSchedules, Zenon DEF Scheduled
<1>7. ASSUME NEW fs, NEW gs, NEW fpu, UserRuns(fs, gs, fpu) PROVE Scheduled'
  BY <1>7, Zenon DEF UserRuns, Scheduled, IdleSlot, CurrentRunnable, IdleHasFuture,
     InUser, Runnable, TypeOK, Cpu
<1>8. ASSUME NEW space, SetCurrentSpace(space) PROVE Scheduled'
  <2>1. /\ tasks'[current].used = tasks[current].used
        /\ tasks'[current].blocked = tasks[current].blocked
        /\ tasks'[current].pid = tasks[current].pid /\ cpu'.pid = cpu.pid
    BY <1>8, <1>a, ZenonT(30) DEF SetCurrentSpace, Task, TypeOK, Cpu
  <2> QED
    BY <1>8, <1>a, <2>1, Zenon DEF SetCurrentSpace, Scheduled, IdleSlot, CurrentRunnable,
       IdleHasFuture, InUser, Runnable
<1>9. CASE ExitCurrent
  BY <1>9, <1>a, TableOps, LeaveSchedules, Zenon DEF ExitCurrent
<1>10. CASE ExitProcess
  BY <1>10, <1>a, TableOps, LeaveSchedules, Zenon DEF ExitProcess
<1>11. CASE RemovePid
  BY <1>11, Zenon DEF RemovePid, EndRun, Scheduled, IdleSlot, CurrentRunnable,
     IdleHasFuture, InUser
<1>12. CASE Tick
  <2> DEFINE ts == ExpireDeadlines(tasks)
             next == NextTask(ts, current)
             sv == SaveFrame(ts, current, cpu.fs, cpu.rax, cpu.rewound)
  <2>1. InUser /\ current \in Runnable(tasks) /\ current \in Slots /\ idling' = FALSE
    BY <1>12, <1>a, Zenon DEF Tick, InUser, TypeOK
  <2>2. ts \in [Slots -> Task] /\ ts[current] = tasks[current]
    BY <1>a, <2>1, TableOps, WakesKeepRunnable, Zenon
  <2>3. current \in Runnable(ts) /\ next \in Runnable(ts)
    <3>1. current \in Runnable(ts)
      BY <2>1, <2>2, Zenon DEF Runnable
    <3> QED
      BY <2>1, <3>1, NextTaskIs, Zenon
  <2>4. \/ tasks' = ts /\ UNCHANGED <<current, cpu>>
        \/ Resume(SaveLate(sv, current), next)
    BY <1>12, Zenon DEF Tick
  <2> HIDE DEF ts, next
  <2>5. sv \in [Slots -> Task] /\ SaveLate(sv, current) \in [Slots -> Task]
    BY <2>1, <2>2, SwitchTypes, Zenon DEF TypeOK, Cpu
  <2>6. next \in Runnable(SaveLate(sv, current))
    <3>1. Same(sv, ts)
      BY <2>1, <2>2, SavesKeep, Zenon
    <3> HIDE DEF sv
    <3> QED
      BY <2>1, <2>3, <2>5, <3>1, SavesKeep, Zenon DEF Same
  <2> HIDE DEF sv
  <2>7. CASE tasks' = ts /\ UNCHANGED <<current, cpu>>
    BY <2>1, <2>2, <2>3, <2>7, Zenon DEF Scheduled, IdleSlot, CurrentRunnable,
       IdleHasFuture, InUser, Runnable
  <2> QED
    BY <2>1, <2>4, <2>5, <2>6, <2>7, ResumeSchedules, Zenon
<1>13. CASE IdleTick
  <2> DEFINE ts == ExpireDeadlines(tasks)
             next == FirstRunnable(ts)
             sv == IF ts[current].used THEN SaveLate(ts, current) ELSE ts
  <2>1. current \in Slots /\ AnyDeadline(tasks) /\ ~masked /\ idling
    BY <1>13, Zenon DEF IdleTick, Scheduled, IdleSlot, IdleHasFuture
  <2>2. ts \in [Slots -> Task]
    BY <1>a, TableOps, Zenon
  <2>3. CASE next # NoTask
    <3>1. next \in Runnable(ts)
      BY <2>3, FirstRunnableIs, Zenon
    <3>2. Resume(sv, next) /\ idling' = FALSE
      BY <1>13, <2>3, Zenon DEF IdleTick
    <3> HIDE DEF ts, next
    <3>3. sv \in [Slots -> Task]
      BY <2>1, <2>2, SwitchTypes, Zenon
    <3>4. Runnable(sv) = Runnable(ts)
      BY <2>1, <2>2, SavesKeep, Zenon DEF Same
    <3> HIDE DEF sv
    <3> QED
      BY <3>1, <3>2, <3>3, <3>4, ResumeSchedules, Zenon
  <2>4. CASE next = NoTask
    <3>1. Runnable(ts) = {}
      BY <2>4, FirstRunnableIs, Zenon
    <3>2. AnyDeadline(ts)
      BY <1>a, <2>1, <3>1, ExpiryProgresses, Zenon
    <3>3. tasks' = ts /\ UNCHANGED <<current, idling, masked>>
      BY <1>13, <2>4, <3>2, Zenon DEF IdleTick
    <3> HIDE DEF ts, next
    <3> QED
      BY <2>1, <3>1, <3>2, <3>3, Zenon DEF Scheduled, IdleSlot, CurrentRunnable,
         IdleHasFuture, InUser, Runnable, AnyDeadline
  <2> QED
    BY <2>3, <2>4, Zenon
<1>14. CASE Block
  BY <1>4, <1>14, BlockIs, Zenon
<1> QED
  BY <1>0, <1>1, <1>2, <1>3, <1>5, <1>6, <1>7, <1>8, <1>9, <1>10, <1>11,
     <1>12, <1>13, <1>14, Zenon DEF Next, Run, Clone, Fork

\* The inductive invariant of the scheduler.
LEMMA SchedulerInvariant == Spec => [](TypeOK /\ Scheduled)
<1>1. Init => TypeOK /\ Scheduled
  <2> SUFFICES ASSUME Init PROVE TypeOK /\ Scheduled
    BY Zenon
  <2>1. EmptyTask \in Task
    BY SleepAssumption, CtxAssumption, SMTT(30) DEF EmptyTask, Task, RaxValues
  <2>2. TypeOK
    BY <2>1, CtxAssumption, Zenon DEF Init, TypeOK, Cpu, Context, Context0, RaxValues
  <2>3. Scheduled
    BY Zenon DEF Init, Scheduled, IdleSlot, CurrentRunnable, IdleHasFuture, InUser
  <2> QED
    BY <2>2, <2>3, Zenon
<1>2. TypeOK /\ Scheduled /\ [Next]_vars => (TypeOK /\ Scheduled)'
  BY TypeStep, ScheduledStep, Zenon DEF Scheduled
<1> QED
  BY <1>1, <1>2, PTL DEF Spec

\* Variables have their types, for any number of tasks.
THEOREM TypeCorrect == Spec => []TypeOK
BY SchedulerInvariant, PTL

\* No block, yield, exit, tick or idle loop of sched64.c ever resumes a thread
\* that still waits, or one under another process's identity.
THEOREM RunsOnlyRunnable == Spec => []CurrentRunnable
<1>1. Scheduled => CurrentRunnable
  BY Zenon DEF Scheduled
<1> QED
  BY <1>1, SchedulerInvariant, PTL

\* idle_until_runnable is never entered, and never goes on, without a deadline
\* that will end it: its give-up return is not reached.
THEOREM IdleLoopEnds == Spec => []IdleHasFuture
<1>1. Scheduled => IdleHasFuture
  BY Zenon DEF Scheduled
<1> QED
  BY <1>1, SchedulerInvariant, PTL

-----------------------------------------------------------------------------
(* The task count.                                                         *)

\* Saving, parking, waking and expiring leave the same slots in use; a removal
\* takes exactly its slots out.
LEMMA LiveKept ==
  ASSUME NEW ts \in [Slots -> Task], NEW c \in Slots
  PROVE  /\ Live(SaveLate(ts, c)) = Live(ts)
         /\ Live(Unpark(ts, c)) = Live(ts)
         /\ \A fs, rax, rewound : Live(SaveFrame(ts, c, fs, rax, rewound)) = Live(ts)
         /\ Live(ExpireDeadlines(ts)) = Live(ts)
         /\ \A key, max, bits, pid :
               Live(WakeFutex(ts, key, max, bits, pid)) = Live(ts)
         /\ \A pid : Live(WakePid(ts, pid)) = Live(ts)
         /\ \A tid : Live(WakeTid(ts, tid)) = Live(ts)
         /\ \A gone : Live(Removed(ts, gone)) = Live(ts) \ gone
<1>a. \A i \in Slots : ts[i] \in Task
  BY Zenon
<1>1. Live(SaveLate(ts, c)) = Live(ts)
  BY ZenonT(30) DEF Live, SaveLate, Task
<1>2. Live(Unpark(ts, c)) = Live(ts)
  BY ZenonT(30) DEF Live, Unpark, Task
<1>3. ASSUME NEW fs, NEW rax, NEW rewound
      PROVE  Live(SaveFrame(ts, c, fs, rax, rewound)) = Live(ts)
  BY Zenon DEF Live, SaveFrame, Task
<1>4. Live(ExpireDeadlines(ts)) = Live(ts)
  <2>1. \A i \in Slots : ExpireOne(ts[i]).used = ts[i].used
    BY <1>a, Zenon DEF ExpireOne, Task
  <2> QED
    BY <2>1, Zenon DEF Live, ExpireDeadlines
<1>b. ASSUME NEW t \in Task
      PROVE  /\ Release(t) \in Task /\ Release(t).used = t.used
             /\ WokenBySignal(t).used = t.used
  <2>1. Release(t).used = t.used
    BY Zenon DEF Release, Task
  <2>2. WokenBySignal(t).used = t.used
    BY <2>1, Zenon DEF WokenBySignal, Task
  <2> QED
    BY <2>1, <2>2, TaskOps, Zenon
<1>c. ASSUME NEW t \in Task PROVE ReleaseCond(t).used = t.used
  BY Zenon DEF ReleaseCond, Release, Task
<1>5. ASSUME NEW key, NEW max, NEW bits, NEW pid
      PROVE  Live(WakeFutex(ts, key, max, bits, pid)) = Live(ts)
  <2>1. ASSUME NEW i \in Slots
        PROVE  WakeFutex(ts, key, max, bits, pid)[i].used = ts[i].used
    BY <1>a, <1>b, <1>c, Zenon DEF WakeFutex
  <2> QED
    BY <2>1, Zenon DEF Live
<1>6. ASSUME NEW pid PROVE Live(WakePid(ts, pid)) = Live(ts)
  BY <1>b, Zenon DEF Live, WakePid
<1>7. ASSUME NEW tid PROVE Live(WakeTid(ts, tid)) = Live(ts)
  BY <1>b, Zenon DEF Live, WakeTid
<1>8. ASSUME NEW gone PROVE Live(Removed(ts, gone)) = Live(ts) \ gone
  BY <1>a, Zenon DEF Live, Removed, Task
<1> QED
  BY <1>1, <1>2, <1>3, <1>4, <1>5, <1>6, <1>7, <1>8, Zenon

\* The slots in use can be counted.
LEMMA LiveFinite ==
  ASSUME NEW ts
  PROVE  IsFiniteSet(Live(ts)) /\ Cardinality(Live(ts)) \in Nat
<1>1. IsFiniteSet(Slots)
  BY FS_Interval, MaxTasksAssumption DEF Slots
<1>2. Live(ts) \subseteq Slots
  BY Zenon DEF Live
<1> QED
  BY <1>1, <1>2, FS_Subset, FS_CardinalityType, Zenon

\* Taking a set of live slots out lowers the count by its size.
LEMMA CountWithout ==
  ASSUME NEW ts \in [Slots -> Task], NEW gone \in SUBSET Live(ts)
  PROVE  Cardinality(Live(Removed(ts, gone)))
           = Without(Cardinality(gone), Cardinality(Live(ts)))
<1>1. PICK c : c \in Slots
  BY MaxTasksAssumption DEF Slots
<1>2. Live(Removed(ts, gone)) = Live(ts) \ gone
  BY <1>1, LiveKept, ZenonT(30)
<1>3. /\ Cardinality(Live(ts) \ gone)
           = Cardinality(Live(ts)) - Cardinality(Live(ts) \cap gone)
      /\ Live(ts) \cap gone = gone
  BY LiveFinite, FS_Difference, Zenon
<1>4. /\ Cardinality(gone) \in Nat /\ Cardinality(gone) <= Cardinality(Live(ts))
  BY LiveFinite, FS_Subset, FS_CardinalityType, Zenon
<1> QED
  BY <1>2, <1>3, <1>4, LiveFinite DEF Without

\* A free slot that is taken raises it by one.
LEMMA CountWith ==
  ASSUME TypeOK, NEW i \in Slots \ Live(tasks), NEW pid, NEW fs, NEW space
  PROVE  Cardinality(Live([tasks EXCEPT ![i] = NewTask(tasks[i], pid, fs, space)]))
           = Cardinality(Live(tasks)) + 1
<1> DEFINE ts == [tasks EXCEPT ![i] = NewTask(tasks[i], pid, fs, space)]
<1>1. NewTask(tasks[i], pid, fs, space).used
  BY ZenonT(30) DEF TypeOK, NewTask, Task
<1>2. Live(ts) = Live(tasks) \cup {i}
  BY <1>1, Zenon DEF TypeOK, Live
<1> QED
  BY <1>2, LiveFinite, FS_AddElement, Zenon

\* The count is exact after every step that starts with an exact one.
LEMMA TotalStep == TypeOK /\ Scheduled /\ TotalExact /\ [Next]_vars => TotalExact'
<1> SUFFICES ASSUME TypeOK, Scheduled, TotalExact, [Next]_vars PROVE TotalExact'
  BY Zenon
<1>a. tasks \in [Slots -> Task] /\ task_total \in Nat
      /\ (InUser => current \in Slots /\ current \in Live(tasks))
  BY Zenon DEF TypeOK, Scheduled, CurrentRunnable, Runnable, Live
<1>b. ASSUME UNCHANGED task_total, Live(tasks') = Live(tasks) PROVE TotalExact'
  BY <1>b, Zenon DEF TotalExact
<1>0. CASE UNCHANGED vars
  BY <1>0, <1>b, Zenon DEF vars
<1>1. CASE SchedInit
  <2>1. Live(tasks') = {}
    BY <1>1, <1>a, Zenon DEF SchedInit, Live, Task
  <2> QED
    BY <1>1, <2>1, FS_EmptySet, Zenon DEF SchedInit, TotalExact
<1>2. ASSUME NEW pid, NEW space, StartRun(pid, space) PROVE TotalExact'
  BY <1>2, FreeSlotIs, CountWith, Zenon DEF StartRun, TotalExact
<1>3. ASSUME NEW pid, NEW fs, NEW space, AddFrame(pid, fs, space)
      PROVE  TotalExact'
  <2>1. CASE FreeSlot(tasks) = NoTask
    BY <1>3, <2>1, <1>b, Zenon DEF AddFrame, ReturnToCaller
  <2>2. CASE FreeSlot(tasks) # NoTask
    BY <1>3, <2>2, FreeSlotIs, CountWith DEF AddFrame, ReturnToCaller, TotalExact
  <2> QED
    BY <2>1, <2>2, Zenon
<1>4. ASSUME NEW kind \in WaitKinds, NEW key \in Keys, NEW d \in 0 .. MaxSleep,
             NEW bits \in SUBSET Bits, BlockUntilEx(kind, key, d, bits)
      PROVE  TotalExact'
  <2> DEFINE ts == Parked(kind, key, d, bits)
  <2>1. current \in Slots
    BY <1>4, <1>a, Zenon DEF BlockUntilEx
  <2>2. ts \in [Slots -> Task]
    BY <2>1, ParkedType, Zenon
  <2>3. Live(ts) = Live(tasks)
    BY <1>a, <2>1 DEF Parked, Live, Task
  <2>4. tasks' \in {SaveLate(ts, current), Unpark(ts, current), ts}
        /\ UNCHANGED task_total
    BY <1>4, Zenon DEF BlockUntilEx, Resume, ReturnToCaller
  <2> HIDE DEF ts
  <2> QED
    BY <1>b, <2>1, <2>2, <2>3, <2>4, LiveKept
<1>5. ASSUME NEW kind, YieldCurrent(kind) PROVE TotalExact'
  <2> DEFINE f  == WaitFrame(kind, FALSE)
             ts == SaveFrame(tasks, current, cpu.fs, f.rax, f.rewound)
  <2>1. current \in Slots /\ kind \in WaitKinds
    BY <1>5, <1>a, Zenon DEF YieldCurrent, WaitKinds
  <2>2. f.rax \in RaxValues /\ f.rewound \in Nat /\ cpu.fs \in Ctx
    BY Zenon DEF WaitFrame, RaxValues, Cpu, TypeOK
  <2>3. ts \in [Slots -> Task] /\ Live(ts) = Live(tasks)
    <3> HIDE DEF f
    <3>1. ts \in [Slots -> Task]
      BY <1>a, <2>1, <2>2, SwitchTypes, Zenon
    <3> QED
      BY <1>a, <2>1, <3>1, LiveKept
  <2>4. tasks' \in {SaveLate(ts, current), ts} /\ UNCHANGED task_total
    BY <1>5, Zenon DEF YieldCurrent, Resume
  <2> HIDE DEF ts
  <2> QED
    BY <1>b, <2>1, <2>3, <2>4, LiveKept
<1>6. CASE Wakes
  <2>1. current \in Slots /\ UNCHANGED task_total
    BY <1>6, <1>a, Zenon DEF Wakes, Wake, SignalPid, SignalTid
  <2>2. Live(tasks') = Live(tasks)
    BY <1>6, <1>a, <2>1, LiveKept
       DEF Wakes, Wake, SignalPid, SignalTid, ReturnToCaller
  <2> QED
    BY <1>b, <2>1, <2>2, Zenon
<1>7. ASSUME NEW fs, NEW gs, NEW fpu, UserRuns(fs, gs, fpu) PROVE TotalExact'
  BY <1>7, <1>b, Zenon DEF UserRuns
<1>8. ASSUME NEW space, SetCurrentSpace(space) PROVE TotalExact'
  <2>1. Live(tasks') = Live(tasks)
    BY <1>8, <1>a, Zenon DEF SetCurrentSpace, Live, Task
  <2> QED
    BY <1>8, <1>b, <2>1, Zenon DEF SetCurrentSpace
<1>c. ASSUME NEW ts, LeaveTo(ts) PROVE tasks' = ts
  BY <1>c, Zenon DEF LeaveTo, Resume, EndRun
<1>9. CASE ExitCurrent
  <2>1. {current} \in SUBSET Live(tasks) /\ Cardinality({current}) = 1
    BY <1>9, <1>a, FS_Singleton, Zenon DEF ExitCurrent
  <2>2. tasks' = Removed(tasks, {current}) /\ task_total' = Without(1, task_total)
    BY <1>9, <1>a, <1>c DEF ExitCurrent, Without
  <2> QED
    BY <1>a, <2>1, <2>2, CountWithout, Zenon DEF TotalExact
<1>10. CASE ExitProcess \/ RemovePid
  <2> DEFINE gone == PidTasks(tasks, tasks[current].pid)
  <2>1. gone \in SUBSET Live(tasks)
    BY Zenon DEF PidTasks
  <2>2. /\ tasks' = Removed(tasks, gone)
        /\ task_total' = Without(Cardinality(gone), task_total)
    BY <1>10, <1>c, Zenon DEF ExitProcess, RemovePid, EndRun
  <2> HIDE DEF gone
  <2> QED
    BY <1>a, <2>1, <2>2, CountWithout, Zenon DEF TotalExact
<1>12. CASE Tick
  <2> DEFINE ts == ExpireDeadlines(tasks)
             sv == SaveFrame(ts, current, cpu.fs, cpu.rax, cpu.rewound)
  <2>1. current \in Slots
    BY <1>12, <1>a, Zenon DEF Tick
  <2>2. ts \in [Slots -> Task] /\ Live(ts) = Live(tasks)
    BY <1>a, <2>1, TableOps, LiveKept, Zenon
  <2>3. tasks' \in {ts, SaveLate(sv, current)} /\ UNCHANGED task_total
    BY <1>12, Zenon DEF Tick, Resume
  <2> HIDE DEF ts
  <2>4. sv \in [Slots -> Task] /\ Live(sv) = Live(ts)
    <3>1. sv \in [Slots -> Task]
      BY <2>1, <2>2, SwitchTypes, Zenon DEF TypeOK, Cpu
    <3> QED
      BY <2>1, <2>2, <3>1, LiveKept
  <2> HIDE DEF sv
  <2> QED
    BY <1>b, <2>1, <2>2, <2>3, <2>4, LiveKept
<1>13. CASE IdleTick
  <2> DEFINE ts == ExpireDeadlines(tasks)
  <2>1. current \in Slots
    BY <1>13, Zenon DEF IdleTick, Scheduled, IdleSlot
  <2>2. ts \in [Slots -> Task] /\ Live(ts) = Live(tasks)
    BY <1>a, <2>1, TableOps, LiveKept, Zenon
  <2>3. /\ tasks' \in {ts, SaveLate(ts, current), Unpark(ts, current)}
        /\ UNCHANGED task_total
    BY <1>13, Zenon DEF IdleTick, Resume, ReturnToCaller
  <2> HIDE DEF ts
  <2> QED
    BY <1>b, <2>1, <2>2, <2>3, LiveKept
<1>14. CASE Block
  BY <1>4, <1>14, BlockIs, Zenon
<1> QED
  BY <1>0, <1>1, <1>2, <1>3, <1>5, <1>6, <1>7, <1>8, <1>9, <1>10,
     <1>12, <1>13, <1>14, Zenon DEF Next, Run, Clone, Fork

\* sched64_tick's early return on task_total never skips a switch that is due,
\* nor looks for one that cannot be: the counter kept by hand through clone,
\* fork, exit, exit_group and the end of a run is the number of live tasks.
THEOREM CountsEveryTask == Spec => []TotalExact
<1>1. Init => TotalExact
  <2>1. ASSUME Init PROVE Live(tasks) = {}
    BY <2>1, Zenon DEF Init, Live, EmptyTask
  <2> QED
    BY <2>1, FS_EmptySet, Zenon DEF Init, TotalExact
<1> QED
  BY <1>1, TotalStep, SchedulerInvariant, PTL DEF Spec

-----------------------------------------------------------------------------
(* Frames that fit the way a wait ended.                                   *)

\* A parked task is ready for each of the ways its wait may end, any other
\* live one has a frame that agrees with itself.
Fits(t) ==
  t.used => IF t.blocked
            THEN /\ GoodFrame(t.rewound, t.wake_rax)
                 /\ GoodFrame(t.rewound, t.timeout_rax)
                 /\ t.signal_restart => t.rewound = 0
            ELSE GoodFrame(t.rewound, t.rax)

\* The running task's frame is the processor's; its slot is written when it
\* leaves ring 3.
Frames == /\ \A i \in Slots \ {current} : Fits(tasks[i])
          /\ idling => Fits(tasks[current])
          /\ InUser => GoodFrame(cpu.rewound, cpu.rax)

\* The inductive form says what the two invariants say.
LEMMA FramesMean ==
  ASSUME TypeOK, Scheduled, Frames
  PROVE  FrameConsistent /\ ParkedFrames
<1>1. FrameConsistent
  BY Zenon DEF Frames, Fits, FrameConsistent, Runnable
<1>2. ASSUME NEW i \in Live(tasks), tasks[i].blocked PROVE Fits(tasks[i]) /\ tasks[i].used
  <2>1. i \in Slots /\ tasks[i].used
    BY Zenon DEF Live
  <2>2. CASE i # current
    BY <2>1, <2>2, Zenon DEF Frames
  <2>3. CASE i = current
    <3>1. idling
      BY <1>2, <2>1, <2>3, SlotsNat, Zenon DEF Scheduled, CurrentRunnable, Runnable,
         InUser, NoTask
    <3> QED
      BY <2>1, <2>3, <3>1, Zenon DEF Frames
  <2> QED
    BY <2>2, <2>3, Zenon
<1>3. ParkedFrames
  BY <1>2, Zenon DEF ParkedFrames, Fits
<1> QED
  BY <1>1, <1>3, Zenon

\* Every way a wait ends leaves a frame that fits.
LEMMA FitsOps ==
  ASSUME NEW t \in Task, Fits(t)
  PROVE  /\ Fits(ExpireOne(t))
         /\ t.used /\ t.blocked => Fits(Release(t))
         /\ Fits(ReleaseCond(t))
         /\ t.used /\ t.blocked => Fits(WokenBySignal(t))
         /\ Fits([t EXCEPT !.used = FALSE])
<1>1. Fits(ExpireOne(t))
  <2>1. CASE ~(t.used /\ t.blocked /\ t.deadline > 0)
    BY <2>1, Zenon DEF ExpireOne
  <2>2. CASE t.used /\ t.blocked /\ t.deadline > 1
    <3> DEFINE u == [t EXCEPT !.deadline = t.deadline - 1]
    <3>1. /\ u.used = t.used /\ u.blocked = t.blocked /\ u.rewound = t.rewound
          /\ u.wake_rax = t.wake_rax /\ u.timeout_rax = t.timeout_rax
          /\ u.signal_restart = t.signal_restart
      BY Zenon DEF Task
    <3>2. ExpireOne(t) = u
      BY <2>2, SleepAssumption DEF ExpireOne, Task
    <3> HIDE DEF u
    <3> QED
      BY <2>2, <3>1, <3>2, Zenon DEF Fits
  <2>3. CASE t.used /\ t.blocked /\ t.deadline > 0 /\ ~(t.deadline > 1)
    <3>1. /\ ExpireOne(t).used /\ ~ExpireOne(t).blocked
          /\ ExpireOne(t).rax = t.timeout_rax /\ ExpireOne(t).rewound = t.rewound
      BY <2>3, Zenon DEF ExpireOne, Task
    <3> QED
      BY <2>3, <3>1, Zenon DEF Fits
  <2> QED
    BY <2>1, <2>2, <2>3, Zenon
<1>2. ASSUME t.used, t.blocked PROVE Fits(Release(t))
  <2>1. /\ Release(t).used /\ ~Release(t).blocked
        /\ Release(t).rax = t.wake_rax /\ Release(t).rewound = t.rewound
    BY <1>2, Zenon DEF Release, Task
  <2> QED
    BY <1>2, <2>1, Zenon DEF Fits
<1>3. Fits(ReleaseCond(t))
  <2>1. CASE t.used /\ t.blocked /\ t.wait_addr = CondKey
    <3>1. /\ ReleaseCond(t).used /\ ~ReleaseCond(t).blocked
          /\ ReleaseCond(t).rax = t.wake_rax /\ ReleaseCond(t).rewound = t.rewound
      BY <2>1, Zenon DEF ReleaseCond, Release, Task
    <3> QED
      BY <2>1, <3>1, Zenon DEF Fits
  <2>2. CASE ~(t.used /\ t.blocked /\ t.wait_addr = CondKey)
    BY <2>2, Zenon DEF ReleaseCond
  <2> QED
    BY <2>1, <2>2, Zenon
<1>4. ASSUME t.used, t.blocked PROVE Fits(WokenBySignal(t))
  <2>1. CASE t.signal_restart
    <3>1. /\ WokenBySignal(t).used /\ ~WokenBySignal(t).blocked
          /\ WokenBySignal(t).rax = "nr"
          /\ WokenBySignal(t).rewound = t.rewound + 1
      BY <1>4, <2>1, Zenon DEF WokenBySignal, Task
    <3>2. t.rewound = 0
      BY <1>4, <2>1, Zenon DEF Fits
    <3> QED
      BY <3>1, <3>2 DEF Fits, GoodFrame
  <2>2. CASE ~t.signal_restart
    BY <1>2, <1>4, <2>2, Zenon DEF WokenBySignal
  <2> QED
    BY <2>1, <2>2, Zenon
<1>5. Fits([t EXCEPT !.used = FALSE])
  BY Zenon DEF Fits, Task
<1> QED
  BY <1>1, <1>2, <1>3, <1>4, <1>5, Zenon

\* And so does every wake, tick or exit, slot by slot.
LEMMA FitsTable ==
  ASSUME NEW ts \in [Slots -> Task], NEW i \in Slots, Fits(ts[i])
  PROVE  /\ Fits(ExpireDeadlines(ts)[i])
         /\ \A key, max, bits, pid : Fits(WakeFutex(ts, key, max, bits, pid)[i])
         /\ \A pid : Fits(WakePid(ts, pid)[i])
         /\ \A tid : Fits(WakeTid(ts, tid)[i])
         /\ \A gone : Fits(Removed(ts, gone)[i])
<1>1. Fits(ExpireDeadlines(ts)[i])
  BY FitsOps, Zenon DEF ExpireDeadlines
<1>2. ASSUME NEW key, NEW max, NEW bits, NEW pid
      PROVE  Fits(WakeFutex(ts, key, max, bits, pid)[i])
  <2> DEFINE t == IF i \in Woken(ts, key, max, bits, pid) THEN Release(ts[i]) ELSE ts[i]
  <2>1. i \in Woken(ts, key, max, bits, pid) => ts[i].used /\ ts[i].blocked
    BY Zenon DEF Woken, Waiters
  <2>2. t \in Task /\ Fits(t)
    BY <2>1, FitsOps, TaskOps, Zenon
  <2>3. WakeFutex(ts, key, max, bits, pid)[i] = ReleaseCond(t)
    BY Zenon DEF WakeFutex
  <2> HIDE DEF t
  <2> QED
    BY <2>2, <2>3, FitsOps, Zenon
<1>3. ASSUME NEW pid PROVE Fits(WakePid(ts, pid)[i])
  BY FitsOps, Zenon DEF WakePid
<1>4. ASSUME NEW tid PROVE Fits(WakeTid(ts, tid)[i])
  BY FitsOps, Zenon DEF WakeTid
<1>5. ASSUME NEW gone PROVE Fits(Removed(ts, gone)[i])
  BY FitsOps, Zenon DEF Removed
<1> QED
  BY <1>1, <1>2, <1>3, <1>4, <1>5, Zenon

\* Saving registers leaves the frame of every slot, and a frame that agrees
\* with itself may be saved into a slot that runs.
LEMMA FitsSaved ==
  ASSUME NEW ts \in [Slots -> Task], NEW c \in Slots, NEW i \in Slots
  PROVE  /\ Fits(ts[i]) => Fits(SaveLate(ts, c)[i])
         /\ i # c => Unpark(ts, c)[i] = ts[i]
         /\ \A fs, rax, rewound :
              /\ i # c => SaveFrame(ts, c, fs, rax, rewound)[i] = ts[i]
              /\ (~ts[c].blocked /\ GoodFrame(rewound, rax))
                   => Fits(SaveFrame(ts, c, fs, rax, rewound)[c])
<1>1. ASSUME Fits(ts[i]) PROVE Fits(SaveLate(ts, c)[i])
  <2>1. LET u == SaveLate(ts, c)[i] IN
          /\ u.used = ts[i].used /\ u.blocked = ts[i].blocked
          /\ u.rewound = ts[i].rewound /\ u.rax = ts[i].rax
          /\ u.wake_rax = ts[i].wake_rax /\ u.timeout_rax = ts[i].timeout_rax
          /\ u.signal_restart = ts[i].signal_restart
    BY DEF SaveLate, Task
  <2> QED
    BY <1>1, <2>1, Zenon DEF Fits
<1>2. i # c => Unpark(ts, c)[i] = ts[i]
  BY Zenon DEF Unpark
<1>3. ASSUME NEW fs, NEW rax, NEW rewound
      PROVE  /\ i # c => SaveFrame(ts, c, fs, rax, rewound)[i] = ts[i]
             /\ (~ts[c].blocked /\ GoodFrame(rewound, rax))
                   => Fits(SaveFrame(ts, c, fs, rax, rewound)[c])
  <2>1. i # c => SaveFrame(ts, c, fs, rax, rewound)[i] = ts[i]
    BY Zenon DEF SaveFrame
  <2>2. LET u == SaveFrame(ts, c, fs, rax, rewound)[c] IN
          u.blocked = ts[c].blocked /\ u.rewound = rewound /\ u.rax = rax
    BY ZenonT(30) DEF SaveFrame, Task
  <2> QED
    BY <2>1, <2>2, Zenon DEF Fits
<1> QED
  BY <1>1, <1>2, <1>3, Zenon

\* A switch to a runnable slot of a table of frames that fit.
LEMMA ResumeFits ==
  ASSUME NEW ts \in [Slots -> Task], NEW n \in Runnable(ts), Resume(ts, n),
         idling' = FALSE, \A i \in Slots : Fits(ts[i])
  PROVE  Frames'
<1>1. GoodFrame(ts[n].rewound, ts[n].rax)
  BY Zenon DEF Runnable, Fits
<1>2. cpu'.rewound = ts[n].rewound /\ cpu'.rax = ts[n].rax /\ tasks' = ts
  BY Zenon DEF Resume, Loaded
<1> QED
  BY <1>1, <1>2, Zenon DEF Frames, InUser

\* A return to the caller, whose own slot does not matter.
LEMMA ReturnFits ==
  ASSUME TypeOK, InUser, NEW ts, ReturnToCaller(ts), UNCHANGED idling,
         \A i \in Slots \ {current} : Fits(ts[i])
  PROVE  Frames'
<1>1. cpu'.rewound = 0 /\ cpu'.rax = "user"
  BY Zenon DEF ReturnToCaller, TypeOK, Cpu
<1> QED
  BY <1>1, Zenon DEF Frames, InUser, ReturnToCaller, GoodFrame, TypeOK

LEMMA FramesStep == TypeOK /\ Scheduled /\ Frames /\ [Next]_vars => Frames'
<1> SUFFICES ASSUME TypeOK, Scheduled, Frames, [Next]_vars PROVE Frames'
  BY Zenon
<1>a. /\ tasks \in [Slots -> Task] /\ cpu \in Cpu
      /\ InUser => /\ current \in Runnable(tasks) /\ current \in Slots
                   /\ ~tasks[current].blocked /\ idling = FALSE
  BY Zenon DEF TypeOK, Scheduled, CurrentRunnable, Runnable, InUser
<1>b. current = NoTask => idling = FALSE /\ \A i \in Slots : i # current
  BY SlotsNat, Zenon DEF Scheduled, IdleSlot, TypeOK, NoTask
<1>c. \A i \in Slots : i # current => Fits(tasks[i])
  BY Zenon DEF Frames
<1>0. CASE UNCHANGED vars
  BY <1>0, Zenon DEF vars, Frames, InUser
<1>1. CASE SchedInit
  <2>1. ASSUME NEW i \in Slots PROVE Fits(tasks'[i])
    BY <1>1, <1>a, <1>b, <1>c, FitsOps, Zenon DEF SchedInit
  <2> QED
    BY <1>1, <1>b, <2>1, Zenon DEF SchedInit, Frames, InUser
<1>d. ASSUME NEW i \in Slots, NEW pid, NEW fs, NEW space
      PROVE  Fits(NewTask(tasks[i], pid, fs, space))
  <2>1. LET t == NewTask(tasks[i], pid, fs, space) IN
          ~t.blocked /\ t.rewound = 0 /\ t.rax = "ok"
    BY <1>a DEF NewTask, Task
  <2> QED
    BY <2>1, Zenon DEF Fits, GoodFrame
<1>2. ASSUME NEW pid, NEW space, StartRun(pid, space) PROVE Frames'
  <2> DEFINE n == FreeSlot(tasks)
             ts == [tasks EXCEPT ![n] = NewTask(tasks[n], pid, cpu.fs, space)]
  <2>1. n \in Slots /\ tasks' = ts /\ current' = n /\ UNCHANGED idling /\ current = NoTask
    BY <1>2, FreeSlotIs, Zenon DEF StartRun
  <2>2. cpu'.rewound = 0 /\ cpu'.rax = "user"
    BY <1>2, <1>a, Zenon DEF StartRun, Cpu
  <2>3. ASSUME NEW i \in Slots PROVE Fits(ts[i])
    BY <1>a, <1>b, <1>c, <1>d, <2>1, Zenon
  <2> HIDE DEF n, ts
  <2> QED
    BY <1>b, <2>1, <2>2, <2>3, Zenon DEF Frames, InUser, GoodFrame
<1>3. ASSUME NEW pid, NEW fs, NEW space, InUser, AddFrame(pid, fs, space)
      PROVE  Frames'
  <2> DEFINE n == FreeSlot(tasks)
             ts == [tasks EXCEPT ![n] = NewTask(tasks[n], pid, fs, space)]
  <2>1. CASE n = NoTask
    BY <1>3, <2>1, <1>c, ReturnFits, Zenon DEF AddFrame
  <2>2. CASE n # NoTask
    <3>1. n \in Slots /\ ReturnToCaller(ts) /\ UNCHANGED idling
      BY <1>3, <2>2, FreeSlotIs, Zenon DEF AddFrame
    <3>2. ASSUME NEW i \in Slots \ {current} PROVE Fits(ts[i])
      BY <1>a, <1>c, <1>d, <3>1, Zenon
    <3> HIDE DEF n, ts
    <3> QED
      BY <1>3, <3>1, <3>2, ReturnFits, Zenon
  <2> QED
    BY <2>1, <2>2, Zenon
<1>4. ASSUME NEW kind \in WaitKinds, NEW key \in Keys, NEW d \in 0 .. MaxSleep,
             NEW bits \in SUBSET Bits, BlockUntilEx(kind, key, d, bits)
      PROVE  Frames'
  <2> DEFINE ts == Parked(kind, key, d, bits)
             next == NextTask(ts, current)
             f == WaitFrame(kind, d > 0)
  <2>1. InUser /\ current \in Slots /\ idling = FALSE
    BY <1>4, <1>a, Zenon DEF BlockUntilEx
  <2>2. ts \in [Slots -> Task]
    BY <2>1, ParkedType, Zenon
  <2>3. Fits(ts[current])
    <3>1. /\ GoodFrame(f.rewound, f.wake) /\ GoodFrame(f.rewound, f.timeout)
          /\ f.restart => f.rewound = 0
      BY Zenon DEF WaitFrame, GoodFrame, WaitKinds
    <3>2. /\ ts[current].blocked /\ ts[current].wake_rax = f.wake
          /\ ts[current].timeout_rax = f.timeout /\ ts[current].rewound = f.rewound
          /\ ts[current].signal_restart = f.restart
      <4>1. tasks[current] \in Task
        BY <1>a, <2>1, Zenon
      <4> HIDE DEF f
      <4>2. ts[current] = [tasks[current] EXCEPT
               !.fs = cpu.fs, !.rax = f.rax, !.rewound = f.rewound,
               !.blocked = TRUE, !.wait_addr = key, !.wake_rax = f.wake,
               !.timeout_rax = f.timeout, !.wait_bits = bits,
               !.deadline = d, !.signal_restart = f.restart]
        BY <1>a, <2>1, Zenon DEF Parked, f
      <4> HIDE DEF ts
      <4> QED
        BY <4>1, <4>2, ZenonT(30) DEF Task
    <3> HIDE DEF ts, f
    <3> QED
      BY <3>1, <3>2, Zenon DEF Fits
  <2>4. ASSUME NEW i \in Slots PROVE Fits(ts[i])
    <3>1. i # current => ts[i] = tasks[i]
      BY <1>a, <2>1, Zenon DEF Parked
    <3> HIDE DEF ts
    <3> QED
      BY <1>c, <2>3, <3>1, Zenon
  <2>5. next \in Slots /\ (~ts[next].blocked => next \in Runnable(ts))
    <3>1. ts[current].used
      BY <1>a, <2>1, ZenonT(30) DEF Parked, Task, Runnable
    <3> HIDE DEF ts
    <3> QED
      BY <2>1, <3>1, NextTaskIs, Zenon DEF Runnable
  <2>6. \/ ~ts[next].blocked /\ Resume(SaveLate(ts, current), next) /\ UNCHANGED idling
        \/ ReturnToCaller(Unpark(ts, current)) /\ UNCHANGED idling
        \/ tasks' = ts /\ idling' = TRUE /\ UNCHANGED <<current, cpu>>
    BY <1>4, Zenon DEF BlockUntilEx
  <2> HIDE DEF ts, next
  <2>7. CASE ~ts[next].blocked /\ Resume(SaveLate(ts, current), next) /\ UNCHANGED idling
    <3>1. SaveLate(ts, current) \in [Slots -> Task]
      BY <2>1, <2>2, SwitchTypes, Zenon
    <3>2. next \in Runnable(SaveLate(ts, current))
      BY <2>1, <2>2, <2>5, <2>7, SavesKeep, Zenon DEF Same
    <3>3. \A i \in Slots : Fits(SaveLate(ts, current)[i])
      BY <2>1, <2>2, <2>4, FitsSaved, Zenon
    <3> QED
      BY <2>1, <2>7, <3>1, <3>2, <3>3, ResumeFits, Zenon
  <2>8. CASE ReturnToCaller(Unpark(ts, current)) /\ UNCHANGED idling
    <3>1. \A i \in Slots \ {current} : Fits(Unpark(ts, current)[i])
      BY <2>1, <2>2, <2>4, FitsSaved, Zenon
    <3> QED
      BY <2>1, <2>8, <3>1, ReturnFits, Zenon
  <2>9. CASE tasks' = ts /\ idling' = TRUE /\ UNCHANGED <<current, cpu>>
    BY <2>1, <2>4, <2>9, Zenon DEF Frames, InUser
  <2> QED
    BY <2>6, <2>7, <2>8, <2>9, Zenon
<1>5. ASSUME NEW kind, YieldCurrent(kind) PROVE Frames'
  <2> DEFINE f    == WaitFrame(kind, FALSE)
             ts   == SaveFrame(tasks, current, cpu.fs, f.rax, f.rewound)
             next == NextTask(ts, current)
  <2>1. /\ InUser /\ current \in Runnable(tasks) /\ current \in Slots
        /\ idling' = FALSE /\ kind \in WaitKinds
    BY <1>5, <1>a, Zenon DEF YieldCurrent, WaitKinds
  <2>2. /\ f.rax \in RaxValues /\ f.rewound \in Nat /\ cpu.fs \in Ctx
        /\ GoodFrame(f.rewound, f.rax)
    BY <1>a, Zenon DEF WaitFrame, RaxValues, Cpu, GoodFrame
  <2>3. \/ /\ tasks' = ts /\ current' = current
           /\ cpu' = [cpu EXCEPT !.rax = f.rax, !.rewound = f.rewound]
        \/ Resume(SaveLate(ts, current), next)
    BY <1>5, Zenon DEF YieldCurrent
  <2> HIDE DEF f
  <2>4. ts \in [Slots -> Task]
    BY <1>a, <2>1, <2>2, SwitchTypes, Zenon
  <2>5. ASSUME NEW i \in Slots PROVE Fits(ts[i])
    BY <1>a, <1>c, <2>1, <2>2, FitsSaved, SMTT(30)
  <2>6. Runnable(ts) = Runnable(tasks)
    BY <1>a, <2>1, SavesKeep DEF Same
  <2> HIDE DEF ts
  <2>7. next \in Runnable(ts)
    BY <2>1, <2>6, NextTaskIs, Zenon
  <2> HIDE DEF next
  <2>8. CASE /\ tasks' = ts /\ current' = current
             /\ cpu' = [cpu EXCEPT !.rax = f.rax, !.rewound = f.rewound]
    <3>1. cpu'.rax = f.rax /\ cpu'.rewound = f.rewound
      BY <1>a, <2>8, Zenon DEF Cpu
    <3> QED
      BY <2>1, <2>2, <2>5, <2>8, <3>1, Zenon DEF Frames, InUser
  <2>9. CASE Resume(SaveLate(ts, current), next)
    <3>1. SaveLate(ts, current) \in [Slots -> Task]
      BY <2>1, <2>4, SwitchTypes, Zenon
    <3>2. next \in Runnable(SaveLate(ts, current))
      BY <2>1, <2>4, <2>7, SavesKeep, Zenon DEF Same
    <3>3. \A i \in Slots : Fits(SaveLate(ts, current)[i])
      BY <2>1, <2>4, <2>5, FitsSaved, Zenon
    <3> QED
      BY <2>1, <2>9, <3>1, <3>2, <3>3, ResumeFits, Zenon
  <2> QED
    BY <2>3, <2>8, <2>9, Zenon
<1>6. CASE Wakes
  <2>1. InUser /\ UNCHANGED idling
    BY <1>6, Zenon DEF Wakes, Wake, SignalPid, SignalTid
  <2>2. PICK ts : ReturnToCaller(ts) /\ \A i \in Slots \ {current} : Fits(ts[i])
    BY <1>6, <1>a, <1>c, FitsTable, SMTT(30) DEF Wakes, Wake, SignalPid, SignalTid
  <2> QED
    BY <2>1, <2>2, ReturnFits, Zenon
<1>7. ASSUME NEW fs, NEW gs, NEW fpu, UserRuns(fs, gs, fpu) PROVE Frames'
  <2>1. cpu'.rewound = 0 /\ cpu'.rax = "user"
    BY <1>7, <1>a, Zenon DEF UserRuns, Cpu
  <2> QED
    BY <1>7, <2>1, Zenon DEF UserRuns, Frames, InUser, GoodFrame
<1>8. ASSUME NEW space, SetCurrentSpace(space) PROVE Frames'
  <2>1. cpu'.rewound = 0 /\ cpu'.rax = "user"
    BY <1>8, <1>a, Zenon DEF SetCurrentSpace, Cpu
  <2>2. \A i \in Slots \ {current} : tasks'[i] = tasks[i]
    BY <1>8, <1>a, Zenon DEF SetCurrentSpace
  <2> QED
    BY <1>8, <2>1, <2>2, Zenon DEF SetCurrentSpace, Frames, InUser, GoodFrame
<1>e. ASSUME NEW gone, current \in gone, InUser
      PROVE  \A i \in Slots : Fits(Removed(tasks, gone)[i])
  <2>1. ASSUME NEW i \in Slots, i # current PROVE Fits(Removed(tasks, gone)[i])
    BY <1>a, <1>c, <2>1, FitsTable, Zenon
  <2>2. Fits(Removed(tasks, gone)[current])
    BY <1>a, <1>e, Zenon DEF Removed, Fits, Task
  <2> QED
    BY <2>1, <2>2, Zenon
<1>f. ASSUME NEW gone, current \in gone, InUser, LeaveTo(Removed(tasks, gone))
      PROVE  Frames'
  <2> DEFINE ts == Removed(tasks, gone)
  <2>1. ts \in [Slots -> Task] /\ \A i \in Slots : Fits(ts[i])
    BY <1>a, <1>e, <1>f, TableOps, Zenon
  <2>2. LeaveTo(ts) /\ current \in Slots /\ idling = FALSE
    BY <1>a, <1>f, Zenon
  <2> HIDE DEF ts
  <2>3. CASE FirstRunnable(ts) # NoTask
    <3>1. Resume(ts, FirstRunnable(ts)) /\ idling' = FALSE
      BY <2>2, <2>3, Zenon DEF LeaveTo
    <3> QED
      BY <2>1, <2>3, <3>1, FirstRunnableIs, ResumeFits, Zenon
  <2>4. CASE FirstRunnable(ts) = NoTask
    <3>1. \/ tasks' = ts /\ idling' = TRUE /\ UNCHANGED current
          \/ tasks' = ts /\ current' = NoTask /\ idling' = FALSE
      BY <2>2, <2>4, Zenon DEF LeaveTo, EndRun
    <3> QED
      BY <2>1, <2>2, <3>1, Zenon DEF Frames, InUser
  <2> QED
    BY <2>3, <2>4, Zenon
<1>g. InUser => current \in PidTasks(tasks, tasks[current].pid)
  BY <1>a, Zenon DEF PidTasks, Live, Runnable
<1>9. CASE ExitCurrent
  BY <1>9, <1>f, Zenon DEF ExitCurrent
<1>10. CASE ExitProcess
  BY <1>10, <1>f, <1>g, Zenon DEF ExitProcess
<1>11. CASE RemovePid
  <2>1. InUser /\ EndRun(Removed(tasks, PidTasks(tasks, tasks[current].pid)))
    BY <1>11, Zenon DEF RemovePid
  <2>2. \A i \in Slots : Fits(tasks'[i])
    BY <1>e, <1>g, <2>1, Zenon DEF EndRun
  <2> QED
    BY <1>a, <2>1, <2>2, Zenon DEF EndRun, Frames, InUser
<1>12. CASE Tick
  <2> DEFINE ts == ExpireDeadlines(tasks)
             next == NextTask(ts, current)
             sv == SaveFrame(ts, current, cpu.fs, cpu.rax, cpu.rewound)
  <2>1. InUser /\ current \in Runnable(tasks) /\ current \in Slots /\ idling' = FALSE
    BY <1>12, <1>a, Zenon DEF Tick
  <2>2. ts \in [Slots -> Task] /\ ts[current] = tasks[current]
    BY <1>a, <2>1, TableOps, WakesKeepRunnable, Zenon
  <2>3. current \in Runnable(ts)
    BY <2>1, <2>2, Zenon DEF Runnable
  <2>4. \A i \in Slots \ {current} : Fits(ts[i])
    BY <1>a, <1>c, FitsTable, Zenon
  <2>5. \/ tasks' = ts /\ UNCHANGED <<current, cpu>>
        \/ Resume(SaveLate(sv, current), next)
    BY <1>12, Zenon DEF Tick
  <2> HIDE DEF ts
  <2>6. next \in Runnable(ts)
    BY <2>1, <2>3, NextTaskIs, Zenon
  <2> HIDE DEF next
  <2>7. CASE tasks' = ts /\ UNCHANGED <<current, cpu>>
    BY <2>1, <2>4, <2>7, Zenon DEF Frames, InUser
  <2>8. CASE Resume(SaveLate(sv, current), next)
    <3>1. sv \in [Slots -> Task]
      BY <1>a, <2>1, <2>2, SwitchTypes, Zenon DEF Cpu
    <3>2. GoodFrame(cpu.rewound, cpu.rax) /\ ~ts[current].blocked
      BY <1>a, <2>1, <2>2, Zenon DEF Frames
    <3>3. \A i \in Slots : Fits(sv[i])
      BY <2>1, <2>2, <2>4, <3>2, FitsSaved, SMTT(30)
    <3>4. Same(sv, ts)
      BY <2>1, <2>2, SavesKeep, Zenon
    <3> HIDE DEF sv
    <3>5. SaveLate(sv, current) \in [Slots -> Task]
      BY <2>1, <3>1, SwitchTypes, Zenon
    <3>6. next \in Runnable(SaveLate(sv, current))
      BY <2>1, <2>6, <3>1, <3>4, SavesKeep, Zenon DEF Same
    <3>7. \A i \in Slots : Fits(SaveLate(sv, current)[i])
      BY <2>1, <3>1, <3>3, FitsSaved, Zenon
    <3> QED
      BY <2>1, <2>8, <3>5, <3>6, <3>7, ResumeFits, Zenon
  <2> QED
    BY <2>5, <2>7, <2>8, Zenon
<1>13. CASE IdleTick
  <2> DEFINE ts == ExpireDeadlines(tasks)
             next == FirstRunnable(ts)
             sv == IF ts[current].used THEN SaveLate(ts, current) ELSE ts
  <2>1. current \in Slots /\ idling
    BY <1>13, Zenon DEF IdleTick, Scheduled, IdleSlot
  <2>2. ts \in [Slots -> Task] /\ \A i \in Slots : Fits(ts[i])
    BY <1>a, <1>c, <2>1, TableOps, FitsTable, Zenon DEF Frames
  <2>3. CASE next # NoTask
    <3>1. next \in Runnable(ts)
      BY <2>3, FirstRunnableIs, Zenon
    <3>2. Resume(sv, next) /\ idling' = FALSE
      BY <1>13, <2>3, Zenon DEF IdleTick
    <3> HIDE DEF ts, next
    <3>3. sv \in [Slots -> Task]
      BY <2>1, <2>2, SwitchTypes, Zenon
    <3>4. Runnable(sv) = Runnable(ts)
      BY <2>1, <2>2, SavesKeep, Zenon DEF Same
    <3>5. \A i \in Slots : Fits(sv[i])
      BY <2>1, <2>2, FitsSaved, Zenon
    <3> HIDE DEF sv
    <3> QED
      BY <3>1, <3>2, <3>3, <3>4, <3>5, ResumeFits, Zenon
  <2>4. CASE next = NoTask
    <3>1. AnyDeadline(ts)
      BY <1>a, <2>1, <2>4, FirstRunnableIs, ExpiryProgresses, Zenon DEF Scheduled, IdleHasFuture
    <3>2. tasks' = ts /\ UNCHANGED <<current, idling>>
      BY <1>13, <2>4, <3>1, Zenon DEF IdleTick
    <3> HIDE DEF ts
    <3> QED
      BY <2>1, <2>2, <3>2, Zenon DEF Frames, InUser
  <2> QED
    BY <2>3, <2>4, Zenon
<1>14. CASE Block
  BY <1>4, <1>14, BlockIs, Zenon
<1> QED
  BY <1>0, <1>1, <1>2, <1>3, <1>5, <1>6, <1>7, <1>8, <1>9, <1>10, <1>11,
     <1>12, <1>13, <1>14, ZenonT(30) DEF Next, Run, Clone, Fork

\* Whichever way its wait ended - by a wake, by the clock, by a signal to the
\* process or to the thread, refused - a thread resumes after its syscall with
\* an answer, or on it with the number, never half of each.
THEOREM FramesAgree == Spec => []FrameConsistent
<1>1. Init => Frames
  BY SMTT(30) DEF Init, Frames, Fits, EmptyTask, InUser
<1>2. TypeOK /\ Scheduled /\ Frames => FrameConsistent
  BY FramesMean, Zenon
<1> QED
  BY <1>1, <1>2, FramesStep, SchedulerInvariant, PTL DEF Spec

-----------------------------------------------------------------------------
(* Each thread finds its own registers.                                    *)

\* A task, or the processor, holds the registers w.
Saved(t, w) == t.fs = w.fs /\ t.gs = w.gs /\ t.fpu = w.fpu /\ t.space = w.space

\* Between leaving ring 3 and the switch, FS and the space are in the slot and
\* GS and the FPU file still in the processor.
Half(ts) ==
  \A i \in Slots : ts[i].used =>
    IF i = current
    THEN /\ ts[i].fs = want[i].fs /\ ts[i].space = want[i].space
         /\ cpu.gs = want[i].gs /\ cpu.fpu = want[i].fpu
    ELSE Saved(ts[i], want[i])

Contexts ==
  IF idling THEN Half(tasks)
  ELSE \A i \in Slots : tasks[i].used =>
         /\ tasks[i].space = want[i].space
         /\ IF i = current THEN Saved(cpu, want[i]) ELSE Saved(tasks[i], want[i])

\* The inductive form says what the invariant says.
LEMMA ContextsMean == ASSUME TypeOK PROVE Contexts <=> ContextKept
<1>1. ASSUME NEW i \in Slots
      PROVE  /\ want[i] = [fs |-> want[i].fs, gs |-> want[i].gs, fpu |-> want[i].fpu,
                           space |-> want[i].space]
             /\ idling \in BOOLEAN
  BY Zenon DEF TypeOK, Context
<1>2. ASSUME NEW i \in Slots, idling
      PROVE  (Holds(i) = want[i] /\ tasks[i].space = want[i].space)
               <=> IF i = current
                   THEN /\ tasks[i].fs = want[i].fs /\ tasks[i].space = want[i].space
                        /\ cpu.gs = want[i].gs /\ cpu.fpu = want[i].fpu
                   ELSE Saved(tasks[i], want[i])
  BY <1>1, <1>2, SMTT(30) DEF Holds, Saved
<1>3. ASSUME NEW i \in Slots, ~idling
      PROVE  (Holds(i) = want[i] /\ tasks[i].space = want[i].space)
               <=> /\ tasks[i].space = want[i].space
                   /\ IF i = current THEN Saved(cpu, want[i]) ELSE Saved(tasks[i], want[i])
  BY <1>1, <1>3, SMTT(30) DEF Holds, Saved
<1>4. CASE idling
  BY <1>2, <1>4, Zenon DEF Contexts, Half, ContextKept, Live
<1>5. CASE ~idling
  BY <1>3, <1>5, Zenon DEF Contexts, ContextKept, Live
<1> QED
  BY <1>4, <1>5, Zenon

\* The operations on the table that touch no register and bring no slot into
\* use.
Tamer(ts, us) ==
  \A i \in Slots : /\ ts[i].used => us[i].used
                   /\ ts[i].fs = us[i].fs /\ ts[i].gs = us[i].gs
                   /\ ts[i].fpu = us[i].fpu /\ ts[i].space = us[i].space

LEMMA TableTamer ==
  ASSUME NEW ts \in [Slots -> Task], NEW c \in Slots
  PROVE  /\ Tamer(ExpireDeadlines(ts), ts)
         /\ \A key, max, bits, pid : Tamer(WakeFutex(ts, key, max, bits, pid), ts)
         /\ \A pid : Tamer(WakePid(ts, pid), ts)
         /\ \A tid : Tamer(WakeTid(ts, tid), ts)
         /\ \A gone : Tamer(Removed(ts, gone), ts)
         /\ Tamer(Unpark(ts, c), ts)
<1> DEFINE Alike(t, u) == /\ t.used => u.used
                          /\ t.fs = u.fs /\ t.gs = u.gs
                          /\ t.fpu = u.fpu /\ t.space = u.space
<1>1. ASSUME NEW t \in Task
      PROVE  /\ Alike(ExpireOne(t), t)
             /\ Alike(Release(t), t)
             /\ Alike(ReleaseCond(t), t)
             /\ Alike(WokenBySignal(t), t)
             /\ Alike([t EXCEPT !.used = FALSE], t)
  <2>1. Alike(ExpireOne(t), t)
    BY Zenon DEF ExpireOne, Task
  <2>2. Alike(Release(t), t)
    BY Zenon DEF Release, Task
  <2>3. Alike(ReleaseCond(t), t)
    BY Zenon DEF ReleaseCond, Release, Task
  <2>4. Alike(WokenBySignal(t), t)
    BY <2>2, Zenon DEF WokenBySignal, Task
  <2>5. Alike([t EXCEPT !.used = FALSE], t)
    BY Zenon DEF Task
  <2> QED
    BY <2>1, <2>2, <2>3, <2>4, <2>5, Zenon
<1>2. \A i \in Slots : ts[i] \in Task
  BY Zenon
<1>3. Tamer(ExpireDeadlines(ts), ts)
  BY <1>1, <1>2, Zenon DEF Tamer, ExpireDeadlines
<1>4. ASSUME NEW key, NEW max, NEW bits, NEW pid
      PROVE  Tamer(WakeFutex(ts, key, max, bits, pid), ts)
  <2>1. ASSUME NEW i \in Slots
        PROVE  Alike(WakeFutex(ts, key, max, bits, pid)[i], ts[i])
    <3>1. CASE i \in Woken(ts, key, max, bits, pid)
      <4>1. WakeFutex(ts, key, max, bits, pid)[i] = ReleaseCond(Release(ts[i]))
        BY <3>1, Zenon DEF WakeFutex
      <4>2. Release(ts[i]) \in Task /\ Alike(Release(ts[i]), ts[i])
        BY <1>1, <1>2, TaskOps, Zenon
      <4>3. Alike(ReleaseCond(Release(ts[i])), Release(ts[i]))
        BY <1>1, <4>2, Zenon
      <4> QED
        BY <4>1, <4>2, <4>3, Zenon
    <3>2. CASE i \notin Woken(ts, key, max, bits, pid)
      BY <1>1, <1>2, <3>2, Zenon DEF WakeFutex
    <3> QED
      BY <3>1, <3>2, Zenon
  <2> QED
    BY <2>1, Zenon DEF Tamer
<1>5. ASSUME NEW pid PROVE Tamer(WakePid(ts, pid), ts)
  BY <1>1, <1>2, ZenonT(30) DEF Tamer, WakePid
<1>6. ASSUME NEW tid PROVE Tamer(WakeTid(ts, tid), ts)
  BY <1>1, <1>2, ZenonT(30) DEF Tamer, WakeTid
<1>7. ASSUME NEW gone PROVE Tamer(Removed(ts, gone), ts)
  BY <1>1, <1>2, ZenonT(30) DEF Tamer, Removed
<1>8. Tamer(Unpark(ts, c), ts)
  BY <1>2 DEF Tamer, Unpark, Task
<1> QED
  BY <1>3, <1>4, <1>5, <1>6, <1>7, <1>8, Zenon

\* Saving late completes what leaving ring 3 began.
LEMMA SaveCompletes ==
  ASSUME NEW ts \in [Slots -> Task], current \in Slots, Half(ts), NEW i \in Slots,
         SaveLate(ts, current)[i].used
  PROVE  Saved(SaveLate(ts, current)[i], want[i])
<1> DEFINE u == SaveLate(ts, current)[i]
<1>1. CASE i = current
  <2>1. /\ u.used = ts[i].used /\ u.fs = ts[i].fs /\ u.space = ts[i].space
        /\ u.gs = cpu.gs /\ u.fpu = cpu.fpu
    BY <1>1 DEF SaveLate, Task
  <2> QED
    BY <1>1, <2>1, Zenon DEF Half, Saved
<1>2. CASE i # current
  BY <1>2, Zenon DEF SaveLate, Half
<1> QED
  BY <1>1, <1>2, Zenon

\* A switch into a table in which every live slot has its registers.
LEMMA ResumeKeeps ==
  ASSUME NEW ts \in [Slots -> Task], NEW n \in Slots, Resume(ts, n),
         idling' = FALSE, UNCHANGED want,
         \A i \in Slots : ts[i].used => Saved(ts[i], want[i])
  PROVE  Contexts'
<1>1. /\ tasks' = ts /\ current' = n /\ cpu'.fs = ts[n].fs /\ cpu'.gs = ts[n].gs
      /\ cpu'.fpu = ts[n].fpu /\ cpu'.space = ts[n].space
  BY Zenon DEF Resume, Loaded
<1> QED
  BY <1>1, ZenonT(30) DEF Contexts, Saved

\* A return to the caller keeps all registers where they are.
LEMMA ReturnKeeps ==
  ASSUME TypeOK, Contexts, InUser, NEW ts, Tamer(ts, tasks), ReturnToCaller(ts),
         UNCHANGED <<idling, want>>
  PROVE  Contexts'
<1>1. /\ cpu'.fs = cpu.fs /\ cpu'.gs = cpu.gs /\ cpu'.fpu = cpu.fpu
      /\ cpu'.space = cpu.space /\ tasks' = ts /\ current' = current /\ ~idling
  BY Zenon DEF ReturnToCaller, TypeOK, Cpu, InUser
<1> QED
  BY <1>1 DEF Contexts, Saved, Tamer

LEMMA ContextsStep == TypeOK /\ Scheduled /\ Contexts /\ [Next]_vars => Contexts'
<1> SUFFICES ASSUME TypeOK, Scheduled, Contexts, [Next]_vars PROVE Contexts'
  BY Zenon
<1>a. /\ tasks \in [Slots -> Task] /\ cpu \in Cpu /\ want \in [Slots -> Context]
      /\ InUser => /\ current \in Runnable(tasks) /\ current \in Slots
                   /\ tasks[current].used /\ idling = FALSE
  BY Zenon DEF TypeOK, Scheduled, CurrentRunnable, Runnable, InUser
<1>b. current = NoTask => /\ idling = FALSE
                          /\ \A i \in Slots : i # current
                          /\ \A i \in Slots : tasks[i].used => Saved(tasks[i], want[i])
  BY SlotsNat, Zenon DEF Scheduled, IdleSlot, TypeOK, NoTask, Contexts
<1>c. InUser => \A i \in Slots : tasks[i].used =>
                  /\ tasks[i].space = want[i].space
                  /\ IF i = current THEN Saved(cpu, want[i]) ELSE Saved(tasks[i], want[i])
  BY Zenon DEF Contexts, InUser
<1>0. CASE UNCHANGED vars
  BY <1>0, Zenon DEF vars, Contexts, Half
<1>1. CASE SchedInit
  <2>1. ASSUME NEW i \in Slots PROVE tasks'[i].used = FALSE
    BY <1>1, <1>a, Zenon DEF SchedInit, Task
  <2> QED
    BY <1>1, <1>b, <2>1, Zenon DEF SchedInit, Contexts
<1>d. ASSUME NEW i \in Slots, NEW pid, NEW fs, NEW space
      PROVE  LET t == NewTask(tasks[i], pid, fs, space) IN
             t.fs = fs /\ t.gs = cpu.gs /\ t.fpu = Ctx0 /\ t.space = space
  BY <1>a DEF NewTask, Task
<1>2. ASSUME NEW pid, NEW space, StartRun(pid, space) PROVE Contexts'
  <2> DEFINE n == FreeSlot(tasks)
             t == NewTask(tasks[n], pid, cpu.fs, space)
             w == [fs |-> cpu.fs, gs |-> cpu.gs, fpu |-> cpu.fpu, space |-> space]
  <2>1. /\ n \in Slots /\ tasks' = [tasks EXCEPT ![n] = t] /\ current' = n
        /\ UNCHANGED idling /\ current = NoTask /\ want' = [want EXCEPT ![n] = w]
    BY <1>2, FreeSlotIs, Zenon DEF StartRun
  <2>2. cpu'.fs = cpu.fs /\ cpu'.gs = cpu.gs /\ cpu'.fpu = cpu.fpu /\ cpu'.space = space
    BY <1>2, <1>a, Zenon DEF StartRun, Cpu
  <2>3. t.space = space
    BY <1>d, <2>1, SMTT(30)
  <2> HIDE DEF n, t
  <2>4. \A i \in Slots : i # n => tasks'[i] = tasks[i] /\ want'[i] = want[i]
    BY <1>a, <2>1, Zenon
  <2>5. tasks'[n] = t /\ want'[n] = w
    BY <1>a, <2>1, Zenon
  <2>6. Saved(cpu', w) /\ w.space = space
    BY <2>2, Zenon DEF Saved
  <2> HIDE DEF w
  <2> QED
    BY <1>b, <2>1, <2>3, <2>4, <2>5, <2>6, SMTT(30) DEF Contexts, Saved
<1>3. ASSUME NEW pid, NEW fs, NEW space, InUser, AddFrame(pid, fs, space)
      PROVE  Contexts'
  <2> DEFINE n == FreeSlot(tasks)
             t == NewTask(tasks[n], pid, fs, space)
             w == [fs |-> fs, gs |-> cpu.gs, fpu |-> Ctx0, space |-> space]
  <2>1. CASE n = NoTask
    BY <1>3, <2>1, ReturnKeeps, Zenon DEF AddFrame, Tamer
  <2>2. CASE n # NoTask
    <3>1. /\ n \in Slots /\ ~tasks[n].used
          /\ ReturnToCaller([tasks EXCEPT ![n] = t]) /\ UNCHANGED idling
          /\ want' = [want EXCEPT ![n] = w]
      BY <1>3, <2>2, FreeSlotIs, Zenon DEF AddFrame, Live
    <3>2. /\ cpu'.fs = cpu.fs /\ cpu'.gs = cpu.gs /\ cpu'.fpu = cpu.fpu
          /\ cpu'.space = cpu.space /\ current' = current
      BY <1>a, <3>1, Zenon DEF ReturnToCaller, Cpu
    <3>3. Saved(t, w)
      BY <1>d, <3>1, SMTT(30) DEF Saved
    <3> HIDE DEF n, t, w
    <3>4. \A i \in Slots : i # n => tasks'[i] = tasks[i] /\ want'[i] = want[i]
      BY <1>a, <3>1, Zenon DEF ReturnToCaller
    <3>5. tasks'[n] = t /\ want'[n] = w
      BY <1>a, <3>1, Zenon DEF ReturnToCaller
    <3>6. n # current /\ idling' = FALSE
      BY <1>3, <1>a, <3>1, Zenon
    <3>7. ASSUME NEW i \in Slots, tasks'[i].used
          PROVE  /\ tasks'[i].space = want'[i].space
                 /\ IF i = current THEN Saved(cpu', want'[i]) ELSE Saved(tasks'[i], want'[i])
      <4>1. CASE i = n
        BY <3>3, <3>5, <3>6, <4>1, Zenon DEF Saved
      <4>2. CASE i # n
        BY <1>3, <1>c, <3>2, <3>4, <3>7, <4>2, SMTT(30) DEF Saved
      <4> QED
        BY <4>1, <4>2, Zenon
    <3> QED
      BY <3>2, <3>6, <3>7, Zenon DEF Contexts
  <2> QED
    BY <2>1, <2>2, Zenon
\* The ways out of ring 3 that leave FS in the slot.
<1>e. ASSUME InUser, NEW ts \in [Slots -> Task],
             \A i \in Slots : i # current => ts[i] = tasks[i],
             ts[current].fs = cpu.fs, ts[current].space = tasks[current].space
      PROVE  Half(ts)
  BY <1>a, <1>c, <1>e, SMTT(30) DEF Half, Saved
<1>4. ASSUME NEW kind \in WaitKinds, NEW key \in Keys, NEW d \in 0 .. MaxSleep,
             NEW bits \in SUBSET Bits, BlockUntilEx(kind, key, d, bits)
      PROVE  Contexts'
  <2> DEFINE ts == Parked(kind, key, d, bits)
             next == NextTask(ts, current)
             f == WaitFrame(kind, d > 0)
  <2>1. InUser /\ current \in Slots /\ idling = FALSE /\ UNCHANGED want
    BY <1>4, <1>a, Zenon DEF BlockUntilEx
  <2>2. ts \in [Slots -> Task]
    BY <2>1, ParkedType, Zenon
  <2>3. /\ ts[current].fs = cpu.fs /\ ts[current].used = tasks[current].used
        /\ ts[current].space = tasks[current].space
    <3>1. tasks[current] \in Task
      BY <1>a, <2>1, Zenon
    <3> HIDE DEF f
    <3>2. ts[current] = [tasks[current] EXCEPT
             !.fs = cpu.fs, !.rax = f.rax, !.rewound = f.rewound,
             !.blocked = TRUE, !.wait_addr = key, !.wake_rax = f.wake,
             !.timeout_rax = f.timeout, !.wait_bits = bits,
             !.deadline = d, !.signal_restart = f.restart]
      BY <1>a, <2>1, Zenon DEF Parked, f
    <3> HIDE DEF ts
    <3> QED
      BY <3>1, <3>2, Zenon DEF Task
  <2>4. \A i \in Slots : i # current => ts[i] = tasks[i]
    BY <1>a, <2>1, Zenon DEF Parked
  <2>5. next \in Slots
    BY <1>a, <2>1, <2>3, NextTaskIs, Zenon
  <2>6. \/ Resume(SaveLate(ts, current), next) /\ UNCHANGED idling
        \/ ReturnToCaller(Unpark(ts, current)) /\ UNCHANGED idling
        \/ tasks' = ts /\ idling' = TRUE /\ UNCHANGED <<current, cpu>>
    BY <1>4, Zenon DEF BlockUntilEx
  <2> HIDE DEF ts, next
  <2>7. Half(ts)
    BY <1>e, <2>1, <2>2, <2>3, <2>4, Zenon
  <2>8. CASE Resume(SaveLate(ts, current), next) /\ UNCHANGED idling
    <3>1. SaveLate(ts, current) \in [Slots -> Task]
      BY <2>1, <2>2, SwitchTypes, Zenon
    <3> QED
      BY <2>1, <2>2, <2>5, <2>7, <2>8, <3>1, SaveCompletes, ResumeKeeps, Zenon
  <2>9. CASE ReturnToCaller(Unpark(ts, current)) /\ UNCHANGED idling
    <3>1. Unpark(ts, current)[current].space = tasks[current].space
      BY <2>1, <2>2, <2>3, TableTamer, Zenon DEF Tamer
    <3>2. \A i \in Slots : i # current => Unpark(ts, current)[i] = tasks[i]
      BY <2>1, <2>2, <2>4, Zenon DEF Unpark
    <3>3. /\ cpu'.fs = cpu.fs /\ cpu'.gs = cpu.gs /\ cpu'.fpu = cpu.fpu
          /\ cpu'.space = cpu.space /\ current' = current
          /\ tasks' = Unpark(ts, current)
      BY <1>a, <2>9, Zenon DEF ReturnToCaller, Cpu
    <3> QED
      BY <1>a, <1>c, <2>1, <2>9, <3>1, <3>2, <3>3, SMTT(30) DEF Contexts, Saved
  <2>10. CASE tasks' = ts /\ idling' = TRUE /\ UNCHANGED <<current, cpu>>
    BY <2>1, <2>7, <2>10, Zenon DEF Contexts, Half
  <2> QED
    BY <2>6, <2>8, <2>9, <2>10, Zenon
<1>5. ASSUME NEW kind, YieldCurrent(kind) PROVE Contexts'
  <2> DEFINE f    == WaitFrame(kind, FALSE)
             ts   == SaveFrame(tasks, current, cpu.fs, f.rax, f.rewound)
             next == NextTask(ts, current)
  <2>1. /\ InUser /\ current \in Runnable(tasks) /\ current \in Slots
        /\ idling' = FALSE /\ UNCHANGED want
    BY <1>5, <1>a, Zenon DEF YieldCurrent
  <2>2. f.rax \in RaxValues /\ f.rewound \in Nat /\ cpu.fs \in Ctx
    BY <1>a, Zenon DEF WaitFrame, RaxValues, Cpu
  <2>3. \/ /\ tasks' = ts /\ current' = current
           /\ cpu' = [cpu EXCEPT !.rax = f.rax, !.rewound = f.rewound]
        \/ Resume(SaveLate(ts, current), next)
    BY <1>5, Zenon DEF YieldCurrent
  <2> HIDE DEF f
  <2>4. ts \in [Slots -> Task]
    BY <1>a, <2>1, <2>2, SwitchTypes, Zenon
  <2>5. /\ \A i \in Slots : i # current => ts[i] = tasks[i]
        /\ ts[current].fs = cpu.fs /\ ts[current].space = tasks[current].space
    BY <1>a, <2>1, Zenon DEF SaveFrame, Task
  <2>6. next \in Slots
    BY <1>a, <2>1, SavesKeep, NextTaskIs, Zenon DEF Same, Runnable
  <2> HIDE DEF ts, next
  <2>7. CASE /\ tasks' = ts /\ current' = current
             /\ cpu' = [cpu EXCEPT !.rax = f.rax, !.rewound = f.rewound]
    <3>1. /\ cpu'.fs = cpu.fs /\ cpu'.gs = cpu.gs /\ cpu'.fpu = cpu.fpu
          /\ cpu'.space = cpu.space
      BY <1>a, <2>7, Zenon DEF Cpu
    <3> QED
      BY <1>a, <1>c, <2>1, <2>5, <2>7, <3>1 DEF Contexts, Saved
  <2>8. CASE Resume(SaveLate(ts, current), next)
    <3>1. SaveLate(ts, current) \in [Slots -> Task]
      BY <2>1, <2>4, SwitchTypes, Zenon
    <3>2. Half(ts)
      BY <1>e, <2>1, <2>4, <2>5, Zenon
    <3> QED
      BY <2>1, <2>4, <2>6, <2>8, <3>1, <3>2, SaveCompletes, ResumeKeeps, Zenon
  <2> QED
    BY <2>3, <2>7, <2>8, Zenon
<1>6. CASE Wakes
  <2>1. InUser /\ UNCHANGED <<idling, want>>
    BY <1>6, Zenon DEF Wakes, Wake, SignalPid, SignalTid
  <2>2. PICK ts : ReturnToCaller(ts) /\ Tamer(ts, tasks)
    BY <1>6, <1>a, <2>1, TableTamer, Zenon DEF Wakes, Wake, SignalPid, SignalTid
  <2> QED
    BY <2>1, <2>2, ReturnKeeps, Zenon
<1>7. ASSUME NEW fs, NEW gs, NEW fpu, UserRuns(fs, gs, fpu) PROVE Contexts'
  <2>1. InUser /\ UNCHANGED <<tasks, current, idling>>
    BY <1>7, Zenon DEF UserRuns
  <2>2. cpu'.fs = fs /\ cpu'.gs = gs /\ cpu'.fpu = fpu /\ cpu'.space = cpu.space
    BY <1>7, <1>a, Zenon DEF UserRuns, Cpu
  <2>3. \A i \in Slots : i # current => want'[i] = want[i]
    BY <1>7, <1>a, <2>1, Zenon DEF UserRuns
  <2>4. /\ want'[current].fs = fs /\ want'[current].gs = gs
        /\ want'[current].fpu = fpu /\ want'[current].space = want[current].space
    BY <1>7, <1>a, <2>1, Zenon DEF UserRuns, Context
  <2> QED
    BY <1>a, <1>c, <2>1, <2>2, <2>3, <2>4, SMTT(30) DEF Contexts, Saved
<1>8. ASSUME NEW space, SetCurrentSpace(space) PROVE Contexts'
  <2>1. InUser /\ UNCHANGED <<current, idling>>
    BY <1>8, Zenon DEF SetCurrentSpace
  <2>2. /\ cpu'.fs = cpu.fs /\ cpu'.gs = cpu.gs /\ cpu'.fpu = cpu.fpu
        /\ cpu'.space = space
    BY <1>8, <1>a, Zenon DEF SetCurrentSpace, Cpu
  <2>3. \A i \in Slots : i # current => want'[i] = want[i] /\ tasks'[i] = tasks[i]
    BY <1>8, <1>a, <2>1, Zenon DEF SetCurrentSpace
  <2>4. /\ want'[current].fs = want[current].fs /\ want'[current].gs = want[current].gs
        /\ want'[current].fpu = want[current].fpu /\ want'[current].space = space
    BY <1>8, <1>a, <2>1, Zenon DEF SetCurrentSpace, Context
  <2>5. tasks'[current].space = space
    BY <1>8, <1>a, <2>1, Zenon DEF SetCurrentSpace, Task
  <2> QED
    BY <1>a, <1>c, <2>1, <2>2, <2>3, <2>4, <2>5, SMTT(30) DEF Contexts, Saved
<1>f. ASSUME NEW gone, current \in gone, InUser
      PROVE  /\ Removed(tasks, gone) \in [Slots -> Task]
             /\ ~Removed(tasks, gone)[current].used
             /\ \A i \in Slots : Removed(tasks, gone)[i].used
                                   => Saved(Removed(tasks, gone)[i], want[i])
  <2>1. ~Removed(tasks, gone)[current].used
    BY <1>a, <1>f, Zenon DEF Removed, Task
  <2>2. Removed(tasks, gone) \in [Slots -> Task] /\ Tamer(Removed(tasks, gone), tasks)
    BY <1>a, <1>f, TableOps, TableTamer, Zenon
  <2> QED
    BY <1>c, <1>f, <2>1, <2>2, ZenonT(30) DEF Tamer, Saved
<1>g. ASSUME NEW gone, current \in gone, InUser, LeaveTo(Removed(tasks, gone)),
             UNCHANGED want
      PROVE  Contexts'
  <2> DEFINE ts == Removed(tasks, gone)
  <2>1. /\ ts \in [Slots -> Task] /\ ~ts[current].used
        /\ \A i \in Slots : ts[i].used => Saved(ts[i], want[i])
    BY <1>f, <1>g, Zenon
  <2>2. LeaveTo(ts) /\ current \in Slots /\ idling = FALSE
    BY <1>a, <1>g, Zenon
  <2> HIDE DEF ts
  <2>3. CASE FirstRunnable(ts) # NoTask
    <3>1. Resume(ts, FirstRunnable(ts)) /\ idling' = FALSE
      BY <2>2, <2>3, Zenon DEF LeaveTo
    <3>2. FirstRunnable(ts) \in Slots
      BY <2>3, FirstRunnableIs, Zenon DEF Runnable
    <3> QED
      BY <1>g, <2>1, <3>1, <3>2, ResumeKeeps, Zenon
  <2>4. CASE FirstRunnable(ts) = NoTask
    <3>1. \/ tasks' = ts /\ idling' = TRUE /\ UNCHANGED <<current, cpu>>
          \/ tasks' = ts /\ current' = NoTask /\ idling' = FALSE
      BY <2>2, <2>4, Zenon DEF LeaveTo, EndRun
    <3>2. \A i \in Slots : i # NoTask
      BY SlotsNat, Zenon
    <3> QED
      BY <1>g, <2>1, <2>2, <3>1, <3>2, SMTT(30) DEF Contexts, Half, Saved
  <2> QED
    BY <2>3, <2>4, Zenon
<1>h. InUser => current \in PidTasks(tasks, tasks[current].pid)
  BY <1>a, Zenon DEF PidTasks, Live, Runnable
<1>9. CASE ExitCurrent
  BY <1>9, <1>g, Zenon DEF ExitCurrent
<1>10. CASE ExitProcess
  BY <1>10, <1>g, <1>h, Zenon DEF ExitProcess
<1>11. CASE RemovePid
  <2>1. /\ InUser /\ EndRun(Removed(tasks, PidTasks(tasks, tasks[current].pid)))
        /\ UNCHANGED want
    BY <1>11, Zenon DEF RemovePid
  <2>2. /\ \A i \in Slots : tasks'[i].used => Saved(tasks'[i], want[i])
        /\ current' = NoTask /\ idling' = FALSE
    BY <1>a, <1>f, <1>h, <2>1, Zenon DEF EndRun
  <2>3. \A i \in Slots : i # NoTask
    BY SlotsNat, Zenon
  <2> QED
    BY <2>1, <2>2, <2>3, Zenon DEF Contexts, Saved
<1>12. CASE Tick
  <2> DEFINE ts == ExpireDeadlines(tasks)
             next == NextTask(ts, current)
             sv == SaveFrame(ts, current, cpu.fs, cpu.rax, cpu.rewound)
  <2>1. /\ InUser /\ current \in Runnable(tasks) /\ current \in Slots
        /\ idling' = FALSE /\ UNCHANGED want
    BY <1>12, <1>a, Zenon DEF Tick
  <2>2. /\ ts \in [Slots -> Task] /\ ts[current] = tasks[current]
        /\ Tamer(ts, tasks)
    BY <1>a, <2>1, TableOps, TableTamer, WakesKeepRunnable, Zenon
  <2>3. \/ tasks' = ts /\ UNCHANGED <<current, cpu>>
        \/ Resume(SaveLate(sv, current), next)
    BY <1>12, Zenon DEF Tick
  <2> HIDE DEF ts
  <2>4. next \in Slots
    BY <2>1, <2>2, NextTaskIs, Zenon DEF Runnable
  <2> HIDE DEF next
  <2>5. CASE tasks' = ts /\ UNCHANGED <<current, cpu>>
    BY <1>c, <2>1, <2>2, <2>5, SMTT(30) DEF Contexts, Saved, Tamer
  <2>6. CASE Resume(SaveLate(sv, current), next)
    <3>1. sv \in [Slots -> Task]
      BY <1>a, <2>1, <2>2, SwitchTypes, Zenon DEF Cpu
    <3>2. /\ \A i \in Slots : i # current => sv[i] = ts[i]
          /\ sv[current].fs = cpu.fs /\ sv[current].space = tasks[current].space
      BY <2>1, <2>2, ZenonT(30) DEF SaveFrame, Task
    <3> HIDE DEF sv
    <3>3. Half(sv)
      BY <1>a, <1>c, <2>1, <2>2, <3>2, SMTT(30) DEF Half, Saved, Tamer
    <3>4. SaveLate(sv, current) \in [Slots -> Task]
      BY <2>1, <3>1, SwitchTypes, Zenon
    <3> QED
      BY <2>1, <2>4, <2>6, <3>1, <3>3, <3>4, SaveCompletes, ResumeKeeps, Zenon
  <2> QED
    BY <2>3, <2>5, <2>6, Zenon
<1>13. CASE IdleTick
  <2> DEFINE ts == ExpireDeadlines(tasks)
             next == FirstRunnable(ts)
             sv == IF ts[current].used THEN SaveLate(ts, current) ELSE ts
  <2>1. current \in Slots /\ idling /\ UNCHANGED want
    BY <1>13, Zenon DEF IdleTick, Scheduled, IdleSlot
  <2>2. ts \in [Slots -> Task] /\ Tamer(ts, tasks)
    BY <1>a, <2>1, TableOps, TableTamer, Zenon
  <2>3. CASE next # NoTask
    <3>1. next \in Slots
      BY <2>3, FirstRunnableIs, Zenon DEF Runnable
    <3>2. Resume(sv, next) /\ idling' = FALSE
      BY <1>13, <2>3, Zenon DEF IdleTick
    <3> HIDE DEF ts, next
    <3>3. Half(ts)
      BY <2>1, <2>2, ZenonT(30) DEF Contexts, Half, Saved, Tamer
    <3>4. sv \in [Slots -> Task]
      BY <2>1, <2>2, SwitchTypes, Zenon
    <3>5. \A i \in Slots : sv[i].used => Saved(sv[i], want[i])
      <4>1. CASE ts[current].used
        BY <2>1, <2>2, <3>3, <4>1, SaveCompletes, Zenon
      <4>2. CASE ~ts[current].used
        BY <2>1, <3>3, <4>2, Zenon DEF Half
      <4> QED
        BY <4>1, <4>2, Zenon
    <3> HIDE DEF sv
    <3> QED
      BY <2>1, <3>1, <3>2, <3>4, <3>5, ResumeKeeps, Zenon
  <2>4. CASE next = NoTask
    <3>1. AnyDeadline(ts)
      BY <1>a, <2>1, <2>4, FirstRunnableIs, ExpiryProgresses, Zenon DEF Scheduled, IdleHasFuture
    <3>2. tasks' = ts /\ UNCHANGED <<current, idling, cpu>>
      BY <1>13, <2>4, <3>1, Zenon DEF IdleTick
    <3> HIDE DEF ts
    <3> QED
      BY <2>1, <2>2, <3>2, SMTT(30) DEF Contexts, Half, Saved, Tamer
  <2> QED
    BY <2>3, <2>4, Zenon
<1>14. CASE Block
  BY <1>4, <1>14, BlockIs, Zenon
<1> QED
  BY <1>0, <1>1, <1>2, <1>3, <1>5, <1>6, <1>7, <1>8, <1>9, <1>10, <1>11,
     <1>12, <1>13, <1>14, Zenon DEF Next, Run, Clone, Fork

\* A thread that comes back to the processor - by a tick, out of the idle loop,
\* after somebody's exit - finds the FS, GS, FPU file and address space it had
\* when it left, wherever the kernel kept them meanwhile.
THEOREM RegistersKept == Spec => []ContextKept
<1>1. Init => Contexts
  BY SMTT(30) DEF Init, Contexts, EmptyTask
<1>2. TypeOK /\ Contexts => ContextKept
  BY ContextsMean, Zenon
<1> QED
  BY <1>1, <1>2, ContextsStep, SchedulerInvariant, PTL DEF Spec

=============================================================================
