----------------------------- MODULE SchedTable -----------------------------
(***************************************************************************)
(* The task table of the 64-bit kernel (kernel/sched64.c) and the pure     *)
(* part of what is done to it: choosing a successor, waking by key, by     *)
(* process and by thread, and releasing the waits whose deadline passed.   *)
(* Every module in which threads block is built on these operators.        *)
(*                                                                         *)
(* A task is a record.  `deadline' counts the timer ticks left, 0 for no   *)
(* deadline: the code keeps an absolute tick and compares it with the      *)
(* clock, and only the difference is ever used.  `wait_bits' is a set of   *)
(* bits.  The saved frame is abstracted to                                 *)
(*   rewound  how many times rip was moved back over the two bytes of a    *)
(*            syscall instruction (0: resumes after it, 1: re-runs it)     *)
(*   rax      "nr" a syscall number, "ok" the answer of a completed call,  *)
(*            "timedout" -ETIMEDOUT, "user" whatever ring 3 had there.     *)
(***************************************************************************)
EXTENDS Integers, FiniteSets, FiniteSetsExt

CONSTANTS MaxTasks,     \* SCHED64_MAX_TASKS
          NoKey,        \* wait_addr = 0
          CondKey       \* SCHED64_COND_KEY, shared by poll and the timed waits

ASSUME MaxTasksAssumption == MaxTasks \in Nat \ {0}
ASSUME KeyAssumption == NoKey # CondKey

Slots == 0 .. MaxTasks - 1
NoTask == -1
AnyPid == -1

RaxValues == {"nr", "ok", "timedout", "user"}

Runnable(ts) == {i \in Slots : ts[i].used /\ ~ts[i].blocked}

Live(ts) == {i \in Slots : ts[i].used}

\* The table index a new task gets: the lowest free one.
FreeSlot(ts) == LET free == Slots \ Live(ts)
                IN  IF free = {} THEN NoTask ELSE Min(free)

\* Mutant: the first used slot, blocked or not.
FirstRunnableUsed(ts) == IF Live(ts) = {} THEN NoTask ELSE Min(Live(ts))

FirstRunnable(ts) == IF Runnable(ts) = {} THEN NoTask ELSE Min(Runnable(ts))

\* Mutant: always the lowest runnable slot.
NextTaskLowest(ts, from) ==
  IF Runnable(ts) = {} THEN from ELSE Min(Runnable(ts))

\* Round robin: the first runnable slot after `from', `from' itself last,
\* and `from' again when nothing is runnable.
NextTask(ts, from) ==
  LET steps == {n \in 1 .. MaxTasks : (from + n) % MaxTasks \in Runnable(ts)}
  IN  IF steps = {} THEN from ELSE (from + Min(steps)) % MaxTasks

AnyDeadline(ts) ==
  \E i \in Slots : ts[i].used /\ ts[i].blocked /\ ts[i].deadline > 0

PidTasks(ts, pid) == {i \in Live(ts) : ts[i].pid = pid}

-----------------------------------------------------------------------------
\* Mutant: a wait without a deadline is counted down too.
ExpireOneUntimed(t) ==
  IF ~(t.used /\ t.blocked) THEN t
  ELSE IF t.deadline # 1 THEN [t EXCEPT !.deadline = t.deadline - 1]
  ELSE [t EXCEPT !.blocked = FALSE, !.wait_addr = NoKey, !.deadline = 0,
                 !.rax = t.timeout_rax]

\* Mutant: only the waits on the shared key time out.
ExpireOneCond(t) ==
  IF ~(t.used /\ t.blocked /\ t.deadline > 0 /\ t.wait_addr = CondKey) THEN t
  ELSE IF t.deadline > 1 THEN [t EXCEPT !.deadline = t.deadline - 1]
  ELSE [t EXCEPT !.blocked = FALSE, !.wait_addr = NoKey, !.deadline = 0,
                 !.rax = t.timeout_rax]

\* One tick of the clock followed by expire_deadlines.
ExpireOne(t) ==
  IF ~(t.used /\ t.blocked /\ t.deadline > 0) THEN t
  ELSE IF t.deadline > 1 THEN [t EXCEPT !.deadline = t.deadline - 1]
  ELSE [t EXCEPT !.blocked = FALSE, !.wait_addr = NoKey, !.deadline = 0,
                 !.rax = t.timeout_rax]

ExpireDeadlines(ts) == [i \in Slots |-> ExpireOne(ts[i])]

-----------------------------------------------------------------------------
\* Whom a wake names: the waiters on one key, of one process if the wake is
\* private, whose bit set meets the waker's, the lowest `max' slots of them.
Waiters(ts, key, bits, pid) ==
  {i \in Slots : /\ ts[i].used /\ ts[i].blocked
                 /\ ts[i].wait_addr = key
                 /\ pid = AnyPid \/ ts[i].pid = pid
                 /\ ts[i].wait_bits \cap bits # {}}

Woken(ts, key, max, bits, pid) ==
  LET w == Waiters(ts, key, bits, pid)
  IN  {i \in w : Cardinality({j \in w : j < i}) < max}

Release(t) == [t EXCEPT !.blocked = FALSE, !.wait_addr = NoKey,
                        !.rax = t.wake_rax]

\* Any wake at all also lets go of every thread parked on the shared key.
ReleaseCond(t) == IF t.used /\ t.blocked /\ t.wait_addr = CondKey
                  THEN [Release(t) EXCEPT !.deadline = 0] ELSE t

WakeFutex(ts, key, max, bits, pid) ==
  LET w == Woken(ts, key, max, bits, pid)
  IN  [i \in Slots |-> ReleaseCond(IF i \in w THEN Release(ts[i]) ELSE ts[i])]

\* Mutant: the number goes back into rax and rip stays where it is.
WokenBySignalNoRewind(t) ==
  IF t.signal_restart
  THEN [t EXCEPT !.blocked = FALSE, !.wait_addr = NoKey, !.rax = "nr",
                 !.signal_restart = FALSE]
  ELSE Release(t)

\* A thread woken by a signal re-runs its call: the waits that resume past
\* their syscall carry the number to go back with in signal_restart.
WokenBySignal(t) ==
  IF t.signal_restart
  THEN [t EXCEPT !.blocked = FALSE, !.wait_addr = NoKey,
                 !.rewound = t.rewound + 1, !.rax = "nr",
                 !.signal_restart = FALSE]
  ELSE Release(t)

WakePid(ts, pid) ==
  [i \in Slots |-> IF ts[i].used /\ ts[i].blocked /\ ts[i].pid = pid
                   THEN WokenBySignal(ts[i]) ELSE ts[i]]

WakeTid(ts, tid) ==
  [i \in Slots |-> IF i = tid /\ ts[i].used /\ ts[i].blocked
                   THEN WokenBySignal(ts[i]) ELSE ts[i]]
=============================================================================
