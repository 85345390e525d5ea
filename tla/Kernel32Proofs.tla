--------------------------- MODULE Kernel32Proofs ---------------------------
(***************************************************************************)
(* Proofs about Kernel32 for every size of its tables, every length of the *)
(* time slice and every set of calls that programs make.                   *)
(*                                                                         *)
(* The kernel's functions are operators on its state as one record, so the *)
(* invariant is a predicate on such records.                               *)
(***************************************************************************)
EXTENDS Kernel32, FiniteSetTheorems, TLAPS

-----------------------------------------------------------------------------
(* Types.                                                                  *)

\* What the calls carry: a flag, a process or thread number, a limit in ticks,
\* a signal, an action, a mask.
CallShape(c) ==
  /\ c[1] = "wait" => c[2] \in Nat
  /\ c[1] = "join" => c[2] \in Nat /\ c[3] \in Int
  /\ c[1] = "sleep" => c[2] \in Nat /\ c[3] \in Nat
  /\ c[1] \in {"kill", "tgkill"} => c[2] \in Nat /\ c[3] \in Nat
  /\ c[1] = "action" => c[2] \in Nat /\ c[3] \in {"default", "ignore", "handler"}
  /\ c[1] = "mask" => c[2] \subseteq Nat
  /\ c[1] \in {"fork", "vfork", "clone", "exec", "exit", "exitgroup", "wait", "join", "sleep",
               "yield", "kill", "tgkill", "action", "mask", "sigreturn", "fault"}

Machine == /\ MaxTasks \in Nat \ {0} /\ MaxProcs \in Nat \ {0} /\ Slice \in Nat
           /\ <<>> \notin Calls32 /\ \A c \in Calls32 : CallShape(c)

\* Programs with one thread each, and programs that send no signals.
Single == \A c \in Calls32 : c[1] # "clone"
Quiet == \A c \in Calls32 : c[1] \notin {"kill", "tgkill"}

Slots == 1 .. MaxProcs
Keys == {ProcKey(s) : s \in Nat} \cup {TidKey(t) : t \in Nat}
Asked == Calls32 \cup {<<>>}
Frame == [mask : SUBSET Nat, call : Asked]

TaskRec == [st : {"ready", "running", "blocked", "zombie"}, as : Nat, wait : SUBSET Keys,
            left : Int, retry : BOOLEAN, call : Asked, frames : Seq(Frame),
            clear : BOOLEAN, cleared : BOOLEAN]

ProcRec == [used : BOOLEAN, pid : Nat, ppid : Nat, exited : BOOLEAN, vforkParent : Nat,
            sleepKey : Nat, sleepLeft : Nat, pending : SUBSET Nat, mask : SUBSET Nat,
            chosen : SUBSET Nat, acts : [Sigs -> {"default", "ignore", "handler"}]]

IdleRec == [wait : SUBSET Keys, left : Int, retry : BOOLEAN]

State == [tasks : Seq(TaskRec), procs : [Slots -> ProcRec], current : Nat, slice : Nat,
          idle : IdleRec, lastPid : Nat]

-----------------------------------------------------------------------------
(* The inductive invariant, on a state record.                             *)

Tasks(k) == 1 .. Len(k.tasks)
Live(k, t) == k.tasks[t].st # "zombie"
Owns(k, s, as) == k.procs[s].used /\ ~k.procs[s].exited /\ k.procs[s].pid = as

\* Every task that is not over has its process.
Homes(k) == \A t \in Tasks(k) : Live(k, t) => \E s \in Slots : Owns(k, s, k.tasks[t].as)

\* Process numbers in use, those of tasks included, were given out before, and
\* no two processes have the same.
Numbered(k) ==
  /\ \A t \in Tasks(k) : k.tasks[t].as <= k.lastPid
  /\ \A s \in Slots : k.procs[s].used => k.procs[s].pid <= k.lastPid
  /\ \A s, r \in Slots :
       k.procs[s].used /\ k.procs[r].used /\ k.procs[s].pid = k.procs[r].pid => s = r

\* With one thread to a process, the frame at the bottom of its stack holds the
\* mask it chose; with no frame, the process has it.
Kept(f, p) == /\ SIGKILL \notin p.chosen /\ SIGKILL \notin p.mask
              /\ f = <<>> => p.mask = p.chosen
              /\ f # <<>> => f[1].mask = p.chosen

Masks(k) ==
  Single => /\ \A t, u \in Tasks(k) : k.tasks[t].as = k.tasks[u].as => t = u
            /\ \A t \in Tasks(k), s \in Slots :
                 Live(k, t) /\ Owns(k, s, k.tasks[t].as) => Kept(k.tasks[t].frames, k.procs[s])

\* With no signals, whoever waits on a thread's word waits for a thread of its
\* own process that will still clear it.
Rightly(k, t, w) ==
  \A u \in Nat : TidKey(u) \in w =>
    /\ u \in Tasks(k) /\ Live(k, u) /\ k.tasks[u].as = k.tasks[t].as
    /\ k.tasks[u].clear /\ ~k.tasks[u].cleared

\* The word of a thread that is over is cleared while its process has others.
Cleared(k) ==
  \A t, u \in Tasks(k) :
    ~Live(k, t) /\ Live(k, u) /\ k.tasks[t].as = k.tasks[u].as /\ k.tasks[t].clear
      => k.tasks[t].cleared

Joining(k) ==
  Quiet => /\ \A s \in Slots : k.procs[s].pending = {}
           /\ Cleared(k)
           /\ \A t \in Tasks(k) : k.tasks[t].st = "blocked" => Rightly(k, t, k.tasks[t].wait)
           /\ k.current # 0 => Rightly(k, k.current, k.idle.wait)

Core(k) == /\ k \in State /\ Len(k.tasks) <= MaxTasks /\ k.current \in Tasks(k) \cup {0}
           /\ Homes(k) /\ Numbered(k) /\ Masks(k) /\ Joining(k)

\* Exactly the current task runs, or the run is over and so is everybody.
Runs(k) ==
  /\ k.current # 0 => \A t \in Tasks(k) : k.tasks[t].st = "running" <=> t = k.current
  /\ k.current = 0 => \A t \in Tasks(k) : k.tasks[t].st = "zombie"

Good(k) == Core(k) /\ Runs(k)

LEMMA Becoming == ASSUME NEW k, Becomes(k), Good(k) PROVE Good(Kernel)'
<1>1. k = [tasks |-> k.tasks, procs |-> k.procs, current |-> k.current, slice |-> k.slice,
           idle |-> k.idle, lastPid |-> k.lastPid]
  BY Zenon DEF Good, Core, State
<1>2. Kernel' = k
  BY <1>1, Zenon DEF Kernel, Becomes
<1> QED
  BY <1>2, SMTT(30) DEF Good, Core, Runs, Homes, Numbered, Masks, Joining, Cleared, Rightly, Kept, Owns, Live, Tasks

-----------------------------------------------------------------------------
(* The scheduler.                                                          *)

LEMMA LeastIs ==
  ASSUME NEW T, T \subseteq Nat, T # {}
  PROVE  Least(T) \in T /\ \A y \in T : Least(T) <= y
<1> DEFINE R == OpToRel(<, Nat)
<1>1. IsWellFoundedOn(R, Nat)
  BY NatLessThanWellFounded, Zenon
<1>2. \A x, y \in Nat : (<<y, x>> \in R) <=> y < x
  BY Zenon DEF OpToRel
<1> HIDE DEF R
<1>3. PICK x \in T : \A y \in T : ~(<<y, x>> \in R)
  BY <1>1, WFMin, Zenon
<1>4. ASSUME NEW y \in T PROVE x <= y
  <2>1. ~(y < x)
    BY <1>2, <1>3, Zenon
  <2> QED
    BY <2>1
<1> QED
  BY <1>4, Zenon DEF Least

LEMMA Wraps ==
  ASSUME NEW n \in Nat \ {0}, NEW x \in Int
  PROVE  /\ x % n \in 0 .. n - 1
         /\ x \in 0 .. n - 1 => x % n = x /\ (x + n) % n = x
<1>1. x % n \in 0 .. n - 1
  OBVIOUS
<1>2. ASSUME x \in 0 .. n - 1 PROVE x % n = x
  BY <1>2
<1>3. ASSUME x \in 0 .. n - 1 PROVE (x + n) % n = x
  BY <1>3
<1> QED
  BY <1>1, <1>2, <1>3, Zenon

\* A scan from the current task, over every task and at last over itself, finds
\* a task that can run exactly when there is one.
LEMMA ScanIs ==
  ASSUME NEW k, k \in State, k.current \in Tasks(k)
  PROVE  /\ scan_runnable(k) = 0 => \A t \in Tasks(k) : ~Runnable(k, t)
         /\ scan_runnable(k) # 0 => /\ scan_runnable(k) \in Tasks(k)
                                    /\ Runnable(k, scan_runnable(k))
<1> DEFINE n == Len(k.tasks)
           After(o) == ((k.current - 1 + o) % n) + 1
           hits == {o \in 1 .. n : Runnable(k, After(o))}
<1>1. n \in Nat \ {0} /\ k.current \in 1 .. n /\ Tasks(k) = 1 .. n
  BY DEF Tasks, State
<1>2. scan_runnable(k) = IF hits = {} THEN 0 ELSE After(Least(hits))
  BY Zenon DEF scan_runnable
<1> HIDE DEF n
<1>3. ASSUME NEW o \in 1 .. n PROVE After(o) \in 1 .. n
  <2> DEFINE x == k.current - 1 + o
  <2>1. x \in Int
    BY <1>1
  <2> HIDE DEF x
  <2>2. x % n \in 0 .. n - 1
    BY <1>1, <2>1, Wraps, Zenon
  <2> QED
    BY <1>1, <2>2 DEF x
<1>4. ASSUME NEW t \in 1 .. n, Runnable(k, t) PROVE hits # {}
  <2> DEFINE o == IF t > k.current THEN t - k.current ELSE t - k.current + n
             x == t - 1
             y == k.current - 1 + o
  <2>1. o \in 1 .. n /\ x \in 0 .. n - 1 /\ x + 1 = t /\ (y = x \/ y = x + n)
    BY <1>1
  <2> HIDE DEF o, x, y
  <2>2. n \in Nat \ {0} /\ x \in Int
    BY <1>1, <2>1
  <2>3. x % n = x /\ (x + n) % n = x
    BY <2>1, <2>2, Wraps, Zenon
  <2>4. y % n = x
    BY <2>1, <2>3, Zenon
  <2>5. After(o) = t
    BY <2>1, <2>4, Zenon DEF y
  <2> QED
    BY <1>4, <2>1, <2>5, Zenon
<1>5. hits \subseteq Nat
  OBVIOUS
<1> HIDE DEF After
<1>6. ASSUME hits # {} PROVE After(Least(hits)) \in 1 .. n /\ Runnable(k, After(Least(hits)))
  <2>1. Least(hits) \in hits
    BY <1>5, <1>6, LeastIs, Zenon
  <2> QED
    BY <1>3, <2>1, Zenon
<1>7. 0 \notin 1 .. n
  BY <1>1
<1> QED
  BY <1>1, <1>2, <1>4, <1>6, <1>7, Zenon

-----------------------------------------------------------------------------
(* Steps that leave processes and threads what they are.                   *)

SameTask(x, y) == /\ x.as = y.as /\ x.frames = y.frames
                  /\ x.clear = y.clear /\ x.cleared = y.cleared
                  /\ x.st = "zombie" <=> y.st = "zombie"

SameProc(p, q) == /\ p.used = q.used /\ p.pid = q.pid /\ p.exited = q.exited
                  /\ p.mask = q.mask /\ p.chosen = q.chosen
                  /\ Quiet => p.pending \subseteq q.pending

Alike(r, k) ==
  /\ r \in State /\ Tasks(r) = Tasks(k) /\ r.lastPid = k.lastPid
  /\ \A t \in Tasks(k) : SameTask(r.tasks[t], k.tasks[t])
  /\ \A s \in Slots : SameProc(r.procs[s], k.procs[s])
  /\ Quiet => \A t \in Tasks(k) : r.tasks[t].st = "blocked" => Rightly(k, t, r.tasks[t].wait)
  /\ r.current \in Tasks(k) \cup {0}
  /\ Quiet /\ r.current # 0 => Rightly(k, r.current, r.idle.wait)

LEMMA LenTasks == ASSUME NEW k, k \in State
                  PROVE  /\ DOMAIN k.tasks = Tasks(k) /\ Len(k.tasks) \in Nat
                         /\ \A t \in Tasks(k) : k.tasks[t] \in TaskRec /\ t \in Nat \ {0}
  BY DEF State, Tasks

LEMMA SameLen == ASSUME NEW k, k \in State, NEW r, r \in State, Tasks(r) = Tasks(k)
                 PROVE  Len(r.tasks) = Len(k.tasks)
<1>1. Len(r.tasks) \in Nat /\ Len(k.tasks) \in Nat /\ 1 .. Len(r.tasks) = 1 .. Len(k.tasks)
  BY DEF State, Tasks
<1> HIDE DEF State
<1> QED
  BY <1>1

LEMMA AlikeCore == ASSUME NEW k, Core(k), NEW r, Alike(r, k) PROVE Core(r)
<1>0. /\ k \in State /\ r \in State /\ Tasks(r) = Tasks(k) /\ r.lastPid = k.lastPid
      /\ r.current \in Tasks(k) \cup {0}
  BY Zenon DEF Core, Alike
<1>1. Len(r.tasks) <= MaxTasks
  BY <1>0, SameLen, Zenon DEF Core
<1>2. \A t \in Tasks(k) : /\ SameTask(r.tasks[t], k.tasks[t])
                          /\ Live(r, t) <=> Live(k, t)
  BY Zenon DEF Alike, SameTask, Live
<1>3. \A s \in Slots : SameProc(r.procs[s], k.procs[s])
  BY Zenon DEF Alike
<1>4. \A s \in Slots : \A as : Owns(r, s, as) <=> Owns(k, s, as)
  BY <1>3, Zenon DEF SameProc, Owns
<1>5. Homes(r)
  BY <1>0, <1>2, <1>4, Zenon DEF Core, Homes, SameTask
<1>6. Numbered(r)
  BY <1>0, <1>2, <1>3 DEF Core, Numbered, SameTask, SameProc
<1>7. Masks(r)
  BY <1>0, <1>2, <1>3, <1>4 DEF Core, Masks, SameTask, SameProc, Kept
<1>8. ASSUME NEW t \in Tasks(k), NEW w, Rightly(k, t, w) PROVE Rightly(r, t, w)
  BY <1>0, <1>2, <1>8, ZenonT(30) DEF Rightly, SameTask
<1>9. Joining(r)
  <2> SUFFICES ASSUME Quiet
               PROVE  /\ \A s \in Slots : r.procs[s].pending = {}
                      /\ Cleared(r)
                      /\ \A t \in Tasks(r) :
                           r.tasks[t].st = "blocked" => Rightly(r, t, r.tasks[t].wait)
                      /\ r.current # 0 => Rightly(r, r.current, r.idle.wait)
    BY Zenon DEF Joining
  <2>0. Cleared(r)
    BY <1>0, <1>2, ZenonT(30) DEF Core, Joining, Cleared, SameTask
  <2>1. \A s \in Slots : r.procs[s].pending = {}
    BY <1>3, Zenon DEF Core, Joining, SameProc
  <2>2. \A t \in Tasks(r) : r.tasks[t].st = "blocked" => Rightly(r, t, r.tasks[t].wait)
    BY <1>0, <1>8, Zenon DEF Alike
  <2>3. r.current # 0 => Rightly(r, r.current, r.idle.wait)
    BY <1>8, Zenon DEF Alike
  <2> QED
    BY <2>0, <2>1, <2>2, <2>3, Zenon
<1> QED
  BY <1>0, <1>1, <1>5, <1>6, <1>7, <1>9, Zenon DEF Core

\* r has the tasks and the processes of k, whatever else has become of them.
Kindred(r, k) ==
  /\ r \in State /\ Tasks(r) = Tasks(k) /\ r.lastPid = k.lastPid
  /\ r.current \in Tasks(k) \cup {0}
  /\ \A t \in Tasks(k) : r.tasks[t].as = k.tasks[t].as /\ (Live(r, t) <=> Live(k, t))
  /\ \A s \in Slots : /\ r.procs[s].used = k.procs[s].used /\ r.procs[s].pid = k.procs[s].pid
                       /\ r.procs[s].exited = k.procs[s].exited

LEMMA KindredCore ==
  ASSUME NEW k, Core(k), NEW r, Kindred(r, k), Masks(r), Joining(r) PROVE Core(r)
<1>1. Len(r.tasks) <= MaxTasks
  BY SameLen, Zenon DEF Core, Kindred
<1>2. Homes(r)
  BY DEF Core, Homes, Kindred, Owns
<1>3. Numbered(r)
  BY DEF Core, Numbered, Kindred
<1> QED
  BY <1>1, <1>2, <1>3, Zenon DEF Core, Kindred

LEMMA KindredMasks ==
  ASSUME NEW k, Core(k), NEW r, Kindred(r, k),
         Single => \A t \in Tasks(k), s \in Slots :
           Live(k, t) /\ Owns(k, s, k.tasks[t].as) /\ Kept(k.tasks[t].frames, k.procs[s])
             => Kept(r.tasks[t].frames, r.procs[s])
  PROVE  Masks(r)
<1> SUFFICES ASSUME Single
             PROVE  /\ \A t, u \in Tasks(r) : r.tasks[t].as = r.tasks[u].as => t = u
                    /\ \A t \in Tasks(r), s \in Slots :
                         Live(r, t) /\ Owns(r, s, r.tasks[t].as)
                           => Kept(r.tasks[t].frames, r.procs[s])
  BY Zenon DEF Masks
<1>1. \A t, u \in Tasks(r) : r.tasks[t].as = r.tasks[u].as => t = u
  BY Zenon DEF Core, Masks, Kindred
<1>2. ASSUME NEW t \in Tasks(k), NEW s \in Slots, Live(r, t), Owns(r, s, r.tasks[t].as)
      PROVE  Kept(r.tasks[t].frames, r.procs[s])
  <2>1. Live(k, t) /\ Owns(k, s, k.tasks[t].as)
    BY <1>2, Zenon DEF Kindred, Owns
  <2> QED
    BY <2>1, Zenon DEF Core, Masks
<1> QED
  BY <1>1, <1>2, Zenon DEF Kindred

\* r is k with the tasks of T woken.
Woke(r, k, T) ==
  /\ r \in State /\ Tasks(r) = Tasks(k) /\ r.procs = k.procs /\ r.current = k.current
  /\ r.slice = k.slice /\ r.idle = k.idle /\ r.lastPid = k.lastPid
  /\ \A t \in Tasks(k) :
       /\ t \notin T => r.tasks[t] = k.tasks[t]
       /\ t \in T => /\ k.tasks[t].st = "blocked" /\ r.tasks[t].st = "ready"
                     /\ r.tasks[t].wait = {} /\ SameTask(r.tasks[t], k.tasks[t])

LEMMA WakeOneIs ==
  ASSUME NEW x \in TaskRec
  PROVE  /\ wake_one(x) \in TaskRec /\ wake_one(x).st = "ready" /\ wake_one(x).wait = {}
         /\ x.st = "blocked" => SameTask(wake_one(x), x)
<1>1. Never \in Int /\ {} \in SUBSET Keys /\ x.call \in Asked /\ <<>> \in Asked
  BY DEF TaskRec, Never, Asked
<1>2. wake_one(x) \in TaskRec
  BY <1>1, Zenon DEF TaskRec, wake_one
<1>3. /\ wake_one(x).st = "ready" /\ wake_one(x).wait = {}
      /\ x.st = "blocked" => SameTask(wake_one(x), x)
  BY Zenon DEF TaskRec, SameTask, wake_one
<1> QED
  BY <1>2, <1>3, Zenon

LEMMA WakeAllIs ==
  ASSUME NEW k, k \in State, NEW T, T \subseteq Blocked(k)
  PROVE  Woke(WakeAll(k, T), k, T)
<1> DEFINE W(t) == wake_one(k.tasks[t])
           ts == [t \in Tasks(k) |-> IF t \in T THEN W(t) ELSE k.tasks[t]]
           r == [k EXCEPT !.tasks = ts]
<1>1. WakeAll(k, T) = r
  BY LenTasks, Zenon DEF WakeAll
<1>2. ASSUME NEW t \in T
      PROVE  /\ W(t) \in TaskRec /\ W(t).st = "ready" /\ W(t).wait = {}
             /\ k.tasks[t].st = "blocked" /\ SameTask(W(t), k.tasks[t])
  <2>1. k.tasks[t] \in TaskRec /\ k.tasks[t].st = "blocked"
    BY <1>2, LenTasks, Zenon DEF Blocked
  <2> QED
    BY <2>1, WakeOneIs, Zenon
<1> HIDE DEF W
<1>3. \A t \in Tasks(k) : /\ ts[t] \in TaskRec /\ (t \notin T => ts[t] = k.tasks[t])
                          /\ t \in T => ts[t] = W(t)
  BY <1>2, LenTasks, Zenon
<1>4. ts \in Seq(TaskRec) /\ Len(ts) = Len(k.tasks)
  <2>1. Len(k.tasks) \in Nat
    BY LenTasks, Zenon
  <2>2. \A t \in 1 .. Len(k.tasks) : ts[t] \in TaskRec
    BY <1>3, Zenon DEF Tasks
  <2>3. ts = [t \in 1 .. Len(k.tasks) |-> ts[t]]
    BY Zenon DEF Tasks
  <2> HIDE DEF ts
  <2> QED
    BY <2>1, <2>2, <2>3
<1> HIDE DEF ts
<1>5. /\ r \in State /\ r.tasks = ts /\ r.procs = k.procs /\ r.current = k.current
      /\ r.slice = k.slice /\ r.idle = k.idle /\ r.lastPid = k.lastPid
  BY <1>4, Zenon DEF State
<1> HIDE DEF r
<1> QED
  BY <1>1, <1>2, <1>3, <1>4, <1>5, ZenonT(30) DEF Woke, Tasks

LEMMA WokeAlike ==
  ASSUME NEW k, Core(k), NEW r, NEW T, Woke(r, k, T) PROVE Alike(r, k) /\ Core(r)
<1>1. \A t \in Tasks(k) : /\ SameTask(r.tasks[t], k.tasks[t])
                          /\ r.tasks[t].st = "blocked" => r.tasks[t] = k.tasks[t]
  BY Zenon DEF Woke, SameTask
<1>2. \A s \in Slots : SameProc(r.procs[s], k.procs[s])
  BY Zenon DEF Woke, SameProc
<1>3. Alike(r, k)
  BY <1>1, <1>2, Zenon DEF Core, Joining, Woke, Alike
<1> QED
  BY <1>3, AlikeCore, Zenon

\* scheduler_wake_on wakes sleepers, and with no limit all that wait on the key.
Sleepers(k, pd, key) == {t \in Blocked(k) : key \in k.tasks[t].wait /\ pd \in {0, k.tasks[t].as}}

LEMMA WakeOnIs ==
  ASSUME NEW k, k \in State, NEW pd, NEW key, NEW max
  PROVE  \E T \in SUBSET Blocked(k) : Woke(wake_on_common(k, pd, key, max), k, T)
<1> DEFINE rank(t) == Cardinality({u \in Sleepers(k, pd, key) : u < t})
           T == {t \in Sleepers(k, pd, key) : rank(t) < max}
<1>1. wake_on_common(k, pd, key, max) = WakeAll(k, T)
  BY Zenon DEF wake_on_common, Sleepers
<1>2. T \subseteq Blocked(k)
  BY Zenon DEF Sleepers
<1> HIDE DEF T
<1> QED
  BY <1>1, <1>2, WakeAllIs, Zenon

LEMMA WakeOnAll ==
  ASSUME Machine, NEW k, k \in State, Len(k.tasks) <= MaxTasks, NEW pd, NEW key
  PROVE  Woke(wake_on_common(k, pd, key, MaxTasks), k, Sleepers(k, pd, key))
<1> DEFINE rank(t) == Cardinality({u \in Sleepers(k, pd, key) : u < t})
           T == {t \in Sleepers(k, pd, key) : rank(t) < MaxTasks}
<1>1. wake_on_common(k, pd, key, MaxTasks) = WakeAll(k, T)
  BY Zenon DEF wake_on_common, Sleepers
<1>2. ASSUME NEW t \in Sleepers(k, pd, key) PROVE rank(t) < MaxTasks
  <2>1. t \in Nat \ {0} /\ t <= Len(k.tasks) /\ Len(k.tasks) \in Nat
    BY LenTasks DEF Sleepers, Blocked, Tasks
  <2>2. {u \in Sleepers(k, pd, key) : u < t} \subseteq 1 .. (t - 1)
    BY <2>1, LenTasks DEF Sleepers, Blocked, Tasks
  <2>3. IsFiniteSet(1 .. (t - 1)) /\ Cardinality(1 .. (t - 1)) = t - 1
    <3> DEFINE m == t - 1
    <3>1. m \in Nat
      BY <2>1
    <3> HIDE DEF m
    <3>2. IsFiniteSet(1 .. m) /\ Cardinality(1 .. m) = IF 1 > m THEN 0 ELSE m - 1 + 1
      BY <3>1, FS_Interval
    <3>3. Cardinality(1 .. m) = m
      BY <3>1, <3>2
    <3> QED
      BY <3>2, <3>3, Zenon DEF m
  <2>4. rank(t) <= t - 1 /\ rank(t) \in Nat
    BY <2>2, <2>3, FS_Subset, FS_CardinalityType
  <2> HIDE DEF rank
  <2> QED
    BY <2>1, <2>4 DEF Machine
<1>3. T = Sleepers(k, pd, key)
  BY <1>2, Zenon
<1>4. T \subseteq Blocked(k)
  BY Zenon DEF Sleepers
<1> HIDE DEF T
<1> QED
  BY <1>1, <1>3, <1>4, WakeAllIs, Zenon

LEMMA SeqUpdate ==
  ASSUME NEW S, NEW q \in Seq(S), NEW i \in 1 .. Len(q), NEW x \in S
  PROVE  /\ [q EXCEPT ![i] = x] \in Seq(S) /\ Len([q EXCEPT ![i] = x]) = Len(q)
         /\ [q EXCEPT ![i] = x][i] = x
         /\ \A j \in (1 .. Len(q)) \ {i} : [q EXCEPT ![i] = x][j] = q[j]
<1>1. Len(q) \in Nat /\ q \in [1 .. Len(q) -> S]
  OBVIOUS
<1>2. [q EXCEPT ![i] = x] \in [1 .. Len(q) -> S]
  BY <1>1, Zenon
<1> QED
  BY <1>1, <1>2

LEMMA NotIdleIs == NotIdle \in IdleRec /\ NotIdle.wait = {}
  BY DEF NotIdle, IdleRec, Never

\* r is k with the CPU given to n.
Switched(r, k, n) ==
  /\ r \in State /\ Tasks(r) = Tasks(k) /\ r.procs = k.procs /\ r.current = n
  /\ r.slice = k.slice /\ r.idle = NotIdle /\ r.lastPid = k.lastPid
  /\ \A t \in Tasks(k) \ {n} : r.tasks[t] = k.tasks[t]
  /\ r.tasks[n] = [k.tasks[n] EXCEPT !.st = "running"]

LEMMA SwitchIs ==
  ASSUME NEW k, k \in State, NEW n \in Tasks(k) PROVE Switched(switch_to(k, n), k, n)
<1> DEFINE x == [k.tasks[n] EXCEPT !.st = "running"]
           ts == [k.tasks EXCEPT ![n] = x]
           r == [k EXCEPT !.current = n, !.tasks = ts, !.idle = NotIdle]
<1>1. switch_to(k, n) = r
  BY Zenon DEF switch_to, State
<1>2. x \in TaskRec
  BY LenTasks, SMTT(30) DEF TaskRec
<1> HIDE DEF x
<1>3. ts \in Seq(TaskRec) /\ Len(ts) = Len(k.tasks)
  BY <1>2, SeqUpdate DEF State, Tasks
<1>4. ts[n] = x /\ \A t \in Tasks(k) \ {n} : ts[t] = k.tasks[t]
  BY LenTasks, Zenon
<1> HIDE DEF ts
<1>5. n \in Nat
  BY LenTasks, Zenon
<1>6. /\ r \in State /\ r.tasks = ts /\ r.procs = k.procs /\ r.current = n
      /\ r.slice = k.slice /\ r.idle = NotIdle /\ r.lastPid = k.lastPid
  BY <1>3, <1>5, NotIdleIs, Zenon DEF State
<1> HIDE DEF r
<1> QED
  BY <1>1, <1>3, <1>4, <1>6, Zenon DEF Switched, Tasks, x

LEMMA SwitchGood ==
  ASSUME NEW k, Core(k), NEW n \in Tasks(k), Runnable(k, n),
         \A t \in Tasks(k) \ {n} : k.tasks[t].st # "running"
  PROVE  Good(switch_to(k, n))
<1> DEFINE r == switch_to(k, n)
<1>1. Switched(r, k, n)
  BY SwitchIs, Zenon DEF Core
<1> HIDE DEF r
<1>2. k.tasks[n] \in TaskRec /\ n # 0
  BY LenTasks, Zenon DEF Core
<1>3. r.tasks[n].st = "running" /\ SameTask(r.tasks[n], k.tasks[n])
  BY <1>1, <1>2, Zenon DEF Switched, SameTask, TaskRec, Runnable
<1>4. \A t \in Tasks(k) : /\ SameTask(r.tasks[t], k.tasks[t])
                          /\ r.tasks[t].st = "blocked" => r.tasks[t] = k.tasks[t]
                          /\ r.tasks[t].st = "running" <=> t = n
  BY <1>1, <1>3, ZenonT(60) DEF Switched, SameTask
<1>5. \A s \in Slots : SameProc(r.procs[s], k.procs[s])
  BY <1>1, Zenon DEF Switched, SameProc
<1>6. Rightly(k, n, r.idle.wait)
  BY <1>1, NotIdleIs, Zenon DEF Switched, Rightly
<1>7. Alike(r, k)
  BY <1>1, <1>4, <1>5, <1>6, Zenon DEF Core, Joining, Switched, Alike
<1>8. Runs(r)
  BY <1>1, <1>2, <1>4, Zenon DEF Switched, Runs
<1> QED
  BY <1>7, <1>8, AlikeCore, Zenon DEF Good, r

\* r is k with task t made x and s for its slice.
PutTask(k, t, x) == [k EXCEPT !.tasks = [k.tasks EXCEPT ![t] = x]]
TaskPut(r, k, t, x) ==
  /\ r \in State /\ Tasks(r) = Tasks(k) /\ r.procs = k.procs /\ r.current = k.current
  /\ r.idle = k.idle /\ r.lastPid = k.lastPid
  /\ r.tasks[t] = x /\ \A u \in Tasks(k) \ {t} : r.tasks[u] = k.tasks[u]

LEMMA PutTaskIs ==
  ASSUME NEW k, k \in State, NEW t \in Tasks(k), NEW x \in TaskRec
  PROVE  /\ TaskPut(PutTask(k, t, x), k, t, x) /\ PutTask(k, t, x).slice = k.slice
         /\ \A s \in Nat : TaskPut([PutTask(k, t, x) EXCEPT !.slice = s], k, t, x)
<1> DEFINE ts == [k.tasks EXCEPT ![t] = x]
           r == [k EXCEPT !.tasks = ts]
<1>1. /\ ts \in Seq(TaskRec) /\ Len(ts) = Len(k.tasks) /\ ts[t] = x
      /\ \A u \in Tasks(k) \ {t} : ts[u] = k.tasks[u]
  BY SeqUpdate DEF State, Tasks
<1> HIDE DEF ts
<1>2. /\ r \in State /\ r.tasks = ts /\ r.procs = k.procs /\ r.current = k.current
      /\ r.slice = k.slice /\ r.idle = k.idle /\ r.lastPid = k.lastPid
  BY <1>1, Zenon DEF State
<1>3. PutTask(k, t, x) = r
  BY Zenon DEF PutTask, ts
<1>4. TaskPut(r, k, t, x)
  BY <1>1, <1>2, Zenon DEF TaskPut, Tasks
<1> HIDE DEF r
<1>5. ASSUME NEW s \in Nat PROVE TaskPut([r EXCEPT !.slice = s], k, t, x)
  BY <1>4, Zenon DEF TaskPut, State, Tasks
<1> QED
  BY <1>2, <1>3, <1>4, <1>5, Zenon

\* A change of one task that leaves it what it is.
LEMMA TaskPutAlike ==
  ASSUME NEW k, Core(k), NEW t \in Tasks(k), NEW x \in TaskRec, NEW r, TaskPut(r, k, t, x),
         SameTask(x, k.tasks[t]), Quiet /\ x.st = "blocked" => Rightly(k, t, x.wait)
  PROVE  Alike(r, k) /\ Core(r)
<1>1. \A u \in Tasks(k) : SameTask(r.tasks[u], k.tasks[u])
  BY Zenon DEF TaskPut, SameTask
<1>2. \A s \in Slots : SameProc(r.procs[s], k.procs[s])
  BY Zenon DEF TaskPut, SameProc
<1>3. ASSUME Quiet, NEW u \in Tasks(k), r.tasks[u].st = "blocked"
      PROVE  Rightly(k, u, r.tasks[u].wait)
  BY <1>3, Zenon DEF TaskPut, Core, Joining
<1>4. Alike(r, k)
  BY <1>1, <1>2, <1>3, Zenon DEF Core, Joining, TaskPut, Alike
<1> QED
  BY <1>4, AlikeCore, Zenon

LEMMA OtherIs ==
  ASSUME NEW k, k \in State, k.current \in Tasks(k), OtherRunnable(k)
  PROVE  /\ scan_runnable(k) \in Tasks(k) \ {k.current}
         /\ Runnable(k, scan_runnable(k))
  BY ScanIs, Zenon DEF OtherRunnable

\* scheduler_block: the caller sleeps and another task has the CPU.
LEMMA BlockGood ==
  ASSUME Machine, NEW k, Good(k), k.current # 0, OtherRunnable(k), NEW w \in SUBSET Keys,
         NEW left \in Int, NEW retry \in BOOLEAN, Quiet => Rightly(k, k.current, w)
  PROVE  Good(block_common(k, w, left, retry))
<1> DEFINE me == k.current
           n == scan_runnable(k)
           x == [k.tasks[me] EXCEPT !.wait = w, !.left = left, !.retry = retry, !.st = "blocked"]
           r == [PutTask(k, me, x) EXCEPT !.slice = Slice]
<1>1. k \in State /\ me \in Tasks(k) /\ k.tasks[me] \in TaskRec /\ k.tasks[me].st = "running"
  BY LenTasks, Zenon DEF Good, Core, Runs
<1>2. n \in Tasks(k) \ {me} /\ Runnable(k, n)
  BY <1>1, OtherIs, Zenon
<1>3. block_common(k, w, left, retry) = switch_to(r, n)
  BY <1>1, Zenon DEF block_common, PutTask, State
<1>4. x \in TaskRec /\ SameTask(x, k.tasks[me]) /\ x.st = "blocked" /\ x.wait = w
  BY <1>1, Zenon DEF TaskRec, SameTask
<1> HIDE DEF x, n
<1>5. TaskPut(r, k, me, x)
  BY <1>1, <1>4, PutTaskIs, Zenon DEF Machine
<1> HIDE DEF r
<1>6. Core(r)
  BY <1>1, <1>4, <1>5, TaskPutAlike, Zenon DEF Good
<1>7. /\ n \in Tasks(r) /\ Runnable(r, n)
      /\ \A t \in Tasks(r) \ {n} : r.tasks[t].st # "running"
  BY <1>1, <1>2, <1>4, <1>5, ZenonT(30) DEF TaskPut, Runnable, Good, Runs
<1> QED
  BY <1>3, <1>6, <1>7, SwitchGood, Zenon

\* A task that stays runnable gives the CPU away, to n or back to itself.
LEMMA GiveGood ==
  ASSUME Machine, NEW k, Good(k), k.current # 0, NEW n \in Tasks(k), Runnable(k, n)
  PROVE  Good(switch_to([k EXCEPT !.tasks[k.current].st = "ready", !.slice = Slice], n))
<1> DEFINE me == k.current
           x == [k.tasks[me] EXCEPT !.st = "ready"]
           r == [PutTask(k, me, x) EXCEPT !.slice = Slice]
<1>1. k \in State /\ me \in Tasks(k) /\ k.tasks[me] \in TaskRec /\ k.tasks[me].st = "running"
  BY LenTasks, Zenon DEF Good, Core, Runs
<1>2. [k EXCEPT !.tasks[k.current].st = "ready", !.slice = Slice] = r
  BY <1>1, Zenon DEF PutTask, State
<1>3. x \in TaskRec /\ SameTask(x, k.tasks[me]) /\ x.st = "ready"
  BY <1>1, Zenon DEF TaskRec, SameTask
<1> HIDE DEF x
<1>4. TaskPut(r, k, me, x)
  BY <1>1, <1>3, PutTaskIs, Zenon DEF Machine
<1> HIDE DEF r
<1>5. Core(r)
  BY <1>1, <1>3, <1>4, TaskPutAlike, Zenon DEF Good
<1>6. /\ n \in Tasks(r) /\ Runnable(r, n)
      /\ \A t \in Tasks(r) \ {n} : r.tasks[t].st # "running"
  BY <1>1, <1>3, <1>4 DEF TaskPut, Runnable, Good, Runs
<1> QED
  BY <1>2, <1>5, <1>6, SwitchGood, Zenon

LEMMA YieldGood ==
  ASSUME Machine, NEW k, Good(k), k.current # 0 PROVE Good(yield_from_trap(k))
<1>1. ASSUME OtherRunnable(k) PROVE scan_runnable(k) \in Tasks(k) /\ Runnable(k, scan_runnable(k))
  BY <1>1, OtherIs, Zenon DEF Good, Core
<1> QED
  BY <1>1, GiveGood, Zenon DEF yield_from_trap

\* A task that is over leaves the CPU to one that can run, the sleepers being
\* woken if there is none, or nobody is left.
LEMMA LeaveGood ==
  ASSUME NEW k, Core(k), k.current \in Tasks(k),
         \A t \in Tasks(k) : k.tasks[t].st # "running"
  PROVE  Good(LeaveCpu(k))
<1> DEFINE w == IF scan_runnable(k) = 0 THEN wake_every_blocked(k) ELSE k
           n == scan_runnable(w)
<1>1. /\ Core(w) /\ Tasks(w) = Tasks(k) /\ w.current = k.current
      /\ \A t \in Tasks(k) : /\ w.tasks[t].st # "running"
                             /\ scan_runnable(k) = 0 => w.tasks[t].st # "blocked"
  <2>1. CASE scan_runnable(k) = 0
    <3>1. Woke(w, k, Blocked(k))
      BY <2>1, WakeAllIs, Zenon DEF wake_every_blocked, Core
    <3> HIDE DEF w
    <3>2. Core(w)
      BY <3>1, WokeAlike, Zenon
    <3>3. \A t \in Tasks(k) : w.tasks[t].st # "running" /\ w.tasks[t].st # "blocked"
      BY <3>1, LenTasks, Zenon DEF Woke, Blocked, Core
    <3> QED
      BY <3>1, <3>2, <3>3, Zenon DEF Woke
  <2>2. CASE scan_runnable(k) # 0
    BY <2>2, Zenon
  <2> QED
    BY <2>1, <2>2, Zenon
<1>2. LeaveCpu(k) = IF n = 0 THEN [w EXCEPT !.current = 0, !.idle = NotIdle] ELSE switch_to(w, n)
  BY Zenon DEF LeaveCpu
<1>3. CASE n # 0
  <2> HIDE DEF w
  <2>1. n \in Tasks(w) /\ Runnable(w, n)
    BY <1>1, <1>3, ScanIs, Zenon DEF Core
  <2> HIDE DEF n
  <2> QED
    BY <1>1, <1>2, <1>3, <2>1, SwitchGood, Zenon
<1>4. CASE n = 0
  <2>1. scan_runnable(k) = 0
    BY <1>4, Zenon
  <2> HIDE DEF w
  <2>2. \A t \in Tasks(w) : w.tasks[t].st = "zombie"
    <3>1. \A t \in Tasks(w) : ~Runnable(w, t)
      BY <1>1, <1>4, ScanIs, Zenon DEF Core
    <3>2. \A t \in Tasks(w) : w.tasks[t].st \in {"ready", "running", "blocked", "zombie"}
      BY <1>1, LenTasks, Zenon DEF Core, TaskRec
    <3> QED
      BY <1>1, <2>1, <3>1, <3>2, Zenon DEF Runnable
  <2> DEFINE r == [w EXCEPT !.current = 0, !.idle = NotIdle]
  <2>3. /\ r \in State /\ r.tasks = w.tasks /\ r.procs = w.procs /\ r.current = 0
        /\ r.lastPid = w.lastPid
    BY <1>1, NotIdleIs, Zenon DEF State, Core
  <2> HIDE DEF r
  <2>4. Alike(r, w)
    BY <2>2, <2>3, Zenon DEF Alike, SameTask, SameProc, Tasks
  <2>5. Runs(r)
    BY <2>2, <2>3, Zenon DEF Runs, Tasks
  <2> QED
    BY <1>1, <1>2, <1>4, <2>4, <2>5, AlikeCore, Zenon DEF Good, r
<1> QED
  BY <1>3, <1>4, Zenon

-----------------------------------------------------------------------------
(* Processes that end.                                                     *)

\* posix_current(): the process of a task that is not over is found, and it is
\* the only one of that number.
LEMMA SlotIs ==
  ASSUME NEW k, Core(k), NEW t \in Tasks(k), Live(k, t)
  PROVE  LET s == SlotOf(k, k.tasks[t].as)
         IN /\ s \in Slots /\ Owns(k, s, k.tasks[t].as)
            /\ \A q \in Slots : k.procs[q].used /\ k.procs[q].pid = k.tasks[t].as => q = s
<1>1. DOMAIN k.procs = Slots
  BY Zenon DEF Core, State
<1>2. PICK q \in Slots : Owns(k, q, k.tasks[t].as)
  BY Zenon DEF Core, Homes
<1> DEFINE s == SlotOf(k, k.tasks[t].as)
<1>3. s \in Slots /\ Owns(k, s, k.tasks[t].as)
  BY <1>1, <1>2, Zenon DEF SlotOf, Owns
<1> QED
  BY <1>3, Zenon DEF Core, Numbered, Owns

LEMMA MySlotIs ==
  ASSUME NEW k, Good(k), k.current # 0
  PROVE  /\ k.current \in Tasks(k) /\ Live(k, k.current) /\ Me(k) = k.tasks[k.current]
         /\ Me(k) \in TaskRec /\ Me(k).st = "running"
         /\ MySlot(k) \in Slots /\ Owns(k, MySlot(k), Me(k).as)
         /\ \A q \in Slots : k.procs[q].used /\ k.procs[q].pid = Me(k).as => q = MySlot(k)
<1>1. /\ k.current \in Tasks(k) /\ Live(k, k.current) /\ Me(k) = k.tasks[k.current]
      /\ k.tasks[k.current] \in TaskRec /\ k.tasks[k.current].st = "running"
  BY LenTasks, Zenon DEF Good, Core, Runs, Me, Live
<1> QED
  BY <1>1, SlotIs DEF MySlot, Good

PutProc(k, s, p) == [k EXCEPT !.procs = [k.procs EXCEPT ![s] = p]]
ProcPut(r, k, s, p) ==
  /\ r \in State /\ r.tasks = k.tasks /\ r.current = k.current /\ r.slice = k.slice
  /\ r.idle = k.idle /\ r.lastPid = k.lastPid
  /\ r.procs[s] = p /\ \A q \in Slots \ {s} : r.procs[q] = k.procs[q]

LEMMA PutProcIs ==
  ASSUME NEW k, k \in State, NEW s \in Slots, NEW p \in ProcRec
  PROVE  ProcPut(PutProc(k, s, p), k, s, p)
<1> DEFINE ps == [k.procs EXCEPT ![s] = p]
<1>1. ps \in [Slots -> ProcRec] /\ ps[s] = p /\ \A q \in Slots \ {s} : ps[q] = k.procs[q]
  BY Zenon DEF State
<1>2. PutProc(k, s, p) = [k EXCEPT !.procs = ps]
  BY Zenon DEF PutProc
<1> HIDE DEF ps
<1> QED
  BY <1>1, <1>2, Zenon DEF ProcPut, State

\* A task that is as it was, or was asleep and is awake.
Loose(x, y) == x = y \/ (y.st = "blocked" /\ x.st = "ready" /\ x.wait = {} /\ SameTask(x, y))

Freed(r, k) ==
  /\ r \in State /\ Tasks(r) = Tasks(k) /\ r.current = k.current /\ r.idle = k.idle
  /\ r.lastPid = k.lastPid
  /\ \A t \in Tasks(k) : Loose(r.tasks[t], k.tasks[t])
  /\ \A s \in Slots : SameProc(r.procs[s], k.procs[s]) /\ r.procs[s].ppid = k.procs[s].ppid

LEMMA WokeFreed ==
  ASSUME NEW k, NEW r, NEW T, Woke(r, k, T) PROVE Freed(r, k)
<1>1. \A t \in Tasks(k) : Loose(r.tasks[t], k.tasks[t])
  BY Zenon DEF Woke, Loose
<1> QED
  BY <1>1, Zenon DEF Woke, Freed, SameProc

LEMMA FreedFreed ==
  ASSUME NEW k, NEW r, NEW f, Freed(r, k), Freed(f, r) PROVE Freed(f, k)
<1>1. \A t \in Tasks(k) : Loose(f.tasks[t], k.tasks[t])
  BY SMTT(30) DEF Freed, Loose, SameTask
<1>2. \A s \in Slots : SameProc(f.procs[s], k.procs[s]) /\ f.procs[s].ppid = k.procs[s].ppid
  BY DEF Freed, SameProc
<1> QED
  BY <1>1, <1>2, Zenon DEF Freed

LEMMA FreedGood ==
  ASSUME NEW k, Good(k), NEW r, Freed(r, k) PROVE Good(r)
<1>1. \A t \in Tasks(k) : /\ SameTask(r.tasks[t], k.tasks[t])
                          /\ r.tasks[t].st = "blocked" => r.tasks[t] = k.tasks[t]
                          /\ r.tasks[t].st = "running" <=> k.tasks[t].st = "running"
                          /\ r.tasks[t].st = "zombie" <=> k.tasks[t].st = "zombie"
  BY Zenon DEF Freed, Loose, SameTask
<1>2. Alike(r, k)
  BY <1>1, Zenon DEF Good, Core, Joining, Freed, Alike
<1>3. Runs(r)
  BY <1>1, ZenonT(30) DEF Good, Runs, Freed
<1> QED
  BY <1>2, <1>3, AlikeCore, Zenon DEF Good

LEMMA VforkFrees ==
  ASSUME NEW k, k \in State, NEW s \in Slots PROVE Freed(vfork_release(k, s), k)
<1>1. Freed(k, k)
  BY Zenon DEF Freed, Loose, SameProc
<1> DEFINE p == [k.procs[s] EXCEPT !.vforkParent = 0]
           r == PutProc(k, s, p)
<1>2. p \in ProcRec /\ SameProc(p, k.procs[s]) /\ p.ppid = k.procs[s].ppid
  BY ZenonT(30) DEF State, ProcRec, SameProc
<1>3. [k EXCEPT !.procs[s].vforkParent = 0] = r
  BY Zenon DEF PutProc, State
<1> HIDE DEF p
<1>4. ProcPut(r, k, s, p)
  BY <1>2, PutProcIs, Zenon
<1> HIDE DEF r
<1>5. Freed(r, k)
  BY <1>2, <1>4, Zenon DEF ProcPut, Freed, Tasks, Loose, SameProc
<1>6. Freed(wake_on_common(r, 0, ProcKey(s), 1), k)
  BY <1>4, <1>5, WakeOnIs, WokeFreed, FreedFreed, Zenon DEF ProcPut
<1> QED
  BY <1>1, <1>3, <1>6, Zenon DEF vfork_release

\* r is k with the process of slot s over.
Ended(r, k, s) ==
  /\ r \in State /\ Tasks(r) = Tasks(k) /\ r.current = k.current /\ r.idle = k.idle
  /\ r.lastPid = k.lastPid
  /\ \A t \in Tasks(k) : Loose(r.tasks[t], k.tasks[t])
  /\ \A q \in Slots \ {s} : SameProc(r.procs[q], k.procs[q])
  /\ r.procs[s].exited /\ SameProc([r.procs[s] EXCEPT !.exited = k.procs[s].exited], k.procs[s])

LEMMA EndedFreed ==
  ASSUME NEW k, k \in State, NEW s \in Slots, NEW r, Ended(r, k, s), NEW f, Freed(f, r)
  PROVE  Ended(f, k, s)
<1>1. \A t \in Tasks(k) : Loose(f.tasks[t], k.tasks[t])
  BY DEF Freed, Ended, Loose, SameTask
<1>2. \A q \in Slots \ {s} : SameProc(f.procs[q], k.procs[q])
  BY DEF Freed, Ended, SameProc
<1>3. f.procs[s].exited /\ SameProc([f.procs[s] EXCEPT !.exited = k.procs[s].exited], k.procs[s])
  <2>1. f.procs[s] \in ProcRec /\ r.procs[s] \in ProcRec /\ SameProc(f.procs[s], r.procs[s])
    BY Zenon DEF Freed, Ended, State
  <2> QED
    BY <2>1, Zenon DEF Ended, SameProc, ProcRec
<1> QED
  BY <1>1, <1>2, <1>3, Zenon DEF Ended, Freed

LEMMA EndIs ==
  ASSUME NEW k, Good(k), k.current # 0 PROVE Ended(EndProcess(k), k, MySlot(k))
<1> DEFINE s == MySlot(k)
           freed == vfork_release(k, s)
           p == [freed.procs[s] EXCEPT !.exited = TRUE]
           gone == [freed EXCEPT !.procs[s].exited = TRUE]
           parents == SlotsOfPid(gone, gone.procs[s].ppid)
<1>0. EndProcess(k) = IF parents = {} THEN gone
                      ELSE wake_on_common(gone, 0, ProcKey(Least(parents)), 1)
  BY Zenon DEF EndProcess
<1> HIDE DEF parents
<1>1. s \in Slots /\ k \in State
  BY MySlotIs, Zenon DEF Good, Core
<1> HIDE DEF s
<1>2. Freed(freed, k)
  BY <1>1, VforkFrees, Zenon
<1> HIDE DEF freed
<1>3. p \in ProcRec /\ p.exited /\ SameProc([p EXCEPT !.exited = k.procs[s].exited], k.procs[s])
  <2>1. freed.procs[s] \in ProcRec /\ SameProc(freed.procs[s], k.procs[s])
    BY <1>1, <1>2, Zenon DEF Freed, State
  <2> QED
    BY <2>1, Zenon DEF ProcRec, SameProc
<1>4. gone = PutProc(freed, s, p)
  BY <1>2, Zenon DEF PutProc, State, Freed
<1> HIDE DEF p, gone
<1>5. ProcPut(gone, freed, s, p)
  BY <1>1, <1>2, <1>3, <1>4, PutProcIs, Zenon DEF Freed
<1>6. Ended(gone, k, s)
  BY <1>1, <1>2, <1>3, <1>5, Zenon DEF Ended, ProcPut, Freed, Tasks
<1>7. ASSUME NEW key PROVE Ended(wake_on_common(gone, 0, key, 1), k, s)
  BY <1>1, <1>6, WakeOnIs, WokeFreed, EndedFreed, ZenonT(30) DEF Ended
<1>8. Ended(EndProcess(k), k, s)
  BY <1>0, <1>6, <1>7, Zenon
<1> QED
  BY <1>8, Zenon DEF s

SameWord(x, y) == x.clear = y.clear /\ x.cleared = y.cleared

\* f is k with the tasks of T over, and with processes over that had no other.
Fallen(f, k, T) ==
  /\ f \in State /\ Tasks(f) = Tasks(k) /\ f.current = k.current /\ f.idle = NotIdle
  /\ f.lastPid = k.lastPid
  /\ \A t \in Tasks(k) : /\ f.tasks[t].as = k.tasks[t].as /\ SameWord(f.tasks[t], k.tasks[t])
                         /\ t \in T => f.tasks[t].st = "zombie"
                         /\ t \notin T => Loose(f.tasks[t], k.tasks[t])
  /\ \A s \in Slots :
       LET p == f.procs[s]
           q == k.procs[s]
       IN /\ p.used = q.used /\ p.pid = q.pid /\ p.mask = q.mask /\ p.chosen = q.chosen
          /\ Quiet => p.pending \subseteq q.pending
          /\ \/ p.exited = q.exited
             \/ p.exited /\ \A t \in Tasks(k) : Live(k, t) /\ k.tasks[t].as = q.pid => t \in T

\* Nobody that stays waits, or will wait, for one that goes.
Unawaited(f, k, T) ==
  \A t \in Tasks(k) \ T, u \in T :
    /\ f.tasks[t].st = "blocked" => TidKey(u) \notin k.tasks[t].wait
    /\ Live(k, t) /\ k.tasks[t].as = k.tasks[u].as /\ k.tasks[u].clear => k.tasks[u].cleared

LEMMA FallenGood ==
  ASSUME NEW k, Good(k), k.current # 0, NEW T, T \subseteq Tasks(k), k.current \in T, NEW f,
         Fallen(f, k, T), Quiet => Unawaited(f, k, T)
  PROVE  Good(LeaveCpu(f))
<1>0. /\ k \in State /\ f \in State /\ Tasks(f) = Tasks(k) /\ f.lastPid = k.lastPid
      /\ f.current = k.current /\ k.current \in Tasks(k)
  BY MySlotIs, Zenon DEF Good, Core, Fallen
<1>1. Len(f.tasks) <= MaxTasks
  BY <1>0, SameLen, Zenon DEF Good, Core
<1>2. \A t \in Tasks(k) : /\ f.tasks[t].as = k.tasks[t].as
                          /\ Live(f, t) => t \notin T /\ Live(k, t)
                          /\ t \notin T => SameTask(f.tasks[t], k.tasks[t])
                          /\ f.tasks[t].st = "blocked" => f.tasks[t] = k.tasks[t]
  BY Zenon DEF Fallen, Loose, Live, SameTask
<1>3. ASSUME NEW t \in Tasks(k) \ T, Live(k, t), NEW s \in Slots
      PROVE  Owns(f, s, k.tasks[t].as) <=> Owns(k, s, k.tasks[t].as)
  <2>1. /\ f.procs[s].used = k.procs[s].used /\ f.procs[s].pid = k.procs[s].pid
        /\ \/ f.procs[s].exited = k.procs[s].exited
           \/ \A u \in Tasks(k) : Live(k, u) /\ k.tasks[u].as = k.procs[s].pid => u \in T
    BY Zenon DEF Fallen
  <2> QED
    BY <1>3, <2>1, Zenon DEF Owns
<1>4. Homes(f)
  BY <1>0, <1>2, <1>3, Zenon DEF Good, Core, Homes
<1>5. \A s \in Slots : /\ f.procs[s].used = k.procs[s].used /\ f.procs[s].pid = k.procs[s].pid
                       /\ f.procs[s].mask = k.procs[s].mask /\ f.procs[s].chosen = k.procs[s].chosen
                       /\ Quiet => f.procs[s].pending \subseteq k.procs[s].pending
  BY Zenon DEF Fallen
<1>6. Numbered(f)
  BY <1>0, <1>2, <1>5, SMTT(30) DEF Good, Core, Numbered
<1>7. Masks(f)
  <2> SUFFICES ASSUME Single
               PROVE  /\ \A t, u \in Tasks(f) : f.tasks[t].as = f.tasks[u].as => t = u
                      /\ \A t \in Tasks(f), s \in Slots :
                           Live(f, t) /\ Owns(f, s, f.tasks[t].as)
                             => Kept(f.tasks[t].frames, f.procs[s])
    BY Zenon DEF Masks
  <2>1. \A t, u \in Tasks(f) : f.tasks[t].as = f.tasks[u].as => t = u
    BY <1>0, <1>2, Zenon DEF Good, Core, Masks
  <2>2. ASSUME NEW t \in Tasks(k), NEW s \in Slots, Live(f, t), Owns(f, s, f.tasks[t].as)
        PROVE  Kept(f.tasks[t].frames, f.procs[s])
    <3>1. t \notin T /\ Live(k, t) /\ f.tasks[t].as = k.tasks[t].as
          /\ f.tasks[t].frames = k.tasks[t].frames
      BY <1>2, <2>2, Zenon DEF SameTask
    <3>2. Owns(k, s, k.tasks[t].as)
      BY <1>3, <2>2, <3>1, Zenon
    <3>3. Kept(k.tasks[t].frames, k.procs[s])
      BY <3>1, <3>2, Zenon DEF Good, Core, Masks
    <3> QED
      BY <1>5, <3>1, <3>3, Zenon DEF Kept
  <2> QED
    BY <1>0, <2>1, <2>2, Zenon
<1>8. Joining(f)
  <2> SUFFICES ASSUME Quiet
               PROVE  /\ \A s \in Slots : f.procs[s].pending = {}
                      /\ Cleared(f)
                      /\ \A t \in Tasks(f) :
                           f.tasks[t].st = "blocked" => Rightly(f, t, f.tasks[t].wait)
                      /\ f.current # 0 => Rightly(f, f.current, f.idle.wait)
    BY Zenon DEF Joining
  <2>1. \A s \in Slots : f.procs[s].pending = {}
    BY <1>5, Zenon DEF Good, Core, Joining
  <2>2. ASSUME NEW t \in Tasks(f), f.tasks[t].st = "blocked"
        PROVE  Rightly(f, t, f.tasks[t].wait)
    <3>1. t \in Tasks(k) \ T /\ f.tasks[t] = k.tasks[t]
      BY <1>0, <1>2, <2>2, Zenon DEF Live
    <3>2. Rightly(k, t, k.tasks[t].wait)
      BY <2>2, <3>1, Zenon DEF Good, Core, Joining
    <3>3. ASSUME NEW u \in Nat, TidKey(u) \in k.tasks[t].wait
          PROVE  /\ u \in Tasks(f) /\ Live(f, u) /\ f.tasks[u].as = f.tasks[t].as
                 /\ f.tasks[u].clear /\ ~f.tasks[u].cleared
      <4>1. /\ u \in Tasks(k) /\ Live(k, u) /\ k.tasks[u].as = k.tasks[t].as
            /\ k.tasks[u].clear /\ ~k.tasks[u].cleared
        BY <3>2, <3>3, Zenon DEF Rightly
      <4>2. u \notin T
        BY <2>2, <3>1, <3>3, Zenon DEF Unawaited
      <4>3. SameTask(f.tasks[u], k.tasks[u])
        BY <1>2, <4>1, <4>2, Zenon
      <4> QED
        BY <1>0, <3>1, <4>1, <4>3, Zenon DEF SameTask, Live
    <3> QED
      BY <3>1, <3>3, Zenon DEF Rightly
  <2>3. Rightly(f, f.current, f.idle.wait)
    BY NotIdleIs, Zenon DEF Fallen, Rightly
  <2>4. Cleared(f)
    <3> SUFFICES ASSUME NEW t \in Tasks(k), NEW u \in Tasks(k), ~Live(f, t), Live(f, u),
                        f.tasks[t].as = f.tasks[u].as, f.tasks[t].clear
                 PROVE  f.tasks[t].cleared
      BY <1>0, Zenon DEF Cleared
    <3>1. /\ u \notin T /\ Live(k, u) /\ k.tasks[t].as = k.tasks[u].as
          /\ SameWord(f.tasks[t], k.tasks[t])
      BY <1>2, Zenon DEF Fallen
    <3>2. CASE t \in T
      BY <3>1, <3>2, Zenon DEF Unawaited, SameWord
    <3>3. CASE t \notin T
      <4>1. ~Live(k, t)
        BY <1>2, <3>3, Zenon DEF SameTask, Live
      <4> QED
        BY <3>1, <4>1, Zenon DEF Good, Core, Joining, Cleared, SameWord
    <3> QED
      BY <3>2, <3>3, Zenon
  <2> QED
    BY <2>1, <2>2, <2>3, <2>4, Zenon
<1>9. Core(f)
  BY <1>0, <1>1, <1>4, <1>6, <1>7, <1>8, Zenon DEF Core
<1>10. \A t \in Tasks(f) : f.tasks[t].st # "running"
  BY <1>0, SMTT(30) DEF Fallen, Loose, Good, Runs
<1> QED
  BY <1>0, <1>9, <1>10, LeaveGood, Zenon

\* The end of a thread, and of its process when it was the last one.
LEMMA ExitGood ==
  ASSUME NEW k, Good(k), k.current # 0, k.idle = NotIdle,
         Quiet => \/ Siblings(k) = {}
                  \/ /\ \A t \in Blocked(k) : TidKey(k.current) \notin k.tasks[t].wait
                     /\ Me(k).clear => Me(k).cleared
  PROVE  Good(posix_exit_status(k))
<1> DEFINE me == k.current
           r == process_teardown(k)
           x == [r.tasks[me] EXCEPT !.st = "zombie"]
           f == PutTask(r, me, x)
<1>1. /\ k \in State /\ me \in Tasks(k) /\ MySlot(k) \in Slots /\ Owns(k, MySlot(k), Me(k).as)
      /\ DOMAIN k.tasks = Tasks(k) /\ Me(k) = k.tasks[me]
  BY MySlotIs, LenTasks, Zenon DEF Good, Core
<1>2. \/ r = k
      \/ Siblings(k) = {} /\ Ended(r, k, MySlot(k))
  BY EndIs, Zenon DEF process_teardown
<1>3. /\ r \in State /\ Tasks(r) = Tasks(k) /\ r.current = me /\ r.idle = NotIdle
      /\ r.lastPid = k.lastPid /\ \A t \in Tasks(k) : Loose(r.tasks[t], k.tasks[t])
  BY <1>1, <1>2, Zenon DEF Ended, Loose
<1>4. posix_exit_status(k) = LeaveCpu(f)
  <2> HIDE DEF r
  <2>1. [r EXCEPT !.tasks[me].st = "zombie"] = f
    BY <1>1, <1>3, Zenon DEF PutTask, State
  <2> QED
    BY <2>1, Zenon DEF posix_exit_status, r
<1> HIDE DEF r
<1>5. /\ x \in TaskRec /\ x.st = "zombie" /\ x.as = k.tasks[me].as
      /\ SameWord(x, k.tasks[me])
  <2>1. /\ r.tasks[me] \in TaskRec /\ r.tasks[me].as = k.tasks[me].as
        /\ SameWord(r.tasks[me], k.tasks[me])
    BY <1>1, <1>3, LenTasks, Zenon DEF Loose, SameTask, SameWord
  <2> QED
    BY <2>1, Zenon DEF TaskRec, SameWord
<1> HIDE DEF x
<1>6. TaskPut(f, r, me, x)
  BY <1>1, <1>3, <1>5, PutTaskIs, Zenon
<1> HIDE DEF f
<1>7. ASSUME NEW s \in Slots
      PROVE  LET p == f.procs[s]
                 q == k.procs[s]
             IN /\ p.used = q.used /\ p.pid = q.pid /\ p.mask = q.mask /\ p.chosen = q.chosen
                /\ Quiet => p.pending \subseteq q.pending
                /\ \/ p.exited = q.exited
                   \/ p.exited /\ \A t \in Tasks(k) : Live(k, t) /\ k.tasks[t].as = q.pid => t \in {me}
  <2>1. CASE r = k
    BY <1>6, <2>1, Zenon DEF TaskPut
  <2>2. CASE Siblings(k) = {} /\ Ended(r, k, MySlot(k)) /\ s = MySlot(k)
    <3>1. r.procs[s] \in ProcRec /\ k.procs[s] \in ProcRec /\ f.procs = r.procs
      BY <1>1, <1>3, <1>6, Zenon DEF State, TaskPut
    <3>2. /\ r.procs[s].exited /\ r.procs[s].used = k.procs[s].used
          /\ r.procs[s].pid = k.procs[s].pid /\ r.procs[s].mask = k.procs[s].mask
          /\ r.procs[s].chosen = k.procs[s].chosen
          /\ Quiet => r.procs[s].pending \subseteq k.procs[s].pending
      BY <2>2, <3>1, Zenon DEF Ended, SameProc, ProcRec
    <3>3. \A t \in Tasks(k) : Live(k, t) /\ k.tasks[t].as = k.procs[s].pid => t \in {me}
      BY <1>1, <2>2, Zenon DEF Siblings, Live, Owns
    <3> QED
      BY <3>1, <3>2, <3>3, Zenon
  <2>3. CASE Ended(r, k, MySlot(k)) /\ s # MySlot(k)
    BY <1>6, <2>3 DEF Ended, SameProc, TaskPut
  <2> QED
    BY <1>2, <2>1, <2>2, <2>3, Zenon
<1>8. Fallen(f, k, {me})
  <2>1. \A t \in Tasks(k) : /\ f.tasks[t].as = k.tasks[t].as /\ SameWord(f.tasks[t], k.tasks[t])
                            /\ t \in {me} => f.tasks[t].st = "zombie"
                            /\ t \notin {me} => Loose(f.tasks[t], k.tasks[t])
    BY <1>1, <1>3, <1>5, <1>6, SMTT(30) DEF TaskPut, Loose, SameTask, SameWord
  <2> QED
    BY <1>3, <1>6, <1>7, <2>1, Zenon DEF Fallen, TaskPut
<1>9. ASSUME Quiet PROVE Unawaited(f, k, {me})
  <2>0. ASSUME NEW t \in Tasks(k) \ {me}, Live(k, t), k.tasks[t].as = k.tasks[me].as,
               k.tasks[me].clear
        PROVE  k.tasks[me].cleared
    <3>1. t \in Siblings(k)
      BY <1>1, <2>0, Zenon DEF Siblings, Live
    <3> QED
      BY <1>1, <1>9, <2>0, <3>1, Zenon
  <2> SUFFICES ASSUME NEW t \in Tasks(k) \ {me}, f.tasks[t].st = "blocked",
                      TidKey(me) \in k.tasks[t].wait
               PROVE  FALSE
    BY <2>0, Zenon DEF Unawaited
  <2>1. k.tasks[t].st = "blocked"
    BY <1>8, Zenon DEF Fallen, Loose
  <2>2. t \in Blocked(k)
    BY <1>1, <2>1, Zenon DEF Blocked
  <2>3. k.tasks[me].as = k.tasks[t].as
    BY <1>1, <1>9, <2>1, LenTasks, Zenon DEF Good, Core, Joining, Rightly
  <2>4. t \in Siblings(k)
    BY <1>1, <2>1, <2>3, Zenon DEF Siblings
  <2> QED
    BY <1>9, <2>2, <2>4, Zenon
<1> QED
  BY <1>1, <1>4, <1>8, <1>9, FallenGood, Zenon

\* The end of a process with all its threads.
LEMMA GroupGood ==
  ASSUME NEW k, Good(k), k.current # 0, k.idle = NotIdle
  PROVE  Good(posix_exit_process_group(k))
<1> DEFINE me == k.current
           s == MySlot(k)
           r == EndProcess(k)
           T == {t \in Tasks(k) : k.tasks[t].as = Me(k).as}
           ts == [t \in DOMAIN r.tasks |->
                    IF r.tasks[t].as = Me(k).as THEN [r.tasks[t] EXCEPT !.st = "zombie"]
                    ELSE r.tasks[t]]
           f == [r EXCEPT !.tasks = ts]
<1>1. /\ k \in State /\ me \in Tasks(k) /\ s \in Slots /\ Owns(k, s, Me(k).as)
      /\ Me(k) = k.tasks[me]
  BY MySlotIs, Zenon DEF Good, Core
<1>2. posix_exit_process_group(k) = LeaveCpu(f)
  BY Zenon DEF posix_exit_process_group
<1>3. Ended(r, k, s)
  BY EndIs, Zenon
<1> HIDE DEF r, s
<1>4. DOMAIN r.tasks = Tasks(k) /\ \A t \in Tasks(k) : r.tasks[t] \in TaskRec
  BY <1>3, LenTasks, Zenon DEF Ended
<1>5. ASSUME NEW t \in Tasks(k)
      PROVE  /\ ts[t] \in TaskRec /\ ts[t].as = k.tasks[t].as /\ SameWord(ts[t], k.tasks[t])
             /\ t \in T => ts[t].st = "zombie"
             /\ t \notin T => Loose(ts[t], k.tasks[t])
  <2>1. /\ r.tasks[t] \in TaskRec /\ Loose(r.tasks[t], k.tasks[t])
        /\ r.tasks[t].as = k.tasks[t].as /\ SameWord(r.tasks[t], k.tasks[t])
    BY <1>3, <1>4, Zenon DEF Ended, Loose, SameTask, SameWord
  <2> QED
    BY <1>4, <2>1, Zenon DEF TaskRec, SameWord
<1>6. ts \in Seq(TaskRec) /\ Len(ts) = Len(k.tasks)
  <2>1. Len(k.tasks) \in Nat
    BY <1>1, LenTasks, Zenon
  <2>2. \A t \in 1 .. Len(k.tasks) : ts[t] \in TaskRec
    BY <1>5, Zenon DEF Tasks
  <2>3. ts = [t \in 1 .. Len(k.tasks) |-> ts[t]]
    BY <1>4, Zenon DEF Tasks
  <2> HIDE DEF ts
  <2> QED
    BY <2>1, <2>2, <2>3
<1> HIDE DEF ts
<1>7. /\ f \in State /\ f.tasks = ts /\ f.procs = r.procs /\ f.current = me /\ f.idle = NotIdle
      /\ f.lastPid = k.lastPid
  BY <1>3, <1>6, Zenon DEF State, Ended
<1> HIDE DEF f
<1>8. ASSUME NEW q \in Slots
      PROVE  /\ f.procs[q].used = k.procs[q].used /\ f.procs[q].pid = k.procs[q].pid
             /\ f.procs[q].mask = k.procs[q].mask /\ f.procs[q].chosen = k.procs[q].chosen
             /\ Quiet => f.procs[q].pending \subseteq k.procs[q].pending
             /\ \/ f.procs[q].exited = k.procs[q].exited
                \/ /\ f.procs[q].exited
                   /\ \A t \in Tasks(k) : Live(k, t) /\ k.tasks[t].as = k.procs[q].pid => t \in T
  <2>1. CASE q = s
    <3>1. r.procs[q] \in ProcRec /\ k.procs[q] \in ProcRec
      BY <1>1, <1>3, Zenon DEF State, Ended
    <3> QED
      BY <1>1, <1>3, <1>7, <2>1, <3>1, ZenonT(30) DEF Ended, SameProc, ProcRec, Owns
  <2>2. CASE q # s
    BY <1>3, <1>7, <2>2 DEF Ended, SameProc
  <2> QED
    BY <2>1, <2>2, Zenon
<1>9. Tasks(f) = Tasks(k)
  BY <1>6, <1>7, Zenon DEF Tasks
<1> HIDE DEF T
<1>10. Fallen(f, k, T)
  BY <1>5, <1>7, <1>8, <1>9, Zenon DEF Fallen
<1>11. ASSUME Quiet PROVE Unawaited(f, k, T)
  <2> SUFFICES ASSUME NEW t \in Tasks(k) \ T, NEW u \in T, f.tasks[t].st = "blocked",
                      TidKey(u) \in k.tasks[t].wait
               PROVE  FALSE
    BY Zenon DEF Unawaited, T
  <2>1. k.tasks[t].st = "blocked"
    BY <1>10, Zenon DEF Fallen, Loose
  <2>2. u \in Nat
    BY <1>1, LenTasks, Zenon DEF T
  <2>3. k.tasks[u].as = k.tasks[t].as
    BY <1>11, <2>1, <2>2, Zenon DEF Good, Core, Joining, Rightly
  <2> QED
    BY <2>3, Zenon DEF T
<1>12. T \subseteq Tasks(k) /\ me \in T
  BY <1>1, Zenon DEF T
<1> QED
  BY <1>2, <1>10, <1>11, <1>12, FallenGood, Zenon

\* A thread about to end wakes all who wait for it.
LEMMA ExitingGood ==
  ASSUME Machine, NEW k, Good(k), k.current # 0, k.idle = NotIdle
  PROVE  Good(posix_exit_status(posix_thread_exiting(k)))
<1> DEFINE me == k.current
<1>1. /\ k \in State /\ me \in Tasks(k) /\ Me(k) = k.tasks[me] /\ k.tasks[me] \in TaskRec
      /\ k.tasks[me].st = "running" /\ me \in Nat
  BY MySlotIs, LenTasks, Zenon DEF Good, Core
<1>2. CASE ~Me(k).clear
  <2>1. ASSUME Quiet, NEW t \in Blocked(k) PROVE TidKey(me) \notin k.tasks[t].wait
    BY <1>1, <1>2, <2>1, LenTasks, Zenon DEF Good, Core, Joining, Rightly, Blocked
  <2> QED
    BY <1>2, <2>1, ExitGood, Zenon DEF posix_thread_exiting
<1>3. CASE Me(k).clear
  <2> DEFINE x == [k.tasks[me] EXCEPT !.cleared = TRUE]
             c == PutTask(k, me, x)
             w == wake_on_common(c, Me(k).as, TidKey(me), MaxTasks)
  <2>1. [k EXCEPT !.tasks[me].cleared = TRUE] = c
    BY <1>1, Zenon DEF PutTask, State
  <2>2. x \in TaskRec /\ x.as = k.tasks[me].as /\ x.frames = k.tasks[me].frames /\ x.st = "running"
        /\ x.cleared
    BY <1>1, Zenon DEF TaskRec
  <2> HIDE DEF x
  <2>3. TaskPut(c, k, me, x) /\ Len(c.tasks) <= MaxTasks
    BY <1>1, <2>2, PutTaskIs, SameLen DEF TaskPut, Good, Core
  <2>4. posix_thread_exiting(k) = w
    BY <1>3, <2>1, Zenon DEF posix_thread_exiting
  <2> HIDE DEF c
  <2>5. Woke(w, c, Sleepers(c, Me(k).as, TidKey(me)))
    BY <2>3, WakeOnAll, Zenon DEF TaskPut
  <2> HIDE DEF w
  <2>6. /\ w \in State /\ Tasks(w) = Tasks(k) /\ w.procs = k.procs /\ w.current = me
        /\ w.idle = NotIdle /\ w.lastPid = k.lastPid /\ w.tasks[me].as = k.tasks[me].as
        /\ w.tasks[me].frames = k.tasks[me].frames /\ w.tasks[me].st = "running"
        /\ w.tasks[me].cleared
    BY <1>1, <2>2, <2>3, <2>5, ZenonT(30) DEF Woke, TaskPut
  <2>7. ASSUME NEW t \in Tasks(k) \ {me}
        PROVE  /\ SameTask(w.tasks[t], k.tasks[t])
               /\ w.tasks[t].st = "blocked" => w.tasks[t] = k.tasks[t]
               /\ w.tasks[t].st # "running"
    BY <1>1, <2>3, <2>5, SMTT(30) DEF Woke, TaskPut, SameTask, Good, Runs
  <2>8. ASSUME Quiet, NEW t \in Tasks(k), w.tasks[t].st = "blocked"
        PROVE  TidKey(me) \notin w.tasks[t].wait
    <3> SUFFICES ASSUME TidKey(me) \in w.tasks[t].wait PROVE FALSE
      BY Zenon
    <3>1. t # me /\ w.tasks[t] = k.tasks[t]
      BY <2>6, <2>7, <2>8, Zenon
    <3>2. k.tasks[me].as = k.tasks[t].as
      BY <1>1, <2>8, <3>1, Zenon DEF Good, Core, Joining, Rightly
    <3>3. t \in Sleepers(c, Me(k).as, TidKey(me))
      <4>1. t \in DOMAIN c.tasks /\ c.tasks[t] = k.tasks[t]
        BY <2>3, <3>1, LenTasks, Zenon DEF TaskPut
      <4> QED
        BY <1>1, <2>8, <3>1, <3>2, <4>1, Zenon DEF Sleepers, Blocked
    <3> QED
      BY <2>3, <2>5, <2>8, <3>3, Zenon DEF Woke, TaskPut
  <2>9. Good(w)
    <3>1. Kindred(w, k)
      BY <1>1, <2>6, <2>7, Zenon DEF Kindred, SameTask, Live
    <3>2. Masks(w)
      <4>1. \A t \in Tasks(k) : w.tasks[t].frames = k.tasks[t].frames
        BY <2>6, <2>7, Zenon DEF SameTask
      <4> QED
        BY <2>6, <3>1, <4>1, KindredMasks, Zenon DEF Good
    <3>3. Quiet => \A t \in Tasks(k) : w.tasks[t].st = "blocked" => Rightly(w, t, w.tasks[t].wait)
      <4> SUFFICES ASSUME Quiet, NEW t \in Tasks(k), w.tasks[t].st = "blocked", NEW u \in Nat,
                          TidKey(u) \in w.tasks[t].wait
                   PROVE  /\ u \in Tasks(w) /\ Live(w, u) /\ w.tasks[u].as = w.tasks[t].as
                          /\ w.tasks[u].clear /\ ~w.tasks[u].cleared
        BY Zenon DEF Rightly
      <4>1. t # me /\ u # me /\ w.tasks[t] = k.tasks[t]
        BY <2>6, <2>7, <2>8, Zenon
      <4>2. /\ u \in Tasks(k) /\ Live(k, u) /\ k.tasks[u].as = k.tasks[t].as
            /\ k.tasks[u].clear /\ ~k.tasks[u].cleared
        BY <4>1, Zenon DEF Good, Core, Joining, Rightly
      <4>3. SameTask(w.tasks[u], k.tasks[u])
        BY <2>7, <4>1, <4>2, Zenon
      <4> QED
        BY <2>6, <4>1, <4>2, <4>3, Zenon DEF SameTask, Live
    <3>4. Joining(w)
      <4>1. Quiet => Cleared(w)
        <5> SUFFICES ASSUME Quiet, NEW t \in Tasks(k), NEW u \in Tasks(k), ~Live(w, t), Live(w, u),
                            w.tasks[t].as = w.tasks[u].as, w.tasks[t].clear
                     PROVE  w.tasks[t].cleared
          BY <2>6, Zenon DEF Cleared
        <5>1. t # me
          BY <2>6, Zenon DEF Live
        <5>2. SameTask(w.tasks[t], k.tasks[t])
          BY <2>7, <5>1, Zenon
        <5>3. ~Live(k, t) /\ Live(k, u) /\ k.tasks[t].as = k.tasks[u].as /\ k.tasks[t].clear
          BY <3>1, <5>2, Zenon DEF Kindred, SameTask
        <5> QED
          BY <5>2, <5>3, Zenon DEF Good, Core, Joining, Cleared, SameTask
      <4> QED
        BY <2>6, <3>3, <4>1, NotIdleIs, Zenon DEF Good, Core, Joining, Rightly
    <3>5. Runs(w)
      BY <1>1, <2>6, <2>7, LenTasks, Zenon DEF Runs
    <3> QED
      BY <3>1, <3>2, <3>4, <3>5, KindredCore, Zenon DEF Good
  <2>10. Quiet => \A t \in Blocked(w) : TidKey(me) \notin w.tasks[t].wait
    BY <2>6, <2>8, LenTasks, Zenon DEF Blocked
  <2> QED
    BY <1>1, <2>4, <2>6, <2>9, <2>10, ExitGood, Zenon DEF Me
<1> QED
  BY <1>2, <1>3, Zenon

-----------------------------------------------------------------------------
(* What the running task changes of itself and of its process.             *)

UserPut(k, x, p, i) ==
  [k EXCEPT !.tasks = [k.tasks EXCEPT ![k.current] = x],
            !.procs = [k.procs EXCEPT ![MySlot(k)] = p], !.idle = i]

LEMMA UserPutIs ==
  ASSUME NEW k, Good(k), k.current # 0, NEW x \in TaskRec, NEW p \in ProcRec, NEW i \in IdleRec
  PROVE  LET r == UserPut(k, x, p, i)
         IN /\ r \in State /\ Tasks(r) = Tasks(k) /\ r.current = k.current /\ r.slice = k.slice
            /\ r.idle = i /\ r.lastPid = k.lastPid
            /\ r.tasks[k.current] = x
            /\ \A t \in Tasks(k) \ {k.current} : r.tasks[t] = k.tasks[t]
            /\ r.procs[MySlot(k)] = p
            /\ \A s \in Slots \ {MySlot(k)} : r.procs[s] = k.procs[s]
<1> DEFINE ts == [k.tasks EXCEPT ![k.current] = x]
           ps == [k.procs EXCEPT ![MySlot(k)] = p]
           r == [k EXCEPT !.tasks = ts, !.procs = ps, !.idle = i]
<1>0. k \in State /\ k.current \in Tasks(k) /\ MySlot(k) \in Slots
  BY MySlotIs, Zenon DEF Good, Core
<1>1. /\ ts \in Seq(TaskRec) /\ Len(ts) = Len(k.tasks) /\ ts[k.current] = x
      /\ \A u \in Tasks(k) \ {k.current} : ts[u] = k.tasks[u]
  BY <1>0, SeqUpdate DEF State, Tasks
<1>2. /\ ps \in [Slots -> ProcRec] /\ ps[MySlot(k)] = p
      /\ \A q \in Slots \ {MySlot(k)} : ps[q] = k.procs[q]
  BY <1>0, Zenon DEF State
<1>3. UserPut(k, x, p, i) = r
  BY Zenon DEF UserPut
<1> HIDE DEF ts, ps
<1>4. /\ r \in State /\ r.tasks = ts /\ r.procs = ps /\ r.current = k.current
      /\ r.slice = k.slice /\ r.idle = i /\ r.lastPid = k.lastPid
  BY <1>0, <1>1, <1>2, Zenon DEF State
<1> HIDE DEF r
<1> QED
  BY <1>1, <1>2, <1>3, <1>4, Zenon DEF Tasks

SameSelf(x, y) == x.as = y.as /\ x.st = "running"
SameHome(p, q) == /\ p.used = q.used /\ p.pid = q.pid /\ p.exited = q.exited
                  /\ Quiet => p.pending \subseteq q.pending

LEMMA UserGood ==
  ASSUME NEW k, Good(k), k.current # 0, NEW x \in TaskRec, NEW p \in ProcRec, NEW i \in IdleRec,
         SameSelf(x, Me(k)), SameHome(p, k.procs[MySlot(k)]),
         \/ SameWord(x, Me(k)) /\ (Quiet => Rightly(k, k.current, i.wait))
         \/ Siblings(k) = {} /\ i = NotIdle,
         Single /\ Kept(Me(k).frames, k.procs[MySlot(k)]) => Kept(x.frames, p)
  PROVE  /\ Good(UserPut(k, x, p, i)) /\ Me(UserPut(k, x, p, i)) = x
         /\ MySlot(UserPut(k, x, p, i)) = MySlot(k)
<1> DEFINE me == k.current
           s == MySlot(k)
           r == UserPut(k, x, p, i)
<1>1. /\ k \in State /\ me \in Tasks(k) /\ k.tasks[me] \in TaskRec /\ k.tasks[me].st = "running"
      /\ Me(k) = k.tasks[me] /\ me \in Nat /\ s \in Slots /\ Owns(k, s, Me(k).as)
      /\ \A q \in Slots : k.procs[q].used /\ k.procs[q].pid = Me(k).as => q = s
  BY MySlotIs, LenTasks, Zenon DEF Good, Core
<1>2. /\ r \in State /\ Tasks(r) = Tasks(k) /\ r.current = me /\ r.lastPid = k.lastPid
      /\ r.idle = i /\ r.tasks[me] = x /\ \A t \in Tasks(k) \ {me} : r.tasks[t] = k.tasks[t]
      /\ r.procs[s] = p /\ \A q \in Slots \ {s} : r.procs[q] = k.procs[q]
  BY UserPutIs, SMTT(30)
<1> HIDE DEF r, s
<1>3. Kindred(r, k)
  <2>1. \A t \in Tasks(k) : r.tasks[t].as = k.tasks[t].as /\ (Live(r, t) <=> Live(k, t))
    BY <1>1, <1>2, Zenon DEF SameSelf, Live
  <2>2. \A q \in Slots : /\ r.procs[q].used = k.procs[q].used /\ r.procs[q].pid = k.procs[q].pid
                         /\ r.procs[q].exited = k.procs[q].exited
    BY <1>2, Zenon DEF SameHome, s
  <2> QED
    BY <1>1, <1>2, <2>1, <2>2, Zenon DEF Kindred
<1>4. Masks(r)
  <2> SUFFICES ASSUME Single, NEW t \in Tasks(k), NEW q \in Slots, Live(k, t),
                      Owns(k, q, k.tasks[t].as), Kept(k.tasks[t].frames, k.procs[q])
               PROVE  Kept(r.tasks[t].frames, r.procs[q])
    BY <1>3, KindredMasks, Zenon DEF Good
  <2>1. CASE t = me
    <3>1. q = s
      BY <1>1, <2>1, Zenon DEF Owns
    <3> QED
      BY <1>1, <1>2, <2>1, <3>1, Zenon DEF s
  <2>2. CASE t # me
    <3>1. k.tasks[t].as # Me(k).as
      BY <1>1, <2>2, Zenon DEF Good, Core, Masks
    <3>2. q # s
      BY <1>1, <3>1, Zenon DEF Owns
    <3> QED
      BY <1>2, <2>2, <3>2, Zenon
  <2> QED
    BY <2>1, <2>2, Zenon
<1>5. Joining(r)
  <2> SUFFICES ASSUME Quiet
               PROVE  /\ \A q \in Slots : r.procs[q].pending = {}
                      /\ Cleared(r)
                      /\ \A t \in Tasks(r) :
                           r.tasks[t].st = "blocked" => Rightly(r, t, r.tasks[t].wait)
                      /\ r.current # 0 => Rightly(r, r.current, r.idle.wait)
    BY Zenon DEF Joining
  <2>0. Cleared(r)
    <3>1. Live(k, me)
      BY <1>1, Zenon DEF Live
    <3> QED
      BY <1>2, <1>3, <3>1, ZenonT(30) DEF Good, Core, Joining, Cleared, Kindred
  <2>1. \A q \in Slots : r.procs[q].pending = {}
    BY <1>1, <1>2, Zenon DEF Good, Core, Joining, SameHome, s
  <2>2. ASSUME SameWord(x, Me(k)), NEW t \in Tasks(k), NEW w, Rightly(k, t, w) PROVE Rightly(r, t, w)
    BY <1>1, <1>2, <1>3, <2>2, SMTT(30) DEF Rightly, SameWord, Kindred
  <2>3. ASSUME NEW t \in Tasks(k), r.tasks[t].st = "blocked"
        PROVE  Rightly(r, t, r.tasks[t].wait)
    <3>1. t # me /\ r.tasks[t] = k.tasks[t] /\ Rightly(k, t, k.tasks[t].wait)
      BY <1>2, <2>3, Zenon DEF SameSelf, Good, Core, Joining
    <3>2. CASE SameWord(x, Me(k))
      BY <2>2, <3>1, <3>2, Zenon
    <3>3. CASE Siblings(k) = {}
      <4>1. k.tasks[t].as # k.tasks[me].as
        BY <1>1, <2>3, <3>1, <3>3, LenTasks, Zenon DEF Siblings
      <4> QED
        BY <1>2, <1>3, <3>1, <4>1, SMTT(30) DEF Rightly, Kindred
    <3> QED
      BY <3>2, <3>3, Zenon
  <2>4. Rightly(r, me, i.wait)
    <3>1. CASE SameWord(x, Me(k)) /\ Rightly(k, me, i.wait)
      BY <1>1, <2>2, <3>1, Zenon
    <3>2. CASE i = NotIdle
      BY <3>2, NotIdleIs, Zenon DEF Rightly
    <3> QED
      BY <3>1, <3>2, Zenon
  <2> QED
    BY <1>2, <2>0, <2>1, <2>3, <2>4, Zenon
<1>6. Runs(r)
  BY <1>1, <1>2 DEF Runs, Good, SameSelf
<1>7. Good(r)
  BY <1>3, <1>4, <1>5, <1>6, KindredCore, Zenon DEF Good
<1>8. Me(r) = x /\ x.as = Me(k).as /\ r.current # 0 /\ Owns(r, s, x.as)
  BY <1>1, <1>2, <1>3, Zenon DEF Me, SameSelf, Owns, Kindred
<1>9. MySlot(r) = s
  BY <1>1, <1>7, <1>8, MySlotIs, Zenon DEF Owns
<1> QED
  BY <1>7, <1>8, <1>9, Zenon DEF r, s

LEMMA UserIs ==
  ASSUME NEW k, Good(k), k.current # 0
  PROVE  /\ k \in State /\ Me(k) \in TaskRec /\ k.procs[MySlot(k)] \in ProcRec /\ k.idle \in IdleRec
         /\ UserPut(k, Me(k), k.procs[MySlot(k)], k.idle) = k
         /\ SameSelf(Me(k), Me(k)) /\ SameWord(Me(k), Me(k))
         /\ Quiet => Rightly(k, k.current, k.idle.wait)
         /\ k.current \in Tasks(k) /\ MySlot(k) \in Slots
<1>1. k \in State /\ MySlot(k) \in Slots /\ k.current \in Tasks(k) /\ Me(k) = k.tasks[k.current]
      /\ Me(k) \in TaskRec /\ Me(k).st = "running"
  BY MySlotIs, Zenon DEF Good, Core
<1>2. k.procs[MySlot(k)] \in ProcRec /\ k.idle \in IdleRec
  BY <1>1, Zenon DEF State
<1>3. [k.tasks EXCEPT ![k.current] = Me(k)] = k.tasks
  BY <1>1 DEF State
<1>4. [k.procs EXCEPT ![MySlot(k)] = k.procs[MySlot(k)]] = k.procs
  BY <1>1, Zenon DEF State
<1>5. UserPut(k, Me(k), k.procs[MySlot(k)], k.idle) = k
  BY <1>1, <1>3, <1>4, Zenon DEF UserPut, State
<1> QED
  BY <1>1, <1>2, <1>5, Zenon DEF SameSelf, SameWord, Good, Core, Joining

LEMMA Fields ==
  ASSUME NEW k, k \in State, NEW a, NEW b, NEW i
  PROVE  /\ [k EXCEPT !.tasks = a, !.procs = k.procs, !.idle = k.idle] = [k EXCEPT !.tasks = a]
         /\ [k EXCEPT !.tasks = k.tasks, !.procs = b, !.idle = k.idle] = [k EXCEPT !.procs = b]
         /\ [k EXCEPT !.tasks = k.tasks, !.procs = k.procs, !.idle = i] = [k EXCEPT !.idle = i]
<1>1. [k EXCEPT !.tasks = a, !.procs = k.procs, !.idle = k.idle] = [k EXCEPT !.tasks = a]
  BY Zenon DEF State
<1>2. [k EXCEPT !.tasks = k.tasks, !.procs = b, !.idle = k.idle] = [k EXCEPT !.procs = b]
  BY Zenon DEF State
<1>3. [k EXCEPT !.tasks = k.tasks, !.procs = k.procs, !.idle = i] = [k EXCEPT !.idle = i]
  BY Zenon DEF State
<1> QED
  BY <1>1, <1>2, <1>3, Zenon

LEMMA UserTask ==
  ASSUME NEW k, Good(k), k.current # 0, NEW x
  PROVE  [k EXCEPT !.tasks = [k.tasks EXCEPT ![k.current] = x]]
           = UserPut(k, x, k.procs[MySlot(k)], k.idle)
<1> DEFINE a == [k.tasks EXCEPT ![k.current] = x]
           b == [k.procs EXCEPT ![MySlot(k)] = k.procs[MySlot(k)]]
<1>1. b = k.procs
  BY UserIs DEF State
<1>2. UserPut(k, x, k.procs[MySlot(k)], k.idle) = [k EXCEPT !.tasks = a, !.procs = b, !.idle = k.idle]
  BY Zenon DEF UserPut
<1> HIDE DEF a, b
<1>3. [k EXCEPT !.tasks = a, !.procs = b, !.idle = k.idle] = [k EXCEPT !.tasks = a]
  BY <1>1, UserIs, Fields, Zenon
<1> QED
  BY <1>2, <1>3, Zenon DEF a

LEMMA UserProc ==
  ASSUME NEW k, Good(k), k.current # 0, NEW p
  PROVE  [k EXCEPT !.procs = [k.procs EXCEPT ![MySlot(k)] = p]] = UserPut(k, Me(k), p, k.idle)
<1> DEFINE a == [k.tasks EXCEPT ![k.current] = Me(k)]
           b == [k.procs EXCEPT ![MySlot(k)] = p]
<1>1. a = k.tasks
  BY UserIs DEF State, Me
<1>2. UserPut(k, Me(k), p, k.idle) = [k EXCEPT !.tasks = a, !.procs = b, !.idle = k.idle]
  BY Zenon DEF UserPut
<1> HIDE DEF a, b
<1>3. [k EXCEPT !.tasks = a, !.procs = b, !.idle = k.idle] = [k EXCEPT !.procs = b]
  BY <1>1, UserIs, Fields, Zenon
<1> QED
  BY <1>2, <1>3, Zenon DEF b

LEMMA UserIdle ==
  ASSUME NEW k, Good(k), k.current # 0, NEW i
  PROVE  [k EXCEPT !.idle = i] = UserPut(k, Me(k), k.procs[MySlot(k)], i)
<1> DEFINE a == [k.tasks EXCEPT ![k.current] = Me(k)]
           b == [k.procs EXCEPT ![MySlot(k)] = k.procs[MySlot(k)]]
<1>1. a = k.tasks /\ b = k.procs
  BY UserIs DEF State, Me
<1>2. UserPut(k, Me(k), k.procs[MySlot(k)], i) = [k EXCEPT !.tasks = a, !.procs = b, !.idle = i]
  BY Zenon DEF UserPut
<1> HIDE DEF a, b
<1> QED
  BY <1>1, <1>2, UserIs, Fields, Zenon

\* A call noted in the task, or no longer.
LEMMA CallGood ==
  ASSUME NEW k, Good(k), k.current # 0, NEW c \in Asked
  PROVE  LET r == [k EXCEPT !.tasks[k.current].call = c]
         IN /\ Good(r) /\ r.current = k.current /\ r.idle = k.idle /\ MySlot(r) = MySlot(k)
            /\ r.procs = k.procs /\ Tasks(r) = Tasks(k)
            /\ \A t \in Tasks(k) : r.tasks[t].st = k.tasks[t].st
            /\ \A w : Rightly(k, k.current, w) => Rightly(r, k.current, w)
<1> DEFINE x == [Me(k) EXCEPT !.call = c]
           p == k.procs[MySlot(k)]
           r == UserPut(k, x, p, k.idle)
<1>1. /\ k \in State /\ Me(k) \in TaskRec /\ p \in ProcRec /\ k.idle \in IdleRec
      /\ Quiet => Rightly(k, k.current, k.idle.wait)
      /\ Me(k) = k.tasks[k.current] /\ Me(k).st = "running" /\ k.current \in Tasks(k)
      /\ MySlot(k) \in Slots
  BY UserIs, MySlotIs, Zenon
<1>2. x \in TaskRec /\ SameSelf(x, Me(k)) /\ SameWord(x, Me(k)) /\ x.frames = Me(k).frames
  BY <1>1, Zenon DEF TaskRec, SameSelf, SameWord
<1>3. [k EXCEPT !.tasks[k.current].call = c] = [k EXCEPT !.tasks = [k.tasks EXCEPT ![k.current] = x]]
  BY <1>1, Zenon DEF State
<1>4. [k EXCEPT !.tasks[k.current].call = c] = r
  BY <1>3, UserTask, Zenon
<1> HIDE DEF x, p
<1>5. Good(r) /\ MySlot(r) = MySlot(k)
  BY <1>1, <1>2, UserGood, ZenonT(30) DEF SameHome, p
<1>6. /\ r \in State /\ Tasks(r) = Tasks(k) /\ r.current = k.current /\ r.idle = k.idle
      /\ r.tasks[k.current] = x /\ \A t \in Tasks(k) \ {k.current} : r.tasks[t] = k.tasks[t]
      /\ r.procs[MySlot(k)] = p /\ \A s \in Slots \ {MySlot(k)} : r.procs[s] = k.procs[s]
  BY <1>1, <1>2, UserPutIs, SMTT(30)
<1> HIDE DEF r
<1>7. r.procs = k.procs
  BY <1>1, <1>6, SMTT(30) DEF State, p
<1>8. \A t \in Tasks(k) : /\ r.tasks[t].st = k.tasks[t].st /\ r.tasks[t].as = k.tasks[t].as
                          /\ r.tasks[t].clear = k.tasks[t].clear
                          /\ r.tasks[t].cleared = k.tasks[t].cleared
  BY <1>1, <1>2, <1>6, ZenonT(30) DEF SameSelf, SameWord
<1>9. \A w : Rightly(k, k.current, w) => Rightly(r, k.current, w)
  BY <1>1, <1>6, <1>8 DEF Rightly, Live
<1> QED
  BY <1>4, <1>5, <1>6, <1>7, <1>8, <1>9, ZenonT(30)

\* A sleep or a wait inside the kernel begins.
LEMMA IdleGood ==
  ASSUME NEW k, Good(k), k.current # 0, NEW i \in IdleRec, Quiet => Rightly(k, k.current, i.wait)
  PROVE  Good([k EXCEPT !.idle = i])
<1> DEFINE p == k.procs[MySlot(k)]
<1>1. [k EXCEPT !.idle = i] = UserPut(k, Me(k), p, i)
  BY UserIdle, Zenon
<1>2. Me(k) \in TaskRec /\ p \in ProcRec /\ SameSelf(Me(k), Me(k)) /\ SameWord(Me(k), Me(k))
  BY UserIs, Zenon
<1>3. SameHome(p, k.procs[MySlot(k)])
  BY Zenon DEF SameHome
<1> QED
  BY <1>1, <1>2, <1>3, UserGood

\* What the running process changes of itself, its threads' frames aside.
LEMMA ProcGood ==
  ASSUME NEW k, Good(k), k.current # 0, NEW p \in ProcRec, SameHome(p, k.procs[MySlot(k)]),
         Single /\ Kept(Me(k).frames, k.procs[MySlot(k)]) => Kept(Me(k).frames, p)
  PROVE  LET r == [k EXCEPT !.procs = [k.procs EXCEPT ![MySlot(k)] = p]]
         IN /\ Good(r) /\ r.current = k.current /\ r.idle = k.idle /\ r.tasks = k.tasks
            /\ MySlot(r) = MySlot(k) /\ r.procs[MySlot(k)] = p
            /\ \A w : Rightly(k, k.current, w) => Rightly(r, k.current, w)
<1> DEFINE r == [k EXCEPT !.procs = [k.procs EXCEPT ![MySlot(k)] = p]]
<1>1. r = UserPut(k, Me(k), p, k.idle)
  BY UserProc, Zenon
<1>2. /\ k \in State /\ Me(k) \in TaskRec /\ k.idle \in IdleRec /\ MySlot(k) \in Slots
      /\ SameSelf(Me(k), Me(k)) /\ SameWord(Me(k), Me(k))
      /\ Quiet => Rightly(k, k.current, k.idle.wait)
  BY UserIs, Zenon
<1>3. Good(r) /\ MySlot(r) = MySlot(k)
  BY <1>1, <1>2, UserGood
<1>4. r.current = k.current /\ r.idle = k.idle /\ r.tasks = k.tasks /\ r.procs[MySlot(k)] = p
  BY <1>2, Zenon DEF State
<1> HIDE DEF r
<1>5. \A w : Rightly(k, k.current, w) => Rightly(r, k.current, w)
  BY <1>4, Zenon DEF Rightly, Live, Tasks
<1> QED
  BY <1>3, <1>4, <1>5, Zenon DEF r

-----------------------------------------------------------------------------
(* Signals.                                                                *)

LEMMA DeliverGood ==
  ASSUME NEW k, Good(k), k.current # 0, NEW signo \in Nat
  PROVE  Good(deliver(k, signo))
<1> DEFINE q == k.procs[MySlot(k)]
           frame == [mask |-> q.mask, call |-> Me(k).call]
           x == [Me(k) EXCEPT !.frames = Append(Me(k).frames, frame), !.call = <<>>]
           p == [q EXCEPT !.mask = (q.mask \cup {signo}) \ {SIGKILL}]
<1>1. /\ k \in State /\ Me(k) \in TaskRec /\ q \in ProcRec /\ k.idle \in IdleRec
      /\ Quiet => Rightly(k, k.current, k.idle.wait)
      /\ Me(k).st = "running" /\ Me(k) = k.tasks[k.current]
      /\ k.current \in Tasks(k) /\ MySlot(k) \in Slots
  BY UserIs, MySlotIs, Zenon
<1>2. deliver(k, signo) = UserPut(k, x, p, k.idle)
  BY <1>1, Zenon DEF deliver, UserPut, State
<1>3. frame \in Frame /\ Me(k).frames \in Seq(Frame) /\ <<>> \in Asked
  BY <1>1, Zenon DEF Frame, TaskRec, ProcRec, Asked
<1> DEFINE fs == Append(Me(k).frames, frame)
<1>4. /\ fs \in Seq(Frame) /\ fs # <<>>
      /\ Me(k).frames = <<>> => fs[1] = frame
      /\ Me(k).frames # <<>> => fs[1] = Me(k).frames[1]
  BY <1>3, SMTT(30)
<1>5. frame.mask = q.mask
  BY Zenon
<1> HIDE DEF fs, q, frame
<1>6. /\ x \in TaskRec /\ SameSelf(x, Me(k)) /\ SameWord(x, Me(k)) /\ x.frames = fs
  BY <1>1, <1>3, <1>4, Zenon DEF TaskRec, SameSelf, SameWord, fs
<1>7. p \in ProcRec /\ SameHome(p, q) /\ p.chosen = q.chosen /\ SIGKILL \notin p.mask
  BY <1>1, Zenon DEF ProcRec, SameHome
<1> HIDE DEF x, p
<1>8. ASSUME Kept(Me(k).frames, q) PROVE Kept(x.frames, p)
  BY <1>4, <1>5, <1>6, <1>7, <1>8, Zenon DEF Kept
<1> QED
  BY <1>1, <1>2, <1>6, <1>7, <1>8, UserGood, SMTT(30) DEF q

LEMMA PendingGood ==
  ASSUME NEW k, Good(k), k.current # 0, k.idle = NotIdle
  PROVE  Good(posix_deliver_pending(k))
<1> DEFINE p == k.procs[MySlot(k)]
           ready == p.pending \ p.mask
           heard == {n \in ready : p.acts[n] # "ignore"}
           signo == Least(heard)
           Left(D) == [p EXCEPT !.pending = p.pending \ D]
           Taken(D) == [k EXCEPT !.procs = [k.procs EXCEPT ![MySlot(k)] = Left(D)]]
<1>1. k \in State /\ p \in ProcRec /\ MySlot(k) \in Slots
  BY UserIs, Zenon
<1>2. ASSUME NEW D
      PROVE  /\ [k EXCEPT !.procs[MySlot(k)].pending = @ \ D] = Taken(D)
             /\ Good(Taken(D)) /\ Taken(D).current = k.current /\ Taken(D).idle = NotIdle
  <2>1. [k EXCEPT !.procs[MySlot(k)].pending = @ \ D] = Taken(D)
    BY <1>1, Zenon DEF State
  <2>2. /\ Left(D) \in ProcRec /\ SameHome(Left(D), p) /\ Left(D).mask = p.mask
        /\ Left(D).chosen = p.chosen
    BY <1>1, Zenon DEF ProcRec, SameHome
  <2> HIDE DEF Left
  <2>3. \A f : Kept(f, p) => Kept(f, Left(D))
    BY <2>2, Zenon DEF Kept
  <2> QED
    BY <2>1, <2>2, <2>3, ProcGood, Zenon
<1>3. ASSUME heard # {} PROVE signo \in Nat
  <2>1. heard \subseteq Nat
    BY <1>1, Zenon DEF ProcRec
  <2> HIDE DEF heard
  <2> QED
    BY <1>3, <2>1, LeastIs, Zenon
<1>4. ASSUME heard # {} PROVE ~Quiet
  BY <1>1, <1>4, Zenon DEF Good, Core, Joining
<1> DEFINE taken == [k EXCEPT !.procs[MySlot(k)].pending = @ \ {n \in ready : n <= signo}]
<1>5. posix_deliver_pending(k) =
        IF heard = {} THEN [k EXCEPT !.procs[MySlot(k)].pending = @ \ ready]
        ELSE IF p.acts[signo] = "default" THEN default_action(taken) ELSE deliver(taken, signo)
  BY Zenon DEF posix_deliver_pending
<1>6. Good([k EXCEPT !.procs[MySlot(k)].pending = @ \ ready])
  BY <1>2, Zenon
<1>7. Good(taken) /\ taken.current = k.current /\ taken.idle = NotIdle
  BY <1>2, Zenon
<1> HIDE DEF heard, signo, taken, ready, p
<1>8. ASSUME heard # {} PROVE Good(default_action(taken))
  BY <1>4, <1>7, <1>8, ExitGood, Zenon DEF default_action
<1>9. ASSUME heard # {} PROVE Good(deliver(taken, signo))
  BY <1>3, <1>7, <1>9, DeliverGood, Zenon
<1> QED
  BY <1>5, <1>6, <1>8, <1>9, Zenon

LEMMA ReturnGood ==
  ASSUME NEW k, Good(k), NEW t \in Nat \ {0} PROVE Good(Return(k, t))
  BY PendingGood, Zenon DEF Return

\* A signal sent to a process: only where programs send any.
LEMMA RaiseGood ==
  ASSUME NEW k, Good(k), ~Quiet, NEW s \in Slots, NEW signo \in Nat
  PROVE  Good(raise(k, s, signo))
<1> DEFINE q == k.procs[s]
           p == [q EXCEPT !.pending = q.pending \cup {signo}]
           r == PutProc(k, s, p)
<1>1. k \in State /\ q \in ProcRec
  BY Zenon DEF Good, Core, State
<1>2. raise(k, s, signo) = r
  BY <1>1, Zenon DEF raise, PutProc, State
<1>3. p \in ProcRec /\ SameProc(p, q)
  BY <1>1, ZenonT(30) DEF ProcRec, SameProc
<1> HIDE DEF p
<1>4. ProcPut(r, k, s, p)
  BY <1>1, <1>3, PutProcIs, Zenon
<1> HIDE DEF r
<1>5. Alike(r, k)
  <2>1. \A u \in Slots : SameProc(r.procs[u], k.procs[u])
    BY <1>3, <1>4, Zenon DEF ProcPut, SameProc
  <2> QED
    BY <1>4, <2>1, Zenon DEF ProcPut, Alike, SameTask, Tasks, Good, Core
<1>6. Runs(r)
  BY <1>4, ZenonT(30) DEF ProcPut, Runs, Good, Tasks
<1> QED
  BY <1>2, <1>5, <1>6, AlikeCore, Zenon DEF Good

LEMMA KillGood ==
  ASSUME NEW k, Good(k), ~Quiet, NEW pid, NEW signo \in Nat
  PROVE  Good(sys_kill(k, pid, signo))
<1> DEFINE alive == {s \in SlotsOfPid(k, pid) : ~k.procs[s].exited}
<1>1. alive \subseteq Slots /\ alive \subseteq Nat
  <2>1. DOMAIN k.procs = Slots /\ Slots \subseteq Nat
    BY DEF Good, Core, State, Slots
  <2> QED
    BY <2>1, Zenon DEF SlotsOfPid
<1>2. sys_kill(k, pid, signo) = IF alive = {} THEN k ELSE raise(k, Least(alive), signo)
  BY Zenon DEF sys_kill
<1> HIDE DEF alive
<1>3. alive # {} => Least(alive) \in Slots
  BY <1>1, LeastIs, Zenon
<1> QED
  BY <1>2, <1>3, RaiseGood, Zenon

LEMMA TgkillGood ==
  ASSUME NEW k, Good(k), k.current # 0, ~Quiet, NEW tid, NEW signo \in Nat
  PROVE  Good(sys_tgkill(k, tid, signo))
<1>1. ASSUME tid \in DOMAIN k.tasks, k.tasks[tid].st # "zombie"
      PROVE  SlotOf(k, k.tasks[tid].as) \in Slots
  BY <1>1, SlotIs, LenTasks, Zenon DEF Good, Core, Live
<1>2. MySlot(k) \in Slots
  BY MySlotIs, Zenon
<1> QED
  BY <1>1, <1>2, RaiseGood, Zenon DEF sys_tgkill

LEMMA ActionGood ==
  ASSUME NEW k, Good(k), k.current # 0, NEW signo, NEW act \in {"default", "ignore", "handler"}
  PROVE  Good(posix_sys_rt_sigaction(k, signo, act))
<1> DEFINE q == k.procs[MySlot(k)]
           p == [q EXCEPT !.acts = [q.acts EXCEPT ![signo] = act]]
<1>1. k \in State /\ q \in ProcRec /\ MySlot(k) \in Slots
  BY UserIs, Zenon
<1>2. [k EXCEPT !.procs[MySlot(k)].acts[signo] = act]
        = [k EXCEPT !.procs = [k.procs EXCEPT ![MySlot(k)] = p]]
  BY <1>1, Zenon DEF State
<1>3. /\ p \in ProcRec /\ SameHome(p, q) /\ p.mask = q.mask /\ p.chosen = q.chosen
  BY <1>1, Zenon DEF ProcRec, SameHome
<1> HIDE DEF p
<1>4. \A f : Kept(f, q) => Kept(f, p)
  BY <1>3, Zenon DEF Kept
<1> QED
  BY <1>2, <1>3, <1>4, ProcGood, Zenon DEF posix_sys_rt_sigaction

LEMMA MaskGood ==
  ASSUME NEW k, Good(k), k.current # 0, NEW set, set \subseteq Nat
  PROVE  Good(posix_sys_rt_sigprocmask(k, set))
<1> DEFINE q == k.procs[MySlot(k)]
           new == set \ {SIGKILL}
           p == [q EXCEPT !.mask = new, !.chosen = IF Me(k).frames = <<>> THEN new ELSE q.chosen]
<1>1. k \in State /\ q \in ProcRec /\ MySlot(k) \in Slots
  BY UserIs, Zenon
<1>2. posix_sys_rt_sigprocmask(k, set) = [k EXCEPT !.procs = [k.procs EXCEPT ![MySlot(k)] = p]]
  BY <1>1, Zenon DEF posix_sys_rt_sigprocmask, State
<1>3. /\ p \in ProcRec /\ SameHome(p, q) /\ p.mask = new
      /\ p.chosen = IF Me(k).frames = <<>> THEN new ELSE q.chosen
  BY <1>1, Zenon DEF ProcRec, SameHome
<1> HIDE DEF p
<1>4. Kept(Me(k).frames, q) => Kept(Me(k).frames, p)
  BY <1>3, Zenon DEF Kept
<1> QED
  BY <1>2, <1>3, <1>4, ProcGood, Zenon

LEMMA Front ==
  ASSUME NEW S, NEW f \in Seq(S), f # <<>>
  PROVE  /\ Len(f) \in Nat \ {0} /\ f[Len(f)] \in S
         /\ SubSeq(f, 1, Len(f) - 1) \in Seq(S)
         /\ Len(f) = 1 => SubSeq(f, 1, Len(f) - 1) = <<>>
         /\ Len(f) # 1 => /\ SubSeq(f, 1, Len(f) - 1) # <<>>
                          /\ SubSeq(f, 1, Len(f) - 1)[1] = f[1]
<1> DEFINE n == Len(f) - 1
           g == SubSeq(f, 1, n)
<1>1. n \in Nat /\ Len(f) = n + 1 /\ f[n + 1] \in S
  OBVIOUS
<1>2. \A i \in 1 .. n : f[i] \in S
  BY <1>1
<1> HIDE DEF n
<1>3. Len(g) = n
  BY <1>1
<1>4. \A i \in 1 .. n : g[i] = f[i]
  BY <1>1
<1>5. g \in Seq(S)
  BY <1>1, <1>2
<1>6. SubSeq(f, 1, Len(f) - 1) = g
  BY Zenon DEF n
<1> HIDE DEF g
<1>7. n = 0 => g = <<>>
  BY <1>3, <1>5
<1>8. n # 0 => g # <<>> /\ g[1] = f[1]
  BY <1>1, <1>3, <1>4, <1>5
<1> QED
  BY <1>1, <1>5, <1>6, <1>7, <1>8

LEMMA SigreturnGood ==
  ASSUME NEW k, Good(k), k.current # 0, Me(k).frames # <<>>
  PROVE  Good(posix_sigreturn_common(k))
<1> DEFINE q == k.procs[MySlot(k)]
           f == Me(k).frames
           top == f[Len(f)]
           fs == SubSeq(f, 1, Len(f) - 1)
           x == [Me(k) EXCEPT !.frames = fs, !.call = top.call]
           p == [q EXCEPT !.mask = top.mask \ {SIGKILL}]
<1>1. /\ k \in State /\ Me(k) \in TaskRec /\ q \in ProcRec /\ k.idle \in IdleRec
      /\ Quiet => Rightly(k, k.current, k.idle.wait)
      /\ Me(k).st = "running" /\ Me(k) = k.tasks[k.current]
      /\ k.current \in Tasks(k) /\ MySlot(k) \in Slots
  BY UserIs, MySlotIs, Zenon
<1>2. posix_sigreturn_common(k) = UserPut(k, x, p, k.idle)
  BY <1>1, Zenon DEF posix_sigreturn_common, UserPut, State
<1>3. f \in Seq(Frame)
  BY <1>1, Zenon DEF TaskRec
<1> HIDE DEF f, q
<1>4. /\ Len(f) \in Nat \ {0} /\ top \in Frame /\ fs \in Seq(Frame)
      /\ Len(f) = 1 => fs = <<>> /\ top = f[1]
      /\ Len(f) # 1 => fs # <<>> /\ fs[1] = f[1]
  <2>1. f # <<>>
    BY Zenon DEF f
  <2> QED
    BY <1>3, <2>1, Front, Zenon
<1> HIDE DEF top, fs
<1>5. top.mask \subseteq Nat /\ top.call \in Asked
  BY <1>4, Zenon DEF Frame
<1>6. x \in TaskRec /\ SameSelf(x, Me(k)) /\ SameWord(x, Me(k)) /\ x.frames = fs
  BY <1>1, <1>4, <1>5, Zenon DEF TaskRec, SameSelf, SameWord
<1>7. p \in ProcRec /\ SameHome(p, q) /\ p.chosen = q.chosen /\ p.mask = top.mask \ {SIGKILL}
  BY <1>1, <1>5, Zenon DEF ProcRec, SameHome
<1> HIDE DEF x, p
<1>8. ASSUME Kept(f, q) PROVE Kept(x.frames, p)
  <2>1. f # <<>>
    BY Zenon DEF f
  <2> QED
    BY <1>4, <1>6, <1>7, <1>8, <2>1, ZenonT(30) DEF Kept
<1> QED
  BY <1>1, <1>2, <1>6, <1>7, <1>8, UserGood, SMTT(30) DEF q, f

LEMMA FaultGood ==
  ASSUME NEW k, Good(k), k.current # 0, k.idle = NotIdle PROVE Good(handle_user_fault(k))
<1>1. SIGSEGV \in Nat
  BY Zenon DEF SIGSEGV
<1> QED
  BY <1>1, DeliverGood, GroupGood, Zenon DEF handle_user_fault

-----------------------------------------------------------------------------
(* Calls that wait.                                                        *)

\* The scan looks at no more than which tasks can run, and sees the caller last.
LEMMA ScanSame ==
  ASSUME NEW k, k \in State, k.current \in Tasks(k), NEW r, r \in State, Tasks(r) = Tasks(k),
         r.current = k.current, \A t \in Tasks(k) : r.tasks[t].st = k.tasks[t].st
  PROVE  scan_runnable(r) = scan_runnable(k)
<1> DEFINE n == Len(k.tasks)
           After(o) == ((k.current - 1 + o) % n) + 1
           hits(x) == {o \in 1 .. n : Runnable(x, After(o))}
<1>1. n \in Nat \ {0} /\ k.current \in 1 .. n /\ Tasks(k) = 1 .. n /\ Len(r.tasks) = n
  BY SameLen, SMTT(30) DEF Tasks, State
<1>2. /\ scan_runnable(k) = IF hits(k) = {} THEN 0 ELSE After(Least(hits(k)))
      /\ scan_runnable(r) = IF hits(r) = {} THEN 0 ELSE After(Least(hits(r)))
  BY <1>1, Zenon DEF scan_runnable
<1> HIDE DEF n
<1>3. ASSUME NEW o \in 1 .. n PROVE After(o) \in 1 .. n
  <2> DEFINE x == k.current - 1 + o
  <2>1. x \in Int
    BY <1>1
  <2> HIDE DEF x
  <2>2. x % n \in 0 .. n - 1
    BY <1>1, <2>1, Wraps, Zenon
  <2> QED
    BY <1>1, <2>2 DEF x
<1> HIDE DEF After
<1>4. hits(r) = hits(k)
  BY <1>1, <1>3, Zenon DEF Runnable
<1> HIDE DEF hits
<1> QED
  BY <1>2, <1>4, SMTT(30)

LEMMA ScanOther ==
  ASSUME NEW k, k \in State, k.current \in Tasks(k), NEW u \in Tasks(k), u # k.current,
         Runnable(k, u)
  PROVE  OtherRunnable(k)
<1> DEFINE n == Len(k.tasks)
           me == k.current
           After(o) == ((me - 1 + o) % n) + 1
           hits == {o \in 1 .. n : Runnable(k, After(o))}
<1>1. n \in Nat \ {0} /\ me \in 1 .. n /\ u \in 1 .. n
  BY DEF Tasks, State
<1>2. scan_runnable(k) = IF hits = {} THEN 0 ELSE After(Least(hits))
  BY Zenon DEF scan_runnable
<1> HIDE DEF n, me
<1>3. ASSUME NEW t \in 1 .. n, NEW o \in 1 .. n, o = IF t > me THEN t - me ELSE t - me + n
      PROVE  After(o) = t
  <2> DEFINE x == t - 1
             y == me - 1 + o
  <2>1. x \in 0 .. n - 1 /\ x + 1 = t /\ (y = x \/ y = x + n)
    BY <1>1, <1>3
  <2> HIDE DEF x, y
  <2>2. x % n = x /\ (x + n) % n = x
    <3>1. n \in Nat \ {0} /\ x \in Int
      BY <1>1, <2>1
    <3> QED
      BY <2>1, <3>1, Wraps, Zenon
  <2>3. y % n = x
    BY <2>1, <2>2, Zenon
  <2> QED
    BY <2>1, <2>3, Zenon DEF y
<1> DEFINE o == IF u > me THEN u - me ELSE u - me + n
<1>4. o \in 1 .. n /\ o # n
  BY <1>1 DEF me
<1>5. o \in hits
  BY <1>1, <1>3, <1>4, Zenon
<1>6. hits \subseteq Nat
  OBVIOUS
<1> HIDE DEF hits
<1>7. Least(hits) \in hits /\ Least(hits) <= o
  BY <1>5, <1>6, LeastIs, Zenon
<1>8. Least(hits) \in 1 .. n /\ Least(hits) # n
  BY <1>1, <1>4, <1>7 DEF hits
<1> DEFINE v == IF me + Least(hits) <= n THEN me + Least(hits) ELSE me + Least(hits) - n
<1>9. v \in 1 .. n /\ v # me /\ Least(hits) = IF v > me THEN v - me ELSE v - me + n
  BY <1>1, <1>8
<1> HIDE DEF v, After, o
<1>10. After(Least(hits)) = v
  BY <1>3, <1>8, <1>9, Zenon
<1>11. scan_runnable(k) = v
  BY <1>2, <1>5, <1>10, Zenon
<1> QED
  BY <1>1, <1>9, <1>11 DEF OtherRunnable, me

LEMMA WaitGood ==
  ASSUME Machine, NEW k, Good(k), k.current # 0, NEW c \in Asked, NEW w \in SUBSET Keys,
         NEW left \in Int, Quiet => Rightly(k, k.current, w)
  PROVE  Good(Wait(k, c, w, left))
<1> DEFINE a == [k EXCEPT !.tasks[k.current].call = c]
           i == [wait |-> w, left |-> left, retry |-> TRUE]
<1>1. /\ Good(a) /\ a.current = k.current /\ Tasks(a) = Tasks(k)
      /\ \A t \in Tasks(k) : a.tasks[t].st = k.tasks[t].st
      /\ \A v : Rightly(k, k.current, v) => Rightly(a, k.current, v)
  BY CallGood, Zenon
<1>2. Wait(k, c, w, left) = IF OtherRunnable(k) THEN block_common(a, w, left, TRUE)
                            ELSE IF left = Never THEN a ELSE [a EXCEPT !.idle = i]
  BY Zenon DEF Wait
<1> HIDE DEF a
<1>3. OtherRunnable(a) <=> OtherRunnable(k)
  <2>1. k \in State /\ a \in State /\ k.current \in Tasks(k)
    BY <1>1, MySlotIs, Zenon DEF Good, Core
  <2> QED
    BY <1>1, <2>1, ScanSame, Zenon DEF OtherRunnable
<1>4. i \in IdleRec /\ i.wait = w
  BY Zenon DEF IdleRec
<1> HIDE DEF i
<1>5. Good([a EXCEPT !.idle = i])
  BY <1>1, <1>4, IdleGood, Zenon
<1>6. OtherRunnable(k) => Good(block_common(a, w, left, TRUE))
  BY <1>1, <1>3, BlockGood, Zenon
<1> QED
  BY <1>1, <1>2, <1>5, <1>6, Zenon

LEMMA DoneGood ==
  ASSUME NEW k, Good(k), k.current # 0
  PROVE  Good(Done(k)) /\ Done(k).procs = k.procs /\ Done(k).current = k.current
<1>1. <<>> \in Asked
  BY Zenon DEF Asked
<1> QED
  BY <1>1, CallGood, Zenon DEF Done

\* FUTEX_WAIT on the word of a thread that has not cleared it: that thread is alive.
LEMMA JoinGood ==
  ASSUME Machine, NEW k, Good(k), k.current # 0, NEW c \in Calls32, c[1] = "join"
  PROVE  Good(posix_sys_futex(k, c))
<1> DEFINE t == c[2]
           w == {TidKey(t)}
           i == [wait |-> w, left |-> c[3], retry |-> FALSE]
<1>0. t \in Nat /\ c[3] \in Int /\ c \in Asked
  BY Zenon DEF Machine, CallShape, Asked
<1>1. w \in SUBSET Keys
  BY <1>0, Zenon DEF Keys
<1>2. CASE \/ t \notin DOMAIN k.tasks \/ k.tasks[t].as # Me(k).as \/ ~k.tasks[t].clear
           \/ k.tasks[t].cleared
  BY <1>2, DoneGood, Zenon DEF posix_sys_futex
<1>3. CASE ~ ( \/ t \notin DOMAIN k.tasks \/ k.tasks[t].as # Me(k).as \/ ~k.tasks[t].clear
               \/ k.tasks[t].cleared)
  <2>1. /\ k \in State /\ k.current \in Tasks(k) /\ Live(k, k.current)
        /\ Me(k) = k.tasks[k.current] /\ DOMAIN k.tasks = Tasks(k)
    BY MySlotIs, LenTasks, Zenon DEF Good, Core
  <2>2. ASSUME Quiet PROVE Rightly(k, k.current, w)
    <3>1. Live(k, t)
      BY <1>3, <2>1, <2>2, Zenon DEF Good, Core, Joining, Cleared
    <3>2. \A u \in Nat : TidKey(u) \in w => u = t
      BY Zenon DEF TidKey
    <3> HIDE DEF w
    <3> QED
      BY <1>3, <2>1, <3>1, <3>2, Zenon DEF Rightly
  <2>3. i \in IdleRec /\ i.wait = w
    BY <1>0, <1>1, Zenon DEF IdleRec
  <2>4. posix_sys_futex(k, c) = IF OtherRunnable(k) THEN block_common(k, w, c[3], FALSE)
                                ELSE IF c[3] = Never THEN [k EXCEPT !.tasks[k.current].call = c]
                                ELSE [k EXCEPT !.idle = i]
    BY <1>3, Zenon DEF posix_sys_futex
  <2> HIDE DEF w, i
  <2>5. OtherRunnable(k) => Good(block_common(k, w, c[3], FALSE))
    BY <1>0, <1>1, <2>2, BlockGood, Zenon
  <2>6. Good([k EXCEPT !.idle = i])
    BY <2>2, <2>3, IdleGood, Zenon
  <2>7. Good([k EXCEPT !.tasks[k.current].call = c])
    BY <1>0, CallGood, Zenon
  <2> QED
    BY <2>4, <2>5, <2>6, <2>7, Zenon
<1> QED
  BY <1>2, <1>3, Zenon

LEMMA SleepGood ==
  ASSUME Machine, NEW k, Good(k), k.current # 0, NEW c \in Calls32, c[1] = "sleep"
  PROVE  Good(sys_nanosleep(k, c))
<1> DEFINE s == MySlot(k)
           q == k.procs[s]
           left == IF q.sleepKey # c[2] THEN c[3] ELSE q.sleepLeft
           P(key, ticks) == [q EXCEPT !.sleepKey = key, !.sleepLeft = ticks]
           R(key, ticks) == [k EXCEPT !.procs = [k.procs EXCEPT ![s] = P(key, ticks)]]
<1>0. c[2] \in Nat /\ c[3] \in Nat /\ c \in Asked
  BY Zenon DEF Machine, CallShape, Asked
<1>1. k \in State /\ q \in ProcRec /\ s \in Slots
  BY UserIs, Zenon
<1>2. left \in Nat
  BY <1>0, <1>1, Zenon DEF ProcRec
<1>3. ASSUME NEW key \in Nat, NEW ticks \in Nat
      PROVE  /\ [k EXCEPT !.procs[s] = P(key, ticks)] = R(key, ticks)
             /\ Good(R(key, ticks)) /\ R(key, ticks).current = k.current
  <2>1. [k EXCEPT !.procs[s] = P(key, ticks)] = R(key, ticks)
    BY <1>1, Zenon DEF State
  <2>2. /\ P(key, ticks) \in ProcRec /\ SameHome(P(key, ticks), q)
        /\ P(key, ticks).mask = q.mask /\ P(key, ticks).chosen = q.chosen
    BY <1>1, Zenon DEF ProcRec, SameHome
  <2> HIDE DEF P
  <2>3. \A f : Kept(f, q) => Kept(f, P(key, ticks))
    BY <2>2, Zenon DEF Kept
  <2> QED
    BY <2>1, <2>2, <2>3, ProcGood, ZenonT(30)
<1>4. sys_nanosleep(k, c) = IF left = 0 THEN Done([k EXCEPT !.procs[s] = P(0, 0)])
                            ELSE Wait([k EXCEPT !.procs[s] = P(c[2], left)], c, {}, left)
  BY Zenon DEF sys_nanosleep
<1> HIDE DEF R, P, left
<1>5. {} \in SUBSET Keys /\ \A r : Rightly(r, r.current, {})
  BY Zenon DEF Rightly
<1>6. Good(Done(R(0, 0)))
  BY <1>3, DoneGood, Zenon
<1>7. Good(Wait(R(c[2], left), c, {}, left))
  BY <1>0, <1>2, <1>3, <1>5, WaitGood
<1> QED
  BY <1>0, <1>2, <1>3, <1>4, <1>6, <1>7, Zenon

\* wait4 collects a child that is over, or waits.
LEMMA ReapGood ==
  ASSUME NEW k, Good(k), NEW s \in Slots, k.procs[s].exited
  PROVE  Good([k EXCEPT !.procs[s].used = FALSE])
<1> DEFINE p == [k.procs[s] EXCEPT !.used = FALSE]
           r == PutProc(k, s, p)
<1>1. k \in State /\ k.procs[s] \in ProcRec
  BY Zenon DEF Good, Core, State
<1>2. [k EXCEPT !.procs[s].used = FALSE] = r
  BY <1>1, Zenon DEF PutProc, State
<1>3. p \in ProcRec /\ ~p.used /\ p.pending = k.procs[s].pending
  BY <1>1, Zenon DEF ProcRec
<1> HIDE DEF p
<1>4. ProcPut(r, k, s, p)
  BY <1>1, <1>3, PutProcIs, Zenon
<1> HIDE DEF r
<1>5. \A q \in Slots : \A as : Owns(r, q, as) => q # s /\ Owns(k, q, as) /\ r.procs[q] = k.procs[q]
  BY <1>3, <1>4, Zenon DEF ProcPut, Owns
<1>6. \A q \in Slots : \A as : Owns(k, q, as) => Owns(r, q, as)
  BY <1>4, Zenon DEF ProcPut, Owns
<1>7. Homes(r)
  BY <1>4, <1>6, ZenonT(30) DEF ProcPut, Good, Core, Homes, Live, Tasks
<1>8. Numbered(r)
  <2>1. \A q \in Slots : r.procs[q].used => r.procs[q] = k.procs[q]
    BY <1>3, <1>4, Zenon DEF ProcPut
  <2>2. r.tasks = k.tasks /\ Tasks(r) = Tasks(k) /\ r.lastPid = k.lastPid
    BY <1>4, Zenon DEF ProcPut, Tasks
  <2>3. Numbered(k)
    BY Zenon DEF Good, Core
  <2>4. \A q, u \in Slots :
          r.procs[q].used /\ r.procs[u].used /\ r.procs[q].pid = r.procs[u].pid => q = u
    BY <2>1, <2>3, Zenon DEF Numbered
  <2>5. \A q \in Slots : r.procs[q].used => r.procs[q].pid <= r.lastPid
    BY <2>1, <2>2, <2>3, Zenon DEF Numbered
  <2> QED
    BY <2>2, <2>3, <2>4, <2>5, Zenon DEF Numbered
<1>9. Masks(r)
  BY <1>4, <1>5, ZenonT(30) DEF ProcPut, Good, Core, Masks, Live, Tasks
<1>10. Joining(r)
  <2>1. \A t \in Tasks(k) : \A w : Rightly(k, t, w) => Rightly(r, t, w)
    BY <1>4, Zenon DEF ProcPut, Rightly, Live, Tasks
  <2>2. Cleared(k) => Cleared(r)
    BY <1>4, SMTT(30) DEF ProcPut, Cleared, Live, Tasks
  <2>3. Tasks(r) = Tasks(k) /\ r.tasks = k.tasks /\ r.current = k.current /\ r.idle = k.idle
    BY <1>4, Zenon DEF ProcPut, Tasks
  <2>4. (\A q \in Slots : k.procs[q].pending = {}) => \A q \in Slots : r.procs[q].pending = {}
    BY <1>3, <1>4, Zenon DEF ProcPut
  <2> QED
    BY <2>1, <2>2, <2>3, <2>4, Zenon DEF Good, Core, Joining
<1>11. Core(r) /\ Runs(r)
  BY <1>4, <1>7, <1>8, <1>9, <1>10, ZenonT(30) DEF ProcPut, Good, Core, Runs, Tasks
<1> QED
  BY <1>2, <1>11, Zenon DEF Good

LEMMA Wait4Good ==
  ASSUME Machine, NEW k, Good(k), k.current # 0, NEW c \in Calls32
  PROVE  Good(sys_wait4(k, c))
<1> DEFINE kids == Children(k, c[2])
           dead == {s \in kids : k.procs[s].exited}
           w == {ProcKey(MySlot(k))}
<1>1. dead \subseteq Slots /\ dead \subseteq Nat /\ MySlot(k) \in Nat
  <2>1. DOMAIN k.procs = Slots /\ Slots \subseteq Nat /\ MySlot(k) \in Slots
    BY MySlotIs, SMTT(30) DEF Good, Core, State, Slots
  <2> QED
    BY <2>1, Zenon DEF Children
<1>2. sys_wait4(k, c) = IF kids = {} THEN Done(k)
                        ELSE IF dead # {} THEN [Done(k) EXCEPT !.procs[Least(dead)].used = FALSE]
                        ELSE Wait(k, c, w, Never)
  BY Zenon DEF sys_wait4
<1>3. w \in SUBSET Keys /\ Rightly(k, k.current, w) /\ Never \in Int /\ c \in Asked
  BY <1>1, SMTT(30) DEF Keys, Rightly, TidKey, ProcKey, Never, Asked
<1>4. ASSUME dead # {} PROVE Least(dead) \in Slots /\ k.procs[Least(dead)].exited
  <2>1. Least(dead) \in dead
    BY <1>1, <1>4, LeastIs, Zenon
  <2> QED
    BY <1>1, <2>1, Zenon
<1> HIDE DEF kids, dead, w
<1>5. ASSUME dead # {} PROVE Good([Done(k) EXCEPT !.procs[Least(dead)].used = FALSE])
  BY <1>4, <1>5, DoneGood, ReapGood, Zenon
<1>6. Good(Wait(k, c, w, Never))
  BY <1>3, WaitGood, Zenon
<1> QED
  BY <1>2, <1>5, <1>6, DoneGood, Zenon

-----------------------------------------------------------------------------
(* New tasks and new processes.                                            *)

LEMMA GrowIs ==
  ASSUME NEW k, k \in State, NEW x \in TaskRec
  PROVE  LET ts == Append(k.tasks, x)
             n == Len(k.tasks) + 1
         IN /\ ts \in Seq(TaskRec) /\ Len(ts) = n /\ ts[n] = x /\ n \notin Tasks(k) /\ n \in Nat
            /\ 1 .. n = Tasks(k) \cup {n} /\ \A t \in Tasks(k) : ts[t] = k.tasks[t]
<1>1. k.tasks \in Seq(TaskRec) /\ Len(k.tasks) \in Nat
  BY DEF State
<1> QED
  BY <1>1 DEF Tasks

LEMMA NewTaskIs ==
  ASSUME NEW as \in Nat, NEW fs \in Seq(Frame), NEW cl \in BOOLEAN
  PROVE  LET x == NewTask(as, fs, cl)
         IN /\ x \in TaskRec /\ x.as = as /\ x.frames = fs /\ x.st = "ready" /\ x.clear = cl
<1>1. {} \in SUBSET Keys /\ Never \in Int /\ <<>> \in Asked
  BY DEF Never, Asked
<1>2. NewTask(as, fs, cl) \in TaskRec
  BY <1>1, Zenon DEF NewTask, TaskRec
<1> QED
  BY <1>2, Zenon DEF NewTask

\* A number given out.
LEMMA PidGood ==
  ASSUME NEW k, Good(k) PROVE Good([k EXCEPT !.lastPid = @ + 1])
<1> DEFINE r == [k EXCEPT !.lastPid = @ + 1]
<1>1. /\ r \in State /\ r.tasks = k.tasks /\ r.procs = k.procs /\ r.current = k.current
      /\ r.idle = k.idle /\ r.lastPid = k.lastPid + 1 /\ k.lastPid \in Nat
      /\ \A t \in Tasks(k) : k.tasks[t].as \in Nat
      /\ \A s \in Slots : k.procs[s].pid \in Nat
  <2>1. k \in State
    BY Zenon DEF Good, Core
  <2>2. k.lastPid \in Nat /\ \A s \in Slots : k.procs[s] \in ProcRec
    BY <2>1, Zenon DEF State
  <2>3. /\ r \in State /\ r.tasks = k.tasks /\ r.procs = k.procs /\ r.current = k.current
        /\ r.idle = k.idle /\ r.lastPid = k.lastPid + 1
    BY <2>1, <2>2 DEF State
  <2>4. \A t \in Tasks(k) : k.tasks[t].as \in Nat
    BY <2>1, LenTasks, Zenon DEF TaskRec
  <2>5. \A s \in Slots : k.procs[s].pid \in Nat
    BY <2>2, Zenon DEF ProcRec
  <2> QED
    BY <2>2, <2>3, <2>4, <2>5, Zenon
<1> HIDE DEF r
<1>2. Tasks(r) = Tasks(k) /\ \A t : Live(r, t) <=> Live(k, t)
  BY <1>1, Zenon DEF Tasks, Live
<1>3. Homes(r) /\ Masks(r)
  BY <1>1, <1>2, ZenonT(30) DEF Good, Core, Homes, Masks, Owns
<1>4. Numbered(r)
  BY <1>1, <1>2, SMTT(30) DEF Good, Core, Numbered
<1>5. Joining(r)
  <2>1. \A t, w : Rightly(k, t, w) => Rightly(r, t, w)
    BY <1>1, <1>2, Zenon DEF Rightly
  <2>2. Cleared(k) => Cleared(r)
    BY <1>1, <1>2, Zenon DEF Cleared
  <2> QED
    BY <1>1, <1>2, <2>1, <2>2, Zenon DEF Good, Core, Joining
<1>6. Core(r) /\ Runs(r)
  BY <1>1, <1>2, <1>3, <1>4, <1>5, ZenonT(30) DEF Good, Core, Runs
<1> QED
  BY <1>6, Zenon DEF Good, r

LEMMA CloneGood ==
  ASSUME NEW k, Good(k), k.current # 0, ~Single, Machine PROVE Good(posix_sys_clone(k))
<1> DEFINE x == NewTask(Me(k).as, <<>>, TRUE)
           ts == Append(k.tasks, x)
           n == Len(k.tasks) + 1
           r == [k EXCEPT !.tasks = ts]
<1>1. /\ k \in State /\ Me(k) \in TaskRec /\ k.current \in Tasks(k) /\ Me(k) = k.tasks[k.current]
      /\ Live(k, k.current) /\ Len(k.tasks) \in Nat /\ Len(k.tasks) <= MaxTasks /\ MaxTasks \in Nat
  BY MySlotIs, LenTasks, Zenon DEF Good, Core, Machine
<1>2. x \in TaskRec /\ x.as = Me(k).as /\ x.st = "ready"
  <2>1. Me(k).as \in Nat /\ <<>> \in Seq(Frame)
    BY <1>1 DEF TaskRec
  <2> QED
    BY <2>1, NewTaskIs, ZenonT(30)
<1>3. posix_sys_clone(k) = IF Len(k.tasks) = MaxTasks THEN k ELSE r
  BY Zenon DEF posix_sys_clone
<1> HIDE DEF x
<1>4. /\ ts \in Seq(TaskRec) /\ Len(ts) = n /\ ts[n] = x /\ n \notin Tasks(k) /\ n \in Nat
      /\ 1 .. n = Tasks(k) \cup {n} /\ \A t \in Tasks(k) : ts[t] = k.tasks[t]
  BY <1>1, <1>2, GrowIs, ZenonT(30)
<1> HIDE DEF ts
<1>5. /\ r \in State /\ r.tasks = ts /\ r.procs = k.procs /\ r.current = k.current
      /\ r.idle = k.idle /\ r.lastPid = k.lastPid
  BY <1>1, <1>4, Zenon DEF State
<1> HIDE DEF r
<1>6. /\ Tasks(r) = Tasks(k) \cup {n} /\ r.tasks[n] = x
      /\ \A t \in Tasks(k) : r.tasks[t] = k.tasks[t]
  BY <1>4, <1>5, Zenon DEF Tasks
<1> HIDE DEF n
<1>7. Homes(r)
  BY <1>1, <1>2, <1>5, <1>6, SMTT(30) DEF Good, Core, Homes, Live, Owns
<1>8. Numbered(r)
  BY <1>1, <1>2, <1>5, <1>6, SMTT(30) DEF Good, Core, Numbered
<1>9. Masks(r)
  BY Zenon DEF Masks
<1>10. Joining(r)
  <2>1. \A t \in Tasks(k) : \A w : Rightly(k, t, w) => Rightly(r, t, w)
    BY <1>6, Zenon DEF Rightly, Live
  <2>2. ASSUME Quiet PROVE Cleared(r)
    BY <1>1, <1>2, <1>6, <2>2, SMTT(30) DEF Good, Core, Joining, Cleared, Live
  <2> QED
    BY <1>1, <1>2, <1>5, <1>6, <2>1, <2>2, ZenonT(30) DEF Good, Core, Joining
<1>11. Runs(r)
  BY <1>1, <1>2, <1>4, <1>5, <1>6, ZenonT(30) DEF Good, Runs
<1>12. Len(k.tasks) # MaxTasks => Len(r.tasks) <= MaxTasks
  BY <1>1, <1>4, <1>5, SMTT(30) DEF n
<1> QED
  BY <1>1, <1>3, <1>5, <1>6, <1>7, <1>8, <1>9, <1>10, <1>11, <1>12, ZenonT(30) DEF Good, Core

\* fork: a child with its own process, in a slot that was free.
Forked(k, slot) ==
  [posix_proc_clone(k, slot) EXCEPT
     !.tasks = Append(@, NewTask(k.lastPid + 1, Me(k).frames, FALSE))]

LEMMA ForkGood ==
  ASSUME Machine, NEW k, Good(k), k.current # 0, Len(k.tasks) # MaxTasks,
         NEW slot \in Slots, ~k.procs[slot].used
  PROVE  LET r == Forked(k, slot)
         IN /\ Good(r) /\ r.current = k.current /\ r.procs[slot] \in ProcRec
            /\ \E u \in Tasks(r) : u # k.current /\ Runnable(r, u)
<1> DEFINE q == k.procs[MySlot(k)]
           pid == k.lastPid + 1
           p == [q EXCEPT !.pid = pid, !.ppid = Me(k).as]
           ps == [k.procs EXCEPT ![slot] = p]
           x == NewTask(pid, Me(k).frames, FALSE)
           ts == Append(k.tasks, x)
           n == Len(k.tasks) + 1
           r == [k EXCEPT !.lastPid = pid, !.procs = ps, !.tasks = ts]
<1>1. /\ k \in State /\ Me(k) \in TaskRec /\ k.current \in Tasks(k) /\ Me(k) = k.tasks[k.current]
      /\ Live(k, k.current) /\ Len(k.tasks) \in Nat /\ Len(k.tasks) <= MaxTasks /\ MaxTasks \in Nat
      /\ MySlot(k) \in Slots /\ Owns(k, MySlot(k), Me(k).as) /\ q \in ProcRec
      /\ k.lastPid \in Nat
  BY MySlotIs, UserIs, LenTasks, Zenon DEF Good, Core, Machine, State
<1>2. Forked(k, slot) = r
  BY <1>1, Zenon DEF Forked, posix_proc_clone, State
<1>3. x \in TaskRec /\ x.as = pid /\ x.frames = Me(k).frames /\ x.st = "ready"
  <2>1. Me(k).frames \in Seq(Frame) /\ pid \in Nat
    BY <1>1, SMTT(30) DEF TaskRec
  <2> HIDE DEF pid
  <2> QED
    BY <2>1, NewTaskIs, ZenonT(30)
<1>4. /\ p \in ProcRec /\ p.pid = pid /\ p.used = q.used /\ p.exited = q.exited /\ p.mask = q.mask
      /\ p.chosen = q.chosen /\ p.pending = q.pending
  <2>1. pid \in Nat /\ Me(k).as \in Nat
    BY <1>1, SMTT(30) DEF TaskRec
  <2> HIDE DEF pid, q
  <2> QED
    BY <1>1, <2>1, Zenon DEF ProcRec
<1> HIDE DEF x, p
<1>5. /\ ts \in Seq(TaskRec) /\ Len(ts) = n /\ ts[n] = x /\ n \notin Tasks(k) /\ n \in Nat
      /\ 1 .. n = Tasks(k) \cup {n} /\ \A t \in Tasks(k) : ts[t] = k.tasks[t]
  BY <1>1, <1>3, GrowIs, ZenonT(30)
<1>6. ps \in [Slots -> ProcRec] /\ ps[slot] = p /\ \A s \in Slots \ {slot} : ps[s] = k.procs[s]
  BY <1>1, <1>4, Zenon DEF State
<1>7. pid \in Nat
  BY <1>1, SMTT(30)
<1> HIDE DEF ts, ps, pid
<1>8. /\ r \in State /\ r.tasks = ts /\ r.procs = ps /\ r.current = k.current
      /\ r.idle = k.idle /\ r.lastPid = pid
  BY <1>1, <1>5, <1>6, <1>7, Zenon DEF State
<1> HIDE DEF r
<1>9. /\ Tasks(r) = Tasks(k) \cup {n} /\ r.tasks[n] = x
      /\ \A t \in Tasks(k) : r.tasks[t] = k.tasks[t]
      /\ r.procs[slot] = p /\ \A s \in Slots \ {slot} : r.procs[s] = k.procs[s]
  BY <1>5, <1>6, <1>8, Zenon DEF Tasks
<1>10. /\ \A t \in Tasks(k) : k.tasks[t].as \in Nat /\ k.tasks[t].as <= k.lastPid
      /\ \A s \in Slots : k.procs[s].pid \in Nat /\ (k.procs[s].used => k.procs[s].pid <= k.lastPid)
      /\ Numbered(k)
  <2>1. \A t \in Tasks(k) : k.tasks[t].as \in Nat
    BY <1>1, LenTasks, Zenon DEF TaskRec
  <2>2. \A s \in Slots : k.procs[s].pid \in Nat
    BY <1>1, Zenon DEF State, ProcRec
  <2> QED
    BY <2>1, <2>2, Zenon DEF Good, Core, Numbered
<1>11. /\ \A t \in Tasks(k) : k.tasks[t].as # pid
       /\ \A s \in Slots : k.procs[s].used => k.procs[s].pid # pid
       /\ \A m \in Nat : m <= k.lastPid => m <= pid
  BY <1>1, <1>10, SMTT(30) DEF pid
<1> HIDE DEF n
<1>12. /\ \A s \in Slots : \A t \in Tasks(k) :
            Owns(r, s, k.tasks[t].as) <=> s # slot /\ Owns(k, s, k.tasks[t].as)
       /\ \A s \in Slots : Owns(r, s, pid) <=> s = slot
  <2>1. p.used /\ ~p.exited
    BY <1>1, <1>4, Zenon DEF Owns
  <2> QED
    BY <1>4, <1>9, <1>11, <2>1 DEF Owns
<1>13. Homes(r)
  <2>1. ASSUME NEW t \in Tasks(k), Live(k, t) PROVE \E s \in Slots : Owns(r, s, k.tasks[t].as)
    <3>1. PICK s \in Slots : Owns(k, s, k.tasks[t].as)
      BY <2>1, Zenon DEF Good, Core, Homes
    <3>2. s # slot
      BY <3>1, Zenon DEF Owns
    <3> QED
      BY <1>12, <3>1, <3>2, Zenon
  <2> QED
    BY <1>3, <1>9, <1>12, <2>1, ZenonT(30) DEF Homes, Live
<1>14. Numbered(r)
  <2>1. \A t \in Tasks(r) : r.tasks[t].as <= r.lastPid
    BY <1>3, <1>8, <1>9, <1>10, <1>11, <1>7, SMTT(30)
  <2>2. \A s \in Slots : r.procs[s].used => r.procs[s].pid <= r.lastPid
    BY <1>4, <1>8, <1>9, <1>10, <1>11, <1>7, SMTT(30)
  <2>3. ASSUME NEW s \in Slots, NEW u \in Slots, r.procs[s].used, r.procs[u].used,
               r.procs[s].pid = r.procs[u].pid
        PROVE  s = u
    BY <1>4, <1>9, <1>10, <1>11, <2>3, SMTT(30) DEF Numbered
  <2> QED
    BY <2>1, <2>2, <2>3, Zenon DEF Numbered
<1>15. Masks(r)
  <2> SUFFICES ASSUME Single
               PROVE  /\ \A t, u \in Tasks(r) : r.tasks[t].as = r.tasks[u].as => t = u
                      /\ \A t \in Tasks(r), s \in Slots :
                           Live(r, t) /\ Owns(r, s, r.tasks[t].as)
                             => Kept(r.tasks[t].frames, r.procs[s])
    BY Zenon DEF Masks
  <2>1. \A t, u \in Tasks(r) : r.tasks[t].as = r.tasks[u].as => t = u
    BY <1>3, <1>9, <1>11, SMTT(30) DEF Good, Core, Masks
  <2>2. ASSUME NEW t \in Tasks(k), NEW s \in Slots, Live(r, t), Owns(r, s, r.tasks[t].as)
        PROVE  Kept(r.tasks[t].frames, r.procs[s])
    <3>1. Live(k, t) /\ s # slot /\ Owns(k, s, k.tasks[t].as) /\ r.procs[s] = k.procs[s]
      BY <1>9, <1>12, <2>2, ZenonT(30) DEF Live
    <3> QED
      BY <1>9, <3>1, Zenon DEF Good, Core, Masks
  <2>3. Kept(x.frames, p)
    <3>1. Kept(Me(k).frames, q)
      BY <1>1, Zenon DEF Good, Core, Masks
    <3> QED
      BY <1>3, <1>4, <3>1, ZenonT(30) DEF Kept
  <2> QED
    BY <1>3, <1>9, <1>12, <2>1, <2>2, <2>3, Zenon
<1>16. Joining(r)
  <2> SUFFICES ASSUME Quiet PROVE Joining(r)
    BY Zenon DEF Joining
  <2>1. \A t \in Tasks(k) : \A w : Rightly(k, t, w) => Rightly(r, t, w)
    BY <1>9, Zenon DEF Rightly, Live
  <2>2. Cleared(r)
    BY <1>3, <1>9, <1>11, SMTT(30) DEF Good, Core, Joining, Cleared, Live
  <2>3. \A s \in Slots : r.procs[s].pending = {}
    BY <1>1, <1>4, <1>9, ZenonT(30) DEF Good, Core, Joining
  <2>4. \A t \in Tasks(r) : r.tasks[t].st = "blocked" => Rightly(r, t, r.tasks[t].wait)
    BY <1>3, <1>9, <2>1, ZenonT(30) DEF Good, Core, Joining
  <2>5. Rightly(r, r.current, r.idle.wait)
    BY <1>1, <1>8, <2>1, ZenonT(30) DEF Good, Core, Joining
  <2> QED
    BY <2>2, <2>3, <2>4, <2>5, ZenonT(30) DEF Joining
<1>17. Runs(r)
  BY <1>1, <1>3, <1>5, <1>8, <1>9, ZenonT(30) DEF Good, Runs
<1>18. Len(r.tasks) <= MaxTasks
  BY <1>1, <1>5, <1>8, SMTT(30) DEF n
<1>19. Good(r)
  BY <1>1, <1>8, <1>9, <1>13, <1>14, <1>15, <1>16, <1>17, <1>18, Zenon DEF Good, Core
<1>20. n \in Tasks(r) /\ n # k.current /\ Runnable(r, n)
  BY <1>1, <1>3, <1>5, <1>9, Zenon DEF Runnable
<1> QED
  BY <1>2, <1>4, <1>8, <1>9, <1>19, <1>20, Zenon

LEMMA SuspendGood ==
  ASSUME Machine, NEW k, Good(k), k.current # 0, NEW slot \in Slots,
         NEW u \in Tasks(k), u # k.current, Runnable(k, u)
  PROVE  Good(Suspend(k, slot))
<1> DEFINE p == [k.procs[slot] EXCEPT !.vforkParent = Me(k).as]
           r == PutProc(k, slot, p)
<1>1. k \in State /\ Me(k).as \in Nat /\ k.procs[slot] \in ProcRec
  <2>1. k \in State /\ Me(k) \in TaskRec
    BY UserIs, Zenon
  <2> QED
    BY <2>1, Zenon DEF TaskRec, State
<1>2. [k EXCEPT !.procs[slot].vforkParent = Me(k).as] = r
  BY <1>1, Zenon DEF PutProc, State
<1>3. p \in ProcRec /\ SameProc(p, k.procs[slot]) /\ p.ppid = k.procs[slot].ppid
  BY <1>1, Zenon DEF ProcRec, SameProc
<1> HIDE DEF p
<1>4. ProcPut(r, k, slot, p)
  BY <1>1, <1>3, PutProcIs, Zenon
<1>5. Suspend(k, slot) = block_common(r, {ProcKey(slot)}, Never, FALSE)
  BY <1>2, Zenon DEF Suspend
<1> HIDE DEF r
<1>6. Freed(r, k)
  BY <1>3, <1>4, Zenon DEF ProcPut, Freed, Tasks, Loose, SameProc
<1>7. Good(r)
  BY <1>6, FreedGood, Zenon
<1>8. OtherRunnable(r)
  <2>1. /\ r \in State /\ r.current \in Tasks(r) /\ u \in Tasks(r) /\ u # r.current
        /\ Runnable(r, u)
    BY <1>4, <1>7, MySlotIs, Zenon DEF ProcPut, Tasks, Runnable
  <2> QED
    BY <2>1, ScanOther, Zenon
<1>9. {ProcKey(slot)} \in SUBSET Keys /\ Rightly(r, r.current, {ProcKey(slot)}) /\ Never \in Int
  BY SMTT(30) DEF Keys, Rightly, TidKey, ProcKey, Never, Slots
<1>10. r.current # 0
  BY <1>6, Zenon DEF Freed
<1> QED
  BY <1>5, <1>7, <1>8, <1>9, <1>10, BlockGood, ZenonT(30)

LEMMA ForkCommonGood ==
  ASSUME Machine, NEW k, Good(k), k.current # 0, NEW vfork \in BOOLEAN
  PROVE  Good(fork_common(k, vfork))
<1> DEFINE free == {s \in DOMAIN k.procs : ~k.procs[s].used}
           slot == Least(free)
           forked == Forked(k, slot)
<1>1. fork_common(k, vfork) =
        IF free = {} THEN k ELSE IF Len(k.tasks) = MaxTasks THEN [k EXCEPT !.lastPid = @ + 1]
        ELSE IF vfork THEN Suspend(forked, slot) ELSE forked
  BY Zenon DEF fork_common, Forked
<1>2. DOMAIN k.procs = Slots /\ Slots \subseteq Nat
  BY DEF Good, Core, State, Slots
<1>3. ASSUME free # {} PROVE slot \in Slots /\ ~k.procs[slot].used
  <2>1. free \subseteq Nat
    BY <1>2, Zenon
  <2> HIDE DEF free
  <2>2. slot \in free
    BY <1>3, <2>1, LeastIs, Zenon
  <2> QED
    BY <1>2, <2>2, Zenon DEF free
<1> HIDE DEF free, slot, forked
<1>4. ASSUME free # {}, Len(k.tasks) # MaxTasks
      PROVE  /\ Good(forked) /\ forked.current = k.current
             /\ \E u \in Tasks(forked) : u # k.current /\ Runnable(forked, u)
  BY <1>3, <1>4, ForkGood, Zenon DEF forked
<1>5. ASSUME free # {}, Len(k.tasks) # MaxTasks PROVE Good(Suspend(forked, slot))
  BY <1>3, <1>4, <1>5, SuspendGood, Zenon
<1> QED
  BY <1>1, <1>4, <1>5, PidGood, ZenonT(30)

\* execve: the new image has the process to itself.
LEMMA ExecGood ==
  ASSUME NEW k, Good(k), k.current # 0, k.idle = NotIdle, Siblings(k) = {}, NEW loads
  PROVE  Good(sys_execve(k, loads))
<1> DEFINE s == MySlot(k)
           q == k.procs[s]
           acts == [n \in Sigs |-> "default"]
           p == [q EXCEPT !.acts = acts, !.pending = {}, !.chosen = q.mask]
           x == [Me(k) EXCEPT !.frames = <<>>, !.clear = FALSE]
           y == [Me(k) EXCEPT !.clear = FALSE]
<1>1. /\ k \in State /\ Me(k) \in TaskRec /\ q \in ProcRec /\ k.idle \in IdleRec
      /\ Me(k).st = "running" /\ Me(k) = k.tasks[k.current]
      /\ k.current \in Tasks(k) /\ s \in Slots
  BY UserIs, MySlotIs, Zenon
<1> DEFINE fresh == [k EXCEPT !.procs[s] = p, !.tasks[k.current] = x]
           over == [k EXCEPT !.tasks[k.current].clear = FALSE]
<1>2. sys_execve(k, loads) = IF loads THEN vfork_release(fresh, s) ELSE posix_exit_status(over)
  BY Zenon DEF sys_execve
<1>3. fresh = UserPut(k, x, p, k.idle)
  <2> HIDE DEF x, p
  <2> QED
    BY <1>1, Zenon DEF UserPut, State
<1>4. over = UserPut(k, y, q, k.idle)
  <2>1. over = [k EXCEPT !.tasks = [k.tasks EXCEPT ![k.current] = y]]
    BY <1>1, Zenon DEF State
  <2> QED
    BY <2>1, UserTask, Zenon
<1>5. /\ x \in TaskRec /\ SameSelf(x, Me(k)) /\ x.frames = <<>>
      /\ y \in TaskRec /\ SameSelf(y, Me(k)) /\ y.frames = Me(k).frames
  <2>1. <<>> \in Seq(Frame)
    OBVIOUS
  <2>2. x \in TaskRec /\ SameSelf(x, Me(k)) /\ x.frames = <<>>
    BY <1>1, <2>1, Zenon DEF TaskRec, SameSelf
  <2>3. y \in TaskRec /\ SameSelf(y, Me(k)) /\ y.frames = Me(k).frames
    BY <1>1, Zenon DEF TaskRec, SameSelf
  <2> QED
    BY <2>2, <2>3, Zenon
<1>6. /\ p \in ProcRec /\ SameHome(p, q) /\ p.chosen = q.mask /\ p.mask = q.mask
      /\ SameHome(q, q)
  <2>1. acts \in [Sigs -> {"default", "ignore", "handler"}]
    BY Zenon
  <2> HIDE DEF acts, q
  <2> QED
    BY <1>1, <2>1, Zenon DEF ProcRec, SameHome
<1> HIDE DEF x, y, p, fresh, over
<1>7. Good(fresh)
  <2>1. Kept(Me(k).frames, q) => Kept(x.frames, p)
    BY <1>5, <1>6, Zenon DEF Kept
  <2> QED
    BY <1>1, <1>3, <1>5, <1>6, <2>1, UserGood, ZenonT(30)
<1>8. Good(vfork_release(fresh, s))
  <2>1. Freed(vfork_release(fresh, s), fresh)
    BY <1>1, <1>7, VforkFrees, Zenon DEF Good, Core
  <2> QED
    BY <1>7, <2>1, FreedGood, Zenon
<1>9. Good(over) /\ Me(over) = y
  BY <1>1, <1>4, <1>5, <1>6, UserGood, SMTT(30)
<1>10. over.current = k.current /\ over.idle = k.idle /\ Siblings(over) = {}
  <2>1. /\ over \in State /\ Tasks(over) = Tasks(k) /\ over.current = k.current
        /\ over.idle = k.idle /\ \A t \in Tasks(k) \ {k.current} : over.tasks[t] = k.tasks[t]
    BY <1>1, <1>4, <1>5, UserPutIs, SMTT(30)
  <2>2. DOMAIN over.tasks = Tasks(k) /\ DOMAIN k.tasks = Tasks(k)
    BY <1>1, <2>1, LenTasks, Zenon
  <2>3. Me(over).as = Me(k).as
    BY <1>5, <1>9, Zenon DEF SameSelf
  <2> QED
    BY <2>1, <2>2, <2>3, Zenon DEF Siblings
<1>11. Good(posix_exit_status(over))
  BY <1>9, <1>10, ExitGood, Zenon
<1> QED
  BY <1>2, <1>8, <1>11, Zenon

-----------------------------------------------------------------------------
(* The steps.                                                              *)

LEMMA SyscallGood ==
  ASSUME Machine, Good(Kernel), current # 0, idle = NotIdle, NEW c \in Calls32, Sensible(c)
  PROVE  Good(posix_syscall(Kernel, c))
<1> DEFINE k == Kernel
<1>0. /\ k.current = current /\ k.idle = NotIdle /\ k.tasks = tasks /\ Me(k) = tasks[current]
  BY Zenon DEF Kernel, Me
<1>1. CallShape(c)
  BY Zenon DEF Machine
<1>2. /\ c[1] = "sigreturn" => Me(k).frames # <<>>
      /\ c[1] = "exec" => Siblings(k) = {}
  BY <1>0, Zenon DEF Sensible
<1>3. /\ c[1] \in {"kill", "tgkill"} => ~Quiet
      /\ c[1] = "clone" => ~Single
  BY Zenon DEF Quiet, Single
<1> HIDE DEF k
<1>4. k.current # 0 /\ Good(k) /\ k = Kernel
  BY <1>0, Zenon DEF k
<1>5. CASE c[1] = "fork"
  BY <1>4, <1>5, ForkCommonGood, Zenon DEF posix_syscall
<1>6. CASE c[1] = "vfork"
  BY <1>4, <1>6, ForkCommonGood, Zenon DEF posix_syscall
<1>7. CASE c[1] = "clone"
  BY <1>3, <1>4, <1>7, CloneGood, ZenonT(30) DEF posix_syscall
<1>8. CASE c[1] = "exec"
  BY <1>0, <1>2, <1>4, <1>8, ExecGood, ZenonT(30) DEF posix_syscall
<1>9. CASE c[1] = "exit"
  BY <1>0, <1>4, <1>9, ExitingGood, ZenonT(30) DEF posix_syscall
<1>10. CASE c[1] = "exitgroup"
  BY <1>0, <1>4, <1>10, GroupGood, ZenonT(30) DEF posix_syscall
<1>11. CASE c[1] = "wait"
  BY <1>4, <1>11, Wait4Good, Zenon DEF posix_syscall
<1>12. CASE c[1] = "join"
  BY <1>4, <1>12, JoinGood, ZenonT(30) DEF posix_syscall
<1>13. CASE c[1] = "sleep"
  BY <1>4, <1>13, SleepGood, Zenon DEF posix_syscall
<1>14. CASE c[1] = "yield"
  BY <1>4, <1>14, YieldGood, Zenon DEF posix_syscall
<1>15. CASE c[1] = "kill"
  BY <1>1, <1>3, <1>4, <1>15, KillGood, ZenonT(30) DEF posix_syscall, CallShape
<1>16. CASE c[1] = "tgkill"
  BY <1>1, <1>3, <1>4, <1>16, TgkillGood, ZenonT(30) DEF posix_syscall, CallShape
<1>17. CASE c[1] = "action"
  BY <1>1, <1>4, <1>17, ActionGood, ZenonT(30) DEF posix_syscall, CallShape
<1>18. CASE c[1] = "mask"
  BY <1>1, <1>4, <1>18, MaskGood, ZenonT(30) DEF posix_syscall, CallShape
<1>19. CASE c[1] = "sigreturn"
  BY <1>2, <1>4, <1>19, SigreturnGood, ZenonT(30) DEF posix_syscall
<1>20. CASE c[1] = "fault"
  BY <1>0, <1>4, <1>20, FaultGood, ZenonT(30) DEF posix_syscall
<1> QED
  BY <1>1, <1>5, <1>6, <1>7, <1>8, <1>9, <1>10, <1>11, <1>12, <1>13, <1>14, <1>15, <1>16,
     <1>17, <1>18, <1>19, <1>20, ZenonT(30) DEF CallShape

\* The clock moves: everybody is where they were, or awake.
LEMMA ElapsedGood ==
  ASSUME NEW k, Good(k), k.current # 0
  PROVE  LET r == Elapsed(k)
         IN Good(r) /\ r.current = k.current /\ r.slice = k.slice
<1> DEFINE X(t) == [k.tasks[t] EXCEPT !.left = Minus1(k.tasks[t].left)]
           P(s) == [k.procs[s] EXCEPT !.sleepLeft = Minus1(k.procs[s].sleepLeft)]
           ts == [t \in Tasks(k) |-> X(t)]
           ps == [s \in Slots |-> P(s)]
           i == [k.idle EXCEPT !.left = Minus1(k.idle.left)]
           aged == [k EXCEPT !.tasks = ts, !.procs = ps, !.idle = i]
<1>1. k \in State /\ DOMAIN k.tasks = Tasks(k) /\ DOMAIN k.procs = Slots
  BY LenTasks, Zenon DEF Good, Core, State
<1>2. Elapsed(k) = WakeAll(aged, {t \in Blocked(aged) : aged.tasks[t].left = 0})
  BY <1>1, Zenon DEF Elapsed, State
<1>3. (\A m \in Int : Minus1(m) \in Int) /\ (\A m \in Nat : Minus1(m) \in Nat)
  BY DEF Minus1
<1>4. ASSUME NEW t \in Tasks(k)
      PROVE  /\ X(t) \in TaskRec /\ SameTask(X(t), k.tasks[t]) /\ X(t).st = k.tasks[t].st
             /\ X(t).wait = k.tasks[t].wait
  <2>1. k.tasks[t] \in TaskRec
    BY <1>1, LenTasks, Zenon
  <2> QED
    BY <1>3, <2>1, Zenon DEF TaskRec, SameTask
<1>5. ASSUME NEW s \in Slots PROVE P(s) \in ProcRec /\ SameProc(P(s), k.procs[s])
  <2>1. k.procs[s] \in ProcRec
    BY <1>1, Zenon DEF State
  <2> QED
    BY <1>3, <2>1, Zenon DEF ProcRec, SameProc
<1>6. i \in IdleRec /\ i.wait = k.idle.wait
  BY <1>1, <1>3, Zenon DEF State, IdleRec
<1> HIDE DEF X, P, i
<1>7. ts \in Seq(TaskRec) /\ Len(ts) = Len(k.tasks) /\ \A t \in Tasks(k) : ts[t] = X(t)
  <2>1. Len(k.tasks) \in Nat
    BY <1>1, LenTasks, Zenon
  <2>2. \A t \in 1 .. Len(k.tasks) : ts[t] \in TaskRec
    BY <1>4, Zenon DEF Tasks
  <2>3. ts = [t \in 1 .. Len(k.tasks) |-> ts[t]]
    BY Zenon DEF Tasks
  <2>4. \A t \in Tasks(k) : ts[t] = X(t)
    BY Zenon
  <2> HIDE DEF ts
  <2>5. ts \in Seq(TaskRec) /\ Len(ts) = Len(k.tasks)
    BY <2>1, <2>2, <2>3
  <2> QED
    BY <2>4, <2>5, Zenon
<1>8. ps \in [Slots -> ProcRec] /\ \A s \in Slots : ps[s] = P(s)
  BY <1>5, Zenon
<1> HIDE DEF ts, ps
<1>9. /\ aged \in State /\ aged.tasks = ts /\ aged.procs = ps /\ aged.current = k.current
      /\ aged.slice = k.slice /\ aged.idle = i /\ aged.lastPid = k.lastPid
  BY <1>1, <1>6, <1>7, <1>8, Zenon DEF State
<1> HIDE DEF aged
<1>10. Tasks(aged) = Tasks(k)
  BY <1>7, <1>9, Zenon DEF Tasks
<1>11. Alike(aged, k)
  <2>1. \A t \in Tasks(k) : /\ SameTask(aged.tasks[t], k.tasks[t])
                            /\ aged.tasks[t].st = k.tasks[t].st
                            /\ aged.tasks[t].wait = k.tasks[t].wait
    BY <1>4, <1>7, <1>9, ZenonT(30)
  <2>2. \A s \in Slots : SameProc(aged.procs[s], k.procs[s])
    BY <1>5, <1>8, <1>9, ZenonT(30)
  <2>3. Quiet => Joining(k) /\ Rightly(k, k.current, i.wait)
    BY <1>6, Zenon DEF Good, Core, Joining
  <2> QED
    BY <1>9, <1>10, <2>1, <2>2, <2>3, ZenonT(30) DEF Alike, Joining, Good, Core
<1>12. Good(aged)
  <2>1. \A t \in Tasks(k) : aged.tasks[t].st = k.tasks[t].st
    BY <1>4, <1>7, <1>9, ZenonT(30)
  <2>2. Runs(aged)
    BY <1>9, <1>10, <2>1, ZenonT(30) DEF Good, Runs
  <2> QED
    BY <1>11, <2>2, AlikeCore, Zenon DEF Good
<1> DEFINE T == {t \in Blocked(aged) : aged.tasks[t].left = 0}
<1>13. T \subseteq Blocked(aged)
  BY Zenon
<1> HIDE DEF T
<1>14. Woke(WakeAll(aged, T), aged, T)
  BY <1>9, <1>13, WakeAllIs, Zenon
<1>15. Good(WakeAll(aged, T))
  BY <1>12, <1>14, WokeFreed, FreedGood, ZenonT(30)
<1> QED
  BY <1>2, <1>9, <1>14, <1>15, ZenonT(30) DEF Woke, T

\* A shorter slice is the same state otherwise.
LEMMA SliceGood ==
  ASSUME NEW k, Good(k), NEW s \in Nat PROVE Good([k EXCEPT !.slice = s])
<1> DEFINE r == [k EXCEPT !.slice = s]
<1>1. /\ r \in State /\ r.tasks = k.tasks /\ r.procs = k.procs /\ r.current = k.current
      /\ r.idle = k.idle /\ r.lastPid = k.lastPid
  BY Zenon DEF Good, Core, State
<1> HIDE DEF r
<1>2. Freed(r, k)
  BY <1>1, Zenon DEF Freed, Tasks, Loose, SameProc
<1> QED
  BY <1>2, FreedGood, Zenon DEF r

LEMMA SyscallKeeps ==
  ASSUME Machine, Good(Kernel), NEW t \in 1 .. MaxTasks, Syscall(t) PROVE Good(Kernel)'
<1>1. PICK c \in IF tasks[t].call = <<>> THEN Calls32 ELSE {tasks[t].call} :
        Sensible(c) /\ Becomes(Return(posix_syscall(Kernel, c), t))
  BY Zenon DEF Syscall
<1>2. current = t /\ current # 0 /\ idle = NotIdle
  BY Zenon DEF Syscall, InUser
<1>3. c \in Calls32
  <2>1. Me(Kernel) \in TaskRec /\ Me(Kernel) = tasks[t]
    BY <1>2, MySlotIs, Zenon DEF Kernel, Me
  <2>2. tasks[t].call \in Asked
    BY <2>1, Zenon DEF TaskRec
  <2> QED
    BY <1>1, <2>2, Zenon DEF Asked
<1>4. Good(posix_syscall(Kernel, c))
  BY <1>1, <1>2, <1>3, SyscallGood, Zenon
<1>5. t \in Nat \ {0}
  BY DEF Machine
<1> QED
  BY <1>1, <1>4, <1>5, ReturnGood, Becoming, ZenonT(30)

LEMMA TickKeeps ==
  ASSUME Machine, Good(Kernel), scheduler_tick PROVE Good(Kernel)'
<1> DEFINE k == Elapsed(Kernel)
<1>1. current # 0 /\ Kernel.current = current
  BY Zenon DEF scheduler_tick, InUser, Kernel
<1>2. Good(k) /\ k.current = current
  BY <1>1, ElapsedGood, Zenon
<1>3. IF k.slice > 0 THEN Becomes(Return([k EXCEPT !.slice = @ - 1], current))
      ELSE Becomes(switch_to([k EXCEPT !.slice = Slice, !.tasks[current].st = "ready"],
                             scan_runnable(k)))
  BY Zenon DEF scheduler_tick
<1> HIDE DEF k
<1>4. /\ k \in State /\ current \in Tasks(k) /\ k.tasks[current] \in TaskRec
      /\ k.tasks[current].st = "running" /\ current \in Nat \ {0} /\ k.slice \in Nat
  BY <1>1, <1>2, MySlotIs, LenTasks, ZenonT(30) DEF Good, Core, State
<1>5. CASE k.slice > 0
  <2>1. k.slice - 1 \in Nat
    BY <1>4, <1>5
  <2>2. [k EXCEPT !.slice = @ - 1] = [k EXCEPT !.slice = k.slice - 1]
    BY Zenon
  <2>3. Good([k EXCEPT !.slice = @ - 1])
    BY <1>2, <2>1, <2>2, SliceGood, ZenonT(30)
  <2> QED
    BY <1>3, <1>4, <1>5, <2>3, ReturnGood, Becoming, ZenonT(30)
<1>6. CASE ~(k.slice > 0)
  <2>1. scan_runnable(k) \in Tasks(k) /\ Runnable(k, scan_runnable(k))
    BY <1>2, <1>4, ScanIs, Zenon DEF Runnable
  <2>2. [k EXCEPT !.slice = Slice, !.tasks[current].st = "ready"]
          = [k EXCEPT !.tasks[k.current].st = "ready", !.slice = Slice]
    BY <1>2, <1>4, Zenon DEF State
  <2>3. Good(switch_to([k EXCEPT !.slice = Slice, !.tasks[current].st = "ready"],
                       scan_runnable(k)))
    BY <1>1, <1>2, <2>1, <2>2, GiveGood, ZenonT(30)
  <2> QED
    BY <1>3, <1>6, <2>3, Becoming, ZenonT(30)
<1> QED
  BY <1>5, <1>6, Zenon

LEMMA IdleTickKeeps ==
  ASSUME Machine, Good(Kernel), IdleTick PROVE Good(Kernel)'
<1> DEFINE k == Elapsed(Kernel)
<1>1. current # 0 /\ Kernel.current = current
  BY Zenon DEF IdleTick, Kernel
<1>2. Good(k) /\ k.current = current
  BY <1>1, ElapsedGood, Zenon
<1>3. Becomes(IF k.idle.left = 0 THEN Return([k EXCEPT !.idle = NotIdle], current)
              ELSE IF OtherRunnable(k)
                   THEN block_common(k, k.idle.wait, k.idle.left, k.idle.retry)
              ELSE k)
  BY Zenon DEF IdleTick
<1> HIDE DEF k
<1>4. /\ k.idle \in IdleRec /\ (Quiet => Rightly(k, k.current, k.idle.wait))
      /\ current \in Nat \ {0}
  BY <1>1, <1>2, UserIs, LenTasks, SMTT(30)
<1>5. k.idle.wait \in SUBSET Keys /\ k.idle.left \in Int /\ k.idle.retry \in BOOLEAN
  BY <1>4, Zenon DEF IdleRec
<1>6. Good(Return([k EXCEPT !.idle = NotIdle], current))
  <2>1. NotIdle \in IdleRec /\ Rightly(k, k.current, NotIdle.wait)
    BY NotIdleIs, Zenon DEF Rightly
  <2>2. Good([k EXCEPT !.idle = NotIdle])
    BY <1>1, <1>2, <2>1, IdleGood, Zenon
  <2> QED
    BY <1>4, <2>2, ReturnGood, Zenon
<1>7. OtherRunnable(k) => Good(block_common(k, k.idle.wait, k.idle.left, k.idle.retry))
  BY <1>1, <1>2, <1>4, <1>5, BlockGood, ZenonT(30)
<1> QED
  BY <1>2, <1>3, <1>6, <1>7, Becoming, Zenon

LEMMA StutterKeeps == ASSUME Good(Kernel), UNCHANGED kernelVars PROVE Good(Kernel)'
<1>1. Becomes(Kernel)
  BY Zenon DEF kernelVars, Becomes, Kernel
<1> QED
  BY <1>1, Becoming, Zenon

LEMMA NewProcIs ==
  ASSUME NEW u \in BOOLEAN
  PROVE  LET p == [NewProc(1) EXCEPT !.used = u]
         IN /\ p \in ProcRec /\ (p.used <=> u) /\ p.pid = 1 /\ ~p.exited /\ p.pending = {}
            /\ p.mask = {} /\ p.chosen = {}
<1> DEFINE acts == [n \in Sigs |-> "default"]
<1>1. acts \in [Sigs -> {"default", "ignore", "handler"}]
  BY Zenon
<1>2. NewProc(1) = [used |-> TRUE, pid |-> 1, ppid |-> 0, exited |-> FALSE, vforkParent |-> 0,
                    sleepKey |-> 0, sleepLeft |-> 0, pending |-> {}, mask |-> {}, chosen |-> {},
                    acts |-> acts]
  BY Zenon DEF NewProc
<1> HIDE DEF acts
<1>3. NewProc(1) \in ProcRec
  <2>1. {} \in SUBSET Nat /\ 0 \in Nat /\ 1 \in Nat /\ TRUE \in BOOLEAN /\ FALSE \in BOOLEAN
    BY Zenon
  <2>2. [used |-> TRUE, pid |-> 1, ppid |-> 0, exited |-> FALSE, vforkParent |-> 0,
         sleepKey |-> 0, sleepLeft |-> 0, pending |-> {}, mask |-> {}, chosen |-> {},
         acts |-> acts] \in ProcRec
    BY <1>1, <2>1, Zenon DEF ProcRec
  <2> QED
    BY <1>2, <2>2, Zenon
<1>4. /\ NewProc(1).pid = 1 /\ ~NewProc(1).exited /\ NewProc(1).pending = {}
      /\ NewProc(1).mask = {} /\ NewProc(1).chosen = {}
  BY <1>2, SMTT(30)
<1> QED
  BY <1>3, <1>4, Zenon DEF ProcRec

LEMMA InitGood == ASSUME Machine, KernelInit PROVE Good(Kernel)
<1> DEFINE k == Kernel
           x == [NewTask(1, <<>>, FALSE) EXCEPT !.st = "running"]
           P(s) == [NewProc(1) EXCEPT !.used = (s = 1)]
<1>1. x \in TaskRec /\ x.as = 1 /\ x.frames = <<>> /\ x.st = "running"
  <2>1. <<>> \in Seq(Frame) /\ 1 \in Nat /\ FALSE \in BOOLEAN
    OBVIOUS
  <2>2. LET y == NewTask(1, <<>>, FALSE)
        IN y \in TaskRec /\ y.as = 1 /\ y.frames = <<>> /\ y.st = "ready"
    BY <2>1, NewTaskIs, ZenonT(30)
  <2> QED
    BY <2>2, Zenon DEF TaskRec
<1>2. \A s \in Slots : /\ P(s) \in ProcRec /\ (P(s).used <=> s = 1) /\ P(s).pid = 1 /\ ~P(s).exited
                       /\ P(s).pending = {} /\ P(s).mask = {} /\ P(s).chosen = {}
  BY NewProcIs, Zenon
<1>3. /\ k.tasks = <<x>> /\ k.procs = [s \in Slots |-> P(s)] /\ k.current = 1 /\ k.slice = Slice
      /\ k.idle = NotIdle /\ k.lastPid = 1
  BY Zenon DEF KernelInit, Kernel, Slots
<1> HIDE DEF x, P
<1>4. /\ k.tasks \in Seq(TaskRec) /\ Len(k.tasks) = 1 /\ k.tasks[1] = x
  BY <1>1, <1>3
<1>5. k.procs \in [Slots -> ProcRec] /\ \A s \in Slots : k.procs[s] = P(s)
  BY <1>2, <1>3, Zenon
<1>6. k \in State
  <2>1. k = [tasks |-> k.tasks, procs |-> k.procs, current |-> k.current, slice |-> k.slice,
             idle |-> k.idle, lastPid |-> k.lastPid]
    BY Zenon DEF Kernel
  <2>2. Slice \in Nat /\ NotIdle \in IdleRec
    BY NotIdleIs, Zenon DEF Machine
  <2> HIDE DEF k
  <2>3. /\ k.tasks \in Seq(TaskRec) /\ k.procs \in [Slots -> ProcRec] /\ k.current \in Nat
        /\ k.slice \in Nat /\ k.idle \in IdleRec /\ k.lastPid \in Nat
    BY <1>3, <1>4, <1>5, <2>2, SMTT(30)
  <2> QED
    BY <2>1, <2>3, Zenon DEF State
<1> HIDE DEF k
<1>7. Tasks(k) = {1} /\ 1 \in Slots
  BY <1>4, SMTT(30) DEF Tasks, Machine, Slots
<1>8. Homes(k)
  <2>1. Owns(k, 1, 1)
    BY <1>2, <1>5, <1>7, ZenonT(30) DEF Owns
  <2> QED
    BY <1>1, <1>4, <1>7, <2>1, Zenon DEF Homes
<1>9. Numbered(k)
  <2>1. \A s \in Slots : k.procs[s].pid = 1 /\ (k.procs[s].used => s = 1)
    BY <1>2, <1>5, Zenon
  <2>2. \A t \in Tasks(k) : k.tasks[t].as = 1
    BY <1>1, <1>4, <1>7, Zenon
  <2> QED
    BY <1>3, <2>1, <2>2, SMTT(30) DEF Numbered
<1>10. Masks(k)
  BY <1>1, <1>2, <1>4, <1>5, <1>7, Zenon DEF Masks, Kept
<1>11. Joining(k)
  <2>1. Cleared(k)
    BY <1>1, <1>4, <1>7, Zenon DEF Cleared, Live
  <2> QED
    BY <1>1, <1>2, <1>3, <1>4, <1>5, <1>7, <2>1, NotIdleIs, ZenonT(30) DEF Joining, Rightly
<1>12. Len(k.tasks) <= MaxTasks /\ k.current \in Tasks(k) /\ Runs(k)
  BY <1>1, <1>3, <1>4, <1>7 DEF Machine, Runs
<1> QED
  BY <1>6, <1>8, <1>9, <1>10, <1>11, <1>12, ZenonT(30) DEF Good, Core, k

\* The invariant of every run.
THEOREM KernelSound == ASSUME Machine PROVE KernelSpec => []Good(Kernel)
<1>1. KernelInit => Good(Kernel)
  BY InitGood, Zenon
<1>2. Good(Kernel) /\ [KernelNext]_kernelVars => Good(Kernel)'
  BY SyscallKeeps, TickKeeps, IdleTickKeeps, StutterKeeps, Zenon DEF KernelNext
<1> QED
  BY <1>1, <1>2, PTL DEF KernelSpec

\* scheduler_exit_current() and the rest of the scheduler: exactly the current
\* task runs, and a run of programs ends only when none of its tasks is left,
\* whatever the sizes of the tables, the slice and the calls made.
THEOREM NobodyLeftBehind == ASSUME Machine PROVE KernelSpec => []RunsToTheEnd
<1>1. Good(Kernel) => RunsToTheEnd
  <2> SUFFICES ASSUME Good(Kernel) PROVE RunsToTheEnd
    BY Zenon
  <2>1. DOMAIN tasks = Tasks(Kernel) /\ Kernel.tasks = tasks /\ Kernel.current = current
    BY LenTasks, Zenon DEF Good, Core, Kernel
  <2>2. current # 0 => current \in DOMAIN tasks
    BY <2>1, Zenon DEF Good, Core
  <2> QED
    BY <2>1, <2>2 DEF Good, Runs, RunsToTheEnd
<1> QED
  BY <1>1, KernelSound, PTL

\* posix_thread_exiting() and posix_sys_futex(): where programs send each other
\* no signals, nobody sleeps on the word of a thread that has ended.  (A default
\* action ends one thread of several without clearing its word.)
THEOREM JoinersAreReleased == ASSUME Machine, Quiet PROVE KernelSpec => []JoinersReleased
<1>1. Good(Kernel) => JoinersReleased
  <2> SUFFICES ASSUME Good(Kernel), NEW t \in Blocked(Kernel), NEW u \in DOMAIN tasks,
                      TidKey(u) \in tasks[t].wait
               PROVE  tasks[u].st # "zombie"
    BY Zenon DEF JoinersReleased
  <2>1. DOMAIN tasks = Tasks(Kernel) /\ Kernel.tasks = tasks /\ \A v \in Tasks(Kernel) : v \in Nat
    BY LenTasks, Zenon DEF Good, Core, Kernel
  <2>2. t \in Tasks(Kernel) /\ Kernel.tasks[t].st = "blocked" /\ u \in Nat
    BY <2>1, Zenon DEF Blocked
  <2> QED
    BY <2>1, <2>2, Zenon DEF Good, Core, Joining, Rightly, Live
<1> QED
  BY <1>1, KernelSound, PTL

\* deliver() and sigreturn: where every program has one thread, one that is in no
\* handler has the mask it chose itself.  (Mask and action belong to the process,
\* the frame to one of its threads.)
THEOREM MasksAreRestored == ASSUME Machine, Single PROVE KernelSpec => []MaskRestored
<1>1. Good(Kernel) => MaskRestored
  <2> SUFFICES ASSUME Good(Kernel), NEW t \in DOMAIN tasks, tasks[t].st # "zombie",
                      tasks[t].frames = <<>>
               PROVE  LET p == procs[SlotOf(Kernel, tasks[t].as)] IN p.mask = p.chosen
    BY Zenon DEF MaskRestored
  <2>1. /\ DOMAIN tasks = Tasks(Kernel) /\ Kernel.tasks = tasks /\ Kernel.procs = procs
        /\ Core(Kernel)
    BY LenTasks, Zenon DEF Good, Core, Kernel
  <2>2. /\ SlotOf(Kernel, tasks[t].as) \in Slots /\ Live(Kernel, t)
        /\ Owns(Kernel, SlotOf(Kernel, tasks[t].as), tasks[t].as)
    BY <2>1, SlotIs, Zenon DEF Live
  <2> QED
    BY <2>1, <2>2, Zenon DEF Core, Masks, Kept
<1> QED
  BY <1>1, KernelSound, PTL
=============================================================================
